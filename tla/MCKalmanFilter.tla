--------------------------- MODULE MCKalmanFilter ---------------------------
(* Timestamps: one that the filter takes for none, one 4 ms after another, *)
(* one just past the step threshold of 350 ms, and a gap longer than the   *)
(* cap of 1 s. Packets at these times: at rest, a peak below the movement  *)
(* threshold, a shake that keeps the variance up for a whole window, a     *)
(* turn on the spot, and the two fixed modes.                              *)
EXTENDS KalmanFilter

At(times, deviation, turning, mode) ==
    {[timestamp |-> t, deviation |-> deviation, turning |-> turning, mode |-> mode] : t \in times}

MCPacket ==
    UNION {At({404, 751}, 0, FALSE, "adaptive"),
           At({400, 404, 751}, 4, FALSE, "adaptive"),
           At({400}, 12, FALSE, "adaptive"),
           At({404}, 0, TRUE, "adaptive"),
           At({0, 400, 2000}, 0, FALSE, "moving"),
           At({751}, 4, FALSE, "stationary")}
=============================================================================
