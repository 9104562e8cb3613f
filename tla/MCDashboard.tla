----------------------------- MODULE MCDashboard -----------------------------
(* Two of the three modes, which differ in nothing but the samples they    *)
(* send, and the phone.                                                    *)
EXTENDS Dashboard, TLC

CONSTANTS stationary, moving

MCMode == {stationary, moving}
MCSymmetry == Permutations(MCMode)
=============================================================================
