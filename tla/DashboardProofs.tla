--------------------------- MODULE DashboardProofs ---------------------------
(***************************************************************************)
(* Proofs about Dashboard for any modes and any number of clicks: what the *)
(* overlapping clicks can leave behind, and what holds without them.       *)
(***************************************************************************)
EXTENDS Dashboard, TLAPS, FiniteSetTheorems

\* The click that an interval, a handler or a waiting call comes from: each
\* has one of its own, and it lies in the past.
Ids ==
    /\ \A c \in calls : /\ c.id <= clicks
                        /\ c.what = Load <=> c.id = 0
                        /\ c.at = "permission" => c.what = Phone
    /\ \A c, d \in calls : c.id = d.id => c = d
    /\ \A s \in page.running : s.id <= clicks

\* The handler of the sensors is there exactly while the phone streams.
Listening == page.isPhoneStreaming <=> page.sensorHandler \in page.listeners

TypeInv == TypeOK /\ Ids /\ Listening

Strays(p) == {s \in p.running : s.id # p.streamInterval}
Forgotten(p) == p.listeners \ {p.sensorHandler}
WaitingForPhone == {c \in calls : c.what = Phone}

\* Every interval that runs and every call that may start one, but one, is
\* owed to an overlapping click; so is every handler of the sensors.
Owed ==
    /\ IsFiniteSet(calls) /\ IsFiniteSet(page.running) /\ IsFiniteSet(page.listeners)
    /\ Cardinality(Strays(page)) <= overlaps
    /\ Cardinality(page.running) + Cardinality(Waiting) <= overlaps + 1
    /\ Cardinality(Forgotten(page)) <= overlaps
    /\ Cardinality(page.listeners) + Cardinality(WaitingForPhone) <= overlaps + 1

\* Without overlapping clicks, a call that waits finds the page as its click
\* left it.
Undisturbed ==
    overlaps = 0 =>
        /\ page.isPhoneStreaming => page.currentMode = Null
        /\ \A c \in Waiting : /\ ~ page.isPhoneStreaming
                              /\ c.what = Phone => page.currentMode = Null

\* Until a second socket is made, only the last one lives.
OnlyLastLives ==
    ~ doubled => \A i \in DOMAIN sockets : i # Len(sockets) => sockets[i] = "closed"

-----------------------------------------------------------------------------
(* What the handlers do to the page, by its fields.                        *)

\* The page after a click that found it streaming or not: the interval that
\* has a handle is cleared, the phone is stopped, its handler removed.
Stopped(p) ==
    /\ p \in Page
    /\ p.running = Strays(page)
    /\ p.streamInterval \in {page.streamInterval, Null}
    /\ ~ p.isPhoneStreaming
    /\ p.sensorHandler = page.sensorHandler
    /\ p.listeners = Forgotten(page)

LEMMA PageFields ==
    ASSUME NEW p \in Page
    PROVE  /\ p.currentMode \in Mode \cup {Null} /\ p.streamInterval \in Click \cup {Null}
           /\ p.running \in SUBSET [id: Click, what: Stream] /\ p.isPhoneStreaming \in BOOLEAN
           /\ p.sensorHandler \in Click \cup {Null} /\ p.listeners \in SUBSET Click
           /\ \A s \in p.running : s.id \in Click /\ s.what \in Stream /\ s.id # Null
           /\ Null \notin Click
BY DashboardAssumption DEF Page, Click

LEMMA ClearedFields ==
    ASSUME NEW p \in Page
    PROVE  /\ Cleared(p) \in Page
           /\ Cleared(p).running = Strays(p)
           /\ Cleared(p).currentMode = p.currentMode
           /\ Cleared(p).streamInterval = p.streamInterval
           /\ Cleared(p).isPhoneStreaming = p.isPhoneStreaming
           /\ Cleared(p).sensorHandler = p.sensorHandler
           /\ Cleared(p).listeners = p.listeners
BY DEF Page, Cleared, Strays

LEMMA PhoneStoppedFields ==
    ASSUME NEW p \in Page, p.isPhoneStreaming
    PROVE  /\ PhoneStopped(p) \in Page
           /\ PhoneStopped(p).running = Strays(p)
           /\ PhoneStopped(p).currentMode = p.currentMode
           /\ PhoneStopped(p).streamInterval = Null
           /\ PhoneStopped(p).isPhoneStreaming = FALSE
           /\ PhoneStopped(p).sensorHandler = p.sensorHandler
           /\ PhoneStopped(p).listeners = Forgotten(p)
<1> DEFINE q == Cleared(p)
<1>1. q \in Page /\ q.listeners = p.listeners /\ q.currentMode = p.currentMode
      /\ q.running = Strays(p) /\ q.sensorHandler = p.sensorHandler
    BY ClearedFields
<1>2. PhoneStopped(p) = [q EXCEPT !.isPhoneStreaming = FALSE, !.streamInterval = Null,
                                  !.listeners = @ \ {p.sensorHandler}]
    BY DEF PhoneStopped
<1> HIDE DEF q
<1> QED BY <1>1, <1>2 DEF Page, Forgotten

\* Whatever was streaming, a click on a mode stops it.
LEMMA SetModeStops ==
    ASSUME TypeOK, Listening
    PROVE  /\ Stopped(Cleared(PhoneStopped(page)))
           /\ Cleared(PhoneStopped(page)).currentMode = page.currentMode
           /\ Stopped([Cleared(PhoneStopped(page)) EXCEPT !.streamInterval = Null, !.currentMode = Null])
           /\ [Cleared(PhoneStopped(page)) EXCEPT
                  !.streamInterval = Null, !.currentMode = Null].currentMode = Null
<1> DEFINE p == PhoneStopped(page)
           q == Cleared(p)
           r == [q EXCEPT !.streamInterval = Null, !.currentMode = Null]
<1>0. page \in Page
    BY DEF TypeOK
<1>1. /\ p \in Page /\ Strays(p) = Strays(page)
      /\ p.currentMode = page.currentMode
      /\ p.streamInterval \in {page.streamInterval, Null}
      /\ p.isPhoneStreaming = FALSE
      /\ p.sensorHandler = page.sensorHandler
      /\ p.listeners = Forgotten(page)
    <2>1. CASE page.isPhoneStreaming
        <3>1. /\ p \in Page /\ p.running = Strays(page)
              /\ p.currentMode = page.currentMode
              /\ p.streamInterval = Null
              /\ p.isPhoneStreaming = FALSE
              /\ p.sensorHandler = page.sensorHandler
              /\ p.listeners = Forgotten(page)
            BY <1>0, <2>1, PhoneStoppedFields
        <3> HIDE DEF p
        <3>2. \A s \in p.running : s.id # p.streamInterval
            BY <3>1, PageFields
        <3>3. Strays(p) = p.running
            BY <3>2 DEF Strays
        <3> QED BY <3>1, <3>3
    <2>2. CASE ~ page.isPhoneStreaming
        <3>1. p = page
            BY <2>2 DEF PhoneStopped
        <3>2. page.isPhoneStreaming \in BOOLEAN
            BY <1>0, PageFields
        <3> HIDE DEF p
        <3> QED BY <1>0, <2>2, <3>1, <3>2 DEF Listening, Forgotten
    <2> QED BY <2>1, <2>2
<1> HIDE DEF p
<1>2. /\ q \in Page /\ q.running = Strays(page)
      /\ q.currentMode = page.currentMode
      /\ q.streamInterval \in {page.streamInterval, Null}
      /\ q.isPhoneStreaming = FALSE
      /\ q.sensorHandler = page.sensorHandler
      /\ q.listeners = Forgotten(page)
    BY <1>1, ClearedFields
<1> HIDE DEF q
<1>3. /\ r \in Page /\ r.running = q.running /\ r.currentMode = Null /\ r.streamInterval = Null
      /\ r.isPhoneStreaming = q.isPhoneStreaming
      /\ r.sensorHandler = q.sensorHandler
      /\ r.listeners = q.listeners
    BY <1>2 DEF Page
<1> QED BY <1>2, <1>3 DEF Stopped, p, q

\* So does a click on the sensors' button; it leaves no mode highlighted
\* unless the phone was streaming.
LEMMA ToggleStops ==
    ASSUME TypeOK, Listening
    PROVE  /\ page.isPhoneStreaming
                 => /\ Stopped(PhoneStopped(page))
                    /\ PhoneStopped(page).currentMode = page.currentMode
           /\ ~ page.isPhoneStreaming
                 => /\ Stopped(Cleared([page EXCEPT !.currentMode = Null]))
                    /\ Cleared([page EXCEPT !.currentMode = Null]).currentMode = Null
<1>0. page \in Page /\ page.isPhoneStreaming \in BOOLEAN
    BY PageFields DEF TypeOK
<1>1. CASE page.isPhoneStreaming
    BY <1>0, <1>1, PhoneStoppedFields DEF Stopped
<1>2. CASE ~ page.isPhoneStreaming
    <2> DEFINE p == [page EXCEPT !.currentMode = Null]
    <2>1. /\ p \in Page /\ p.running = page.running /\ p.streamInterval = page.streamInterval
          /\ p.currentMode = Null /\ p.isPhoneStreaming = page.isPhoneStreaming
          /\ p.sensorHandler = page.sensorHandler /\ p.listeners = page.listeners
        BY <1>0 DEF Page
    <2> HIDE DEF p
    <2>2. Strays(p) = Strays(page) /\ Forgotten(page) = page.listeners
        BY <2>1, <1>2 DEF Listening, Strays, Forgotten
    <2>3. Stopped(Cleared(p)) /\ Cleared(p).currentMode = Null
        BY <2>1, <2>2, <1>2, ClearedFields DEF Stopped
    <2> QED BY <2>3, <1>2 DEF p
<1> QED BY <1>1, <1>2

\* A handler that goes on starts one interval and takes the handle.
LEMMA ContinuedFields ==
    ASSUME NEW p \in Page, NEW c \in Call, c.what # Load => c.id # 0
    PROVE  /\ c.what = Load => Continued(p, c) = p
           /\ c.what # Load =>
                /\ Continued(p, c) \in Page
                /\ Continued(p, c).running = p.running \cup {[id |-> c.id, what |-> c.what]}
                /\ Continued(p, c).streamInterval = c.id
           /\ c.what = Phone =>
                /\ Continued(p, c).isPhoneStreaming = TRUE
                /\ Continued(p, c).sensorHandler = c.id
                /\ Continued(p, c).listeners = p.listeners \cup {c.id}
                /\ Continued(p, c).currentMode = p.currentMode
           /\ c.what \notin {Load, Phone} =>
                /\ Continued(p, c).isPhoneStreaming = p.isPhoneStreaming
                /\ Continued(p, c).sensorHandler = p.sensorHandler
                /\ Continued(p, c).listeners = p.listeners
                /\ Continued(p, c).currentMode = c.what
<1>1. CASE c.what = Load
    BY <1>1, DashboardAssumption DEF Continued, Stream
<1>2. CASE c.what = Phone
    <2>1. Continued(p, c) = PhoneStarted(p, c) /\ c.what # Load
        BY <1>2, DashboardAssumption DEF Continued
    <2>2. c.id \in Click /\ [id |-> c.id, what |-> c.what] \in [id: Click, what: Stream]
        BY <1>2, <2>1, DashboardAssumption DEF Call, Click, Stream
    <2>3. PhoneStarted(p, c) =
             [p EXCEPT !.isPhoneStreaming = TRUE,
                       !.sensorHandler = c.id,
                       !.listeners = p.listeners \cup {c.id},
                       !.running = p.running \cup {[id |-> c.id, what |-> c.what]},
                       !.streamInterval = c.id]
        BY <1>2 DEF PhoneStarted
    <2> DEFINE run == p.running \cup {[id |-> c.id, what |-> c.what]}
               ls == p.listeners \cup {c.id}
    <2>4. run \in SUBSET [id: Click, what: Stream] /\ ls \in SUBSET Click
        BY <2>2 DEF Page
    <2> HIDE DEF run, ls
    <2>5. PhoneStarted(p, c) =
             [p EXCEPT !.isPhoneStreaming = TRUE, !.sensorHandler = c.id, !.listeners = ls,
                       !.running = run, !.streamInterval = c.id]
        BY <2>3 DEF run, ls
    <2>6. /\ PhoneStarted(p, c) \in Page
          /\ PhoneStarted(p, c).running = run
          /\ PhoneStarted(p, c).streamInterval = c.id
          /\ PhoneStarted(p, c).isPhoneStreaming = TRUE
          /\ PhoneStarted(p, c).sensorHandler = c.id
          /\ PhoneStarted(p, c).listeners = ls
          /\ PhoneStarted(p, c).currentMode = p.currentMode
        BY <2>2, <2>4, <2>5 DEF Page
    <2> QED BY <1>2, <2>1, <2>6 DEF run, ls
<1>3. CASE c.what \notin {Load, Phone}
    <2>1. Continued(p, c) = ModeStarted(p, c)
        BY <1>3 DEF Continued
    <2>2. /\ c.id \in Click /\ c.what \in Mode
          /\ [id |-> c.id, what |-> c.what] \in [id: Click, what: Stream]
        BY <1>3 DEF Call, Click, Stream
    <2> DEFINE run == p.running \cup {[id |-> c.id, what |-> c.what]}
    <2>3. run \in SUBSET [id: Click, what: Stream]
        BY <2>2 DEF Page
    <2>4. ModeStarted(p, c) = [p EXCEPT !.currentMode = c.what, !.running = run,
                                        !.streamInterval = c.id]
        BY DEF ModeStarted
    <2> HIDE DEF run
    <2>5. /\ ModeStarted(p, c) \in Page
          /\ ModeStarted(p, c).running = run
          /\ ModeStarted(p, c).streamInterval = c.id
          /\ ModeStarted(p, c).isPhoneStreaming = p.isPhoneStreaming
          /\ ModeStarted(p, c).sensorHandler = p.sensorHandler
          /\ ModeStarted(p, c).listeners = p.listeners
          /\ ModeStarted(p, c).currentMode = c.what
        BY <2>2, <2>3, <2>4 DEF Page
    <2> QED BY <1>3, <2>1, <2>5 DEF run
<1> QED BY <1>1, <1>2, <1>3

-----------------------------------------------------------------------------
(* The steps, by what they do to the page and the calls.                   *)

\* A click that only stops.
Halts ==
    /\ Stopped(page')
    /\ UNCHANGED <<calls, overlaps>>
    /\ \/ page'.currentMode = Null
       \/ page.isPhoneStreaming /\ page'.currentMode = page.currentMode

\* A click that stops what there is and starts something, now or later.
Launches(p, c) ==
    /\ Stopped(p)
    /\ c.id = clicks + 1 /\ c.what \in Stream
    /\ c.at = "permission" => c.what = Phone
    /\ c.what = Phone => p.currentMode = Null
    /\ Starts
    /\ \/ page' = p /\ calls' = calls \cup {c}
       \/ page' = Continued(p, c) /\ UNCHANGED calls

\* A handler goes on to its next await, to the end, or is given up.
MovesOn(c) == UNCHANGED page /\ calls' = (calls \ {c}) \cup {[c EXCEPT !.at = "token"]}
Resumes(c) == page' = Continued(page, c) /\ calls' = calls \ {c}
GivesUp(c) ==
    /\ UNCHANGED page
    /\ calls' = calls \ {c}
    /\ failed => failed'
    /\ c.what # Load /\ ~ failed' => c.at = "permission"

LEMMA ClickMoves ==
    ASSUME TypeOK, Listening,
           (\E mode \in Mode : SetMode(mode)) \/ TogglePhoneSensors
    PROVE  /\ clicks' = clicks + 1 /\ clicks' \in 0 .. MaxClicks
           /\ failed' = FALSE
           /\ UNCHANGED <<device, sockets, badge, doubled>>
           /\ \/ Halts
              \/ \E p \in Page, c \in Call : Launches(p, c)
<1>0. clicks < MaxClicks /\ clicks' = clicks + 1 /\ failed' = FALSE
      /\ UNCHANGED <<device, sockets, badge, doubled>>
    BY DEF SetMode, TogglePhoneSensors, Clicked
<1>1. clicks \in Nat /\ clicks + 1 \in 0 .. MaxClicks
    BY <1>0, DashboardAssumption DEF TypeOK
<1>2. ASSUME NEW mode \in Mode, SetMode(mode)
      PROVE  Halts \/ \E p \in Page, c \in Call : Launches(p, c)
    <2> DEFINE p == Cleared(PhoneStopped(page))
               q == [p EXCEPT !.streamInterval = Null, !.currentMode = Null]
               c == [id |-> clicks', what |-> mode, at |-> "token"]
    <2>1. Stopped(p) /\ Stopped(q) /\ q.currentMode = Null
        BY SetModeStops
    <2>2. \/ page' = q /\ UNCHANGED <<calls, overlaps>>
          \/ ConnectWebSocket(p, c, calls) /\ Starts
        BY <1>2 DEF SetMode
    <2>3. /\ c \in Call /\ c.id = clicks + 1 /\ c.what \in Stream /\ c.at = "token" /\ c.what # Phone
          /\ [c EXCEPT !.at = "token"] = c
        BY <1>0, <1>1, DashboardAssumption DEF Call, Stream
    <2> HIDE DEF p, q, c
    <2>4. CASE page' = q /\ UNCHANGED <<calls, overlaps>>
        BY <2>1, <2>4 DEF Halts
    <2>5. CASE ConnectWebSocket(p, c, calls) /\ Starts
        <3>1. \/ page' = p /\ calls' = calls \cup {c}
              \/ page' = Continued(p, c) /\ UNCHANGED calls
            BY <2>3, <2>5 DEF ConnectWebSocket
        <3>2. Launches(p, c) /\ p \in Page
            BY <2>1, <2>3, <2>5, <3>1 DEF Launches, Stopped
        <3> QED BY <2>3, <3>2
    <2> QED BY <2>2, <2>4, <2>5
<1>3. ASSUME TogglePhoneSensors
      PROVE  Halts \/ \E p \in Page, c \in Call : Launches(p, c)
    <2> DEFINE p == Cleared([page EXCEPT !.currentMode = Null])
               c == [id |-> clicks', what |-> Phone, at |-> "permission"]
               d == [c EXCEPT !.at = "token"]
    <2>1. /\ page.isPhoneStreaming => Stopped(PhoneStopped(page))
                                      /\ PhoneStopped(page).currentMode = page.currentMode
          /\ ~ page.isPhoneStreaming => Stopped(p) /\ p.currentMode = Null
        BY ToggleStops
    <2>2. \/ page.isPhoneStreaming /\ page' = PhoneStopped(page) /\ UNCHANGED <<calls, overlaps>>
          \/ ~ page.isPhoneStreaming /\ page' = p /\ UNCHANGED <<calls, overlaps>>
          \/ ~ page.isPhoneStreaming /\ page' = p /\ calls' = calls \cup {c} /\ Starts
          \/ ~ page.isPhoneStreaming /\ ConnectWebSocket(p, c, calls) /\ Starts
        BY <1>3 DEF TogglePhoneSensors
    <2>3. /\ c \in Call /\ c.id = clicks + 1 /\ c.what = Phone /\ Phone \in Stream
          /\ d \in Call /\ d.id = clicks + 1 /\ d.what = Phone
        BY <1>0, <1>1 DEF Call, Stream
    <2>4. Continued(p, c) = Continued(p, d)
        BY <2>3, DashboardAssumption DEF Continued, PhoneStarted
    <2>5. ConnectWebSocket(p, c, calls) =>
              \/ page' = Continued(p, c) /\ UNCHANGED calls
              \/ page' = p /\ calls' = calls \cup {d}
        BY DEF ConnectWebSocket
    <2> HIDE DEF p, c, d
    <2>6. CASE page.isPhoneStreaming
        BY <2>1, <2>2, <2>6 DEF Halts
    <2>7. CASE ~ page.isPhoneStreaming /\ page' = p /\ UNCHANGED <<calls, overlaps>>
        BY <2>1, <2>7 DEF Halts
    <2>8. CASE ~ page.isPhoneStreaming /\ page' = p /\ calls' = calls \cup {c} /\ Starts
        BY <2>1, <2>3, <2>8 DEF Launches, Stopped
    <2>9. CASE ~ page.isPhoneStreaming /\ ConnectWebSocket(p, c, calls) /\ Starts
        <3>1. Launches(p, d) /\ p \in Page
            BY <2>1, <2>3, <2>4, <2>5, <2>9 DEF Launches, Stopped
        <3> QED BY <2>3, <3>1
    <2> QED BY <2>2, <2>6, <2>7, <2>8, <2>9
<1> QED BY <1>0, <1>1, <1>2, <1>3

LEMMA HandlerMoves ==
    ASSUME TypeOK, NEW c \in calls,
           \/ PermissionGranted(c) \/ PermissionDenied(c)
           \/ TokenArrives(c) \/ TokenFails(c)
    PROVE  /\ UNCHANGED <<device, clicks, overlaps>>
           /\ \/ MovesOn(c) /\ c.at = "permission" /\ UNCHANGED failed
              \/ Resumes(c) /\ UNCHANGED failed
              \/ GivesUp(c)
<1>1. CASE PermissionGranted(c)
    BY <1>1 DEF PermissionGranted, ConnectWebSocket, MovesOn, Resumes
<1>2. CASE PermissionDenied(c)
    BY <1>2 DEF PermissionDenied, GivesUp
<1>3. CASE TokenArrives(c)
    BY <1>3 DEF TokenArrives, Resumes
<1>4. CASE TokenFails(c)
    BY <1>4 DEF TokenFails, GivesUp
<1> QED BY <1>1, <1>2, <1>3, <1>4

-----------------------------------------------------------------------------
(* Types, identities and the handler of the sensors.                       *)

LEMMA StoppedKeeps ==
    ASSUME TypeInv, NEW p, Stopped(p)
    PROVE  /\ p \in Page
           /\ p.running = Strays(page) /\ Strays(page) \subseteq page.running
           /\ \A s \in p.running : s.id <= clicks
           /\ p.isPhoneStreaming = FALSE
           /\ p.sensorHandler \notin p.listeners
BY PageFields DEF Stopped, Strays, Forgotten, TypeInv, Ids

\* Nothing that runs or waits has the number of a click to come.
LEMMA FreshId ==
    ASSUME TypeInv
    PROVE  /\ clicks \in Nat /\ overlaps \in Nat /\ overlaps <= clicks
           /\ \A c \in calls : c.id \in Nat /\ c.id # clicks + 1 /\ c \in Call
           /\ \A s \in page.running : s.id \in Nat /\ s.id # clicks + 1
<1>1. clicks \in Nat /\ overlaps \in Nat /\ overlaps <= clicks
    BY DashboardAssumption DEF TypeInv, TypeOK
<1>2. \A c \in calls : c.id \in Nat /\ c.id # clicks + 1 /\ c \in Call
    BY <1>1, DashboardAssumption DEF TypeInv, TypeOK, Ids, Call
<1>3. page \in Page
    BY DEF TypeInv, TypeOK
<1>4. \A s \in page.running : s.id \in Nat /\ s.id # clicks + 1
    BY <1>1, <1>3, PageFields, DashboardAssumption DEF TypeInv, Ids, Click
<1> QED BY <1>1, <1>2, <1>4

LEMMA TypeInvStep == TypeInv /\ [Next]_vars => TypeInv'
<1> SUFFICES ASSUME TypeInv, [Next]_vars PROVE TypeInv'
    OBVIOUS
<1>0. /\ page \in Page /\ calls \subseteq Call /\ Null \notin Click
      /\ clicks \in Nat /\ overlaps \in Nat /\ overlaps <= clicks
    BY FreshId, DashboardAssumption DEF TypeInv, TypeOK, Click
<1>1. CASE (\E mode \in Mode : SetMode(mode)) \/ TogglePhoneSensors
    <2>1. /\ clicks' = clicks + 1 /\ clicks' \in 0 .. MaxClicks
          /\ failed' = FALSE
          /\ UNCHANGED <<device, sockets, badge, doubled>>
          /\ Halts \/ \E p \in Page, c \in Call : Launches(p, c)
        BY <1>1, ClickMoves DEF TypeInv
    <2>2. SUFFICES /\ page' \in Page
                   /\ calls' \subseteq Call
                   /\ overlaps' \in 0 .. clicks'
                   /\ \A c \in calls' : \A s \in page'.running : s.id # c.id
                   /\ Ids' /\ Listening'
        BY <2>1 DEF TypeInv, TypeOK
    <2>3. CASE Halts
        <3>1. Stopped(page') /\ calls' = calls /\ overlaps' = overlaps
            BY <2>3 DEF Halts
        <3>2. /\ page' \in Page
              /\ page'.running \subseteq page.running
              /\ page'.isPhoneStreaming = FALSE
              /\ page'.sensorHandler \notin page'.listeners
            BY <3>1, StoppedKeeps
        <3>3. Ids'
            <4>1. \A c \in calls : c.id <= clicks + 1
                BY <1>0, FreshId DEF TypeInv, Ids
            <4>2. \A s \in page'.running : s.id <= clicks + 1
                BY <1>0, <3>2, FreshId DEF TypeInv, Ids
            <4> QED BY <2>1, <3>1, <4>1, <4>2 DEF TypeInv, Ids
        <3>4. overlaps' \in 0 .. clicks'
            BY <1>0, <2>1, <3>1
        <3> QED BY <1>0, <3>1, <3>2, <3>3, <3>4 DEF Listening, TypeInv, TypeOK
    <2>4. ASSUME NEW p \in Page, NEW c \in Call, Launches(p, c)
          PROVE  /\ page' \in Page
                 /\ calls' \subseteq Call
                 /\ overlaps' \in 0 .. clicks'
                 /\ \A d \in calls' : \A s \in page'.running : s.id # d.id
                 /\ Ids' /\ Listening'
        <3>1. /\ Stopped(p) /\ c.id = clicks + 1 /\ c.what \in Stream
              /\ c.at = "permission" => c.what = Phone
              /\ \/ page' = p /\ calls' = calls \cup {c}
                 \/ page' = Continued(p, c) /\ calls' = calls
            BY <2>4 DEF Launches
        <3>2. overlaps' \in 0 .. clicks'
            BY <1>0, <2>1, <2>4 DEF Launches, Starts
        <3>3. c.what # Load /\ c.id # 0 /\ c.id \in Nat
            BY <1>0, <3>1, DashboardAssumption DEF Stream
        <3>4. /\ p.running \subseteq page.running
              /\ p.isPhoneStreaming = FALSE
              /\ p.sensorHandler \notin p.listeners
            BY <3>1, StoppedKeeps
        <3>5. \A d \in calls : d.id <= clicks + 1 /\ d.id # c.id
            BY <1>0, <3>1, FreshId DEF TypeInv, Ids
        <3>6. \A s \in p.running : s.id <= clicks + 1 /\ s.id # c.id
            BY <1>0, <3>1, <3>4, FreshId DEF TypeInv, Ids
        <3>7. \A d \in calls : \A s \in p.running : s.id # d.id
            BY <3>4 DEF TypeInv, TypeOK
        <3>8. CASE page' = p /\ calls' = calls \cup {c}
            <4>1. Ids'
                BY <1>0, <2>1, <3>1, <3>3, <3>5, <3>6, <3>8 DEF Ids, TypeInv
            <4>2. Listening'
                BY <3>4, <3>8 DEF Listening
            <4> QED BY <1>0, <3>2, <3>6, <3>7, <3>8, <4>1, <4>2
        <3>9. CASE page' = Continued(p, c) /\ calls' = calls
            <4>1. /\ page' \in Page
                  /\ page'.running = p.running \cup {[id |-> c.id, what |-> c.what]}
                BY <3>3, <3>9, ContinuedFields
            <4>2. Ids'
                BY <1>0, <2>1, <3>1, <3>5, <3>6, <3>9, <4>1 DEF Ids, TypeInv
            <4>3. Listening'
                <5>1. CASE c.what = Phone
                    <6>1. /\ page'.isPhoneStreaming = TRUE
                          /\ page'.sensorHandler = c.id
                          /\ page'.listeners = p.listeners \cup {c.id}
                        BY <3>3, <3>9, <5>1, ContinuedFields
                    <6> QED BY <6>1 DEF Listening
                <5>2. CASE c.what # Phone
                    <6>1. /\ page'.isPhoneStreaming = p.isPhoneStreaming
                          /\ page'.sensorHandler = p.sensorHandler
                          /\ page'.listeners = p.listeners
                        BY <3>3, <3>9, <5>2, ContinuedFields
                    <6> QED BY <3>4, <6>1 DEF Listening
                <5> QED BY <5>1, <5>2
            <4>4. \A d \in calls' : \A s \in page'.running : s.id # d.id
                BY <3>5, <3>7, <3>9, <4>1
            <4> QED BY <1>0, <3>2, <3>9, <4>1, <4>2, <4>3, <4>4
        <3> QED BY <3>1, <3>8, <3>9
    <2> QED BY <2>1, <2>3, <2>4
<1>2. ASSUME NEW c \in calls,
             \/ PermissionGranted(c) \/ PermissionDenied(c)
             \/ TokenArrives(c) \/ TokenFails(c)
      PROVE  TypeInv'
    <2>1. /\ UNCHANGED <<device, clicks, overlaps>>
          /\ \/ MovesOn(c) /\ c.at = "permission"
             \/ Resumes(c)
             \/ GivesUp(c)
        BY <1>2, HandlerMoves DEF TypeInv
    <2>2. /\ sockets' \in Seq({"connecting", "open", "closing", "closed"})
          /\ badge' \in BOOLEAN /\ doubled' \in BOOLEAN /\ failed' \in BOOLEAN
        <3>1. /\ sockets \in Seq({"connecting", "open", "closing", "closed"})
              /\ badge \in BOOLEAN /\ doubled \in BOOLEAN /\ failed \in BOOLEAN
            BY DEF TypeInv, TypeOK
        <3>2. Append(sockets, "connecting") \in Seq({"connecting", "open", "closing", "closed"})
            BY <3>1
        <3>3. CASE PermissionGranted(c) \/ PermissionDenied(c)
            BY <3>1, <3>3 DEF PermissionGranted, PermissionDenied
        <3>4. CASE TokenArrives(c)
            BY <3>1, <3>2, <3>4 DEF TokenArrives
        <3>5. CASE TokenFails(c)
            BY <3>1, <3>5 DEF TokenFails
        <3> QED BY <1>2, <3>3, <3>4, <3>5
    <2>3. SUFFICES /\ page' \in Page
                   /\ calls' \subseteq Call
                   /\ \A d \in calls' : \A s \in page'.running : s.id # d.id
                   /\ Ids' /\ Listening'
        BY <2>1, <2>2 DEF TypeInv, TypeOK
    <2>4. CASE MovesOn(c) /\ c.at = "permission"
        <3> DEFINE d == [c EXCEPT !.at = "token"]
        <3>1. /\ d \in Call /\ d.id = c.id /\ d.what = c.what /\ d.at = "token"
            BY <1>0 DEF Call
        <3>2. page' = page /\ calls' = (calls \ {c}) \cup {d}
            BY <2>4 DEF MovesOn
        <3> HIDE DEF d
        <3>3. Ids'
            BY <2>1, <3>1, <3>2 DEF TypeInv, Ids
        <3>4. \A e \in calls' : \A s \in page'.running : s.id # e.id
            BY <3>1, <3>2 DEF TypeInv, TypeOK
        <3> QED BY <1>0, <3>1, <3>2, <3>3, <3>4 DEF TypeInv, Listening
    <2>5. CASE Resumes(c)
        <3>1. page' = Continued(page, c) /\ calls' = calls \ {c}
            BY <2>5 DEF Resumes
        <3>2. CASE c.what = Load
            <4>1. page' = page
                BY <1>0, <3>1, <3>2, ContinuedFields
            <4> QED BY <1>0, <2>1, <3>1, <4>1 DEF TypeInv, TypeOK, Ids, Listening
        <3>3. CASE c.what # Load
            <4>0. c.id # 0 /\ c \in Call /\ c.id <= clicks
                BY <1>0, <3>3 DEF TypeInv, Ids
            <4>1. /\ page' \in Page
                  /\ page'.running = page.running \cup {[id |-> c.id, what |-> c.what]}
                BY <1>0, <3>1, <3>3, <4>0, ContinuedFields
            <4>2. Ids'
                BY <2>1, <3>1, <4>0, <4>1 DEF TypeInv, Ids
            <4>3. \A e \in calls' : \A s \in page'.running : s.id # e.id
                BY <3>1, <4>1 DEF TypeInv, TypeOK, Ids
            <4>4. Listening'
                BY <1>0, <3>1, <3>3, <4>0, ContinuedFields DEF TypeInv, Listening
            <4> QED BY <1>0, <3>1, <4>1, <4>2, <4>3, <4>4
        <3> QED BY <3>2, <3>3
    <2>6. CASE GivesUp(c)
        <3>1. page' = page /\ calls' = calls \ {c} /\ clicks' = clicks
            BY <2>1, <2>6 DEF GivesUp
        <3>2. Ids'
            BY <3>1 DEF TypeInv, Ids
        <3> QED BY <1>0, <3>1, <3>2 DEF TypeInv, TypeOK, Listening
    <2> QED BY <2>1, <2>4, <2>5, <2>6
<1>3. ASSUME NEW i \in DOMAIN sockets, OnOpen(i) \/ Closing(i) \/ OnClose(i)
      PROVE  TypeInv'
    <2>1. sockets \in Seq({"connecting", "open", "closing", "closed"})
        BY DEF TypeInv, TypeOK
    <2>2. [sockets EXCEPT ![i] = "open"] \in Seq({"connecting", "open", "closing", "closed"})
        BY <2>1
    <2>3. /\ [sockets EXCEPT ![i] = "closing"] \in Seq({"connecting", "open", "closing", "closed"})
          /\ [sockets EXCEPT ![i] = "closed"] \in Seq({"connecting", "open", "closing", "closed"})
        BY <2>1
    <2>4. sockets' \in Seq({"connecting", "open", "closing", "closed"}) /\ badge' \in BOOLEAN
        <3>1. badge \in BOOLEAN
            BY DEF TypeInv, TypeOK
        <3> QED BY <1>3, <2>2, <2>3, <3>1 DEF OnOpen, Closing, OnClose
    <2>5. UNCHANGED <<device, page, calls, clicks, overlaps, doubled, failed>>
        BY <1>3 DEF OnOpen, Closing, OnClose
    <2>6. TypeOK'
        BY <2>4, <2>5 DEF TypeInv, TypeOK
    <2>7. Ids' /\ Listening'
        BY <2>5 DEF TypeInv, Ids, Listening
    <2> QED BY <2>6, <2>7 DEF TypeInv
<1>4. CASE UNCHANGED vars
    BY <1>4 DEF vars, TypeInv, TypeOK, Ids, Listening
<1> QED BY <1>1, <1>2, <1>3, <1>4 DEF Next

LEMMA TypeInvHolds == Spec => []TypeInv
<1>1. Init => TypeInv
    <2> SUFFICES ASSUME Init PROVE TypeInv
        OBVIOUS
    <2>1. page \in Page /\ page.running = {} /\ Listening
        BY DEF Init, Page, Listening
    <2>2. [id |-> 0, what |-> Load, at |-> "token"] \in Call
        BY DashboardAssumption DEF Call
    <2>3. clicks \in 0 .. MaxClicks /\ overlaps \in 0 .. clicks
        BY DashboardAssumption DEF Init
    <2>4. sockets \in Seq({"connecting", "open", "closing", "closed"})
        BY DEF Init
    <2>5. /\ device \in {"none", "free", "asks"}
          /\ badge \in BOOLEAN /\ doubled \in BOOLEAN /\ failed \in BOOLEAN
        BY DEF Init
    <2>6. calls \subseteq Call
        BY <2>2 DEF Init
    <2>7. TypeOK
        BY <2>1, <2>3, <2>4, <2>5, <2>6 DEF TypeOK
    <2>8. Ids
        BY <2>1 DEF Init, Ids
    <2> QED BY <2>1, <2>7, <2>8 DEF TypeInv
<1> QED BY <1>1, TypeInvStep, PTL DEF Spec

\* The shape of the page, of its sockets and of the handlers that wait; a
\* handler that waits has not started its stream (lines 287 to 550).
THEOREM DashboardTypes == Spec => []TypeOK
BY TypeInvHolds, PTL DEF TypeInv

-----------------------------------------------------------------------------
(* What overlapping clicks can leave behind.                               *)

LEMMA Counting ==
    ASSUME NEW S, IsFiniteSet(S)
    PROVE  /\ Cardinality(S) \in Nat
           /\ \A T \in SUBSET S : /\ IsFiniteSet(T)
                                  /\ Cardinality(T) \in Nat
                                  /\ Cardinality(T) <= Cardinality(S)
           /\ \A x : /\ IsFiniteSet(S \cup {x})
                     /\ Cardinality(S \cup {x}) \in Nat
                     /\ Cardinality(S \cup {x}) <= Cardinality(S) + 1
           /\ \A x \in S : Cardinality(S \ {x}) = Cardinality(S) - 1
           /\ S # {} => Cardinality(S) >= 1
<1>1. Cardinality(S) \in Nat
    BY FS_CardinalityType
<1>2. \A T \in SUBSET S : /\ IsFiniteSet(T)
                           /\ Cardinality(T) \in Nat
                           /\ Cardinality(T) <= Cardinality(S)
    BY FS_Subset, FS_CardinalityType
<1>3. \A x : /\ IsFiniteSet(S \cup {x})
             /\ Cardinality(S \cup {x}) \in Nat
             /\ Cardinality(S \cup {x}) <= Cardinality(S) + 1
    <2> SUFFICES ASSUME NEW x
                 PROVE  /\ IsFiniteSet(S \cup {x})
                        /\ Cardinality(S \cup {x}) \in Nat
                        /\ Cardinality(S \cup {x}) <= Cardinality(S) + 1
        OBVIOUS
    <2>1. /\ IsFiniteSet(S \cup {x})
          /\ Cardinality(S \cup {x}) = IF x \in S THEN Cardinality(S) ELSE Cardinality(S) + 1
        BY FS_AddElement
    <2> QED BY <1>1, <2>1
<1>4. \A x \in S : Cardinality(S \ {x}) = Cardinality(S) - 1
    BY FS_RemoveElement
<1>5. S # {} => Cardinality(S) >= 1
    <2>1. Cardinality(S) = 0 <=> S = {}
        BY FS_EmptySet
    <2> QED BY <1>1, <2>1
<1> QED BY <1>1, <1>2, <1>3, <1>4, <1>5

\* What the bounds of Owed are about, at the start of a step.
LEMMA OwedNumbers ==
    ASSUME TypeInv, Owed
    PROVE  /\ page \in Page /\ overlaps \in Nat
           /\ Strays(page) \subseteq page.running /\ Forgotten(page) \subseteq page.listeners
           /\ Waiting \subseteq calls /\ WaitingForPhone \subseteq Waiting
           /\ IsFiniteSet(Strays(page)) /\ IsFiniteSet(Forgotten(page))
           /\ IsFiniteSet(Waiting) /\ IsFiniteSet(WaitingForPhone)
           /\ Cardinality(Strays(page)) \in Nat /\ Cardinality(Forgotten(page)) \in Nat
           /\ Cardinality(page.running) \in Nat /\ Cardinality(page.listeners) \in Nat
           /\ Cardinality(Waiting) \in Nat /\ Cardinality(WaitingForPhone) \in Nat
           /\ Cardinality(Strays(page)) <= Cardinality(page.running)
           /\ Cardinality(Forgotten(page)) <= Cardinality(page.listeners)
           /\ Cardinality(WaitingForPhone) <= Cardinality(Waiting)
<1>1. page \in Page /\ overlaps \in Nat
    BY FreshId DEF TypeInv, TypeOK
<1>2. Strays(page) \subseteq page.running /\ Forgotten(page) \subseteq page.listeners
    BY DEF Strays, Forgotten
<1>3. Waiting \subseteq calls /\ WaitingForPhone \subseteq Waiting
    BY DashboardAssumption DEF Waiting, WaitingForPhone
<1>4. IsFiniteSet(calls) /\ IsFiniteSet(page.running) /\ IsFiniteSet(page.listeners)
    BY DEF Owed
<1>5. IsFiniteSet(Waiting) /\ Cardinality(Waiting) \in Nat
    BY <1>3, <1>4, Counting
<1> QED BY <1>1, <1>2, <1>3, <1>4, <1>5, Counting

LEMMA ClickOwed ==
    ASSUME TypeInv, Owed, Halts \/ \E p \in Page, c \in Call : Launches(p, c)
    PROVE  Owed'
<1>0. /\ Cardinality(Strays(page)) <= overlaps
      /\ Cardinality(page.running) + Cardinality(Waiting) <= overlaps + 1
      /\ Cardinality(Forgotten(page)) <= overlaps
      /\ Cardinality(page.listeners) + Cardinality(WaitingForPhone) <= overlaps + 1
      /\ IsFiniteSet(calls)
    BY DEF Owed
<1>1. ASSUME NEW p, Stopped(p)
      PROVE  /\ p \in Page /\ p.running = Strays(page)
             /\ Strays(p) = Strays(page)
             /\ p.listeners = Forgotten(page)
             /\ Forgotten(p) = Forgotten(page)
    <2>1. p \in Page /\ page \in Page /\ p.running = Strays(page) /\ p.listeners = Forgotten(page)
          /\ p.streamInterval \in {page.streamInterval, Null} /\ p.sensorHandler = page.sensorHandler
        BY <1>1, OwedNumbers DEF Stopped
    <2>2. \A s \in Strays(page) : s.id # page.streamInterval /\ s.id # Null
        BY <2>1, PageFields DEF Strays
    <2>3. Strays(p) = Strays(page)
        BY <2>1, <2>2 DEF Strays
    <2>4. Forgotten(p) = Forgotten(page)
        BY <2>1 DEF Forgotten
    <2> QED BY <2>1, <2>3, <2>4
<1>2. CASE Halts
    <2>1. Stopped(page') /\ calls' = calls /\ overlaps' = overlaps
        BY <1>2 DEF Halts
    <2>2. /\ page'.running = Strays(page) /\ Strays(page)' = Strays(page)
          /\ page'.listeners = Forgotten(page) /\ Forgotten(page)' = Forgotten(page)
        BY <1>1, <2>1
    <2>3. Waiting' = Waiting /\ WaitingForPhone' = WaitingForPhone
        BY <2>1 DEF Waiting, WaitingForPhone
    <2> QED BY <1>0, <2>1, <2>2, <2>3, OwedNumbers DEF Owed
<1>3. ASSUME NEW p \in Page, NEW c \in Call, Launches(p, c)
      PROVE  Owed'
    <2>0. /\ Stopped(p) /\ c.id = clicks + 1 /\ c.what \in Stream /\ Starts
          /\ \/ page' = p /\ calls' = calls \cup {c}
             \/ page' = Continued(p, c) /\ calls' = calls
        BY <1>3 DEF Launches
    <2>1. /\ p.running = Strays(page) /\ Strays(p) = Strays(page)
          /\ p.listeners = Forgotten(page) /\ Forgotten(p) = Forgotten(page)
        BY <1>1, <2>0
    <2>2. overlaps' = overlaps + (IF Waiting # {} THEN 1 ELSE 0)
        BY <2>0 DEF Starts
    <2>3. c.what # Load
        BY <2>0, DashboardAssumption DEF Stream
    \* Without an overlap the stream that is owed to nobody is this one.
    <2>4. /\ overlaps' \in Nat /\ overlaps <= overlaps'
          /\ Cardinality(Strays(page)) + Cardinality(Waiting) + 1 <= overlaps' + 1
          /\ Cardinality(Forgotten(page)) + Cardinality(WaitingForPhone) + 1 <= overlaps' + 1
        <3>1. CASE Waiting # {}
            BY <1>0, <2>2, <3>1, OwedNumbers
        <3>2. CASE Waiting = {}
            <4>1. WaitingForPhone = {}
                BY <3>2, OwedNumbers
            <4>2. Cardinality(Waiting) = 0 /\ Cardinality(WaitingForPhone) = 0
                BY <3>2, <4>1, FS_EmptySet
            <4> QED BY <1>0, <2>2, <3>2, <4>2, OwedNumbers
        <3> QED BY <3>1, <3>2
    <2>5. CASE page' = p /\ calls' = calls \cup {c}
        <3>1. Waiting' = Waiting \cup {c}
            BY <2>3, <2>5 DEF Waiting
        <3>2. WaitingForPhone' \subseteq WaitingForPhone \cup {c}
            BY <2>5 DEF WaitingForPhone
        <3>3. Cardinality(Waiting') \in Nat /\ Cardinality(Waiting') <= Cardinality(Waiting) + 1
            BY <3>1, OwedNumbers, Counting
        <3>4. /\ Cardinality(WaitingForPhone') \in Nat
              /\ Cardinality(WaitingForPhone') <= Cardinality(WaitingForPhone) + 1
            <4>1. /\ IsFiniteSet(WaitingForPhone \cup {c})
                  /\ Cardinality(WaitingForPhone \cup {c}) \in Nat
                  /\ Cardinality(WaitingForPhone \cup {c}) <= Cardinality(WaitingForPhone) + 1
                BY OwedNumbers, Counting
            <4>2. /\ Cardinality(WaitingForPhone') \in Nat
                  /\ Cardinality(WaitingForPhone') <= Cardinality(WaitingForPhone \cup {c})
                BY <3>2, <4>1, Counting
            <4> QED BY <4>1, <4>2, OwedNumbers
        <3>5. IsFiniteSet(calls')
            BY <1>0, <2>5, Counting
        <3>6. /\ page'.running = Strays(page) /\ Strays(page)' = Strays(page)
              /\ page'.listeners = Forgotten(page) /\ Forgotten(page)' = Forgotten(page)
            BY <2>1, <2>5
        <3> QED BY <1>0, <2>4, <3>3, <3>4, <3>5, <3>6, OwedNumbers DEF Owed
    <2>6. CASE page' = Continued(p, c) /\ calls' = calls
        <3> DEFINE s == [id |-> c.id, what |-> c.what]
        <3>0. c.id # 0 /\ c.id = clicks + 1
            BY <2>0, FreshId
        <3>1. page'.running = Strays(page) \cup {s} /\ page'.streamInterval = c.id
            <4>1. /\ Continued(p, c).running = p.running \cup {s}
                  /\ Continued(p, c).streamInterval = c.id
                BY <2>3, <3>0, ContinuedFields
            <4> QED BY <2>1, <2>6, <4>1
        <3>2. Strays(page)' \subseteq Strays(page)
            BY <3>1 DEF Strays
        <3>3. \/ page'.listeners = Forgotten(page) /\ page'.sensorHandler = p.sensorHandler
              \/ page'.listeners = Forgotten(page) \cup {c.id} /\ page'.sensorHandler = c.id
            <4>1. \/ /\ Continued(p, c).listeners = p.listeners
                     /\ Continued(p, c).sensorHandler = p.sensorHandler
                  \/ /\ Continued(p, c).listeners = p.listeners \cup {c.id}
                     /\ Continued(p, c).sensorHandler = c.id
                BY <2>3, <3>0, ContinuedFields
            <4> QED BY <2>1, <2>6, <4>1
        <3>4. Forgotten(page)' \subseteq Forgotten(page)
            BY <2>1, <3>3 DEF Forgotten
        <3>5. Waiting' = Waiting /\ WaitingForPhone' = WaitingForPhone
            BY <2>6 DEF Waiting, WaitingForPhone
        <3> HIDE DEF s
        <3>6. /\ IsFiniteSet(page'.running)
              /\ Cardinality(page'.running) \in Nat
              /\ Cardinality(page'.running) <= Cardinality(Strays(page)) + 1
            BY <3>1, OwedNumbers, Counting
        <3>7. /\ IsFiniteSet(page'.listeners)
              /\ Cardinality(page'.listeners) \in Nat
              /\ Cardinality(page'.listeners) <= Cardinality(Forgotten(page)) + 1
            <4>1. CASE page'.listeners = Forgotten(page)
                <5>1. Cardinality(Forgotten(page)) <= Cardinality(Forgotten(page)) + 1
                    BY OwedNumbers
                <5> QED BY <4>1, <5>1, OwedNumbers
            <4>2. CASE page'.listeners = Forgotten(page) \cup {c.id}
                BY <4>2, OwedNumbers, Counting
            <4> QED BY <3>3, <4>1, <4>2
        <3>8. /\ Cardinality(Strays(page)') \in Nat
              /\ Cardinality(Strays(page)') <= Cardinality(Strays(page))
              /\ Cardinality(Forgotten(page)') \in Nat
              /\ Cardinality(Forgotten(page)') <= Cardinality(Forgotten(page))
            BY <3>2, <3>4, OwedNumbers, Counting
        <3> QED BY <1>0, <2>4, <2>6, <3>5, <3>6, <3>7, <3>8, OwedNumbers DEF Owed
    <2> QED BY <2>0, <2>5, <2>6
<1> QED BY <1>2, <1>3

\* A handler that goes on turns what it was owed as a waiting call into what it
\* is owed as a stream.
LEMMA HandlerOwed ==
    ASSUME TypeInv, Owed, NEW c \in calls, UNCHANGED overlaps,
           \/ MovesOn(c) /\ c.at = "permission"
           \/ Resumes(c)
           \/ GivesUp(c)
    PROVE  Owed'
<1>0. /\ Cardinality(Strays(page)) <= overlaps
      /\ Cardinality(page.running) + Cardinality(Waiting) <= overlaps + 1
      /\ Cardinality(Forgotten(page)) <= overlaps
      /\ Cardinality(page.listeners) + Cardinality(WaitingForPhone) <= overlaps + 1
      /\ IsFiniteSet(calls) /\ IsFiniteSet(page.running) /\ IsFiniteSet(page.listeners)
    BY DEF Owed
<1>1. c \in Call /\ (c.what = Load <=> c.id = 0)
    BY FreshId DEF TypeInv, Ids
<1>2. CASE MovesOn(c) /\ c.at = "permission"
    <2> DEFINE d == [c EXCEPT !.at = "token"]
    <2>1. /\ c.what = Phone /\ d.what = Phone
          /\ page' = page /\ calls' = (calls \ {c}) \cup {d}
        BY <1>1, <1>2 DEF MovesOn, TypeInv, Ids, Call
    <2> HIDE DEF d
    <2>2. /\ Waiting' = (Waiting \ {c}) \cup {d} /\ c \in Waiting
          /\ WaitingForPhone' = (WaitingForPhone \ {c}) \cup {d} /\ c \in WaitingForPhone
        BY <2>1, DashboardAssumption DEF Waiting, WaitingForPhone
    <2>3. /\ Cardinality(Waiting') \in Nat
          /\ Cardinality(Waiting') <= Cardinality(Waiting)
        <3>1. /\ Cardinality(Waiting \ {c}) = Cardinality(Waiting) - 1
              /\ IsFiniteSet(Waiting \ {c}) /\ Cardinality(Waiting \ {c}) \in Nat
            BY <2>2, OwedNumbers, Counting
        <3>2. /\ Cardinality((Waiting \ {c}) \cup {d}) \in Nat
              /\ Cardinality((Waiting \ {c}) \cup {d}) <= Cardinality(Waiting \ {c}) + 1
            BY <3>1, Counting
        <3> QED BY <2>2, <3>1, <3>2, OwedNumbers
    <2>4. /\ Cardinality(WaitingForPhone') \in Nat
          /\ Cardinality(WaitingForPhone') <= Cardinality(WaitingForPhone)
        <3>1. /\ Cardinality(WaitingForPhone \ {c}) = Cardinality(WaitingForPhone) - 1
              /\ IsFiniteSet(WaitingForPhone \ {c}) /\ Cardinality(WaitingForPhone \ {c}) \in Nat
            BY <2>2, OwedNumbers, Counting
        <3>2. /\ Cardinality((WaitingForPhone \ {c}) \cup {d}) \in Nat
              /\ Cardinality((WaitingForPhone \ {c}) \cup {d})
                    <= Cardinality(WaitingForPhone \ {c}) + 1
            BY <3>1, Counting
        <3> QED BY <2>2, <3>1, <3>2, OwedNumbers
    <2>5. IsFiniteSet(calls')
        BY <1>0, <2>1, FS_AddElement, FS_RemoveElement
    <2>6. Strays(page)' = Strays(page) /\ Forgotten(page)' = Forgotten(page)
        BY <2>1
    <2> QED BY <1>0, <2>1, <2>3, <2>4, <2>5, <2>6, OwedNumbers DEF Owed
<1>3. ASSUME calls' = calls \ {c}
      PROVE  /\ Waiting' = Waiting \ {c} /\ WaitingForPhone' = WaitingForPhone \ {c}
             /\ IsFiniteSet(calls')
             /\ Cardinality(Waiting') \in Nat /\ Cardinality(WaitingForPhone') \in Nat
             /\ Cardinality(Waiting') <= Cardinality(Waiting)
             /\ Cardinality(WaitingForPhone') <= Cardinality(WaitingForPhone)
             /\ c.what # Load => Cardinality(Waiting') = Cardinality(Waiting) - 1
             /\ c.what = Phone => Cardinality(WaitingForPhone') = Cardinality(WaitingForPhone) - 1
    <2>1. Waiting' = Waiting \ {c} /\ WaitingForPhone' = WaitingForPhone \ {c}
        BY <1>3 DEF Waiting, WaitingForPhone
    <2>2. IsFiniteSet(calls')
        BY <1>0, <1>3, FS_RemoveElement
    <2>3. /\ c.what # Load => c \in Waiting
          /\ c.what = Phone => c \in WaitingForPhone
        BY DEF Waiting, WaitingForPhone
    <2>4. /\ Cardinality(Waiting \ {c}) \in Nat /\ Cardinality(WaitingForPhone \ {c}) \in Nat
          /\ Cardinality(Waiting \ {c}) <= Cardinality(Waiting)
          /\ Cardinality(WaitingForPhone \ {c}) <= Cardinality(WaitingForPhone)
        BY OwedNumbers, Counting
    <2>5. /\ c.what # Load => Cardinality(Waiting \ {c}) = Cardinality(Waiting) - 1
          /\ c.what = Phone =>
                Cardinality(WaitingForPhone \ {c}) = Cardinality(WaitingForPhone) - 1
        BY <2>3, OwedNumbers, Counting
    <2> QED BY <2>1, <2>2, <2>4, <2>5
<1>4. CASE calls' = calls \ {c} /\ page' = page
    <2>1. Strays(page)' = Strays(page) /\ Forgotten(page)' = Forgotten(page)
        BY <1>4
    <2> QED BY <1>0, <1>3, <1>4, <2>1, OwedNumbers DEF Owed
<1>5. CASE Resumes(c) /\ c.what # Load
    <2> DEFINE s == [id |-> c.id, what |-> c.what]
    <2>0. page' = Continued(page, c) /\ calls' = calls \ {c} /\ page \in Page
        BY <1>5, OwedNumbers DEF Resumes
    <2>1. page'.running = page.running \cup {s} /\ page'.streamInterval = c.id
        BY <1>1, <1>5, <2>0, ContinuedFields
    <2>2. Strays(page)' \subseteq page.running
        BY <2>1 DEF Strays
    <2> HIDE DEF s
    <2>3. /\ IsFiniteSet(page'.running)
          /\ Cardinality(page'.running) \in Nat
          /\ Cardinality(page'.running) <= Cardinality(page.running) + 1
          /\ Cardinality(Strays(page)') \in Nat
          /\ Cardinality(Strays(page)') <= Cardinality(page.running)
        BY <1>0, <2>1, <2>2, Counting
    <2>4. CASE c.what = Phone
        <3>1. page'.listeners = page.listeners \cup {c.id} /\ page'.sensorHandler = c.id
            BY <1>1, <1>5, <2>0, <2>4, ContinuedFields
        <3>2. Forgotten(page)' \subseteq page.listeners
            BY <3>1 DEF Forgotten
        <3>3. /\ IsFiniteSet(page'.listeners)
              /\ Cardinality(page'.listeners) \in Nat
              /\ Cardinality(page'.listeners) <= Cardinality(page.listeners) + 1
              /\ Cardinality(Forgotten(page)') \in Nat
              /\ Cardinality(Forgotten(page)') <= Cardinality(page.listeners)
            BY <1>0, <3>1, <3>2, Counting
        <3> QED BY <1>0, <1>3, <1>5, <2>0, <2>3, <2>4, <3>3, OwedNumbers DEF Owed
    <2>5. CASE c.what # Phone
        <3>1. page'.listeners = page.listeners /\ page'.sensorHandler = page.sensorHandler
            BY <1>1, <1>5, <2>0, <2>5, ContinuedFields
        <3>2. Forgotten(page)' = Forgotten(page)
            BY <3>1 DEF Forgotten
        <3> QED BY <1>0, <1>3, <1>5, <2>0, <2>3, <3>1, <3>2, OwedNumbers DEF Owed
    <2> QED BY <2>4, <2>5
<1>6. CASE Resumes(c) /\ c.what = Load
    <2>1. page' = page /\ calls' = calls \ {c}
        BY <1>1, <1>6, ContinuedFields, OwedNumbers DEF Resumes
    <2> QED BY <2>1, <1>4
<1> QED BY <1>2, <1>4, <1>5, <1>6 DEF GivesUp

LEMMA OwedHolds == Spec => []Owed
<1>1. Init => Owed
    <2> SUFFICES ASSUME Init PROVE Owed
        OBVIOUS
    <2>1. page.running = {} /\ page.listeners = {} /\ overlaps = 0
        BY DEF Init
    <2>2. calls = {[id |-> 0, what |-> Load, at |-> "token"]}
        BY DEF Init
    <2>3. Waiting = {} /\ WaitingForPhone = {}
        BY <2>2, DashboardAssumption DEF Waiting, WaitingForPhone
    <2>4. Strays(page) = {} /\ Forgotten(page) = {}
        BY <2>1 DEF Strays, Forgotten
    <2>5. IsFiniteSet(calls)
        BY <2>2, FS_Singleton
    <2> QED BY <2>1, <2>3, <2>4, <2>5, FS_EmptySet DEF Owed
<1>2. TypeInv /\ Owed /\ [Next]_vars => Owed'
    <2> SUFFICES ASSUME TypeInv, Owed, [Next]_vars PROVE Owed'
        OBVIOUS
    <2>1. CASE (\E mode \in Mode : SetMode(mode)) \/ TogglePhoneSensors
        BY <2>1, ClickMoves, ClickOwed DEF TypeInv
    <2>2. ASSUME NEW c \in calls,
                 \/ PermissionGranted(c) \/ PermissionDenied(c)
                 \/ TokenArrives(c) \/ TokenFails(c)
          PROVE  Owed'
        BY <2>2, HandlerMoves, HandlerOwed DEF TypeInv
    <2>3. CASE UNCHANGED <<page, calls, overlaps>>
        BY <2>3 DEF Owed, Strays, Forgotten, Waiting, WaitingForPhone
    <2>4. ASSUME NEW i \in DOMAIN sockets, OnOpen(i) \/ Closing(i) \/ OnClose(i)
          PROVE  Owed'
        BY <2>3, <2>4 DEF OnOpen, Closing, OnClose
    <2> QED BY <2>1, <2>2, <2>3, <2>4 DEF Next, vars
<1> QED BY <1>1, <1>2, TypeInvHolds, PTL DEF Spec

\* For any number of clicks, an interval whose handle is lost (lines 379, 396,
\* 417 and 537) is owed to a click that started while a handler waited.
THEOREM StraysAreOwed == Spec => []StraysBounded
<1>1. Owed => StraysBounded
    BY DEF Owed, StraysBounded, Strays
<1> QED BY <1>1, OwedHolds, PTL

\* For any number of clicks, the sensors are listened to exactly while the
\* phone streams, but for handlers owed to overlapping clicks (lines 474, 534).
THEOREM ListenersAreOwed == Spec => []ListensWhileStreaming
<1>1. TypeInv /\ Owed => ListensWhileStreaming
    BY DEF TypeInv, Listening, Owed, ListensWhileStreaming, Forgotten
<1> QED BY <1>1, TypeInvHolds, OwedHolds, PTL

-----------------------------------------------------------------------------
(* Without overlapping clicks.                                             *)

\* One stream runs or one handler waits.
LEMMA Alone ==
    ASSUME TypeInv, Owed, overlaps = 0
    PROVE  /\ Strays(page) = {}
           /\ \A c \in Waiting : page.running = {} /\ Waiting = {c}
<1>1. Strays(page) = {}
    BY OwedNumbers, FS_EmptySet DEF Owed
<1>2. ASSUME NEW c \in Waiting
      PROVE  page.running = {} /\ Waiting = {c}
    <2>1. Cardinality(Waiting \ {c}) = Cardinality(Waiting) - 1 /\ Cardinality(Waiting) >= 1
        BY OwedNumbers, Counting
    <2>2. Cardinality(page.running) + Cardinality(Waiting) <= 1
        BY DEF Owed
    <2>3. Cardinality(page.running) = 0 /\ Cardinality(Waiting \ {c}) = 0
        BY <2>1, <2>2, OwedNumbers
    <2>4. IsFiniteSet(Waiting \ {c}) /\ IsFiniteSet(page.running)
        BY OwedNumbers, Counting DEF Owed
    <2> QED BY <2>3, <2>4, FS_EmptySet
<1> QED BY <1>1, <1>2

\* A stream that starts on a page where nothing runs is what the page shows.
LEMMA StartsAlone ==
    ASSUME NEW p \in Page, NEW c \in Call, c.what # Load, c.id # 0,
           p.running = {}, ~ p.isPhoneStreaming, c.what = Phone => p.currentMode = Null,
           page' = Continued(p, c), Waiting' = {}
    PROVE  Undisturbed' /\ ShownAndSentAgree'
<1> DEFINE s == [id |-> c.id, what |-> c.what]
<1>0. p.isPhoneStreaming = FALSE
    BY PageFields
<1>1. page'.running = {s} /\ page'.streamInterval = c.id
    BY ContinuedFields
<1>2. CASE c.what = Phone
    <2>1. page'.isPhoneStreaming = TRUE /\ page'.currentMode = Null
        BY <1>2, ContinuedFields
    <2> QED BY <1>1, <1>2, <2>1
            DEF Undisturbed, ShownAndSentAgree, SendsWhatIsShown, StreamsWhatIsShown
<1>3. CASE c.what # Phone
    <2>1. page'.isPhoneStreaming = FALSE /\ page'.currentMode = c.what
        BY <1>0, <1>3, ContinuedFields
    <2> QED BY <1>1, <1>3, <2>1
            DEF Undisturbed, ShownAndSentAgree, SendsWhatIsShown, StreamsWhatIsShown
<1> QED BY <1>2, <1>3

LEMMA AgreeStep ==
    TypeInv /\ Owed /\ Undisturbed /\ ShownAndSentAgree /\ [Next]_vars
        => Undisturbed' /\ ShownAndSentAgree'
<1> SUFFICES ASSUME TypeInv, Owed, Undisturbed, ShownAndSentAgree, [Next]_vars
             PROVE  Undisturbed' /\ ShownAndSentAgree'
    OBVIOUS
<1> USE DEF Undisturbed, ShownAndSentAgree
<1>0. page \in Page /\ overlaps \in Nat
    BY OwedNumbers
<1>1. CASE (\E mode \in Mode : SetMode(mode)) \/ TogglePhoneSensors
    <2>1. Halts \/ \E p \in Page, c \in Call : Launches(p, c)
        BY <1>1, ClickMoves DEF TypeInv
    <2>2. CASE Halts
        <3>1. Stopped(page') /\ calls' = calls /\ overlaps' = overlaps /\ Waiting' = Waiting
            BY <2>2 DEF Halts, Waiting
        <3>2. page'.running = Strays(page) /\ page'.isPhoneStreaming = FALSE
            BY <3>1, StoppedKeeps
        <3>3. overlaps = 0 => page'.currentMode = Null /\ page'.running = {}
            BY <2>2, <3>2, Alone DEF Halts
        <3> QED BY <3>1, <3>2, <3>3 DEF SendsWhatIsShown, StreamsWhatIsShown
    <2>3. ASSUME NEW p \in Page, NEW c \in Call, Launches(p, c), overlaps' = 0
          PROVE  Undisturbed' /\ ShownAndSentAgree'
        <3>1. Waiting = {} /\ overlaps = 0
            BY <1>0, <2>3 DEF Launches, Starts
        <3>2. /\ Stopped(p) /\ c.id = clicks + 1 /\ c.what \in Stream
              /\ c.what = Phone => p.currentMode = Null
              /\ \/ page' = p /\ calls' = calls \cup {c}
                 \/ page' = Continued(p, c) /\ calls' = calls
            BY <2>3 DEF Launches
        <3>3. p.running = {} /\ p.isPhoneStreaming = FALSE
            BY <3>1, <3>2, StoppedKeeps, Alone
        <3>4. c.what # Load /\ c.id # 0
            BY <3>2, FreshId, DashboardAssumption DEF Stream
        <3>5. CASE page' = p /\ calls' = calls \cup {c}
            <4>1. Waiting' = {c}
                BY <3>1, <3>4, <3>5 DEF Waiting
            <4> QED BY <3>2, <3>3, <3>5, <4>1 DEF SendsWhatIsShown
        <3>6. CASE page' = Continued(p, c) /\ calls' = calls
            <4>1. Waiting' = {}
                BY <3>1, <3>6 DEF Waiting
            <4> QED BY <3>2, <3>3, <3>4, <3>6, <4>1, StartsAlone
        <3> QED BY <3>2, <3>5, <3>6
    <2> QED BY <2>1, <2>2, <2>3
<1>2. ASSUME NEW c \in calls,
             \/ PermissionGranted(c) \/ PermissionDenied(c)
             \/ TokenArrives(c) \/ TokenFails(c),
             overlaps' = 0
      PROVE  Undisturbed' /\ ShownAndSentAgree'
    <2>1. /\ overlaps = 0
          /\ \/ MovesOn(c) /\ c.at = "permission"
             \/ Resumes(c) /\ failed' = failed
             \/ GivesUp(c)
        BY <1>2, HandlerMoves DEF TypeInv
    <2>2. /\ c \in Call
          /\ c.what = Load <=> c.id = 0
          /\ c.at = "permission" => c.what = Phone
        BY FreshId DEF TypeInv, Ids
    <2>3. CASE MovesOn(c) /\ c.at = "permission"
        <3> DEFINE d == [c EXCEPT !.at = "token"]
        <3>1. d.what = c.what /\ c.what = Phone /\ c.what # Load
            BY <2>2, <2>3, DashboardAssumption DEF Call
        <3>2. page' = page /\ calls' = (calls \ {c}) \cup {d}
            BY <2>3 DEF MovesOn
        <3> HIDE DEF d
        <3>3. c \in Waiting /\ d \in Waiting' /\ Waiting' \subseteq Waiting \cup {d}
            BY <3>1, <3>2 DEF Waiting
        <3> QED BY <2>1, <3>1, <3>2, <3>3 DEF SendsWhatIsShown
    <2>4. CASE Resumes(c) /\ failed' = failed
        <3>1. page' = Continued(page, c) /\ calls' = calls \ {c}
            BY <2>4 DEF Resumes
        <3>2. CASE c.what = Load
            <4>1. page' = page /\ Waiting' = Waiting
                BY <1>0, <2>2, <3>1, <3>2, ContinuedFields DEF Waiting
            <4> QED BY <2>1, <2>4, <4>1 DEF SendsWhatIsShown, StreamsWhatIsShown
        <3>3. CASE c.what # Load
            <4>1. c \in Waiting
                BY <3>3 DEF Waiting
            <4>2. page.running = {} /\ Waiting = {c}
                BY <2>1, <4>1, Alone
            <4>3. ~ page.isPhoneStreaming /\ (c.what = Phone => page.currentMode = Null)
                BY <2>1, <4>1
            <4>4. Waiting' = {}
                BY <3>1, <4>2 DEF Waiting
            <4>5. c.id # 0
                BY <2>2, <3>3
            <4> QED BY <1>0, <2>2, <3>1, <3>3, <4>2, <4>3, <4>4, <4>5, StartsAlone
        <3> QED BY <3>2, <3>3
    <2>5. CASE GivesUp(c)
        <3>1. /\ page' = page /\ calls' = calls \ {c}
              /\ failed => failed'
              /\ c.what # Load /\ ~ failed' => c.at = "permission"
            BY <2>5 DEF GivesUp
        <3>2. Waiting' = Waiting \ {c}
            BY <3>1 DEF Waiting
        <3>3. CASE c.what = Load
            <4>1. Waiting' = Waiting
                BY <3>2, <3>3 DEF Waiting
            <4> QED BY <2>1, <3>1, <4>1 DEF SendsWhatIsShown, StreamsWhatIsShown
        <3>4. CASE c.what # Load
            <4>1. c \in Waiting
                BY <3>4 DEF Waiting
            <4>2. ~ failed' => c.what = Phone
                BY <2>2, <3>1, <3>4
            <4>3. ~ page.isPhoneStreaming /\ (c.what = Phone => page.currentMode = Null)
                BY <2>1, <4>1
            <4> QED BY <2>1, <3>1, <3>2, <4>2, <4>3 DEF SendsWhatIsShown, StreamsWhatIsShown
        <3> QED BY <3>3, <3>4
    <2> QED BY <2>1, <2>3, <2>4, <2>5
<1>3. CASE UNCHANGED <<page, calls, overlaps, failed>>
    BY <1>3 DEF Waiting, SendsWhatIsShown, StreamsWhatIsShown
<1>4. ASSUME NEW i \in DOMAIN sockets, OnOpen(i) \/ Closing(i) \/ OnClose(i)
      PROVE  Undisturbed' /\ ShownAndSentAgree'
    BY <1>3, <1>4 DEF OnOpen, Closing, OnClose
<1> QED BY <1>1, <1>2, <1>3, <1>4 DEF Next, vars

\* Without overlapping clicks nothing else is sent than what is shown, and what
\* is shown is sent, unless a handler waits or its last request was rejected
\* (setMode and togglePhoneSensors, from line 340 on).
THEOREM ShownIsSent == Spec => []ShownAndSentAgree
<1>1. Init => Undisturbed /\ ShownAndSentAgree
    BY DEF Init, Undisturbed, ShownAndSentAgree, SendsWhatIsShown, StreamsWhatIsShown, Waiting
<1> QED BY <1>1, AgreeStep, TypeInvHolds, OwedHolds, PTL DEF Spec

-----------------------------------------------------------------------------
(* The badge.                                                              *)

LEMMA BadgeStep ==
    TypeInv /\ OnlyLastLives /\ BadgeTruthful /\ [Next]_vars
        => OnlyLastLives' /\ BadgeTruthful'
<1> SUFFICES ASSUME TypeInv, OnlyLastLives, BadgeTruthful, [Next]_vars
             PROVE  OnlyLastLives' /\ BadgeTruthful'
    OBVIOUS
<1> USE DEF OnlyLastLives, BadgeTruthful, Connected
<1>0. /\ sockets \in Seq({"connecting", "open", "closing", "closed"})
      /\ DOMAIN sockets = 1 .. Len(sockets) /\ Len(sockets) \in Nat
      /\ badge \in BOOLEAN /\ doubled \in BOOLEAN
    BY DEF TypeInv, TypeOK
<1>1. CASE UNCHANGED <<sockets, badge, doubled>>
    BY <1>1
<1>2. ASSUME NEW c \in calls, TokenArrives(c)
      PROVE  OnlyLastLives' /\ BadgeTruthful'
    <2>1. /\ sockets' = Append(sockets, "connecting") /\ badge' = badge
          /\ ~ doubled' => ~ doubled /\ \A i \in DOMAIN sockets : sockets[i] = "closed"
        BY <1>2 DEF TokenArrives
    <2>2. /\ Len(sockets') = Len(sockets) + 1 /\ DOMAIN sockets' = 1 .. Len(sockets) + 1
          /\ \A i \in DOMAIN sockets : i \in DOMAIN sockets' /\ sockets'[i] = sockets[i]
          /\ sockets'[Len(sockets) + 1] = "connecting"
        BY <1>0, <2>1
    <2>3. \A i \in DOMAIN sockets' : i # Len(sockets') => i \in DOMAIN sockets
        BY <1>0, <2>2
    <2>4. OnlyLastLives'
        BY <2>1, <2>2, <2>3
    <2>5. badge => \E i \in DOMAIN sockets' : sockets'[i] \in {"open", "closing"}
        BY <2>2
    <2>6. ~ doubled' => ~ badge /\ ~ Connected'
        BY <2>1, <2>2
    <2> QED BY <2>1, <2>4, <2>5, <2>6
<1>3. ASSUME NEW i \in DOMAIN sockets, OnOpen(i)
      PROVE  OnlyLastLives' /\ BadgeTruthful'
    <2>1. /\ sockets[i] = "connecting" /\ sockets' = [sockets EXCEPT ![i] = "open"]
          /\ badge' = TRUE /\ doubled' = doubled
        BY <1>3 DEF OnOpen
    <2>2. /\ Len(sockets') = Len(sockets) /\ DOMAIN sockets' = DOMAIN sockets
          /\ sockets'[i] = "open" /\ \A j \in DOMAIN sockets : j # i => sockets'[j] = sockets[j]
        BY <1>0, <2>1
    <2>3. ~ doubled => i = Len(sockets)
        BY <2>1
    <2>4. sockets' # <<>>
        BY <1>0, <2>2
    <2> QED BY <2>1, <2>2, <2>3, <2>4
<1>4. ASSUME NEW i \in DOMAIN sockets, OnClose(i)
      PROVE  OnlyLastLives' /\ BadgeTruthful'
    <2>1. /\ sockets[i] # "closed" /\ sockets' = [sockets EXCEPT ![i] = "closed"]
          /\ badge' = FALSE /\ doubled' = doubled
        BY <1>4 DEF OnClose
    <2>2. /\ Len(sockets') = Len(sockets) /\ DOMAIN sockets' = DOMAIN sockets
          /\ sockets'[i] = "closed" /\ \A j \in DOMAIN sockets : j # i => sockets'[j] = sockets[j]
        BY <1>0, <2>1
    <2>3. ~ doubled => i = Len(sockets)
        BY <2>1
    <2> QED BY <2>1, <2>2, <2>3
<1>5. ASSUME NEW i \in DOMAIN sockets, Closing(i)
      PROVE  OnlyLastLives' /\ BadgeTruthful'
    <2>1. /\ sockets[i] = "open" /\ sockets' = [sockets EXCEPT ![i] = "closing"]
          /\ badge' = badge /\ doubled' = doubled
        BY <1>5 DEF Closing
    <2>2. /\ Len(sockets') = Len(sockets) /\ DOMAIN sockets' = DOMAIN sockets
          /\ sockets'[i] = "closing" /\ \A j \in DOMAIN sockets : j # i => sockets'[j] = sockets[j]
        BY <1>0, <2>1
    <2>3. ~ doubled => i = Len(sockets)
        BY <2>1
    <2>4. \A j \in DOMAIN sockets :
             sockets'[j] \in {"open", "closing"} <=> sockets[j] \in {"open", "closing"}
        BY <2>1, <2>2
    <2>5. OnlyLastLives'
        BY <2>1, <2>2, <2>3
    <2>6. badge => \E j \in DOMAIN sockets' : sockets'[j] \in {"open", "closing"}
        BY <2>2, <2>4
    <2>7. sockets # <<>> /\ sockets' # <<>> /\ Len(sockets) \in DOMAIN sockets
        BY <1>0, <2>2
    <2>8. ~ doubled => (badge <=> sockets'[Len(sockets)] \in {"open", "closing"})
        BY <2>4, <2>7
    <2> QED BY <2>1, <2>2, <2>5, <2>6, <2>7, <2>8
<1> QED BY <1>1, <1>2, <1>3, <1>4, <1>5
        DEF Next, SetMode, TogglePhoneSensors, Clicked, PermissionGranted, PermissionDenied,
            TokenFails, vars

\* CONNECTED is never shown without a socket that is open or whose onclose is
\* still to come, and while no second socket was made exactly while ws is one
\* (lines 285, 300 and 335).
THEOREM BadgeIsTrue == Spec => []BadgeTruthful
<1>1. Init => OnlyLastLives /\ BadgeTruthful
    BY DEF Init, OnlyLastLives, BadgeTruthful, Connected
<1> QED BY <1>1, BadgeStep, TypeInvHolds, PTL DEF Spec
=============================================================================
