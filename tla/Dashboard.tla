------------------------------ MODULE Dashboard ------------------------------
(***************************************************************************)
(* The script of the dashboard page in app/main.py: one socket, one stream *)
(* of samples at a time (an interval), three simulated modes and the       *)
(* sensors of the phone.                                                   *)
(*                                                                         *)
(* The browser runs one handler at a time and changes handlers at awaits:  *)
(* the question for permission and the request for a token. Clicks arrive  *)
(* in between. An await of connectWebSocket() that returns early does not  *)
(* let a click in. The ticks of a running interval and the drawing of      *)
(* answers change nothing that is modelled here.                           *)
(***************************************************************************)
EXTENDS Integers, Sequences, FiniteSets

CONSTANTS
    Mode,       \* "stationary", "moving", "adaptive"
    Phone,      \* the stream of the hardware sensors
    Load,       \* the connection made when the page loads
    MaxClicks,  \* bound: clicks on the four buttons
    Null        \* null

ASSUME DashboardAssumption ==
    /\ Phone \notin Mode /\ Load \notin Mode \cup {Phone}
    /\ Null \notin Mode \cup Nat
    /\ MaxClicks \in Nat

VARIABLES
    device,    \* without motion sensors, with, or with and asking first
    page,      \* the variables of the script, and the intervals that run
    sockets,   \* readyState of every WebSocket made; ws is the last
    badge,     \* CONNECTED is shown
    calls,     \* handlers that wait, and where
    clicks,    \* so far; the number of a click names its interval and handler
    overlaps,  \* of them, those that started while another handler waited
    doubled,   \* a socket was made while an older one was not closed
    failed     \* since the last click a click's request for a token was rejected

vars == <<device, page, sockets, badge, calls, clicks, overlaps, doubled, failed>>

Click == 1 .. MaxClicks
Stream == Mode \cup {Phone}

Page == [currentMode: Mode \cup {Null},
         streamInterval: Click \cup {Null},
         running: SUBSET [id: Click, what: Stream],
         isPhoneStreaming: BOOLEAN,
         sensorHandler: Click \cup {Null},
         listeners: SUBSET Click]

Call == [id: 0 .. MaxClicks, what: Stream \cup {Load}, at: {"permission", "token"}]

Connected == sockets # <<>> /\ sockets[Len(sockets)] = "open"
Waiting == {c \in calls : c.what # Load}

-----------------------------------------------------------------------------
(* What the handlers do to the variables of the page.                      *)

\* [mutant] the interval is forgotten, not cleared
ClearedNothing(p) == p

\* clearInterval(streamInterval); the handle keeps its value.
Cleared(p) == [p EXCEPT !.running = {s \in @ : s.id # p.streamInterval}]

\* [mutant] the handlers are not removed
PhoneStoppedStillListening(p) ==
    IF p.isPhoneStreaming
    THEN [Cleared(p) EXCEPT !.isPhoneStreaming = FALSE, !.streamInterval = Null]
    ELSE p

\* togglePhoneSensors() while the phone streams.
PhoneStopped(p) ==
    IF p.isPhoneStreaming
    THEN [Cleared(p) EXCEPT !.isPhoneStreaming = FALSE,
                            !.streamInterval = Null,
                            !.listeners = @ \ {p.sensorHandler}]
    ELSE p

\* [mutant] currentMode is only set by the click that finds none
StartedUnderOldMode(p, c) ==
    [p EXCEPT !.currentMode = IF @ = Null THEN c.what ELSE @,
              !.running = @ \cup {[id |-> c.id, what |-> c.what]},
              !.streamInterval = c.id]

\* setMode after its await.
ModeStarted(p, c) ==
    [p EXCEPT !.currentMode = c.what,
              !.running = @ \cup {[id |-> c.id, what |-> c.what]},
              !.streamInterval = c.id]

\* togglePhoneSensors after its awaits.
PhoneStarted(p, c) ==
    [p EXCEPT !.isPhoneStreaming = TRUE,
              !.sensorHandler = c.id,
              !.listeners = @ \cup {c.id},
              !.running = @ \cup {[id |-> c.id, what |-> Phone]},
              !.streamInterval = c.id]

\* What a handler does once connectWebSocket() has returned.
Continued(p, c) ==
    CASE c.what = Load -> p
      [] c.what = Phone -> PhoneStarted(p, c)
      [] OTHER -> ModeStarted(p, c)

\* [mutant] connectWebSocket() is called without await
ConnectUnawaited(p, c, others) ==
    /\ page' = Continued(p, c)
    /\ calls' = IF Connected THEN others ELSE others \cup {[c EXCEPT !.at = "token"]}

\* await connectWebSocket(): returns at once for an open socket only.
ConnectWebSocket(p, c, others) ==
    IF Connected
    THEN page' = Continued(p, c) /\ calls' = others
    ELSE page' = p /\ calls' = others \cup {[c EXCEPT !.at = "token"]}

-----------------------------------------------------------------------------
(* The four buttons.                                                       *)

Clicked ==
    /\ clicks < MaxClicks
    /\ clicks' = clicks + 1
    /\ failed' = FALSE
    /\ UNCHANGED <<device, sockets, badge, doubled>>

Starts == overlaps' = overlaps + (IF Waiting # {} THEN 1 ELSE 0)

SetMode(mode) ==
    /\ Clicked
    /\ LET p == Cleared(PhoneStopped(page))
       IN \/ /\ p.currentMode = mode
             /\ page' = [p EXCEPT !.streamInterval = Null, !.currentMode = Null]
             /\ UNCHANGED <<calls, overlaps>>
          \/ /\ p.currentMode # mode
             /\ ConnectWebSocket(p, [id |-> clicks', what |-> mode, at |-> "token"], calls)
             /\ Starts

TogglePhoneSensors ==
    /\ Clicked
    /\ LET p == Cleared([page EXCEPT !.currentMode = Null])
           c == [id |-> clicks', what |-> Phone, at |-> "permission"]
       IN \/ /\ page.isPhoneStreaming
             /\ page' = PhoneStopped(page)
             /\ UNCHANGED <<calls, overlaps>>
          \/ /\ ~ page.isPhoneStreaming /\ device = "none"
             /\ page' = p
             /\ UNCHANGED <<calls, overlaps>>
          \/ /\ ~ page.isPhoneStreaming /\ device = "asks"
             /\ page' = p
             /\ calls' = calls \cup {c}
             /\ Starts
          \/ /\ ~ page.isPhoneStreaming /\ device = "free"
             /\ ConnectWebSocket(p, c, calls)
             /\ Starts

-----------------------------------------------------------------------------
(* What the handlers wait for.                                             *)

\* Granted, or the request itself raises, which is only logged.
PermissionGranted(c) ==
    /\ c.at = "permission"
    /\ ConnectWebSocket(page, c, calls \ {c})
    /\ UNCHANGED <<device, sockets, badge, clicks, overlaps, doubled, failed>>

PermissionDenied(c) ==
    /\ c.at = "permission"
    /\ calls' = calls \ {c}
    /\ UNCHANGED <<device, page, sockets, badge, clicks, overlaps, doubled, failed>>

\* The socket is made whatever the state of the last one has become meanwhile.
TokenArrives(c) ==
    /\ c.at = "token"
    /\ calls' = calls \ {c}
    /\ doubled' = (doubled \/ \E i \in DOMAIN sockets : sockets[i] # "closed")
    /\ sockets' = Append(sockets, "connecting")
    /\ page' = Continued(page, c)
    /\ UNCHANGED <<device, badge, clicks, overlaps, failed>>

\* The rejection ends the handler; the page stays as the click left it.
TokenFails(c) ==
    /\ c.at = "token"
    /\ calls' = calls \ {c}
    /\ failed' = (failed \/ c.what # Load)
    /\ UNCHANGED <<device, page, sockets, badge, clicks, overlaps, doubled>>

-----------------------------------------------------------------------------
(* The sockets: each that was made reports to the one badge.               *)

OnOpen(i) ==
    /\ sockets[i] = "connecting"
    /\ sockets' = [sockets EXCEPT ![i] = "open"]
    /\ badge' = TRUE
    /\ UNCHANGED <<device, page, calls, clicks, overlaps, doubled, failed>>

\* [mutant] a socket that is not ws any more leaves the badge alone
OnCloseOfCurrent(i) ==
    /\ sockets[i] # "closed"
    /\ badge' = (badge /\ i # Len(sockets))
    /\ sockets' = [sockets EXCEPT ![i] = "closed"]
    /\ UNCHANGED <<device, page, calls, clicks, overlaps, doubled, failed>>

\* The closing handshake has begun: readyState is CLOSING, onclose still to come.
Closing(i) ==
    /\ sockets[i] = "open"
    /\ sockets' = [sockets EXCEPT ![i] = "closing"]
    /\ UNCHANGED <<device, page, badge, calls, clicks, overlaps, doubled, failed>>

\* Closed by the server, by the network, or never accepted.
OnClose(i) ==
    /\ sockets[i] # "closed"
    /\ sockets' = [sockets EXCEPT ![i] = "closed"]
    /\ badge' = FALSE
    /\ UNCHANGED <<device, page, calls, clicks, overlaps, doubled, failed>>

-----------------------------------------------------------------------------
\* The page has loaded and connects.
Init ==
    /\ device \in {"none", "free", "asks"}
    /\ page = [currentMode |-> Null, streamInterval |-> Null, running |-> {},
               isPhoneStreaming |-> FALSE, sensorHandler |-> Null, listeners |-> {}]
    /\ sockets = <<>>
    /\ badge = FALSE
    /\ calls = {[id |-> 0, what |-> Load, at |-> "token"]}
    /\ clicks = 0
    /\ overlaps = 0
    /\ doubled = FALSE
    /\ failed = FALSE

Next ==
    \/ \E mode \in Mode : SetMode(mode)
    \/ TogglePhoneSensors
    \/ \E c \in calls : \/ PermissionGranted(c)
                        \/ PermissionDenied(c)
                        \/ TokenArrives(c)
                        \/ TokenFails(c)
    \/ \E i \in DOMAIN sockets : OnOpen(i) \/ Closing(i) \/ OnClose(i)

Spec == Init /\ [][Next]_vars

-----------------------------------------------------------------------------
(* Properties.                                                             *)

\* Every variable has the shape the script gives it, and a handler that
\* waits has not started its stream yet.
TypeOK ==
    /\ device \in {"none", "free", "asks"}
    /\ page \in Page
    /\ sockets \in Seq({"connecting", "open", "closing", "closed"})
    /\ badge \in BOOLEAN
    /\ calls \subseteq Call
    /\ clicks \in 0 .. MaxClicks
    /\ overlaps \in 0 .. clicks
    /\ doubled \in BOOLEAN
    /\ failed \in BOOLEAN
    /\ \A c \in calls : \A s \in page.running : s.id # c.id

\* An interval that runs without its handle can never be cleared again
\* (streamInterval is overwritten at lines 379, 396, 417 and 537, after an
\* await). There is at most one of them for each click that started while
\* another handler waited: without such clicks one stream runs at most.
StraysBounded ==
    Cardinality({s \in page.running : s.id # page.streamInterval}) <= overlaps

\* What is streamed is shown: a stream of a mode runs under that mode only,
\* the phone's under none.
SendsWhatIsShown ==
    \A s \in page.running :
        /\ page.isPhoneStreaming <=> s.what = Phone
        /\ page.currentMode = IF s.what = Phone THEN Null ELSE s.what

\* What is shown is streamed, under the handle that can stop it.
StreamsWhatIsShown ==
    /\ page.currentMode # Null =>
           [id |-> page.streamInterval, what |-> page.currentMode] \in page.running
    /\ page.isPhoneStreaming =>
           [id |-> page.streamInterval, what |-> Phone] \in page.running

\* Without overlapping clicks, the highlighted button and the stream agree:
\* nothing else is ever sent, and what is shown is sent unless a handler still
\* waits or the last one ended with a rejected request (lines 366 to 374).
ShownAndSentAgree ==
    overlaps = 0 =>
        /\ SendsWhatIsShown
        /\ Waiting = {} /\ ~ failed => StreamsWhatIsShown

\* The sensors are listened to exactly while the phone streams (lines 474 and
\* 534); a handler that is forgotten comes from an overlapping click.
ListensWhileStreaming ==
    /\ page.isPhoneStreaming <=> page.sensorHandler \in page.listeners
    /\ Cardinality(page.listeners \ {page.sensorHandler}) <= overlaps

\* CONNECTED is never shown without a socket that is open, or closing with its
\* onclose still to come (lines 300, 335); as long as no second socket was made
\* beside one that was not closed, it is shown exactly while ws is such a socket.
BadgeTruthful ==
    /\ badge => \E i \in DOMAIN sockets : sockets[i] \in {"open", "closing"}
    /\ ~ doubled =>
          (badge <=> sockets # <<>> /\ sockets[Len(sockets)] \in {"open", "closing"})
=============================================================================
