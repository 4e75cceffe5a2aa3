------------------------------ MODULE Session ------------------------------
(***************************************************************************)
(* What multi-gee promises a program that captures, without how it does it  *)
(* (doc/api.txt, doc/mechanism.txt): a capture waits until it has a set of  *)
(* new images in sync, one of each registered device, and gives it to the   *)
(* callback, again and again, until it has a reason to end.                 *)
(*                                                                         *)
(* An image is its time stamp.  What the promise does not say is left open: *)
(* how long a capture waits, and what becomes of it when the callback has   *)
(* deregistered the device that it stands on.                               *)
(***************************************************************************)
EXTENDS Integers

CONSTANTS
  Dev,         \* the video devices
  TV_IN_SYNC,  \* spread of a set
  TV_NO_SYNC,  \* age of an image
  Requests     \* arguments of mg_capture

VARIABLES
  now,
  device,    \* the registered devices
  seen,      \* last image of a device that the callback was given, or 0
  since,     \* begin of the capture, or time of the last set
  halt,      \* a halt has been requested
  callback,  \* a callback has been registered
  state,     \* "none", "idle", "waiting" for a set, or in the "callback"
  n, count,  \* sets that were asked for, and sets that have been given
  ret,       \* the last answer of mg_capture
  astray     \* the capture has lost its place

program == <<device, halt, callback>>
capture == <<since, n, count, ret, astray>>
vars == <<now, seen, state, program, capture>>

RET_UNDEF    == -6
RET_CALLBACK == -5
RET_SYNC     == -4
RET_DEVICE   == -2
RET_HALT     == -1

Fresh == /\ device = {} /\ halt = FALSE /\ callback = FALSE
         /\ since = 0 /\ n = 0 /\ count = 0 /\ ret = RET_UNDEF /\ astray = FALSE
         /\ seen = [d \in Dev |-> 0]

Init == Fresh /\ state = "none" /\ now = 1

Time == now' = now + 1 /\ UNCHANGED <<seen, state, program, capture>>

-----------------------------------------------------------------------------
(* The program, between captures and in the callback.                      *)

ProgramRuns == state \in {"idle", "callback"}

Create == /\ state = "none" /\ state' = "idle"
          /\ UNCHANGED <<now, seen, program, capture>>

\* mg_destroy; or the program dies, on the way back to where the capture was.
Destroy == /\ state = "idle" \/ (state = "callback" /\ astray)
           /\ state' = "none"
           /\ Fresh'
           /\ UNCHANGED now

RegisterCallback == /\ ProgramRuns
                    /\ callback' = TRUE
                    /\ UNCHANGED <<now, seen, state, device, halt, capture>>

Halt == /\ ProgramRuns
        /\ halt' = TRUE
        /\ UNCHANGED <<now, seen, state, device, callback, capture>>

Register(d) == /\ ProgramRuns
               /\ d \notin device
               /\ device' = device \cup {d}
               /\ UNCHANGED <<now, seen, state, halt, callback, capture>>

Deregister(d) == /\ ProgramRuns
                 /\ d \in device
                 /\ device' = device \ {d}
                 /\ seen' = [seen EXCEPT ![d] = 0]
                 /\ \/ astray' = astray
                    \/ state = "callback" /\ astray' = TRUE
                 /\ UNCHANGED <<now, state, halt, callback, since, n, count, ret>>

Capture(k) == /\ state = "idle" /\ state' = "waiting"
              /\ since' = now
              /\ n' = k /\ count' = 0
              /\ ret' = RET_UNDEF /\ astray' = FALSE
              /\ UNCHANGED <<now, seen, program>>

\* A capture within the capture is refused, but the time begins anew.
Refused == /\ state = "callback"
           /\ since' = now
           /\ UNCHANGED <<now, seen, state, program, n, count, ret, astray>>

-----------------------------------------------------------------------------
(* The capture.                                                            *)

Enough == 0 <= n /\ n <= count

\* A set for the callback: of each registered device an image that is later than
\* the last one given, and not from before the capture or the set before; no
\* image is older than TV_NO_SYNC, nor TV_IN_SYNC apart from another one.  The
\* program has not asked for a halt, and wants one more set.
Deliver ==
  /\ state = "waiting" /\ state' = "callback"
  /\ callback /\ device # {}
  /\ astray \/ (~halt /\ ~Enough)
  /\ seen' \in [Dev -> Nat]
  /\ \A d \in device : /\ seen'[d] > seen[d]
                       /\ seen'[d] \in since .. now
                       /\ now - seen'[d] <= TV_NO_SYNC
                       /\ \A e \in device : seen'[d] - seen'[e] < TV_IN_SYNC
  /\ \A d \in Dev \ device : seen'[d] = seen[d]
  /\ since' = now
  /\ UNCHANGED <<now, program, n, count, ret, astray>>

Return == /\ state = "callback" /\ state' = "waiting"
          /\ count' = count + 1
          /\ UNCHANGED <<now, seen, program, since, n, ret, astray>>

\* What mg_capture answers: the first of these reasons to end that there is.
Answer ==
  /\ state = "waiting" /\ state' = "idle"
  /\ \/ ~callback /\ ret' = RET_CALLBACK
     \/ callback /\ halt /\ ret' = RET_HALT
     \/ callback /\ ~halt /\ device = {} /\ ret' = RET_DEVICE
     \/ callback /\ ~halt /\ device # {} /\ Enough /\ ret' = count
     \/ callback /\ ~halt /\ device # {} /\ ~Enough /\ ret' = RET_SYNC
  /\ n' = 0 /\ count' = 0
  /\ UNCHANGED <<now, seen, program, since, astray>>

-----------------------------------------------------------------------------
Next == \/ Time \/ Create \/ Destroy \/ RegisterCallback \/ Halt \/ Refused
        \/ \E d \in Dev : Register(d) \/ Deregister(d)
        \/ \E k \in Requests : Capture(k)
        \/ Deliver \/ Return \/ Answer

Spec == Init /\ [][Next]_vars

=============================================================================
