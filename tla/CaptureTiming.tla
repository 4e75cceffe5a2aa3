--------------------------- MODULE CaptureTiming ---------------------------
(***************************************************************************)
(* How long mg_capture can go on without calling the callback: the loop of  *)
(* multi-gee/multi-gee.c against cameras that may fall silent at any time,   *)
(* and signals that interrupt select().                                    *)
(*                                                                         *)
(* The loop is that of MultiGee, for an endless capture of a fixed set of   *)
(* devices, without failing system calls.  Here time does not end: instead  *)
(* of the time stamp of an image, its age is kept, and an age beyond which  *)
(* no comparison can tell a difference does not grow any more.              *)
(*                                                                         *)
(* Time passes while the library waits in select and while the program runs.*)
(* What the library computes in between takes none.  The order of the frame *)
(* list is left open: any frame may be its head.                           *)
(***************************************************************************)
EXTENDS Integers, Sequences

CONSTANTS
  Dev,         \* the registered devices
  NumBufs,     \* buffers of a device
  TV_IN_SYNC,
  TV_NO_SYNC,
  SignalGap    \* least time between two signals, or 0 if there are none

ASSUME BufsAssumption == NumBufs \in Nat \ {0, 1}
ASSUME TimeAssumption == TV_IN_SYNC \in Nat /\ TV_NO_SYNC \in Nat \ {0}

\* Signals come in intervals that are longer than the timeout of select: were
\* they not, a capture without images could go on for ever.
ASSUME SignalAssumption ==
  SignalGap \in Nat /\ (SignalGap = 0 \/ SignalGap > TV_NO_SYNC)

VARIABLES
  pending,  \* ages of the images that wait in the driver's queue, oldest first
  frame,    \* the frame list
  since,    \* time since last_sync
  halt,
  pc,
  sync,
  waited,   \* time that select has waited since it was last called
  todo,     \* devices that the loop of capture_frameset has yet to visit
  signal,   \* time since the last signal
  quiet     \* history: time since the program was last in control

vars == <<pending, frame, since, halt, pc, sync, waited, todo, signal, quiet>>

\* Two images that are both older than that compare alike with last_sync, and
\* with every image that is not stale.
Oldest == 2 * TV_NO_SYNC + 1

\* The longest silence: a test that is just in time, and a select that times
\* out, of which the time counts twice when it is interrupted at the last moment.
MaxSilence == IF SignalGap = 0 THEN 2 * TV_NO_SYNC ELSE 3 * TV_NO_SYNC

Frame == [age : 0 .. Oldest, used : BOOLEAN, held : BOOLEAN]

TypeOK ==
  /\ DOMAIN pending = Dev
  /\ \A d \in Dev : /\ Len(pending[d]) <= NumBufs
                    /\ \A k \in DOMAIN pending[d] : pending[d][k] \in 0 .. Oldest
  /\ frame \in [Dev -> Frame]
  /\ since \in 0 .. TV_NO_SYNC + 1
  /\ halt \in BOOLEAN
  /\ pc \in {"idle", "loop", "select", "scan", "callback"}
  /\ sync \in {"SYNC_OK", "SYNC_FAIL", "SYNC_FATAL"}
  /\ waited \in 0 .. TV_NO_SYNC
  /\ todo \subseteq Dev
  /\ signal \in 0 .. SignalGap
  /\ quiet \in 0 .. MaxSilence + 1

\* The devices have been registered, a while before or just now.
Init ==
  /\ pending = [d \in Dev |-> <<>>]
  /\ \E a \in 0 .. Oldest :
       frame = [d \in Dev |-> [age |-> a, used |-> TRUE, held |-> FALSE]]
  /\ since = 0 /\ halt = FALSE
  /\ pc = "idle" /\ sync = "SYNC_OK" /\ waited = 0 /\ todo = {}
  /\ signal = SignalGap
  /\ quiet = 0

-----------------------------------------------------------------------------
(* Time, the cameras, and the program.                                     *)

Readable == {d \in Dev : pending[d] # <<>>}

\* Mutant: select is called without a timeout.
WaitingForEver == pc = "select" /\ Readable = {}

\* select has nothing to report yet.
Waiting == pc = "select" /\ Readable = {} /\ waited < TV_NO_SYNC

UserRuns == pc \in {"idle", "callback"}

Later(t, limit) == IF t < limit THEN t + 1 ELSE t

Tick ==
  /\ Waiting \/ UserRuns
  /\ pending' = [d \in Dev |-> [k \in DOMAIN pending[d] |->
                                  Later(pending[d][k], Oldest)]]
  /\ frame' = [d \in Dev |-> [frame[d] EXCEPT !.age = Later(@, Oldest)]]
  /\ since' = Later(since, TV_NO_SYNC + 1)
  /\ waited' = IF pc = "select" THEN waited + 1 ELSE waited
  /\ signal' = Later(signal, SignalGap)
  /\ quiet' = IF UserRuns THEN 0 ELSE Later(quiet, MaxSilence + 1)
  /\ UNCHANGED <<halt, pc, sync, todo>>

\* The driver has a buffer left for an image, and a frame period is longer than
\* the unit of time.
Exposure(d) ==
  /\ Len(pending[d]) + (IF frame[d].held THEN 1 ELSE 0) < NumBufs
  /\ frame[d].held => frame[d].age > 0
  /\ \A k \in DOMAIN pending[d] : pending[d][k] > 0
  /\ pending' = [pending EXCEPT ![d] = Append(@, 0)]
  /\ UNCHANGED <<frame, since, halt, pc, sync, waited, todo, signal, quiet>>

MgCaptureHalt ==
  /\ UserRuns
  /\ halt' = TRUE
  /\ UNCHANGED <<pending, frame, since, pc, sync, waited, todo, signal, quiet>>

MgCapture ==
  /\ pc = "idle" /\ pc' = "loop"
  /\ since' = 0 /\ sync' = "SYNC_OK"
  /\ quiet' = 0
  /\ UNCHANGED <<pending, frame, halt, waited, todo, signal>>

-----------------------------------------------------------------------------
(* mg_capture and sync_select.                                             *)

\* Mutant: mg_capture_halt is seen when the synchronisation is lost only.
DoneWhenLost == sync = "SYNC_FATAL"

Done == halt \/ sync = "SYNC_FATAL"

CaptureReturns ==
  /\ pc = "loop" /\ pc' = "idle"
  /\ Done
  /\ UNCHANGED <<pending, frame, since, halt, sync, waited, todo, signal, quiet>>

Select ==
  /\ pc = "loop" /\ pc' = "select"
  /\ ~Done
  /\ sync' = "SYNC_FAIL"
  /\ waited' = 0
  /\ UNCHANGED <<pending, frame, since, halt, todo, signal, quiet>>

SelectReady ==
  /\ pc = "select" /\ pc' = "scan"
  /\ Readable # {}
  /\ todo' = Readable
  /\ waited' = 0
  /\ UNCHANGED <<pending, frame, since, halt, sync, signal, quiet>>

\* Mutant: a timeout is not fatal.
StatusAfterNothing == "SYNC_FAIL"

StatusAfterTimeout == "SYNC_FATAL"

SelectTimeout ==
  /\ pc = "select" /\ pc' = "scan"
  /\ Readable = {} /\ waited = TV_NO_SYNC
  /\ sync' = StatusAfterTimeout
  /\ waited' = 0
  /\ UNCHANGED <<pending, frame, since, halt, todo, signal, quiet>>

\* EINTR: select is called again, with the whole timeout.
SelectInterrupted ==
  /\ SignalGap > 0 /\ signal = SignalGap
  /\ pc = "select"
  /\ signal' = 0
  /\ waited' = 0
  /\ UNCHANGED <<pending, frame, since, halt, pc, sync, todo, quiet>>

-----------------------------------------------------------------------------
(* capture_frameset: swap_frame and sync_test for a readable device.       *)

Visits(d) == pc = "scan" /\ d \in todo

\* The frame list and the queues after swap_frame.
Swapped(d) ==
  [frame EXCEPT ![d] = [age |-> Head(pending[d]), used |-> FALSE, held |-> TRUE]]
Fetched(d) == [pending EXCEPT ![d] = Tail(@)]

\* Mutant: the time since the last set is not looked at.
NeverTooLong == FALSE

TooLong == since > TV_NO_SYNC

\* Of the frame list f with the head h.
Stale(f, d) == f[d].age > since
Aged(f) == [d \in Dev |-> [f[d] EXCEPT !.used = @ \/ Stale(f, d)]]
Measured(f, h) == {h} \cup {d \in Dev : ~Stale(f, d)}
SpreadBelow(f, h, limit) ==
  \A d, e \in Measured(f, h) : f[d].age - f[e].age < limit
InSync(f, h) == /\ \A d \in Dev : ~Aged(f)[d].used
                /\ SpreadBelow(f, h, TV_IN_SYNC)
Lost(f, h) == \E d, e \in Measured(f, h) : f[d].age - f[e].age > TV_NO_SYNC

\* In sync: the callback is called.
Delivers(d) ==
  /\ Visits(d) /\ ~TooLong
  /\ \E h \in Dev : InSync(Swapped(d), h)
  /\ frame' = [e \in Dev |-> [Swapped(d)[e] EXCEPT !.used = TRUE]]
  /\ pending' = Fetched(d) /\ todo' = todo \ {d}
  /\ since' = 0 /\ sync' = "SYNC_OK"
  /\ pc' = "callback" /\ quiet' = 0
  /\ UNCHANGED <<halt, waited, signal>>

\* Fatal: no sync for too long, or frames too far apart.
GivesUp(d) ==
  /\ Visits(d)
  /\ \/ TooLong /\ frame' = Swapped(d)
     \/ /\ ~TooLong /\ frame' = Aged(Swapped(d))
        /\ \E h \in Dev : ~InSync(Swapped(d), h) /\ Lost(Swapped(d), h)
  /\ pending' = Fetched(d) /\ todo' = {}
  /\ sync' = "SYNC_FATAL"
  /\ UNCHANGED <<since, halt, pc, waited, signal, quiet>>

\* Not in sync yet.
GoesOn(d) ==
  /\ Visits(d) /\ ~TooLong
  /\ \E h \in Dev : ~InSync(Swapped(d), h) /\ ~Lost(Swapped(d), h)
  /\ frame' = Aged(Swapped(d))
  /\ pending' = Fetched(d) /\ todo' = todo \ {d}
  /\ sync' = "SYNC_FAIL"
  /\ UNCHANGED <<since, halt, pc, waited, signal, quiet>>

CallbackReturns ==
  /\ pc = "callback" /\ pc' = "scan"
  /\ UNCHANGED <<pending, frame, since, halt, sync, waited, todo, signal, quiet>>

ScanEnds ==
  /\ pc = "scan" /\ pc' = "loop"
  /\ todo = {}
  /\ UNCHANGED <<pending, frame, since, halt, sync, waited, todo, signal, quiet>>

-----------------------------------------------------------------------------
Library ==
  \/ CaptureReturns \/ Select \/ SelectReady \/ SelectTimeout \/ ScanEnds
  \/ \E d \in Dev : Delivers(d) \/ GivesUp(d) \/ GoesOn(d)

Next == \/ Tick \/ MgCaptureHalt \/ MgCapture \/ SelectInterrupted
        \/ \E d \in Dev : Exposure(d)
        \/ Library \/ CallbackReturns

\* Time goes on, the library takes its steps, and the callback returns.  No
\* camera need deliver anything, and no signal need come.
Spec == /\ Init /\ [][Next]_vars
        /\ WF_vars(Tick) /\ WF_vars(Library) /\ WF_vars(CallbackReturns)

-----------------------------------------------------------------------------
(* Properties.                                                             *)

\* A capture never keeps the program waiting for longer than that, neither when
\* all the cameras are silent nor when some of them deliver for ever what never
\* makes a set.
SilenceBounded == quiet <= MaxSilence

\* A capture always comes to its next callback, or returns.
CaptureGoesOn == pc \in {"loop", "select", "scan"} ~> UserRuns

\* After mg_capture_halt the capture in progress returns, although the cameras
\* go on delivering.
HaltEnds == halt ~> pc = "idle"

=============================================================================
