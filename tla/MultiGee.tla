------------------------------ MODULE MultiGee ------------------------------
(***************************************************************************)
(* The multi_gee object of multi-gee/multi-gee.c: registration of capture  *)
(* devices, the capture loop of mg_capture, and the synchronisation test   *)
(* that decides when the user's callback is called with one frame of every *)
(* device.                                                                 *)
(*                                                                         *)
(* Three actors interleave.  The library is sequential, and advances       *)
(* through the program counter `pc'.  The user's program calls it between  *)
(* captures (pc = "idle") and from within the callback (pc = "callback").  *)
(* The drivers capture images, and time passes, at any moment.             *)
(*                                                                         *)
(* Abstractions.  An image is its time stamp.  Times are natural numbers   *)
(* counted from before the program starts, so that 0 is earlier than every *)
(* time stamp.  The device list and the frame list are sets: sllist does   *)
(* not promise an order, and only two facts about the order matter here,   *)
(* both fixed by InsertAtHead (see there).  A second mg_capture within the *)
(* callback is modelled up to its rejection (RET_BUSY).                    *)
(***************************************************************************)
EXTENDS Integers, V4L2

CONSTANTS
  Dev,           \* the video devices of the machine
  NoDev,         \* no device
  NoBuf,         \* the buffer index -1 of a dummy frame
  Fds,           \* file descriptor numbers open() can return
  TV_IN_SYNC,    \* spread of time stamps below which frames are in sync
  TV_NO_SYNC,    \* time without sync above which capturing fails
  Requests,      \* arguments of mg_capture that the program uses
  InsertAtHead,  \* does sllist_insert_data insert at the head of a list?
  MaxTime,       \* bound: the clock stops here
  MaxFaults      \* bound: number of system calls that fail or are interrupted

ASSUME BufAssumption == NoBuf \notin Buf
ASSUME DevAssumption == NoDev \notin Dev
ASSUME FdAssumption == Fds \subseteq Nat
ASSUME TimeAssumption == /\ TV_IN_SYNC \in Nat
                         /\ TV_NO_SYNC \in Nat
                         /\ MaxTime \in Nat
ASSUME RequestAssumption == Requests \subseteq Int
ASSUME OrderAssumption == InsertAtHead \in BOOLEAN
ASSUME FaultAssumption == MaxFaults \in Nat

VARIABLES
  \* the world
  now,        \* gettimeofday
  bufs,       \* the driver's buffer queue of every device
  faults,     \* system calls that have failed so far
  \* the multi_gee object
  device,     \* the device list
  fd,         \* file descriptor of every device, -1 when it is not open
  frame,      \* the frame list, by device
  last_sync,
  busy,
  halt,
  callback,   \* has a callback been registered?
  \* the activation of mg_capture, capture_frameset, swap_frame and sync_test
  pc,
  n, count, sync, ret,
  fds,        \* the fd_set
  deadline,   \* when the select() in progress times out
  todo,       \* devices the loop of capture_frameset has yet to visit
  cur,        \* device the loop is visiting
  \* history, which the code does not keep
  seen,       \* time stamp of the last image of a device given to the user
  lost,       \* buffers of a device that a failed VIDIOC_QBUF left nowhere
  calls,      \* callbacks made by the capture_frameset in progress
  dangled     \* the list node being visited has been freed during the capture

world   == <<now, bufs, faults>>
object  == <<device, fd, frame, last_sync, busy, halt, callback>>
call    == <<pc, n, count, sync, ret, fds, deadline, todo, cur>>
history == <<seen, lost, calls, dangled>>
vars    == <<world, object, call, history>>

-----------------------------------------------------------------------------
(* Return values of mg_capture, and the types of the state.                *)

RET_UNDEF    == -6
RET_CALLBACK == -5
RET_SYNC     == -4
RET_DEVICE   == -2
RET_HALT     == -1

SyncStatus == {"SYNC_FATAL", "SYNC_OK", "SYNC_FAIL"}

Frame == [index : Buf \cup {NoBuf}, ts : Nat, used : BOOLEAN]

\* Mutant: the frame is stamped when it is fetched, not when it was captured.
CapturedFrameStampedLate(b, t) == [index |-> b, ts |-> now, used |-> FALSE]

\* mg_frame_create with and without a captured image.
CapturedFrame(b, t) == [index |-> b, ts |-> t, used |-> FALSE]
DummyFrame(t) == [index |-> NoBuf, ts |-> t, used |-> TRUE]

PC == {"none", "idle", "loop", "select", "scan", "test", "callback"}

WorldType == /\ now \in Nat
             /\ bufs \in [Dev -> Queue]
             /\ faults \in Nat

ObjectType == /\ device \subseteq Dev
              /\ fd \in [Dev -> Fds \cup {-1}]
              /\ frame \in [device -> Frame]
              /\ last_sync \in Nat
              /\ busy \in BOOLEAN /\ halt \in BOOLEAN /\ callback \in BOOLEAN

CallType == /\ pc \in PC
            /\ n \in Int /\ count \in Nat /\ ret \in Int
            /\ sync \in SyncStatus
            /\ fds \subseteq Fds /\ deadline \in Nat
            /\ todo \subseteq device /\ cur \in Dev \cup {NoDev}

HistoryType == /\ seen \in [Dev -> Nat]
               /\ lost \in [Dev -> SUBSET Buf]
               /\ calls \in Nat /\ dangled \in BOOLEAN

\* Every variable has its type; in particular the frame list has exactly one
\* frame for each device of the device list, and the loop of capture_frameset
\* has only registered devices ahead of it.
TypeOK == WorldType /\ ObjectType /\ CallType /\ HistoryType

NoFrames == [d \in {} |-> DummyFrame(0)]
NotOpen == [d \in Dev |-> -1]

\* There is no multi_gee object, and the process has no device open.
Init ==
  /\ now = 1 /\ faults = 0
  /\ bufs = [d \in Dev |-> Closed]
  /\ device = {} /\ fd = NotOpen /\ frame = NoFrames /\ last_sync = 0
  /\ busy = FALSE /\ halt = FALSE /\ callback = FALSE
  /\ pc = "none"
  /\ n = 0 /\ count = 0 /\ sync = "SYNC_OK" /\ ret = RET_UNDEF
  /\ fds = {} /\ deadline = 0 /\ todo = {} /\ cur = NoDev
  /\ seen = [d \in Dev |-> 0] /\ lost = [d \in Dev |-> {}]
  /\ calls = 0 /\ dangled = FALSE

\* The object is freed, and every device closed.
Gone ==
  /\ bufs' = [d \in Dev |-> Closed]
  /\ device' = {} /\ fd' = NotOpen /\ frame' = NoFrames /\ last_sync' = 0
  /\ busy' = FALSE /\ halt' = FALSE /\ callback' = FALSE
  /\ pc' = "none"
  /\ n' = 0 /\ count' = 0 /\ sync' = "SYNC_OK" /\ ret' = RET_UNDEF
  /\ fds' = {} /\ deadline' = 0 /\ todo' = {} /\ cur' = NoDev
  /\ seen' = [d \in Dev |-> 0] /\ lost' = [d \in Dev |-> {}]
  /\ calls' = 0 /\ dangled' = FALSE
  /\ UNCHANGED <<now, faults>>

-----------------------------------------------------------------------------
(* The drivers and the clock.                                              *)

Tick == /\ now < MaxTime
        /\ now' = now + 1
        /\ UNCHANGED <<bufs, faults, object, call, history>>

\* The driver of a streaming device completes an image.
Exposure(d) ==
  \E b \in Buf :
    /\ CanFill(bufs[d], b, now)
    /\ bufs' = [bufs EXCEPT ![d] = Filled(@, b, now)]
    /\ UNCHANGED <<now, faults, object, call, history>>

\* A system call fails or is interrupted.
Fault == faults < MaxFaults /\ faults' = faults + 1

-----------------------------------------------------------------------------
(* What the user's program calls, between captures and in the callback.    *)

UserRuns == pc \in {"idle", "callback"}

MgCreate == /\ pc = "none" /\ pc' = "idle"
            /\ UNCHANGED <<world, object, history,
                           n, count, sync, ret, fds, deadline, todo, cur>>

\* Every device is deregistered and the object is freed.
MgDestroy == pc = "idle" /\ Gone

MgRegisterCallback ==
  /\ UserRuns
  /\ callback' = TRUE
  /\ UNCHANGED <<world, call, history,
                 device, fd, frame, last_sync, busy, halt>>

MgCaptureHalt ==
  /\ UserRuns
  /\ halt' = TRUE
  /\ UNCHANGED <<world, call, history,
                 device, fd, frame, last_sync, busy, callback>>

\* Mutant: the frames of deregistered devices stay in the list.
AddFrameNeverPrunes(list, devices) ==
  [d \in devices \cup DOMAIN list |->
     IF d \in DOMAIN list THEN list[d] ELSE DummyFrame(now)]

\* add_frame: keep the frames of the listed devices, give the others a dummy.
AddFrame(list, devices) ==
  [d \in devices |-> IF d \in DOMAIN list THEN list[d] ELSE DummyFrame(now)]

\* open() returns the lowest descriptor that is not in use.
FreeFds == Fds \ {fd[d] : d \in Dev}
Opens(f) == f \in FreeFds /\ \A g \in FreeFds : f <= g

\* Appended to the device list during the callback, a device is still ahead of
\* the loop of capture_frameset; inserted at its head it is not.
Joins(d) == IF pc = "callback" /\ ~InsertAtHead THEN {d} ELSE {}

\* mg_register_device of a device that is not registered yet and that can be
\* set up.  fg_start_capture ignores the buffers that it fails to enqueue.  A
\* registration that fails, or finds the device registered, leaves this state
\* as it is.
MgRegisterDevice(d) ==
  /\ UserRuns
  /\ d \notin device
  /\ device' = device \cup {d}
  /\ frame' = AddFrame(frame, device')
  /\ todo' = todo \cup Joins(d)
  /\ \E f \in Fds : Opens(f) /\ fd' = [fd EXCEPT ![d] = f]
  /\ \E Q \in SUBSET Buf :
       /\ bufs' = [bufs EXCEPT ![d] = Started(Q, now)]
       /\ lost' = [lost EXCEPT ![d] = Buf \ Q]
       /\ \/ Q = Buf /\ UNCHANGED faults
          \/ Q # Buf /\ Fault
  /\ UNCHANGED <<now, last_sync, busy, halt, callback, pc, n, count, sync, ret,
                 fds, deadline, cur, seen, calls, dangled>>

\* mg_deregister_device: the device leaves both lists, its stream is stopped
\* and its descriptor closed.
MgDeregisterDevice(d) ==
  /\ UserRuns
  /\ d \in device
  /\ device' = device \ {d}
  /\ frame' = AddFrame(frame, device')
  /\ fd' = [fd EXCEPT ![d] = -1]
  /\ bufs' = [bufs EXCEPT ![d] = Closed]
  /\ todo' = todo \ {d}
  /\ seen' = [seen EXCEPT ![d] = 0]
  /\ lost' = [lost EXCEPT ![d] = {}]
  /\ dangled' = (dangled \/ d = cur)
  /\ UNCHANGED <<now, faults, last_sync, busy, halt, callback, pc, n, count,
                 sync, ret, fds, deadline, cur, calls>>

\* mg_capture up to its loop.
MgCapture(k) ==
  /\ pc = "idle" /\ pc' = "loop"
  /\ busy' = TRUE
  /\ last_sync' = now
  /\ n' = k /\ count' = 0 /\ sync' = "SYNC_OK" /\ ret' = RET_UNDEF
  /\ calls' = 0 /\ dangled' = FALSE
  /\ UNCHANGED <<world, device, fd, frame, halt, callback,
                 fds, deadline, todo, cur, seen, lost>>

\* mg_capture called from the callback while busy: it is refused with RET_BUSY,
\* and yet runs through the two assignments outside the refusal.
NestedCapture ==
  /\ pc = "callback" /\ busy
  /\ last_sync' = now
  /\ busy' = FALSE
  /\ UNCHANGED <<world, call, history, device, fd, frame, halt, callback>>

-----------------------------------------------------------------------------
(* mg_capture: one reason to be done, or one more capture_frameset.        *)

\* Mutant: one set too many.
EnoughOffByOne == 0 <= n /\ n < count

\* The sets that were asked for have been given to the callback.
Enough == 0 <= n /\ n <= count

\* Mutant: the count is looked at before the halt.
ReasonHaltLate == IF ~callback THEN RET_CALLBACK
                  ELSE IF device = {} THEN RET_DEVICE
                  ELSE IF Enough THEN count
                  ELSE IF halt THEN RET_HALT
                  ELSE IF sync = "SYNC_FATAL" THEN RET_SYNC
                  ELSE RET_UNDEF

\* RET_UNDEF stands for "not done yet".
Reason == IF ~callback THEN RET_CALLBACK
          ELSE IF halt THEN RET_HALT
          ELSE IF device = {} THEN RET_DEVICE
          ELSE IF Enough THEN count
          ELSE IF sync = "SYNC_FATAL" THEN RET_SYNC
          ELSE RET_UNDEF

CaptureReturns ==
  /\ pc = "loop" /\ pc' = "idle"
  /\ Reason # RET_UNDEF
  /\ ret' = Reason
  /\ busy' = FALSE
  /\ n' = 0 /\ count' = 0 /\ sync' = "SYNC_OK" /\ calls' = 0
  /\ UNCHANGED <<world, device, fd, frame, last_sync, halt, callback,
                 fds, deadline, todo, cur, seen, lost, dangled>>

\* capture_frameset and sync_select up to the call of select.
Select ==
  /\ pc = "loop" /\ pc' = "select"
  /\ Reason = RET_UNDEF
  /\ sync' = "SYNC_FAIL"
  /\ deadline' = now + TV_NO_SYNC
  /\ todo' = device
  /\ calls' = 0
  /\ UNCHANGED <<world, object, n, count, ret, fds, cur, seen, lost, dangled>>

FdsOf(devices) == {fd[d] : d \in devices}
ReadableFds == FdsOf({d \in device : Readable(bufs[d])})

SelectReturns(set, status) ==
  /\ pc = "select" /\ pc' = "scan"
  /\ fds' = set /\ sync' = status
  /\ deadline' = 0
  /\ UNCHANGED <<now, bufs, object, history, n, count, ret, todo, cur>>

SelectReady == /\ ReadableFds # {}
               /\ SelectReturns(ReadableFds, "SYNC_FAIL")
               /\ UNCHANGED faults

SelectTimeout == /\ ReadableFds = {}
                 /\ now >= deadline
                 /\ SelectReturns({}, "SYNC_FATAL")
                 /\ UNCHANGED faults

\* On an error select leaves the set as it was, with a bit for every device.
SelectError == Fault /\ SelectReturns(FdsOf(device), "SYNC_FATAL")

\* EINTR: sync_select starts over with the whole timeout.
SelectInterrupted ==
  /\ pc = "select"
  /\ Fault
  /\ deadline' = now + TV_NO_SYNC
  /\ UNCHANGED <<now, bufs, object, history,
                 pc, n, count, sync, ret, fds, todo, cur>>

-----------------------------------------------------------------------------
(* capture_frameset: the loop over the devices, and swap_frame.            *)

\* The loop visits the device d, whose bit in the fd_set is on.
Visits(d) == pc = "scan" /\ d \in todo /\ fd[d] \in fds

\* The locals of capture_frameset go out of scope.
EndPass == pc' = "loop" /\ todo' = {} /\ fds' = {} /\ cur' = NoDev

ScanEnds == /\ pc = "scan"
            /\ \A d \in todo : fd[d] \notin fds
            /\ EndPass
            /\ UNCHANGED <<world, object, history, n, count, sync, ret, deadline>>

\* Mutant: the replaced buffer is not given back.
RecycledNever(q, index) == q

\* swap_frame returns the buffer of the frame it replaces, if there is one.
Recycled(q, index) == IF index = NoBuf THEN q ELSE Enqueued(q, index)

SwapFrame(d) ==
  /\ Visits(d)
  /\ \E b \in Buf :
       /\ Oldest(bufs[d], b)
       /\ bufs' = [bufs EXCEPT ![d] = Recycled(Dequeued(@, b), frame[d].index)]
       /\ frame' = [frame EXCEPT ![d] = CapturedFrame(b, bufs[d][b].ts)]
  /\ pc' = "test" /\ cur' = d /\ todo' = todo \ {d}
  /\ UNCHANGED <<now, faults, device, fd, last_sync, busy, halt, callback,
                 n, count, sync, ret, fds, deadline, history>>

\* VIDIOC_DQBUF fails: there is no image (EAGAIN), or an error (EIO).
DqbufFails(d) ==
  /\ Visits(d)
  /\ \/ ~Readable(bufs[d]) /\ UNCHANGED faults
     \/ Fault
  /\ sync' = "SYNC_FATAL" /\ EndPass
  /\ UNCHANGED <<now, bufs, object, history, n, count, ret, deadline>>

\* VIDIOC_QBUF of the old buffer fails after the new one has been dequeued:
\* the old frame stays, and nothing refers to the new buffer any more.
QbufFails(d) ==
  /\ Visits(d)
  /\ frame[d].index # NoBuf
  /\ Fault
  /\ \E b \in Buf :
       /\ Oldest(bufs[d], b)
       /\ bufs' = [bufs EXCEPT ![d] = Dequeued(@, b)]
       /\ lost' = [lost EXCEPT ![d] = @ \cup {b}]
  /\ sync' = "SYNC_FATAL" /\ EndPass
  /\ UNCHANGED <<now, object, n, count, ret, deadline, seen, calls, dangled>>

-----------------------------------------------------------------------------
(* sync_test, and the call of the callback.                                *)

TooLong == now - last_sync > TV_NO_SYNC

\* Mutant: images from before the last synchronised set are let through.
StaleNever(d) == FALSE

\* A frame older than the previous synchronised set is out of the running.
Stale(d) == frame[d].ts < last_sync
Aged == [d \in device |-> [frame[d] EXCEPT !.used = @ \/ Stale(d)]]
Ready == \A d \in device : ~Aged[d].used

\* The head h of the frame list.  swap_frame has just inserted the frame of cur,
\* at the head of the list or at its end.
Heads == IF InsertAtHead THEN {cur}
         ELSE {h \in device : h = cur => device = {cur}}

\* The time stamps between which sync_test takes the spread: those that are not
\* stale, and that of the head of the list, which initialises both extremes.
Measured(h) == {h} \cup {d \in device : ~Stale(d)}

\* Mutant: the bound is included.
SpreadUpTo(h, limit) ==
  \A d, e \in Measured(h) : frame[d].ts - frame[e].ts <= limit

\* tv_max - tv_min < limit, and tv_max - tv_min > limit.
SpreadBelow(h, limit) ==
  \A d, e \in Measured(h) : frame[d].ts - frame[e].ts < limit
SpreadAbove(h, limit) ==
  \E d, e \in Measured(h) : frame[d].ts - frame[e].ts > limit

\* Mutant: the frames are not marked as used.
UsedForgotten(list) == list

\* All the frames of the list have been shown.
Used(list) == [d \in DOMAIN list |-> [list[d] EXCEPT !.used = TRUE]]

InSync(h) == Ready /\ SpreadBelow(h, TV_IN_SYNC)

\* No sync for too long: fatal, whatever the frames are.
SyncTooLong ==
  /\ pc = "test"
  /\ TooLong
  /\ sync' = "SYNC_FATAL" /\ EndPass
  /\ UNCHANGED <<world, object, history, n, count, ret, deadline>>

\* In sync: the callback is called, with the frame list.
SyncOk ==
  /\ pc = "test" /\ pc' = "callback"
  /\ ~TooLong
  /\ \E h \in Heads : InSync(h)
  /\ frame' = Used(frame)
  /\ last_sync' = now
  /\ sync' = "SYNC_OK"
  /\ seen' = [d \in Dev |-> IF d \in device THEN frame[d].ts ELSE seen[d]]
  /\ calls' = calls + 1
  /\ UNCHANGED <<world, device, fd, busy, halt, callback, n, count, ret, fds,
                 deadline, todo, cur, lost, dangled>>

\* Out of sync by more than TV_NO_SYNC: fatal.
SyncLost ==
  /\ pc = "test"
  /\ ~TooLong
  /\ \E h \in Heads : ~InSync(h) /\ SpreadAbove(h, TV_NO_SYNC)
  /\ frame' = Aged
  /\ sync' = "SYNC_FATAL" /\ EndPass
  /\ UNCHANGED <<world, device, fd, last_sync, busy, halt, callback, history,
                 n, count, ret, deadline>>

\* Not in sync yet: on to the next device.
SyncNotYet ==
  /\ pc = "test" /\ pc' = "scan"
  /\ ~TooLong
  /\ \E h \in Heads : ~InSync(h) /\ ~SpreadAbove(h, TV_NO_SYNC)
  /\ frame' = Aged
  /\ sync' = "SYNC_FAIL"
  /\ cur' = NoDev
  /\ UNCHANGED <<world, device, fd, last_sync, busy, halt, callback, history,
                 n, count, ret, fds, deadline, todo>>

\* The callback returns, and the loop moves on.  When it has freed the node
\* being visited, sllist_next reads memory that is no longer the list's: it
\* finds the rest of the list, or its end, or the program dies.
CallbackReturns ==
  /\ pc = "callback" /\ pc' = "scan"
  /\ count' = count + 1
  /\ \/ todo' = todo
     \/ dangled /\ todo' = {}
  /\ cur' = NoDev
  /\ UNCHANGED <<world, object, history, n, sync, ret, fds, deadline>>

ProgramDies == pc = "callback" /\ dangled /\ Gone

-----------------------------------------------------------------------------
World == Tick \/ \E d \in Dev : Exposure(d)

User == \/ MgCreate \/ MgDestroy
        \/ MgRegisterCallback \/ MgCaptureHalt \/ NestedCapture
        \/ \E d \in Dev : MgRegisterDevice(d) \/ MgDeregisterDevice(d)
        \/ \E k \in Requests : MgCapture(k)

Library ==
  \/ CaptureReturns
  \/ Select \/ SelectReady \/ SelectTimeout \/ SelectError \/ SelectInterrupted
  \/ ScanEnds \/ SyncTooLong \/ SyncOk \/ SyncLost \/ SyncNotYet
  \/ CallbackReturns \/ ProgramDies
  \/ \E d \in Dev : SwapFrame(d) \/ DqbufFails(d) \/ QbufFails(d)

\* The clock is bounded, and a select that waits for it to go on stays put.
EndOfTime == now = MaxTime /\ pc = "select" /\ UNCHANGED vars

Next == World \/ User \/ Library \/ EndOfTime

Spec == Init /\ [][Next]_vars

-----------------------------------------------------------------------------
(* Properties.                                                             *)

Capturing == pc \in {"loop", "select", "scan", "test", "callback"}

\* sync_test has decided to call the callback.
Delivers == pc = "test" /\ pc' = "callback"

\* The buffers that the frame list refers to.
Held(d) == {frame[d].index} \ {NoBuf}

\* A buffer of a registered device is with the process exactly when the frame
\* of the device refers to it or a failed VIDIOC_QBUF has lost it, never both:
\* swap_frame gives back as many buffers as it takes.
BufferAccounting ==
  \A d \in device : /\ App(bufs[d]) = Held(d) \cup lost[d]
                    /\ Held(d) \cap lost[d] = {}

\* The image the user reaches through a frame is the one the frame is stamped
\* with, and the driver is not writing to it: no frame outlives its buffer.
FrameHoldsImage ==
  \A d \in device : \A b \in Held(d) :
    bufs[d][b] = [at |-> "app", ts |-> frame[d].ts]

\* A set given to the callback has an image of every registered device, no two
\* of them TV_IN_SYNC or more apart, and none captured longer ago than
\* TV_NO_SYNC: the stale head that takes part in the spread, and the dummy
\* frames, do not get through.
DeliverySynced ==
  [][Delivers =>
       \A d \in device :
         /\ frame[d].index # NoBuf
         /\ now - frame[d].ts <= TV_NO_SYNC
         /\ \A e \in device : frame[d].ts - frame[e].ts < TV_IN_SYNC]_vars

\* No image is given to the user twice, nor after a later one of its device,
\* and none dates from before the capture or the synchronised set before it.
DeliveryFresh ==
  [][Delivers => \A d \in device : /\ frame[d].ts > seen[d]
                                   /\ frame[d].ts >= last_sync]_vars

\* capture_frameset calls the callback at most once, whatever the callback
\* registers and deregisters, as long as the loop stands on a living node.
OneCallbackPerPass == ~dangled => calls <= 1

\* mg_capture(n) that succeeds has made n callbacks, never one more.
ReturnsCount ==
  [][pc = "loop" /\ pc' = "idle" /\ ret' >= 0 /\ ~dangled => ret' = n]_vars

\* After mg_capture_halt the callback is not called again: neither by the rest
\* of the loop that is visiting the devices, nor by a later pass.
HaltIsFinal == [][Delivers /\ ~dangled => ~halt]_vars

(* The abstract specification.                                             *)

Promise == INSTANCE Session
  WITH since <- last_sync,
       state <- IF pc \in {"none", "idle", "callback"} THEN pc ELSE "waiting",
       astray <- dangled

\* The library keeps its promise to the program, whatever fails on the way: what
\* it gives to the callback, in which order and how often, and what mg_capture
\* answers when several reasons to end have come together.
ImplementsSession == Promise!Spec

(* What the documents say, and the code does not do.                       *)

\* A fatal sync failure means that no set was in sync for TV_NO_SYNC.
FatalJustified ==
  [][pc = "test" /\ sync' = "SYNC_FATAL" => TooLong]_vars

\* The callback may deregister any device: the loop still stands on a node of
\* the device list when the callback returns.
LoopNodeLives == pc = "callback" => ~dangled

\* busy holds while mg_capture is in progress.
BusyWhileCapturing == Capturing => busy

\* mg_capture_halt has no effect on a capture that starts later.
HaltStartsClear == [][pc = "idle" /\ pc' = "loop" => ~halt]_vars

=============================================================================
