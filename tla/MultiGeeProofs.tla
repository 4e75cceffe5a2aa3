--------------------------- MODULE MultiGeeProofs ---------------------------
(***************************************************************************)
(* Theorems about MultiGee, for every set of devices, buffers and          *)
(* descriptors, every criterion, either order of the lists, and without    *)
(* bound on time, on failures or on what the user's program does.          *)
(***************************************************************************)
EXTENDS MultiGee, TLAPS

-----------------------------------------------------------------------------
(* The driver's operations keep the type of a buffer queue.                *)

\* Each ioctl that fg_util.c issues turns a buffer queue into a buffer queue.
LEMMA QueueTypes ==
  ASSUME NEW q \in Queue, NEW b \in Buf, NEW t \in Nat, NEW Q \in SUBSET Buf
  PROVE  /\ Closed \in Queue
         /\ Started(Q, t) \in Queue
         /\ Dequeued(q, b) \in Queue
         /\ Enqueued(q, b) \in Queue
         /\ Filled(q, b, t) \in Queue
  BY DEF Queue, Place, Empty, Closed, Started, Dequeued, Enqueued, Filled

\* swap_frame gives back a buffer, or, in place of a dummy frame, nothing.
LEMMA RecycledType ==
  ASSUME NEW q \in Queue, NEW i \in Buf \cup {NoBuf}
  PROVE  Recycled(q, i) \in Queue
  BY QueueTypes DEF Recycled

\* Frames made by mg_frame_create are frames.
LEMMA FrameTypes ==
  ASSUME NEW b \in Buf, NEW t \in Nat
  PROVE  CapturedFrame(b, t) \in Frame /\ DummyFrame(t) \in Frame
  BY DEF CapturedFrame, DummyFrame, Frame

-----------------------------------------------------------------------------
(* Type correctness.                                                       *)

\* A device in the list is open.
OpenFds == \A d \in device : fd[d] \in Fds

TypeInv == TypeOK /\ OpenFds

\* add_frame returns one frame for each of the listed devices.
LEMMA AddFrameType ==
  ASSUME NEW D, NEW E, NEW list \in [D -> Frame], now \in Nat
  PROVE  AddFrame(list, E) \in [E -> Frame]
  BY DEF AddFrame, DummyFrame, Frame

\* mg_create starts from a well-typed state.
LEMMA TypeInit == Init => TypeInv
  <1> SUFFICES ASSUME Init PROVE TypeInv
    OBVIOUS
  <1> Closed \in Queue
    BY DEF Closed, Queue, Empty, Place
  <1>1. WorldType
    BY DEF Init, WorldType
  <1>2. ObjectType
    BY DEF Init, ObjectType, NotOpen, NoFrames
  <1>3. CallType
    BY DEF Init, CallType, PC, SyncStatus, RET_UNDEF
  <1>4. HistoryType
    BY DEF Init, HistoryType
  <1>5. OpenFds
    BY DEF Init, OpenFds
  <1> QED
    BY <1>1, <1>2, <1>3, <1>4, <1>5 DEF TypeInv, TypeOK

\* mg_destroy, or the end of the process, leads to a well-typed state.
LEMMA GoneType == TypeInv /\ Gone => TypeInv'
  <1> SUFFICES ASSUME TypeInv, Gone PROVE TypeInv'
    OBVIOUS
  <1> Closed \in Queue
    BY DEF Closed, Queue, Empty, Place
  <1>1. WorldType'
    BY DEF Gone, TypeInv, TypeOK, WorldType
  <1>2. ObjectType'
    BY DEF Gone, ObjectType, NotOpen, NoFrames
  <1>3. CallType'
    BY DEF Gone, CallType, PC, SyncStatus, RET_UNDEF
  <1>4. HistoryType'
    BY DEF Gone, HistoryType
  <1>5. OpenFds'
    BY DEF Gone, OpenFds
  <1> QED
    BY <1>1, <1>2, <1>3, <1>4, <1>5 DEF TypeInv, TypeOK

\* The drivers and the clock keep the types.
LEMMA WorldTypes == TypeInv /\ World => TypeInv'
  <1> SUFFICES ASSUME TypeInv, World PROVE TypeInv'
    OBVIOUS
  <1> USE DEF object, call, history
  <1>1. WorldType'
    <2>1. CASE Tick
      BY <2>1 DEF Tick, TypeInv, TypeOK, WorldType
    <2>2. ASSUME NEW d \in Dev, Exposure(d) PROVE WorldType'
      BY <2>2, QueueTypes DEF Exposure, TypeInv, TypeOK, WorldType
    <2> QED
      BY <2>1, <2>2 DEF World
  <1>2. UNCHANGED <<object, call, history>>
    BY DEF World, Tick, Exposure
  <1> QED
    BY <1>1, <1>2
    DEF TypeInv, TypeOK, ObjectType, CallType, HistoryType, OpenFds

\* What the user's program calls keeps the types.
LEMMA UserTypes == TypeInv /\ User => TypeInv'
  <1> SUFFICES ASSUME TypeInv, User PROVE TypeInv'
    OBVIOUS
  <1> USE DEF TypeInv, TypeOK
  <1>1. CASE MgCreate \/ MgRegisterCallback \/ MgCaptureHalt \/ NestedCapture
    BY <1>1 DEF MgCreate, MgRegisterCallback, MgCaptureHalt, NestedCapture,
       world, object, call, history, PC,
       WorldType, ObjectType, CallType, HistoryType, OpenFds
  <1>2. CASE MgDestroy
    BY <1>2, GoneType DEF MgDestroy
  <1>3. ASSUME NEW d \in Dev, MgRegisterDevice(d) PROVE TypeInv'
    <2> USE <1>3 DEF MgRegisterDevice
    <2>1. WorldType'
      <3>1. \A Q \in SUBSET Buf : Started(Q, now) \in Queue
        BY DEF WorldType, Started, Queue, Empty, Place
      <3>2. now' \in Nat /\ faults' \in Nat
        BY DEF WorldType, Fault
      <3>3. bufs' \in [Dev -> Queue]
        BY <3>1 DEF WorldType
      <3> QED
        BY <3>2, <3>3 DEF WorldType
    <2>2. ObjectType'
      <3>1. frame' \in [device' -> Frame]
        BY AddFrameType DEF WorldType, ObjectType
      <3>2. fd' \in [Dev -> Fds \cup {-1}] /\ device' \subseteq Dev
        BY DEF ObjectType
      <3>3. UNCHANGED <<last_sync, busy, halt, callback>>
        OBVIOUS
      <3> QED
        BY <3>1, <3>2, <3>3 DEF ObjectType
    <2>3. CallType'
      BY DEF CallType, Joins, PC
    <2>4. HistoryType'
      BY DEF HistoryType
    <2>5. OpenFds'
      BY DEF OpenFds, ObjectType
    <2> QED
      BY <2>1, <2>2, <2>3, <2>4, <2>5
  <1>4. ASSUME NEW d \in Dev, MgDeregisterDevice(d) PROVE TypeInv'
    <2> USE <1>4 DEF MgDeregisterDevice
    <2>1. WorldType'
      BY DEF WorldType, Closed, Queue, Empty, Place
    <2>2. ObjectType'
      <3>1. frame' \in [device' -> Frame]
        BY AddFrameType DEF WorldType, ObjectType
      <3> QED
        BY <3>1 DEF ObjectType
    <2>3. CallType'
      BY DEF CallType, PC
    <2>4. HistoryType'
      BY DEF HistoryType
    <2>5. OpenFds'
      BY DEF OpenFds, ObjectType
    <2> QED
      BY <2>1, <2>2, <2>3, <2>4, <2>5
  <1>5. ASSUME NEW k \in Requests, MgCapture(k) PROVE TypeInv'
    <2> USE <1>5 DEF MgCapture
    <2>1. WorldType' /\ ObjectType' /\ OpenFds'
      BY DEF world, WorldType, ObjectType, OpenFds
    <2>2. CallType'
      BY RequestAssumption DEF CallType, PC, SyncStatus, RET_UNDEF
    <2>3. HistoryType'
      BY DEF HistoryType
    <2> QED
      BY <2>1, <2>2, <2>3
  <1> QED
    BY <1>1, <1>2, <1>3, <1>4, <1>5 DEF User

\* mg_capture and sync_select keep the types.
LEMMA SelectTypes ==
  /\ TypeInv
  /\ \/ CaptureReturns \/ Select
     \/ SelectReady \/ SelectTimeout \/ SelectError \/ SelectInterrupted
  => TypeInv'
  <1> USE DEF TypeInv, TypeOK, WorldType, ObjectType, OpenFds, world, object,
      history
  <1>1. ASSUME TypeInv, CaptureReturns PROVE TypeInv'
    <2> Reason \in Int
      BY <1>1
      DEF Reason, CallType, RET_CALLBACK, RET_HALT, RET_DEVICE, RET_SYNC,
         RET_UNDEF
    <2>1. WorldType' /\ ObjectType' /\ OpenFds'
      BY <1>1 DEF CaptureReturns
    <2>2. CallType' /\ HistoryType'
      BY <1>1 DEF CaptureReturns, CallType, HistoryType, PC, SyncStatus
    <2> QED
      BY <2>1, <2>2
  <1>2. ASSUME TypeInv, Select PROVE TypeInv'
    BY <1>2, TimeAssumption DEF Select, CallType, HistoryType, PC, SyncStatus
  <1>3. ASSUME TypeInv, NEW D \in SUBSET device PROVE FdsOf(D) \subseteq Fds
    BY <1>3 DEF FdsOf
  <1>4. ASSUME TypeInv, NEW S \in SUBSET Fds, NEW status \in SyncStatus,
               SelectReturns(S, status), faults' \in Nat
        PROVE  TypeInv'
    BY <1>4 DEF SelectReturns, CallType, HistoryType, PC
  <1>5. ASSUME TypeInv, SelectReady \/ SelectTimeout \/ SelectError PROVE TypeInv'
    <2>1. CASE SelectReady
      <3> ReadableFds \subseteq Fds
        BY <1>3, <1>5 DEF ReadableFds
      <3> QED
        BY <1>4, <1>5, <2>1 DEF SelectReady, SyncStatus
    <2>2. CASE SelectTimeout
      BY <1>4, <1>5, <2>2 DEF SelectTimeout, SyncStatus
    <2>3. CASE SelectError
      <3> FdsOf(device) \subseteq Fds
        BY <1>3, <1>5
      <3> QED
        BY <1>4, <1>5, <2>3 DEF SelectError, Fault, SyncStatus
    <2> QED
      BY <1>5, <2>1, <2>2, <2>3
  <1>6. ASSUME TypeInv, SelectInterrupted PROVE TypeInv'
    BY <1>6, TimeAssumption DEF SelectInterrupted, Fault, CallType, HistoryType
  <1> QED
    BY <1>1, <1>2, <1>5, <1>6

\* The loop over the devices and swap_frame keep the types.
LEMMA ScanTypes ==
  ASSUME TypeInv,
         \/ ScanEnds
         \/ \E d \in Dev : SwapFrame(d) \/ DqbufFails(d) \/ QbufFails(d)
  PROVE  TypeInv'
  <1> USE DEF TypeInv, TypeOK, OpenFds, Visits, EndPass
  <1>1. CASE ScanEnds
    BY <1>1 DEF ScanEnds, world, object, history, WorldType, ObjectType,
       CallType, HistoryType, PC
  <1>2. ASSUME NEW d \in Dev, SwapFrame(d) PROVE TypeInv'
    <2> USE <1>2 DEF SwapFrame, history
    <2>1. d \in device /\ bufs[d] \in Queue /\ frame[d] \in Frame
      BY DEF CallType, WorldType, ObjectType
    <2>2. PICK b \in Buf :
            /\ bufs' = [bufs EXCEPT ![d] =
                          Recycled(Dequeued(bufs[d], b), frame[d].index)]
            /\ frame' = [frame EXCEPT ![d] = CapturedFrame(b, bufs[d][b].ts)]
      OBVIOUS
    <2>3. Recycled(Dequeued(bufs[d], b), frame[d].index) \in Queue
      BY <2>1, QueueTypes, RecycledType DEF Frame
    <2>4. CapturedFrame(b, bufs[d][b].ts) \in Frame
      BY <2>1, FrameTypes DEF Queue
    <2>5. WorldType'
      BY <2>2, <2>3 DEF WorldType
    <2>6. ObjectType'
      BY <2>2, <2>4 DEF ObjectType
    <2>7. CallType'
      BY <2>1 DEF CallType, PC
    <2>8. HistoryType' /\ OpenFds'
      BY DEF HistoryType
    <2> QED
      BY <2>5, <2>6, <2>7, <2>8
  <1>3. ASSUME NEW d \in Dev, DqbufFails(d) PROVE TypeInv'
    BY <1>3 DEF DqbufFails, Fault, object, history, WorldType, ObjectType,
       CallType, HistoryType, PC, SyncStatus
  <1>4. ASSUME NEW d \in Dev, QbufFails(d) PROVE TypeInv'
    <2> USE <1>4 DEF QbufFails, Fault, object
    <2>1. bufs[d] \in Queue
      BY DEF WorldType
    <2>2. \A b \in Buf : Dequeued(bufs[d], b) \in Queue
      BY <2>1, QueueTypes
    <2>3. WorldType'
      BY <2>2 DEF WorldType
    <2>4. ObjectType' /\ OpenFds'
      BY DEF ObjectType
    <2>5. CallType'
      BY DEF CallType, PC, SyncStatus
    <2>6. HistoryType'
      BY DEF HistoryType
    <2> QED
      BY <2>3, <2>4, <2>5, <2>6
  <1> QED
    BY <1>1, <1>2, <1>3, <1>4

\* sync_test, the call of the callback and its return keep the types.
LEMMA SyncTypes ==
  /\ TypeInv
  /\ \/ SyncTooLong \/ SyncOk \/ SyncLost \/ SyncNotYet
     \/ CallbackReturns \/ ProgramDies
  => TypeInv'
  <1> USE DEF TypeInv, TypeOK, OpenFds, EndPass, world, object, history
  <1>1. ASSUME TypeInv
        PROVE  Aged \in [device -> Frame] /\ Used(frame) \in [device -> Frame]
    BY <1>1 DEF Aged, Used, Stale, ObjectType, Frame
  <1>2. ASSUME TypeInv, SyncTooLong PROVE TypeInv'
    BY <1>2 DEF SyncTooLong, WorldType, ObjectType, CallType, HistoryType, PC,
       SyncStatus
  <1>3. ASSUME TypeInv, SyncOk PROVE TypeInv'
    <2> USE <1>3 DEF SyncOk
    <2>1. WorldType'
      BY DEF WorldType
    <2>2. ObjectType'
      BY <1>1 DEF ObjectType, WorldType
    <2>3. CallType' /\ OpenFds'
      BY DEF CallType, PC, SyncStatus
    <2>4. HistoryType'
      <3>1. \A d \in device : frame[d].ts \in Nat
        BY DEF ObjectType, Frame
      <3> QED
        BY <3>1 DEF HistoryType
    <2> QED
      BY <2>1, <2>2, <2>3, <2>4
  <1>4. ASSUME TypeInv, SyncLost \/ SyncNotYet PROVE TypeInv'
    <2> USE <1>4 DEF SyncLost, SyncNotYet
    <2>1. WorldType' /\ HistoryType' /\ OpenFds'
      BY DEF WorldType, HistoryType
    <2>2. ObjectType'
      BY <1>1 DEF ObjectType
    <2>3. CallType'
      BY DEF CallType, PC, SyncStatus
    <2> QED
      BY <2>1, <2>2, <2>3
  <1>5. ASSUME TypeInv, CallbackReturns PROVE TypeInv'
    BY <1>5 DEF CallbackReturns, WorldType, ObjectType, CallType, HistoryType,
       PC
  <1>6. ASSUME TypeInv, ProgramDies PROVE TypeInv'
    BY <1>6, GoneType DEF ProgramDies
  <1> QED
    BY <1>2, <1>3, <1>4, <1>5, <1>6

\* Every step keeps the types.
LEMMA TypeNext == TypeInv /\ [Next]_vars => TypeInv'
  <1> SUFFICES ASSUME TypeInv, [Next]_vars PROVE TypeInv'
    OBVIOUS
  <1>1. CASE World
    BY <1>1, WorldTypes
  <1>2. CASE User
    BY <1>2, UserTypes
  <1>3. CASE Library
    BY <1>3, SelectTypes, ScanTypes, SyncTypes DEF Library
  <1>4. CASE EndOfTime \/ UNCHANGED vars
    BY <1>4 DEF EndOfTime, vars, world, object, call, history,
       TypeInv, TypeOK, OpenFds, WorldType, ObjectType, CallType, HistoryType
  <1> QED
    BY <1>1, <1>2, <1>3, <1>4 DEF Next

\* Every reachable state is well typed, and every listed device is open.
LEMMA TypeInvariant == Spec => []TypeInv
  <1> QED
    BY TypeInit, TypeNext, PTL DEF Spec

\* Every state that the library, its user and the drivers can reach is well
\* typed: the frame list has one frame for each device of the device list, and
\* capture_frameset has only listed devices ahead of it.
THEOREM TypeCorrect == Spec => []TypeOK
  <1>1. TypeInv => TypeOK
    BY DEF TypeInv
  <1> QED
    BY <1>1, TypeInvariant, PTL

-----------------------------------------------------------------------------
(* The buffers: none leaks, and no frame outlives the image it stands for. *)

\* BufferAccounting and FrameHoldsImage for one device, with buffer queue q,
\* frame f and lost buffers l.
DeviceBuffers(q, f, l) ==
  /\ App(q) = ({f.index} \ {NoBuf}) \cup l
  /\ f.index \notin l
  /\ f.index # NoBuf => q[f.index] = [at |-> "app", ts |-> f.ts]

BufferInv == \A d \in device : DeviceBuffers(bufs[d], frame[d], lost[d])

\* BufferInv is the two invariants that the model checker checks.
LEMMA BufferInvMeaning ==
  TypeInv => (BufferInv <=> BufferAccounting /\ FrameHoldsImage)
  <1> SUFFICES ASSUME TypeInv
               PROVE  BufferInv <=> BufferAccounting /\ FrameHoldsImage
    OBVIOUS
  <1>1. \A d \in device : lost[d] \subseteq Buf /\ frame[d].index \in Buf \cup {NoBuf}
    BY DEF TypeInv, TypeOK, ObjectType, HistoryType, Frame
  <1>2. BufferInv => BufferAccounting /\ FrameHoldsImage
    BY <1>1
    DEF BufferInv, DeviceBuffers, BufferAccounting, FrameHoldsImage, Held
  <1>3. BufferAccounting /\ FrameHoldsImage => BufferInv
    BY <1>1, BufAssumption
    DEF BufferInv, DeviceBuffers, BufferAccounting, FrameHoldsImage, Held
  <1> QED
    BY <1>2, <1>3

\* The driver writes to queued buffers only.
LEMMA FilledBuffers ==
  ASSUME NEW q \in Queue, NEW f \in Frame, NEW l \in SUBSET Buf,
         NEW b \in Buf, NEW t \in Nat,
         DeviceBuffers(q, f, l), CanFill(q, b, t)
  PROVE  DeviceBuffers(Filled(q, b, t), f, l)
  <1>1. App(Filled(q, b, t)) = App(q)
    BY DEF App, Filled, CanFill, Queue, Place
  <1>2. f.index # NoBuf => f.index # b /\ f.index \in Buf
    BY DEF DeviceBuffers, CanFill, Frame
  <1> QED
    BY <1>1, <1>2 DEF DeviceBuffers, Filled, Queue

\* A device starts with a dummy frame, and with the buffers that could not be
\* queued lost.
LEMMA StartedBuffers ==
  ASSUME NEW Q \in SUBSET Buf, NEW t \in Nat, NEW u \in Nat
  PROVE  DeviceBuffers(Started(Q, t), DummyFrame(u), Buf \ Q)
  BY BufAssumption DEF DeviceBuffers, Started, DummyFrame, App, Empty

\* swap_frame gives back the buffer of the frame it replaces.
LEMMA SwappedBuffers ==
  ASSUME NEW q \in Queue, NEW f \in Frame, NEW l \in SUBSET Buf, NEW b \in Buf,
         DeviceBuffers(q, f, l), b \in Done(q)
  PROVE  DeviceBuffers(Recycled(Dequeued(q, b), f.index),
                       CapturedFrame(b, q[b].ts), l)
  <1> DEFINE r == Recycled(Dequeued(q, b), f.index)
  <1>1. b \notin App(q)
    BY DEF App, Done
  <1>2. f.index # b /\ b \notin l
    BY <1>1, BufAssumption DEF DeviceBuffers
  <1>3. r[b] = [at |-> "app", ts |-> q[b].ts]
    BY <1>2 DEF Recycled, Dequeued, Enqueued, Queue
  <1>4. App(r) = {b} \cup l
    <2>1. CASE f.index = NoBuf
      BY <2>1, <1>1 DEF DeviceBuffers, App, Recycled, Dequeued, Queue
    <2>2. CASE f.index # NoBuf
      BY <2>2, <1>1, <1>2
      DEF DeviceBuffers, App, Recycled, Dequeued, Enqueued, Empty, Queue, Frame
    <2> QED
      BY <2>1, <2>2
  <1> QED
    BY <1>2, <1>3, <1>4, BufAssumption DEF DeviceBuffers, CapturedFrame

\* When the buffer cannot be given back, the one just fetched is lost.
LEMMA LostBuffers ==
  ASSUME NEW q \in Queue, NEW f \in Frame, NEW l \in SUBSET Buf, NEW b \in Buf,
         DeviceBuffers(q, f, l), b \in Done(q)
  PROVE  DeviceBuffers(Dequeued(q, b), f, l \cup {b})
  <1>1. b \notin App(q)
    BY DEF App, Done
  <1>2. f.index # b
    BY <1>1, BufAssumption DEF DeviceBuffers
  <1>3. App(Dequeued(q, b)) = App(q) \cup {b}
    BY DEF App, Dequeued, Queue
  <1>4. f.index # NoBuf => Dequeued(q, b)[f.index] = q[f.index]
    BY <1>2 DEF Dequeued, Queue, Frame
  <1> QED
    BY <1>2, <1>3, <1>4 DEF DeviceBuffers

\* Frames that grow old or that have been shown keep their image.
LEMMA MarkedBuffers ==
  ASSUME TypeInv, BufferInv, UNCHANGED <<bufs, device, lost>>,
         frame' = Aged \/ frame' = Used(frame)
  PROVE  BufferInv'
  <1>1. \A d \in device : /\ frame'[d].index = frame[d].index
                          /\ frame'[d].ts = frame[d].ts
    BY DEF TypeInv, TypeOK, ObjectType, Frame, Aged, Used
  <1> QED
    BY <1>1 DEF BufferInv, DeviceBuffers

\* Every step keeps BufferInv.
LEMMA BufferNext == TypeInv /\ BufferInv /\ [Next]_vars => BufferInv'
  <1> SUFFICES ASSUME TypeInv, BufferInv, [Next]_vars PROVE BufferInv'
    OBVIOUS
  <1> USE DEF BufferInv
  <1>1. /\ bufs \in [Dev -> Queue] /\ device \subseteq Dev /\ now \in Nat
        /\ frame \in [device -> Frame] /\ lost \in [Dev -> SUBSET Buf]
        /\ todo \subseteq device
    BY DEF TypeInv, TypeOK, WorldType, ObjectType, CallType, HistoryType
  <1>2. ASSUME UNCHANGED <<bufs, device, frame, lost>> PROVE BufferInv'
    BY <1>2
  <1>3. ASSUME Gone PROVE BufferInv'
    BY <1>3 DEF Gone
  <1>4. ASSUME NEW d \in Dev, Exposure(d) PROVE BufferInv'
    <2>1. PICK b \in Buf : /\ CanFill(bufs[d], b, now)
                           /\ bufs' = [bufs EXCEPT ![d] = Filled(bufs[d], b, now)]
      BY <1>4 DEF Exposure
    <2>2. UNCHANGED <<device, frame, lost>>
      BY <1>4 DEF Exposure, object, history
    <2>3. ASSUME d \in device
          PROVE  DeviceBuffers(Filled(bufs[d], b, now), frame[d], lost[d])
      BY <1>1, <2>1, <2>3, FilledBuffers
    <2> QED
      BY <1>1, <2>1, <2>2, <2>3
  <1>5. ASSUME NEW d \in Dev, MgRegisterDevice(d) PROVE BufferInv'
    <2> USE <1>5 DEF MgRegisterDevice
    <2>1. PICK Q \in SUBSET Buf :
            /\ bufs' = [bufs EXCEPT ![d] = Started(Q, now)]
            /\ lost' = [lost EXCEPT ![d] = Buf \ Q]
      OBVIOUS
    <2>2. frame'[d] = DummyFrame(now) /\ \A e \in device : frame'[e] = frame[e]
      BY <1>1 DEF AddFrame
    <2>3. DeviceBuffers(bufs'[d], frame'[d], lost'[d])
      BY <1>1, <2>1, <2>2, StartedBuffers
    <2>4. ASSUME NEW e \in device
          PROVE  DeviceBuffers(bufs'[e], frame'[e], lost'[e])
      <3>1. e # d /\ e \in Dev
        BY <1>1
      <3>2. bufs'[e] = bufs[e] /\ lost'[e] = lost[e] /\ frame'[e] = frame[e]
        BY <1>1, <2>1, <2>2, <3>1
      <3> QED
        BY <3>2
    <2> QED
      BY <2>3, <2>4
  <1>6. ASSUME NEW d \in Dev, MgDeregisterDevice(d) PROVE BufferInv'
    BY <1>1, <1>6 DEF MgDeregisterDevice, AddFrame
  <1>7. ASSUME NEW d \in Dev, SwapFrame(d) PROVE BufferInv'
    <2>1. PICK b \in Buf :
            /\ Oldest(bufs[d], b)
            /\ bufs' = [bufs EXCEPT ![d] =
                          Recycled(Dequeued(bufs[d], b), frame[d].index)]
            /\ frame' = [frame EXCEPT ![d] = CapturedFrame(b, bufs[d][b].ts)]
      BY <1>7 DEF SwapFrame
    <2>2. d \in device /\ UNCHANGED <<device, lost>>
      BY <1>1, <1>7 DEF SwapFrame, Visits, history
    <2>3. DeviceBuffers(Recycled(Dequeued(bufs[d], b), frame[d].index),
                        CapturedFrame(b, bufs[d][b].ts), lost[d])
      BY <1>1, <2>1, <2>2, SwappedBuffers DEF Oldest
    <2> QED
      BY <1>1, <2>1, <2>2, <2>3
  <1>8. ASSUME NEW d \in Dev, QbufFails(d) PROVE BufferInv'
    <2>1. PICK b \in Buf : /\ Oldest(bufs[d], b)
                           /\ bufs' = [bufs EXCEPT ![d] = Dequeued(bufs[d], b)]
                           /\ lost' = [lost EXCEPT ![d] = lost[d] \cup {b}]
      BY <1>8 DEF QbufFails
    <2>2. d \in device /\ UNCHANGED <<device, frame>>
      BY <1>1, <1>8 DEF QbufFails, Visits, object
    <2>3. DeviceBuffers(Dequeued(bufs[d], b), frame[d], lost[d] \cup {b})
      BY <1>1, <2>1, <2>2, LostBuffers DEF Oldest
    <2> QED
      BY <1>1, <2>1, <2>2, <2>3
  <1>9. ASSUME NEW d \in Dev, DqbufFails(d) PROVE BufferInv'
    BY <1>2, <1>9 DEF DqbufFails, object, history
  <1>10. CASE SyncOk \/ SyncLost \/ SyncNotYet
    BY <1>10, MarkedBuffers DEF SyncOk, SyncLost, SyncNotYet, world, history
  <1>11. CASE World
    BY <1>2, <1>4, <1>11 DEF World, Tick, object, history
  <1>12. CASE User
    <2>1. CASE \/ MgCreate \/ MgRegisterCallback \/ MgCaptureHalt
               \/ NestedCapture \/ \E k \in Requests : MgCapture(k)
      BY <1>2, <2>1 DEF MgCreate, MgRegisterCallback, MgCaptureHalt,
         NestedCapture, MgCapture, world, object, history
    <2>2. CASE MgDestroy
      BY <1>3, <2>2 DEF MgDestroy
    <2> QED
      BY <1>5, <1>6, <1>12, <2>1, <2>2 DEF User
  <1>13. CASE Library
    <2>1. CASE \/ CaptureReturns \/ Select \/ SelectReady \/ SelectTimeout
               \/ SelectError \/ SelectInterrupted
      BY <1>2, <2>1 DEF CaptureReturns, Select, SelectReady, SelectTimeout,
         SelectError, SelectInterrupted, SelectReturns, world, object, history
    <2>2. CASE ScanEnds \/ SyncTooLong \/ CallbackReturns
      BY <1>2, <2>2 DEF ScanEnds, SyncTooLong, CallbackReturns, world, object,
         history
    <2>3. CASE ProgramDies
      BY <1>3, <2>3 DEF ProgramDies
    <2> QED
      BY <1>7, <1>8, <1>9, <1>10, <1>13, <2>1, <2>2, <2>3 DEF Library
  <1>14. CASE EndOfTime \/ UNCHANGED vars
    BY <1>2, <1>14 DEF EndOfTime, vars, world, object, history
  <1> QED
    BY <1>11, <1>12, <1>13, <1>14 DEF Next

\* Whatever fails and whatever the user's program does, every buffer that is
\* with the process is the one of its device's frame, or has been lost to a
\* failed VIDIOC_QBUF.
THEOREM BuffersAccounted == Spec => []BufferAccounting
  <1>1. Init => BufferInv
    BY DEF Init, BufferInv
  <1>2. TypeInv /\ BufferInv => BufferAccounting
    BY BufferInvMeaning
  <1> QED
    BY <1>1, <1>2, BufferNext, TypeInvariant, PTL DEF Spec

\* The image behind every frame in the list is the one the frame is stamped
\* with, and the driver does not write to it.
THEOREM FramesHoldImages == Spec => []FrameHoldsImage
  <1>1. Init => BufferInv
    BY DEF Init, BufferInv
  <1>2. TypeInv /\ BufferInv => FrameHoldsImage
    BY BufferInvMeaning
  <1> QED
    BY <1>1, <1>2, BufferNext, TypeInvariant, PTL DEF Spec

-----------------------------------------------------------------------------
(* The pass over the devices: one callback, no more sets than asked for,   *)
(* and none after a halt.                                                  *)

\* Once a pass has called the callback, a device that the loop is past has an
\* image that has been shown: sync_test cannot find all of them ready again.
SomeServed ==
  \E s \in device : s \notin todo /\ s # cur /\ frame[s].used

\* The loop visits a device, which is still in the list.
Visiting == cur \in device /\ cur \notin todo

PassInv ==
  /\ pc \in {"none", "idle", "loop", "select", "scan"} => cur = NoDev
  /\ pc \in {"none", "idle", "select"} => calls = 0
  /\ ~dangled => calls <= 1
  /\ pc = "test" /\ ~dangled => Visiting
  /\ pc \in {"scan", "test"} /\ ~dangled /\ calls # 0 => SomeServed
  /\ pc = "callback" /\ ~dangled => Visiting /\ frame[cur].used /\ calls = 1

\* A halt that arrives during a pass comes from its callback.
HaltInv ==
  pc \in {"select", "scan", "test"} /\ ~dangled /\ halt => calls # 0

\* A pass starts short of n sets, and adds at most one.
CountInv ==
  ~dangled /\ 0 <= n =>
    /\ pc \in {"loop", "scan", "test"} => count <= n
    /\ pc \in {"select", "scan", "test"} /\ calls = 0 => count < n
    /\ pc = "callback" => count < n

LoopInv == PassInv /\ HaltInv /\ CountInv

\* After a callback the rest of the pass finds no set ready.
LEMMA ServedNotReady == TypeInv /\ SomeServed => ~Ready
  <1> SUFFICES ASSUME TypeInv, NEW s \in device, frame[s].used PROVE ~Ready
    BY DEF SomeServed
  <1>1. Aged[s].used
    BY DEF Aged, TypeInv, TypeOK, ObjectType, Frame
  <1> QED
    BY <1>1 DEF Ready

\* Growing old and having been shown do not make a frame unused.
LEMMA MarkedStaysUsed ==
  ASSUME TypeInv, NEW s \in device, frame[s].used
  PROVE  Aged[s].used /\ Used(frame)[s].used
  BY DEF Aged, Used, TypeInv, TypeOK, ObjectType, Frame

\* mg_create starts with no capture.
LEMMA LoopInit == Init => LoopInv
  BY DEF Init, LoopInv, PassInv, HaltInv, CountInv

\* What the user's program calls keeps LoopInv: between captures because no
\* pass is under way, in the callback because the device that the loop visits
\* keeps its frame, or dangled records that it is gone.
LEMMA LoopUser == TypeInv /\ LoopInv /\ User => LoopInv'
  <1> SUFFICES ASSUME TypeInv, LoopInv, User PROVE LoopInv'
    OBVIOUS
  <1> USE DEF LoopInv, PassInv, HaltInv, CountInv, Visiting
  <1>1. CASE MgCreate
    BY <1>1 DEF MgCreate, object, history
  <1>2. CASE MgDestroy
    BY <1>2 DEF MgDestroy, Gone
  <1>3. CASE MgRegisterCallback \/ MgCaptureHalt \/ NestedCapture
    BY <1>3 DEF MgRegisterCallback, MgCaptureHalt, NestedCapture, UserRuns,
       call, history
  <1>4. ASSUME NEW d \in Dev, MgRegisterDevice(d) PROVE LoopInv'
    <2> USE <1>4 DEF MgRegisterDevice, UserRuns
    <2>1. \A e \in device : frame'[e] = frame[e]
      BY DEF AddFrame, TypeInv, TypeOK, ObjectType
    <2>2. pc = "callback" /\ ~dangled => (Visiting /\ frame[cur].used)'
      BY <2>1 DEF Joins
    <2> QED
      BY <2>2
  <1>5. ASSUME NEW d \in Dev, MgDeregisterDevice(d) PROVE LoopInv'
    <2> USE <1>5 DEF MgDeregisterDevice, UserRuns
    <2>1. \A e \in device \ {d} : frame'[e] = frame[e]
      BY DEF AddFrame, TypeInv, TypeOK, ObjectType
    <2>2. pc = "callback" /\ ~dangled' => (Visiting /\ frame[cur].used)'
      BY <2>1
    <2> QED
      BY <2>2
  <1>6. ASSUME NEW k \in Requests, MgCapture(k) PROVE LoopInv'
    BY <1>6 DEF MgCapture
  <1> QED
    BY <1>1, <1>2, <1>3, <1>4, <1>5, <1>6 DEF User

\* mg_capture and sync_select keep LoopInv: a pass starts with no callback, no
\* halt, and sets still to be made.
LEMMA LoopSelect ==
  /\ TypeInv /\ LoopInv
  /\ \/ CaptureReturns \/ Select
     \/ SelectReady \/ SelectTimeout \/ SelectError \/ SelectInterrupted
  => LoopInv'
  <1> USE DEF LoopInv, PassInv, HaltInv, CountInv, object, history
  <1>1. ASSUME LoopInv, CaptureReturns PROVE LoopInv'
    BY <1>1 DEF CaptureReturns
  <1>2. ASSUME TypeInv, LoopInv, Select PROVE LoopInv'
    <2>1. n \in Int /\ count \in Nat
      BY <1>2 DEF TypeInv, TypeOK, CallType
    <2>2. ~halt /\ ~Enough
      BY <1>2, <2>1 DEF Select, Reason, RET_CALLBACK, RET_HALT, RET_DEVICE,
         RET_SYNC, RET_UNDEF
    <2>3. 0 <= n => count < n
      BY <2>1, <2>2 DEF Enough
    <2> QED
      BY <1>2, <2>2, <2>3 DEF Select
  <1>3. ASSUME TypeInv, LoopInv, NEW S, NEW status, SelectReturns(S, status)
        PROVE  LoopInv'
    BY <1>3 DEF SelectReturns, TypeInv, TypeOK, CallType
  <1>4. ASSUME LoopInv, SelectInterrupted PROVE LoopInv'
    BY <1>4 DEF SelectInterrupted
  <1>5. ASSUME TypeInv, LoopInv, SelectReady \/ SelectTimeout \/ SelectError
        PROVE  LoopInv'
    <2>1. \E S, status : SelectReturns(S, status)
      BY <1>5 DEF SelectReady, SelectTimeout, SelectError
    <2> QED
      BY <1>3, <1>5, <2>1
  <1> QED
    BY <1>1, <1>2, <1>4, <1>5

\* The loop over the devices keeps LoopInv.
LEMMA LoopScan ==
  ASSUME TypeInv, LoopInv,
         \/ ScanEnds
         \/ \E d \in Dev : SwapFrame(d) \/ DqbufFails(d) \/ QbufFails(d)
  PROVE  LoopInv'
  <1> USE DEF LoopInv, PassInv, HaltInv, CountInv, Visits, EndPass, object,
      history
  <1>1. CASE ScanEnds
    BY <1>1 DEF ScanEnds
  <1>2. ASSUME NEW d \in Dev, SwapFrame(d) PROVE LoopInv'
    <2> USE <1>2 DEF SwapFrame
    <2>1. d \in device
      BY DEF TypeInv, TypeOK, CallType
    <2>2. \A e \in device : e # d => frame'[e] = frame[e]
      BY DEF TypeInv, TypeOK, ObjectType
    <2>3. Visiting'
      BY <2>1 DEF Visiting
    <2>4. SomeServed => SomeServed'
      BY <2>2 DEF SomeServed
    <2> QED
      BY <2>3, <2>4
  <1>3. ASSUME NEW d \in Dev, DqbufFails(d) \/ QbufFails(d) PROVE LoopInv'
    BY <1>3 DEF DqbufFails, QbufFails
  <1> QED
    BY <1>1, <1>2, <1>3

\* sync_test, and the return of the callback, keep LoopInv.
LEMMA LoopSync ==
  /\ TypeInv /\ LoopInv
  /\ \/ SyncTooLong \/ SyncOk \/ SyncLost \/ SyncNotYet
     \/ CallbackReturns \/ ProgramDies
  => LoopInv'
  <1> USE DEF LoopInv, PassInv, HaltInv, CountInv, EndPass, object, history
  <1>1. ASSUME LoopInv, SyncTooLong PROVE LoopInv'
    BY <1>1 DEF SyncTooLong
  <1>2. ASSUME LoopInv, SyncLost PROVE LoopInv'
    BY <1>2 DEF SyncLost
  <1>3. ASSUME TypeInv, LoopInv, SyncOk PROVE LoopInv'
    <2> USE <1>3 DEF SyncOk
    <2>1. Ready
      BY DEF InSync
    <2>2. ~dangled => calls = 0
      BY <2>1, ServedNotReady
    <2>3. ~dangled => Visiting /\ Used(frame)[cur].used
      BY DEF Visiting, Used, TypeInv, TypeOK, ObjectType, Frame
    <2> QED
      BY <2>2, <2>3 DEF Visiting
  <1>4. ASSUME TypeInv, LoopInv, SyncNotYet PROVE LoopInv'
    <2> USE <1>4 DEF SyncNotYet
    <2>1. ~dangled /\ calls # 0 => SomeServed'
      <3> SUFFICES ASSUME NEW s \in device, s \notin todo, frame[s].used
                   PROVE  SomeServed'
        BY DEF SomeServed
      <3> QED
        BY MarkedStaysUsed, DevAssumption
        DEF SomeServed, TypeInv, TypeOK, ObjectType
    <2> QED
      BY <2>1
  <1>5. ASSUME TypeInv, LoopInv, CallbackReturns PROVE LoopInv'
    <2> USE <1>5 DEF CallbackReturns
    <2>1. ~dangled => SomeServed'
      BY DevAssumption DEF Visiting, SomeServed, TypeInv, TypeOK, ObjectType
    <2>2. ~dangled /\ 0 <= n => count + 1 <= n
      BY DEF TypeInv, TypeOK, CallType
    <2> QED
      BY <2>1, <2>2
  <1>6. ASSUME ProgramDies PROVE LoopInv'
    BY <1>6 DEF ProgramDies, Gone
  <1> QED
    BY <1>1, <1>2, <1>3, <1>4, <1>5, <1>6

\* Every step keeps LoopInv.
LEMMA LoopNext == TypeInv /\ LoopInv /\ [Next]_vars => LoopInv'
  <1> SUFFICES ASSUME TypeInv, LoopInv, [Next]_vars PROVE LoopInv'
    OBVIOUS
  <1>1. ASSUME UNCHANGED <<object, call, history>> PROVE LoopInv'
    BY <1>1 DEF object, call, history, LoopInv, PassInv, HaltInv, CountInv,
       Visiting, SomeServed
  <1>2. CASE World
    BY <1>1, <1>2 DEF World, Tick, Exposure
  <1>3. CASE User
    BY <1>3, LoopUser
  <1>4. CASE Library
    BY <1>4, LoopSelect, LoopScan, LoopSync DEF Library
  <1>5. CASE EndOfTime \/ UNCHANGED vars
    BY <1>1, <1>5 DEF EndOfTime, vars
  <1> QED
    BY <1>2, <1>3, <1>4, <1>5 DEF Next

\* LoopInv holds in every reachable state.
LEMMA LoopInvariant == Spec => [](TypeInv /\ LoopInv)
  <1> QED
    BY LoopInit, LoopNext, TypeInvariant, PTL DEF Spec

\* capture_frameset calls the callback at most once, however many devices are
\* readable and whatever the callback registers and deregisters, as long as it
\* does not free the list node that the loop stands on.
THEOREM OneCallback == Spec => []OneCallbackPerPass
  <1>1. LoopInv => OneCallbackPerPass
    BY DEF LoopInv, PassInv, OneCallbackPerPass
  <1> QED
    BY <1>1, LoopInvariant, PTL

\* Only a successful sync_test leads to the callback.
LEMMA DeliversBySyncOk == Next /\ Delivers => SyncOk
  BY DEF Next, World, User, Library, EndOfTime, Delivers, vars, world,
     object, call, history, Tick, Exposure, MgCreate, MgDestroy, Gone,
     MgRegisterCallback, MgCaptureHalt, NestedCapture, MgRegisterDevice,
     MgDeregisterDevice, MgCapture, CaptureReturns, Select, SelectReady,
     SelectTimeout, SelectError, SelectInterrupted, SelectReturns,
     ScanEnds, SwapFrame, DqbufFails, QbufFails, Visits, EndPass, UserRuns,
     SyncTooLong, SyncLost, SyncNotYet, CallbackReturns, ProgramDies

\* Under the same condition no callback follows mg_capture_halt.
THEOREM HaltFinal == Spec => HaltIsFinal
  <1>1. TypeInv /\ LoopInv /\ [Next]_vars => [Delivers /\ ~dangled => ~halt]_vars
    <2> SUFFICES ASSUME TypeInv, LoopInv, Next, Delivers, ~dangled
                 PROVE  ~halt
      OBVIOUS
    <2>1. SyncOk
      BY DeliversBySyncOk
    <2>2. ~SomeServed
      BY <2>1, ServedNotReady DEF SyncOk, InSync
    <2> QED
      BY <2>2 DEF LoopInv, PassInv, HaltInv, Delivers
  <1> QED
    BY <1>1, LoopInvariant, PTL DEF Spec, HaltIsFinal

\* Under the same condition mg_capture(n) returns n when it succeeds: it never
\* gives the user a set more than asked for.
THEOREM CountReturned == Spec => ReturnsCount
  <1>1. TypeInv /\ LoopInv /\ [Next]_vars =>
          [pc = "loop" /\ pc' = "idle" /\ ret' >= 0 /\ ~dangled => ret' = n]_vars
    <2> SUFFICES ASSUME TypeInv, LoopInv, Next,
                        pc = "loop", pc' = "idle", ret' >= 0, ~dangled
                 PROVE  ret' = n
      OBVIOUS
    <2>1. CaptureReturns
      BY DEF Next, World, User, Library, EndOfTime, vars, world,
         object, call, history, Tick, Exposure, MgCreate, MgDestroy, Gone,
         MgRegisterCallback, MgCaptureHalt, NestedCapture, MgRegisterDevice,
         MgDeregisterDevice, MgCapture, Select, SelectReady,
         SelectTimeout, SelectError, SelectInterrupted, SelectReturns,
         ScanEnds, SwapFrame, DqbufFails, QbufFails, Visits, EndPass, UserRuns,
         SyncTooLong, SyncOk, SyncLost, SyncNotYet, CallbackReturns, ProgramDies
    <2>2. n \in Int /\ count \in Nat
      BY DEF TypeInv, TypeOK, CallType
    <2>3. ret' = count /\ 0 <= n /\ n <= count
      BY <2>1, <2>2 DEF CaptureReturns, Reason, Enough, RET_CALLBACK, RET_HALT,
         RET_DEVICE, RET_SYNC, RET_UNDEF
    <2> QED
      BY <2>2, <2>3 DEF LoopInv, CountInv
  <1> QED
    BY <1>1, LoopInvariant, PTL DEF Spec, ReturnsCount

-----------------------------------------------------------------------------
(* The time stamps: what is given to the user is in sync, and new.         *)

\* For a device with buffer queue q, frame f, and last shown image s: a dummy
\* frame counts as used, an unused frame is later than what has been shown, and
\* the images that wait in the driver are later still, and all different.
FreshDevice(q, f, s) ==
  /\ f.index = NoBuf => f.used /\ s = 0
  /\ s <= f.ts
  /\ ~f.used => s < f.ts
  /\ \A b \in Done(q) : s < q[b].ts /\ (f.index # NoBuf => f.ts < q[b].ts)
  /\ \A b, c \in Done(q) : b # c => q[b].ts # q[c].ts

\* No time stamp lies in the future.
StampsBy(q, f, t) == f.ts <= t /\ \A b \in Buf : q[b].ts <= t

FreshInv ==
  /\ 0 < now /\ last_sync <= now
  /\ \A d \in device : /\ FreshDevice(bufs[d], frame[d], seen[d])
                       /\ StampsBy(bufs[d], frame[d], now)
  /\ \A d \in Dev \ device : seen[d] = 0

\* A new image is later than everything else of its device.
LEMMA FilledFresh ==
  ASSUME NEW q \in Queue, NEW f \in Frame, NEW l \in SUBSET Buf, NEW s \in Nat,
         NEW b \in Buf, NEW t \in Nat, 0 < t,
         DeviceBuffers(q, f, l), CanFill(q, b, t),
         FreshDevice(q, f, s), StampsBy(q, f, t)
  PROVE  /\ FreshDevice(Filled(q, b, t), f, s)
         /\ StampsBy(Filled(q, b, t), f, t)
  <1> DEFINE r == Filled(q, b, t)
  <1>1. r[b].ts = t /\ \A c \in Buf : c # b => r[c] = q[c]
    BY DEF Filled, Queue
  <1>2. Done(r) = Done(q) \cup {b} /\ \A c \in Done(q) : c # b /\ c \in Buf
    BY DEF Done, Filled, CanFill, Queue
  <1>3. \A c \in Buf : q[c].ts \in Nat /\ q[c].ts # t /\ q[c].ts <= t
    BY DEF CanFill, Queue, StampsBy
  <1>4. f.index # NoBuf => f.ts < t
    BY <1>3 DEF DeviceBuffers, Frame
  <1>5. s < t
    BY <1>4 DEF FreshDevice, Frame
  <1>6. \A c \in Done(r) : s < r[c].ts /\ (f.index # NoBuf => f.ts < r[c].ts)
    BY <1>1, <1>2, <1>4, <1>5 DEF FreshDevice
  <1>7. \A c, e \in Done(r) : c # e => r[c].ts # r[e].ts
    BY <1>1, <1>2, <1>3 DEF FreshDevice
  <1>8. StampsBy(r, f, t)
    BY <1>1, <1>3 DEF StampsBy
  <1> QED
    BY <1>6, <1>7, <1>8 DEF FreshDevice

\* A device starts with a dummy frame and nothing to fetch.
LEMMA StartedFresh ==
  ASSUME NEW Q \in SUBSET Buf, NEW t \in Nat
  PROVE  /\ FreshDevice(Started(Q, t), DummyFrame(t), 0)
         /\ StampsBy(Started(Q, t), DummyFrame(t), t)
  BY DEF FreshDevice, StampsBy, Started, DummyFrame, Done, Empty

\* The oldest image that waits is later than the frame it replaces, and earlier
\* than the images that still wait.
LEMMA SwappedFresh ==
  ASSUME NEW q \in Queue, NEW f \in Frame, NEW s \in Nat, NEW t \in Nat,
         NEW b \in Buf, Oldest(q, b),
         FreshDevice(q, f, s), StampsBy(q, f, t)
  PROVE  /\ FreshDevice(Recycled(Dequeued(q, b), f.index),
                        CapturedFrame(b, q[b].ts), s)
         /\ StampsBy(Recycled(Dequeued(q, b), f.index),
                     CapturedFrame(b, q[b].ts), t)
  <1> DEFINE r == Recycled(Dequeued(q, b), f.index)
  <1>1. \A c \in Done(r) : c \in Done(q) /\ c # b /\ r[c] = q[c]
    BY DEF Done, Recycled, Dequeued, Enqueued, Empty, Queue, Frame
  <1>2. \A c \in Buf : r[c].ts \in Nat /\ r[c].ts <= t
    BY DEF Recycled, Dequeued, Enqueued, Empty, Queue, Frame, StampsBy
  <1>3. \A c \in Done(r) : q[b].ts < r[c].ts
    <2> SUFFICES ASSUME NEW c \in Done(r) PROVE q[b].ts < q[c].ts
      BY <1>1
    <2>1. q[b].ts <= q[c].ts /\ q[b].ts # q[c].ts
      BY <1>1 DEF Oldest, FreshDevice
    <2>2. q[b].ts \in Nat /\ q[c].ts \in Nat
      BY <1>1 DEF Queue, Done
    <2> QED
      BY <2>1, <2>2
  <1>4. s < q[b].ts /\ q[b].ts \in Nat
    BY DEF Oldest, FreshDevice, Queue
  <1>5. FreshDevice(r, CapturedFrame(b, q[b].ts), s)
    BY <1>1, <1>3, <1>4, BufAssumption DEF FreshDevice, CapturedFrame
  <1>6. StampsBy(r, CapturedFrame(b, q[b].ts), t)
    BY <1>2 DEF StampsBy, CapturedFrame
  <1> QED
    BY <1>5, <1>6

\* Fetching an image leaves fewer to fetch.
LEMMA DequeuedFresh ==
  ASSUME NEW q \in Queue, NEW f \in Frame, NEW s \in Nat, NEW t \in Nat,
         NEW b \in Buf, FreshDevice(q, f, s), StampsBy(q, f, t)
  PROVE  FreshDevice(Dequeued(q, b), f, s) /\ StampsBy(Dequeued(q, b), f, t)
  <1>1. \A c \in Buf : Dequeued(q, b)[c].ts = q[c].ts
    BY DEF Dequeued, Queue
  <1>2. \A c \in Done(Dequeued(q, b)) : c \in Done(q) /\ c \in Buf
    BY DEF Done, Dequeued, Queue
  <1> QED
    BY <1>1, <1>2 DEF FreshDevice, StampsBy

\* Showing the frames makes them the last ones shown; growing old changes no
\* time stamp.
LEMMA MarkedFresh ==
  ASSUME TypeInv, FreshInv, SyncOk \/ SyncLost \/ SyncNotYet
  PROVE  FreshInv'
  <1> USE DEF TypeInv, TypeOK, WorldType, ObjectType, HistoryType
  <1>1. UNCHANGED <<now, bufs, device>>
    BY DEF SyncOk, SyncLost, SyncNotYet, world
  <1>2. CASE SyncOk
    <2>1. Ready
      BY <1>2 DEF SyncOk, InSync
    <2>2. \A d \in device : ~frame[d].used
      BY <2>1 DEF Ready, Aged, Frame
    <2>3. \A d \in device : /\ frame'[d] = [frame[d] EXCEPT !.used = TRUE]
                            /\ seen'[d] = frame[d].ts
      BY <1>2 DEF SyncOk, Used
    <2>4. \A d \in device : /\ FreshDevice(bufs[d], frame'[d], seen'[d])
                            /\ StampsBy(bufs[d], frame'[d], now)
      <3> SUFFICES ASSUME NEW d \in device
                   PROVE  /\ FreshDevice(bufs[d], frame'[d], seen'[d])
                          /\ StampsBy(bufs[d], frame'[d], now)
        OBVIOUS
      <3>1. frame[d] \in Frame /\ frame[d].index # NoBuf
        BY <2>2 DEF FreshInv, FreshDevice
      <3>2. /\ frame'[d].index = frame[d].index /\ frame'[d].ts = frame[d].ts
            /\ frame'[d].used /\ seen'[d] = frame[d].ts
        BY <2>3, <3>1 DEF Frame
      <3> QED
        BY <3>1, <3>2 DEF FreshInv, FreshDevice, StampsBy, Frame
    <2>5. \A d \in Dev \ device : seen'[d] = 0
      BY <1>2 DEF SyncOk, FreshInv
    <2>6. 0 < now /\ last_sync' <= now
      BY <1>2 DEF SyncOk, FreshInv
    <2> QED
      BY <1>1, <2>4, <2>5, <2>6 DEF FreshInv
  <1>3. CASE SyncLost \/ SyncNotYet
    <2>1. frame' = Aged /\ UNCHANGED <<seen, last_sync>>
      BY <1>3 DEF SyncLost, SyncNotYet, history
    <2>2. \A d \in device : /\ frame'[d].index = frame[d].index
                            /\ frame'[d].ts = frame[d].ts
                            /\ frame[d].used => frame'[d].used
      BY <2>1 DEF Aged, Frame
    <2>3. \A d \in device : /\ FreshDevice(bufs[d], frame'[d], seen[d])
                            /\ StampsBy(bufs[d], frame'[d], now)
      BY <2>2 DEF FreshInv, FreshDevice, StampsBy
    <2> QED
      BY <1>1, <2>1, <2>3 DEF FreshInv
  <1> QED
    BY <1>2, <1>3

\* Every step keeps FreshInv.
LEMMA FreshNext ==
  TypeInv /\ BufferInv /\ FreshInv /\ [Next]_vars => FreshInv'
  <1> SUFFICES ASSUME TypeInv, BufferInv, FreshInv, [Next]_vars
               PROVE  FreshInv'
    OBVIOUS
  <1>1. /\ bufs \in [Dev -> Queue] /\ device \subseteq Dev
        /\ now \in Nat /\ last_sync \in Nat
        /\ frame \in [device -> Frame] /\ lost \in [Dev -> SUBSET Buf]
        /\ seen \in [Dev -> Nat] /\ todo \subseteq device
    BY DEF TypeInv, TypeOK, WorldType, ObjectType, CallType, HistoryType
  <1>2. ASSUME UNCHANGED <<now, bufs, device, frame, seen>>,
               last_sync' = last_sync \/ last_sync' = now
        PROVE  FreshInv'
    BY <1>1, <1>2 DEF FreshInv
  <1>3. ASSUME Gone PROVE FreshInv'
    <2>1. device' = {} /\ 0 < now' /\ last_sync' <= now'
      BY <1>1, <1>3 DEF Gone, FreshInv
    <2>2. \A d \in Dev : seen'[d] = 0
      BY <1>3 DEF Gone
    <2> QED
      BY <2>1, <2>2 DEF FreshInv
  <1>4. CASE Tick
    <2>1. \A d \in device : StampsBy(bufs[d], frame[d], now + 1)
      BY <1>1 DEF FreshInv, StampsBy, Frame, Queue
    <2> QED
      BY <1>1, <1>4, <2>1 DEF Tick, FreshInv, object, history
  <1>5. ASSUME NEW d \in Dev, Exposure(d) PROVE FreshInv'
    <2>1. PICK b \in Buf : /\ CanFill(bufs[d], b, now)
                           /\ bufs' = [bufs EXCEPT ![d] = Filled(bufs[d], b, now)]
      BY <1>5 DEF Exposure
    <2>2. UNCHANGED <<now, device, frame, seen, last_sync>>
      BY <1>5 DEF Exposure, object, history
    <2>3. ASSUME d \in device
          PROVE  /\ FreshDevice(Filled(bufs[d], b, now), frame[d], seen[d])
                 /\ StampsBy(Filled(bufs[d], b, now), frame[d], now)
      BY <1>1, <2>1, <2>3, FilledFresh DEF FreshInv, BufferInv
    <2> QED
      BY <1>1, <2>1, <2>2, <2>3 DEF FreshInv
  <1>6. ASSUME NEW d \in Dev, MgRegisterDevice(d) PROVE FreshInv'
    <2> USE <1>6 DEF MgRegisterDevice
    <2>1. PICK Q \in SUBSET Buf : bufs' = [bufs EXCEPT ![d] = Started(Q, now)]
      OBVIOUS
    <2>2. frame'[d] = DummyFrame(now) /\ \A e \in device : frame'[e] = frame[e]
      BY <1>1 DEF AddFrame
    <2>3. /\ FreshDevice(bufs'[d], frame'[d], seen[d])
          /\ StampsBy(bufs'[d], frame'[d], now)
      BY <1>1, <2>1, <2>2, StartedFresh DEF FreshInv
    <2>4. ASSUME NEW e \in device
          PROVE  /\ FreshDevice(bufs'[e], frame'[e], seen[e])
                 /\ StampsBy(bufs'[e], frame'[e], now)
      <3>1. bufs'[e] = bufs[e] /\ frame'[e] = frame[e]
        BY <1>1, <2>1, <2>2
      <3> QED
        BY <3>1 DEF FreshInv
    <2> QED
      BY <2>3, <2>4 DEF FreshInv
  <1>7. ASSUME NEW d \in Dev, MgDeregisterDevice(d) PROVE FreshInv'
    <2> USE <1>7 DEF MgDeregisterDevice
    <2>1. ASSUME NEW e \in device'
          PROVE  /\ FreshDevice(bufs'[e], frame'[e], seen'[e])
                 /\ StampsBy(bufs'[e], frame'[e], now)
      <3>1. /\ bufs'[e] = bufs[e] /\ frame'[e] = frame[e]
            /\ seen'[e] = seen[e] /\ e \in device
        BY <1>1 DEF AddFrame
      <3> QED
        BY <3>1 DEF FreshInv
    <2>2. \A e \in Dev \ device' : seen'[e] = 0
      BY <1>1 DEF FreshInv
    <2> QED
      BY <2>1, <2>2 DEF FreshInv
  <1>8. ASSUME NEW d \in Dev, SwapFrame(d) PROVE FreshInv'
    <2>1. PICK b \in Buf :
            /\ Oldest(bufs[d], b)
            /\ bufs' = [bufs EXCEPT ![d] =
                          Recycled(Dequeued(bufs[d], b), frame[d].index)]
            /\ frame' = [frame EXCEPT ![d] = CapturedFrame(b, bufs[d][b].ts)]
      BY <1>8 DEF SwapFrame
    <2>2. d \in device /\ UNCHANGED <<now, device, seen, last_sync>>
      BY <1>1, <1>8 DEF SwapFrame, Visits, history
    <2>3. /\ FreshDevice(bufs'[d], frame'[d], seen[d])
          /\ StampsBy(bufs'[d], frame'[d], now)
      BY <1>1, <2>1, <2>2, SwappedFresh DEF FreshInv
    <2>4. ASSUME NEW e \in device, e # d
          PROVE  /\ FreshDevice(bufs'[e], frame'[e], seen[e])
                 /\ StampsBy(bufs'[e], frame'[e], now)
      <3>1. bufs'[e] = bufs[e] /\ frame'[e] = frame[e]
        BY <1>1, <2>1, <2>4
      <3> QED
        BY <3>1 DEF FreshInv
    <2> QED
      BY <2>2, <2>3, <2>4 DEF FreshInv
  <1>9. ASSUME NEW d \in Dev, QbufFails(d) PROVE FreshInv'
    <2>1. PICK b \in Buf : bufs' = [bufs EXCEPT ![d] = Dequeued(bufs[d], b)]
      BY <1>9 DEF QbufFails
    <2>2. d \in device /\ UNCHANGED <<now, device, frame, seen, last_sync>>
      BY <1>1, <1>9 DEF QbufFails, Visits, object
    <2>3. /\ FreshDevice(bufs'[d], frame[d], seen[d])
          /\ StampsBy(bufs'[d], frame[d], now)
      BY <1>1, <2>1, <2>2, DequeuedFresh DEF FreshInv
    <2> QED
      BY <1>1, <2>1, <2>2, <2>3 DEF FreshInv
  <1>10. ASSUME NEW d \in Dev, DqbufFails(d) PROVE FreshInv'
    BY <1>2, <1>10 DEF DqbufFails, object, history
  <1>11. CASE World
    BY <1>4, <1>5, <1>11 DEF World
  <1>12. CASE User
    <2>1. CASE \/ MgCreate \/ MgRegisterCallback \/ MgCaptureHalt
               \/ NestedCapture \/ \E k \in Requests : MgCapture(k)
      BY <1>2, <2>1 DEF MgCreate, MgRegisterCallback, MgCaptureHalt,
         NestedCapture, MgCapture, world, object, history
    <2>2. CASE MgDestroy
      BY <1>3, <2>2 DEF MgDestroy
    <2> QED
      BY <1>6, <1>7, <1>12, <2>1, <2>2 DEF User
  <1>13. CASE Library
    <2>1. CASE \/ CaptureReturns \/ Select \/ SelectReady \/ SelectTimeout
               \/ SelectError \/ SelectInterrupted
      BY <1>2, <2>1 DEF CaptureReturns, Select, SelectReady, SelectTimeout,
         SelectError, SelectInterrupted, SelectReturns, world, object, history
    <2>2. CASE ScanEnds \/ SyncTooLong \/ CallbackReturns
      BY <1>2, <2>2 DEF ScanEnds, SyncTooLong, CallbackReturns, world, object,
         history
    <2>3. CASE ProgramDies
      BY <1>3, <2>3 DEF ProgramDies
    <2> QED
      BY <1>8, <1>9, <1>10, <1>13, <2>1, <2>2, <2>3, MarkedFresh DEF Library
  <1>14. CASE EndOfTime \/ UNCHANGED vars
    BY <1>2, <1>14 DEF EndOfTime, vars, world, object, history
  <1> QED
    BY <1>11, <1>12, <1>13, <1>14 DEF Next

\* FreshInv holds in every reachable state.
LEMMA FreshInvariant == Spec => [](TypeInv /\ FreshInv)
  <1>1. Init => BufferInv /\ FreshInv
    BY DEF Init, BufferInv, FreshInv
  <1> QED
    BY <1>1, BufferNext, FreshNext, TypeInvariant, PTL DEF Spec

\* A set given to the callback has an image of every listed device, none older
\* than TV_NO_SYNC and no two of them TV_IN_SYNC or more apart.
THEOREM SyncedDelivery == Spec => DeliverySynced
  <1>1. TypeInv /\ FreshInv /\ [Next]_vars =>
          [Delivers =>
             \A d \in device :
               /\ frame[d].index # NoBuf
               /\ now - frame[d].ts <= TV_NO_SYNC
               /\ \A e \in device : frame[d].ts - frame[e].ts < TV_IN_SYNC]_vars
    <2> SUFFICES ASSUME TypeInv, FreshInv, Next, Delivers, NEW d \in device
                 PROVE  /\ frame[d].index # NoBuf
                        /\ now - frame[d].ts <= TV_NO_SYNC
                        /\ \A e \in device :
                             frame[d].ts - frame[e].ts < TV_IN_SYNC
      OBVIOUS
    <2>1. SyncOk
      BY DeliversBySyncOk
    <2>2. PICK h \in Heads : InSync(h)
      BY <2>1 DEF SyncOk
    <2>3. \A e \in device : ~frame[e].used /\ ~Stale(e)
      BY <2>2 DEF InSync, Ready, Aged, TypeInv, TypeOK, ObjectType, Frame
    <2>4. \A e \in device : frame[d].ts - frame[e].ts < TV_IN_SYNC
      BY <2>2, <2>3 DEF InSync, SpreadBelow, Measured
    <2>5. frame[d].index # NoBuf
      BY <2>3 DEF FreshInv, FreshDevice
    <2>6. /\ now \in Nat /\ last_sync \in Nat /\ frame[d].ts \in Nat
          /\ last_sync <= frame[d].ts /\ now - last_sync <= TV_NO_SYNC
      BY <2>1, <2>3, TimeAssumption DEF SyncOk, TooLong, Stale, TypeInv, TypeOK,
         WorldType, ObjectType, Frame
    <2> QED
      BY <2>4, <2>5, <2>6, TimeAssumption
  <1> QED
    BY <1>1, FreshInvariant, PTL DEF Spec, DeliverySynced

\* No image is given to the user twice or out of order, and none dates from
\* before the capture or the synchronised set before it.
THEOREM FreshDelivery == Spec => DeliveryFresh
  <1>1. TypeInv /\ FreshInv /\ [Next]_vars =>
          [Delivers => \A d \in device : /\ frame[d].ts > seen[d]
                                         /\ frame[d].ts >= last_sync]_vars
    <2> SUFFICES ASSUME TypeInv, FreshInv, Next, Delivers, NEW d \in device
                 PROVE  frame[d].ts > seen[d] /\ frame[d].ts >= last_sync
      OBVIOUS
    <2>1. Ready
      BY DeliversBySyncOk DEF SyncOk, InSync
    <2>2. ~frame[d].used /\ ~Stale(d)
      BY <2>1 DEF Ready, Aged, TypeInv, TypeOK, ObjectType, Frame
    <2>3. frame[d].ts \in Nat /\ last_sync \in Nat /\ seen[d] \in Nat
      BY DEF TypeInv, TypeOK, ObjectType, HistoryType, Frame
    <2> QED
      BY <2>2, <2>3 DEF FreshInv, FreshDevice, Stale
  <1> QED
    BY <1>1, FreshInvariant, PTL DEF Spec, DeliveryFresh

=============================================================================
