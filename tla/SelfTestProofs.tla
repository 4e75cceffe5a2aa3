--------------------------- MODULE SelfTestProofs ---------------------------
(***************************************************************************)
(* The library's own test program uses the library as MultiGee allows, and *)
(* so what is proved about MultiGee holds for it, and more.                 *)
(***************************************************************************)
EXTENDS SelfTest, MultiGeeProofs

\* The program's devices are devices, and it asks for a number of sets.
ProgramConstants == /\ Base \in Seq(Dev)
                    /\ Extra \in [1 .. 2 -> Dev]
                    /\ Sets \in Requests

\* Where the program is, seen from the library: a capture in progress is the
\* program's, with its callback and number of sets, and nobody halts it.
CallerInv ==
  /\ k \in Nat
  /\ step \in {"create", "callback", "register", "capturing", "replacing",
               "replaced"}
  /\ step \in {"register", "capturing", "replacing", "replaced"} => callback
  /\ pc \notin {"none", "idle"} =>
       n = Sets /\ step \in {"capturing", "replacing", "replaced"}
  /\ ~halt

\* Devices come and go without the capture in progress, and its object, ending.
LEMMA DevicesChange ==
  ASSUME NEW d, MgRegisterDevice(d) \/ MgDeregisterDevice(d)
  PROVE  UNCHANGED <<pc, n, halt, callback>>
  BY DEF MgRegisterDevice, MgDeregisterDevice

\* A step of the program is a call that a user may make, or none.
LEMMA ProgramCalls ==
  ASSUME ProgramConstants, TypeInv, CallerInv, Program
  PROVE  [User \/ CallbackReturns]_vars
  <1>1. CASE Create \/ SetCallback \/ Destroy \/ Leave
    BY <1>1 DEF Create, SetCallback, Destroy, Leave, User
  <1>2. CASE RegisterBase
    <2>1. k + 1 \in 1 .. Len(Base)
      BY <1>2 DEF RegisterBase, CallerInv, ProgramConstants
    <2>2. Base[k + 1] \in Dev
      BY <2>1 DEF ProgramConstants
    <2> QED
      BY <1>2, <2>2 DEF RegisterBase, User
  <1>3. CASE Capture
    BY <1>3 DEF Capture, User, ProgramConstants
  <1>4. CASE ReplaceOld
    <2>1. CASE UNCHANGED vars
      BY <2>1
    <2>2. CASE \E d \in device : MgDeregisterDevice(d)
      BY <2>2 DEF User, TypeInv, TypeOK, ObjectType
    <2> QED
      BY <1>4, <2>1, <2>2 DEF ReplaceOld
  <1>5. CASE ReplaceNew
    <2>1. Extra[IF flag THEN 1 ELSE 2] \in Dev
      BY DEF ProgramConstants
    <2> QED
      BY <1>5, <2>1 DEF ReplaceNew, User
  <1> QED
    BY <1>1, <1>2, <1>3, <1>4, <1>5 DEF Program

\* The program that dies is run again from its beginning.
LEMMA ProgramAnew ==
  ASSUME CallerInv, Dies
  PROVE  CallerInv' /\ Next
  <1>1. Next
    BY DEF Dies, Next, Library
  <1>2. CallerInv'
    BY DEF Dies, ProgramDies, Gone, CallerInv
  <1> QED
    BY <1>1, <1>2

\* The program and the library keep each other's promises.
LEMMA CallerNext ==
  ASSUME ProgramConstants, TypeInv, CallerInv, [SelfTestNext]_<<vars, program>>
  PROVE  CallerInv' /\ [Next]_vars
  <1>1. CASE Program
    <2>1. [Next]_vars
      BY <1>1, ProgramCalls DEF Next, Library
    <2>2. CallerInv'
      <3>1. CASE Create
        BY <3>1 DEF CallerInv, Create, MgCreate, world, object, history
      <3>2. CASE SetCallback
        BY <3>2 DEF CallerInv, SetCallback, MgRegisterCallback, UserRuns, world,
           call, history
      <3>3. CASE RegisterBase
        <4>1. UNCHANGED <<pc, n, halt, callback>>
          BY <3>3, DevicesChange DEF RegisterBase, vars, object, call
        <4> QED
          BY <3>3, <4>1 DEF CallerInv, RegisterBase
      <3>4. CASE Capture
        BY <3>4 DEF CallerInv, Capture, MgCapture
      <3>5. CASE Destroy
        BY <3>5 DEF CallerInv, Destroy, MgDestroy, Gone
      <3>6. CASE ReplaceOld
        <4>1. UNCHANGED <<pc, n, halt, callback>>
          BY <3>6, DevicesChange DEF ReplaceOld, vars, object, call
        <4> QED
          BY <3>6, <4>1 DEF CallerInv, ReplaceOld, InCallback
      <3>7. CASE ReplaceNew
        <4>1. UNCHANGED <<pc, n, halt, callback>>
          BY <3>7, DevicesChange DEF ReplaceNew, vars, object, call
        <4> QED
          BY <3>7, <4>1 DEF CallerInv, ReplaceNew
      <3>8. CASE Leave
        BY <3>8 DEF CallerInv, Leave, CallbackReturns, object
      <3> QED
        BY <1>1, <3>1, <3>2, <3>3, <3>4, <3>5, <3>6, <3>7, <3>8 DEF Program
    <2> QED
      BY <2>1, <2>2
  <1>2. CASE (World \/ EndOfTime) /\ UNCHANGED program
    BY <1>2 DEF Next, CallerInv, World, EndOfTime, Tick, Exposure, vars, object,
       call, program
  <1>3. CASE pc # "callback" /\ Library /\ UNCHANGED program
    <2>1. UNCHANGED <<k, step>> /\ pc # "callback"
      BY <1>3 DEF program
    <2>2. /\ UNCHANGED <<halt, callback>>
          /\ pc' = "idle" \/ (n' = n /\ pc \notin {"none", "idle"})
      BY <1>3 DEF Library, CaptureReturns, Select, SelectReady, SelectTimeout,
         SelectError, SelectInterrupted, SelectReturns, ScanEnds, EndPass,
         SyncTooLong, SyncOk, SyncLost, SyncNotYet, CallbackReturns, ProgramDies,
         SwapFrame, DqbufFails, QbufFails, Visits, object
    <2> QED
      BY <1>3, <2>1, <2>2 DEF CallerInv, Next
  <1>4. CASE UNCHANGED <<vars, program>>
    BY <1>4 DEF CallerInv, vars, object, call, program
  <1>5. CASE Dies
    BY <1>5, ProgramAnew
  <1> QED
    BY <1>1, <1>2, <1>3, <1>4, <1>5 DEF SelfTestNext

\* The two invariants hold together, and the steps are those of the library.
LEMMA CallerInvariant ==
  ASSUME ProgramConstants
  PROVE  SelfTestSpec => [](TypeInv /\ CallerInv) /\ [][Next]_vars
  <1>1. SelfTestInit => TypeInv /\ CallerInv
    BY TypeInit DEF SelfTestInit, ProgramInit, CallerInv, Init
  <1>2. TypeInv /\ CallerInv /\ [SelfTestNext]_<<vars, program>> =>
          TypeInv' /\ CallerInv' /\ [Next]_vars
    BY CallerNext, TypeNext
  <1> QED
    BY <1>1, <1>2, PTL DEF SelfTestSpec

-----------------------------------------------------------------------------
\* The test program calls the library only as a user of it may, although its
\* callback exchanges devices in the middle of a capture.
THEOREM SelfTestAllowed ==
  ASSUME ProgramConstants
  PROVE  SelfTestSpec => Spec
  <1>1. SelfTestInit => Init
    BY DEF SelfTestInit
  <1> QED
    BY <1>1, CallerInvariant, PTL DEF SelfTestSpec, Spec

\* A capture of the test program gives all its sets, or fails on account of the
\* devices or of their synchronisation, unless its callback has freed the node
\* that the loop stands on: it never finds itself halted or without callback.
THEOREM SelfTestAnswers ==
  ASSUME ProgramConstants
  PROVE  SelfTestSpec =>
           [][pc = "loop" /\ pc' = "idle" /\ ~dangled =>
                ret' \in {Sets, RET_DEVICE, RET_SYNC}]_vars
  <1>1. /\ TypeInv /\ CallerInv /\ [Next]_vars
        /\ [pc = "loop" /\ pc' = "idle" /\ ret' >= 0 /\ ~dangled => ret' = n]_vars
        => [pc = "loop" /\ pc' = "idle" /\ ~dangled =>
              ret' \in {Sets, RET_DEVICE, RET_SYNC}]_vars
    <2> SUFFICES ASSUME TypeInv, CallerInv, Next, pc = "loop", pc' = "idle",
                        ret' >= 0 => ret' = n
                 PROVE  ret' \in {Sets, RET_DEVICE, RET_SYNC}
      BY DEF vars, call
    <2>1. CaptureReturns
      BY DEF Next, World, User, Library, EndOfTime, vars, world,
         object, call, history, Tick, Exposure, MgCreate, MgDestroy, Gone,
         MgRegisterCallback, MgCaptureHalt, NestedCapture, MgRegisterDevice,
         MgDeregisterDevice, MgCapture, Select, SelectReady,
         SelectTimeout, SelectError, SelectInterrupted, SelectReturns,
         ScanEnds, SwapFrame, DqbufFails, QbufFails, Visits, EndPass, UserRuns,
         SyncTooLong, SyncOk, SyncLost, SyncNotYet, CallbackReturns, ProgramDies
    <2>2. callback /\ ~halt /\ n = Sets
      BY DEF CallerInv
    <2>3. count \in Nat
      BY DEF TypeInv, TypeOK, CallType
    <2>4. ret' \in {RET_DEVICE, count, RET_SYNC} /\ ret' = Reason
      BY <2>1, <2>2 DEF CaptureReturns, Reason
    <2> QED
      BY <2>2, <2>3, <2>4
  <1> QED
    BY <1>1, CallerInvariant, SelfTestAllowed, CountReturned, PTL DEF ReturnsCount

=============================================================================
