--------------------------- MODULE SessionProofs ---------------------------
(***************************************************************************)
(* MultiGee implements Session: step by step, what the multi_gee object    *)
(* does is a step that the promise to the program allows, or one that the  *)
(* program does not see.                                                   *)
(***************************************************************************)
EXTENDS MultiGeeProofs

-----------------------------------------------------------------------------
(* Where a capture stands.                                                 *)

\* Past the check for a callback there is one; sync_test is called for a device
\* that is listed, whatever has become of the loop.
PlaceInv == /\ pc \in {"select", "scan", "test", "callback"} => callback
            /\ pc = "test" => cur \in device

\* Every step keeps PlaceInv.
LEMMA PlaceNext == TypeInv /\ PlaceInv /\ [Next]_vars => PlaceInv'
  <1> SUFFICES ASSUME TypeInv, PlaceInv, [Next]_vars PROVE PlaceInv'
    OBVIOUS
  <1> USE DEF PlaceInv, object, call
  <1>1. CASE World
    BY <1>1 DEF World, Tick, Exposure
  <1>2. CASE User
    BY <1>2 DEF User, MgCreate, MgDestroy, Gone, MgRegisterCallback,
       MgCaptureHalt, NestedCapture, MgRegisterDevice, MgDeregisterDevice,
       MgCapture, UserRuns
  <1>3. CASE \/ CaptureReturns \/ SelectReady \/ SelectTimeout \/ SelectError
             \/ SelectInterrupted \/ ScanEnds
    BY <1>3 DEF CaptureReturns, SelectReady, SelectTimeout, SelectError,
       SelectInterrupted, SelectReturns, ScanEnds, EndPass
  <1>4. CASE Select
    BY <1>4 DEF Select, Reason, RET_CALLBACK, RET_UNDEF
  <1>5. ASSUME NEW d \in Dev, SwapFrame(d) \/ DqbufFails(d) \/ QbufFails(d)
        PROVE  PlaceInv'
    BY <1>5 DEF SwapFrame, DqbufFails, QbufFails, Visits, EndPass, TypeInv,
       TypeOK, CallType
  <1>6. CASE \/ SyncTooLong \/ SyncOk \/ SyncLost \/ SyncNotYet
             \/ CallbackReturns \/ ProgramDies
    BY <1>6 DEF SyncTooLong, SyncOk, SyncLost, SyncNotYet, CallbackReturns,
       ProgramDies, Gone, EndPass
  <1>7. CASE EndOfTime \/ UNCHANGED vars
    BY <1>7 DEF EndOfTime, vars
  <1> QED
    BY <1>1, <1>2, <1>3, <1>4, <1>5, <1>6, <1>7 DEF Next, Library

SessionInv == TypeInv /\ LoopInv /\ FreshInv /\ PlaceInv

\* SessionInv holds in every reachable state.
LEMMA SessionInvariant == Spec => []SessionInv
  <1>1. Init => PlaceInv
    BY DEF Init, PlaceInv
  <1>2. TypeInv /\ LoopInv /\ FreshInv /\ PlaceInv => SessionInv
    BY DEF SessionInv
  <1> QED
    BY <1>1, <1>2, PlaceNext, LoopInvariant, FreshInvariant, TypeInvariant, PTL
    DEF Spec

-----------------------------------------------------------------------------
(* The steps.                                                              *)

\* What the program does not see: the drivers, and the steps of a capture
\* between two sets.
LEMMA HiddenSteps ==
  ASSUME \/ \E d \in Dev : \/ Exposure(d) \/ SwapFrame(d) \/ DqbufFails(d)
                           \/ QbufFails(d)
         \/ Select \/ SelectReady \/ SelectTimeout \/ SelectError
         \/ SelectInterrupted \/ ScanEnds
         \/ SyncTooLong \/ SyncLost \/ SyncNotYet \/ EndOfTime \/ UNCHANGED vars
  PROVE  UNCHANGED Promise!vars
  <1> USE DEF Promise!vars, Promise!program, Promise!capture, world, object,
      call, history
  <1>1. CASE \E d \in Dev : \/ Exposure(d) \/ SwapFrame(d) \/ DqbufFails(d)
                            \/ QbufFails(d)
    BY <1>1 DEF Exposure, SwapFrame, DqbufFails, QbufFails, Visits, EndPass
  <1>2. CASE \/ Select \/ SelectReady \/ SelectTimeout \/ SelectError
             \/ SelectInterrupted \/ ScanEnds
    BY <1>2 DEF Select, SelectReady, SelectTimeout, SelectError,
       SelectInterrupted, SelectReturns, ScanEnds, EndPass
  <1>3. CASE SyncTooLong \/ SyncLost \/ SyncNotYet
    BY <1>3 DEF SyncTooLong, SyncLost, SyncNotYet, EndPass
  <1>4. CASE EndOfTime \/ UNCHANGED vars
    BY <1>4 DEF EndOfTime, vars
  <1> QED
    BY <1>1, <1>2, <1>3, <1>4

\* What is left of the object when it is freed is what it began with.
LEMMA GoneFresh == Gone => Promise!Fresh'
  BY DEF Gone, Promise!Fresh, RET_UNDEF, Promise!RET_UNDEF

\* The clock, and what the program calls.
LEMMA ProgramSteps ==
  ASSUME SessionInv, Tick \/ User
  PROVE  Promise!Next
  <1> USE DEF Promise!program, Promise!capture, Promise!ProgramRuns, world,
      object, call, history, UserRuns
  <1>1. CASE Tick
    BY <1>1 DEF Tick, Promise!Time, Promise!Next
  <1>2. CASE MgCreate
    BY <1>2 DEF MgCreate, Promise!Create, Promise!Next
  <1>3. CASE MgDestroy
    <2>1. Gone /\ pc = "idle"
      BY <1>3 DEF MgDestroy
    <2> QED
      BY <2>1, GoneFresh DEF Gone, Promise!Destroy, Promise!Next
  <1>4. CASE MgRegisterCallback
    BY <1>4 DEF MgRegisterCallback, Promise!RegisterCallback, Promise!Next
  <1>5. CASE MgCaptureHalt
    BY <1>5 DEF MgCaptureHalt, Promise!Halt, Promise!Next
  <1>6. CASE NestedCapture
    BY <1>6 DEF NestedCapture, Promise!Refused, Promise!Next
  <1>7. ASSUME NEW d \in Dev, MgRegisterDevice(d) PROVE Promise!Next
    <2>1. Promise!Register(d)
      BY <1>7 DEF MgRegisterDevice, Promise!Register
    <2> QED
      BY <2>1 DEF Promise!Next
  <1>8. ASSUME NEW d \in Dev, MgDeregisterDevice(d) PROVE Promise!Next
    <2>1. d # NoDev /\ dangled \in BOOLEAN
      BY DevAssumption DEF SessionInv, TypeInv, TypeOK, HistoryType
    <2>2. dangled' = dangled \/ (pc = "callback" /\ dangled' = TRUE)
      BY <1>8, <2>1 DEF MgDeregisterDevice, SessionInv, LoopInv, PassInv
    <2>3. Promise!Deregister(d)
      BY <1>8, <2>2 DEF MgDeregisterDevice, Promise!Deregister
    <2> QED
      BY <2>3 DEF Promise!Next
  <1>9. ASSUME NEW k \in Requests, MgCapture(k) PROVE Promise!Next
    <2>1. Promise!Capture(k)
      BY <1>9 DEF MgCapture, Promise!Capture, RET_UNDEF, Promise!RET_UNDEF
    <2> QED
      BY <2>1 DEF Promise!Next
  <1> QED
    BY <1>1, <1>2, <1>3, <1>4, <1>5, <1>6, <1>7, <1>8, <1>9 DEF User

\* A successful sync_test delivers a set, and may.
LEMMA DeliverStep ==
  ASSUME SessionInv, SyncOk
  PROVE  Promise!Deliver
  <1> USE DEF SessionInv, TypeInv, TypeOK, WorldType, ObjectType, CallType,
      HistoryType
  <1>1. PICK h \in Heads : InSync(h)
    BY DEF SyncOk
  <1>2. \A d \in device : ~frame[d].used /\ ~Stale(d) /\ frame[d].ts \in Nat
    BY <1>1 DEF InSync, Ready, Aged, Frame
  <1>3. callback /\ device # {}
    BY DEF SyncOk, PlaceInv
  <1>4. dangled \/ (~halt /\ ~Promise!Enough)
    <2> SUFFICES ASSUME ~dangled PROVE ~halt /\ ~Promise!Enough
      OBVIOUS
    <2>1. calls = 0
      BY <1>1, ServedNotReady DEF InSync, SyncOk, LoopInv, PassInv
    <2> QED
      BY <2>1 DEF SyncOk, LoopInv, HaltInv, CountInv, Promise!Enough
  <1>5. \A d \in device : seen'[d] = frame[d].ts
    BY DEF SyncOk
  <1>6. ASSUME NEW d \in device
        PROVE  /\ frame[d].ts > seen[d]
               /\ frame[d].ts \in last_sync .. now
               /\ now - frame[d].ts <= TV_NO_SYNC
               /\ \A e \in device : frame[d].ts - frame[e].ts < TV_IN_SYNC
    <2>1. frame[d].ts > seen[d] /\ last_sync <= frame[d].ts /\ frame[d].ts <= now
      BY <1>2 DEF FreshInv, FreshDevice, StampsBy, Stale
    <2>2. now - last_sync <= TV_NO_SYNC
      BY TimeAssumption DEF SyncOk, TooLong
    <2>3. \A e \in device : frame[d].ts - frame[e].ts < TV_IN_SYNC
      BY <1>1, <1>2 DEF InSync, SpreadBelow, Measured
    <2> QED
      BY <1>2, <2>1, <2>2, <2>3, TimeAssumption
  <1>7. seen' \in [Dev -> Nat] /\ \A d \in Dev \ device : seen'[d] = seen[d]
    BY <1>2 DEF SyncOk
  <1>8. UNCHANGED <<now, device, halt, callback, n, count, ret, dangled>>
    BY DEF SyncOk, world
  <1> QED
    BY <1>3, <1>4, <1>5, <1>6, <1>7, <1>8
    DEF SyncOk, Promise!Deliver, Promise!program

\* What mg_capture returns is the answer that is due.
LEMMA AnswerStep ==
  ASSUME SessionInv, CaptureReturns
  PROVE  Promise!Answer
  <1>1. \/ ~callback /\ ret' = RET_CALLBACK
        \/ callback /\ halt /\ ret' = RET_HALT
        \/ callback /\ ~halt /\ device = {} /\ ret' = RET_DEVICE
        \/ callback /\ ~halt /\ device # {} /\ Enough /\ ret' = count
        \/ callback /\ ~halt /\ device # {} /\ ~Enough /\ ret' = RET_SYNC
    BY DEF CaptureReturns, Reason
  <1> QED
    BY <1>1 DEF CaptureReturns, Promise!Answer, Promise!program, world, Enough,
       Promise!Enough, RET_CALLBACK, RET_HALT, RET_DEVICE, RET_SYNC,
       Promise!RET_CALLBACK, Promise!RET_HALT, Promise!RET_DEVICE,
       Promise!RET_SYNC

\* The callback returns to the capture, or to nowhere.
LEMMA ReturnSteps ==
  ASSUME CallbackReturns \/ ProgramDies
  PROVE  Promise!Next
  <1>1. CASE CallbackReturns
    BY <1>1 DEF CallbackReturns, Promise!Return, Promise!Next, Promise!program,
       world, object, history
  <1>2. CASE ProgramDies
    <2>1. Gone /\ pc = "callback" /\ dangled
      BY <1>2 DEF ProgramDies
    <2> QED
      BY <2>1, GoneFresh DEF Gone, Promise!Destroy, Promise!Next
  <1> QED
    BY <1>1, <1>2

\* The library keeps its promise to the program, whatever fails on the way: what
\* it gives to the callback, in which order and how often, and what mg_capture
\* answers when several reasons to end have come together.
THEOREM LibraryKeepsPromise == Spec => ImplementsSession
  <1>1. Init => Promise!Init
    BY DEF Init, Promise!Init, Promise!Fresh, RET_UNDEF, Promise!RET_UNDEF
  <1>2. SessionInv /\ [Next]_vars => [Promise!Next]_(Promise!vars)
    <2> SUFFICES ASSUME SessionInv, [Next]_vars
                 PROVE  Promise!Next \/ UNCHANGED Promise!vars
      OBVIOUS
    <2>1. CASE World
      BY <2>1, ProgramSteps, HiddenSteps DEF World
    <2>2. CASE User
      BY <2>2, ProgramSteps
    <2>3. CASE Library
      BY <2>3, HiddenSteps, DeliverStep, AnswerStep, ReturnSteps
      DEF Library, Promise!Next
    <2>4. CASE EndOfTime \/ UNCHANGED vars
      BY <2>4, HiddenSteps
    <2> QED
      BY <2>1, <2>2, <2>3, <2>4 DEF Next
  <1> QED
    BY <1>1, <1>2, SessionInvariant, PTL
    DEF Spec, ImplementsSession, Promise!Spec

=============================================================================
