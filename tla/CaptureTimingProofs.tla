------------------------ MODULE CaptureTimingProofs ------------------------
(***************************************************************************)
(* Theorems about CaptureTiming, for any set of devices, any number of     *)
(* buffers, any criteria, and signals as rare as is assumed there.         *)
(***************************************************************************)
EXTENDS CaptureTiming, SequenceTheorems, TLAPS

-----------------------------------------------------------------------------
(* Type correctness.                                                       *)

Age == 0 .. Oldest

\* TypeOK, and that the loop has only devices ahead of it that have an image.
TypeInv == /\ TypeOK
           /\ pending \in [Dev -> Seq(Age)]
           /\ pc \in {"idle", "loop", "select"} => todo = {}
           /\ todo \subseteq Readable

\* The numbers that the bounds are made of.
LEMMA Bounds ==
  /\ TV_NO_SYNC \in Nat /\ TV_NO_SYNC > 0 /\ NumBufs \in Nat
  /\ SignalGap \in Nat /\ MaxSilence \in Nat /\ Oldest \in Nat
  BY BufsAssumption, TimeAssumption, SignalAssumption DEF Oldest, MaxSilence

\* A queue as time passes.
LEMMA OlderQueue ==
  ASSUME NEW q \in Seq(Age)
  PROVE  LET r == [k \in DOMAIN q |-> Later(q[k], Oldest)]
         IN r \in Seq(Age) /\ Len(r) = Len(q) /\ (q # <<>> => r # <<>>)
  <1> DEFINE r == [k \in DOMAIN q |-> Later(q[k], Oldest)]
  <1>1. DOMAIN q = 1 .. Len(q) /\ Len(q) \in Nat
    OBVIOUS
  <1>2. ASSUME NEW k \in 1 .. Len(q) PROVE Later(q[k], Oldest) \in Age
    <2>1. q[k] \in Age
      OBVIOUS
    <2> QED
      BY <2>1, Bounds DEF Age, Later
  <1>3. r \in [1 .. Len(q) -> Age]
    BY <1>1, <1>2
  <1>4. r \in Seq(Age) /\ Len(r) = Len(q)
    BY <1>1, <1>3
  <1>5. q # <<>> => r # <<>>
    BY <1>4, EmptySeq
  <1> QED
    BY <1>4, <1>5

\* The frame of a device that an image is fetched of, and what the tests make of
\* the frame list.
LEMMA SwapTypes ==
  ASSUME TypeInv, NEW d \in Dev, d \in todo
  PROVE  /\ Swapped(d) \in [Dev -> Frame] /\ Aged(Swapped(d)) \in [Dev -> Frame]
         /\ [e \in Dev |-> [Swapped(d)[e] EXCEPT !.used = TRUE]] \in [Dev -> Frame]
         /\ Fetched(d) \in [Dev -> Seq(Age)]
         /\ Len(Fetched(d)[d]) < Len(pending[d])
         /\ \A e \in Dev \ {d} : Fetched(d)[e] = pending[e]
  <1> USE DEF TypeInv, TypeOK
  <1>1. pending[d] \in Seq(Age) /\ pending[d] # <<>>
    BY DEF Readable
  <1>2. /\ Head(pending[d]) \in Age /\ Tail(pending[d]) \in Seq(Age)
        /\ Len(Tail(pending[d])) < Len(pending[d])
    BY <1>1, HeadTailProperties
  <1>3. Swapped(d) \in [Dev -> Frame]
    BY <1>2 DEF Swapped, Frame, Age
  <1>4. /\ Aged(Swapped(d)) \in [Dev -> Frame]
        /\ [e \in Dev |-> [Swapped(d)[e] EXCEPT !.used = TRUE]] \in [Dev -> Frame]
    BY <1>3 DEF Aged, Stale, Frame
  <1>5. /\ Fetched(d) \in [Dev -> Seq(Age)] /\ Fetched(d)[d] = Tail(pending[d])
        /\ \A e \in Dev \ {d} : Fetched(d)[e] = pending[e]
    BY <1>2 DEF Fetched
  <1> QED
    BY <1>2, <1>3, <1>4, <1>5

\* The types of the queues, as TypeOK has them.
Queues(p) == /\ p \in [Dev -> Seq(Age)]
             /\ \A d \in Dev : Len(p[d]) <= NumBufs

\* A queue of ages has as many as it is long, each of them an age.
LEMMA QueueTypes ==
  ASSUME NEW p, Queues(p)
  PROVE  /\ DOMAIN p = Dev
         /\ \A d \in Dev : /\ Len(p[d]) <= NumBufs
                           /\ \A k \in DOMAIN p[d] : p[d][k] \in 0 .. Oldest
  <1>1. DOMAIN p = Dev /\ \A d \in Dev : p[d] \in Seq(Age) /\ Len(p[d]) <= NumBufs
    BY DEF Queues
  <1>2. ASSUME NEW d \in Dev, NEW k \in DOMAIN p[d] PROVE p[d][k] \in 0 .. Oldest
    BY <1>1, <1>2, ElementOfSeq, LenProperties DEF Age
  <1> QED
    BY <1>1, <1>2

\* Every step keeps the types.
LEMMA TypeNext == TypeInv /\ [Next]_vars => TypeInv'
  <1> SUFFICES ASSUME TypeInv, [Next]_vars PROVE TypeInv'
    OBVIOUS
  <1> USE DEF TypeInv, TypeOK
  <1>1. CASE Tick
    <2>1. Queues(pending')
      BY <1>1, OlderQueue DEF Tick, Queues
    <2>2. frame' \in [Dev -> Frame]
      <3>1. \A d \in Dev : Later(frame[d].age, Oldest) \in 0 .. Oldest
        BY Bounds DEF Frame, Later
      <3> QED
        BY <1>1, <3>1 DEF Tick, Frame
    <2>3. /\ since' \in 0 .. TV_NO_SYNC + 1 /\ signal' \in 0 .. SignalGap
          /\ quiet' \in 0 .. MaxSilence + 1
      <3>1. \A limit \in Nat, t \in Int :
              t \in 0 .. limit => Later(t, limit) \in 0 .. limit
        BY DEF Later
      <3>2. /\ since' = Later(since, TV_NO_SYNC + 1)
            /\ signal' = Later(signal, SignalGap)
            /\ quiet' = IF UserRuns THEN 0 ELSE Later(quiet, MaxSilence + 1)
        BY <1>1 DEF Tick
      <3>3. /\ TV_NO_SYNC + 1 \in Nat /\ SignalGap \in Nat
            /\ MaxSilence + 1 \in Nat
            /\ since \in Int /\ signal \in Int /\ quiet \in Int
        BY Bounds
      <3>4. 0 \in 0 .. MaxSilence + 1
        BY Bounds
      <3> QED
        BY <3>1, <3>2, <3>3, <3>4
    <2>4. waited' \in 0 .. TV_NO_SYNC
      BY <1>1, Bounds DEF Tick, Waiting, UserRuns
    <2>5. todo' \subseteq Readable'
      BY <1>1, OlderQueue DEF Tick, Readable
    <2> QED
      BY <1>1, <2>1, <2>2, <2>3, <2>4, <2>5, QueueTypes DEF Tick, Queues
  <1>2. ASSUME NEW d \in Dev, Exposure(d) PROVE TypeInv'
    <2>1. pending[d] \in Seq(Age) /\ 0 \in Age /\ Len(pending[d]) < NumBufs
      BY <1>2, Bounds DEF Exposure, Age
    <2>2. /\ Append(pending[d], 0) \in Seq(Age) /\ Append(pending[d], 0) # <<>>
          /\ Len(Append(pending[d], 0)) = Len(pending[d]) + 1
      BY <2>1, AppendProperties
    <2>3. Queues(pending')
      BY <1>2, <2>1, <2>2, Bounds DEF Exposure, Queues
    <2>4. todo' \subseteq Readable'
      BY <1>2, <2>2 DEF Exposure, Readable
    <2> QED
      BY <1>2, <2>3, <2>4, QueueTypes DEF Exposure, Queues
  <1>3. CASE MgCaptureHalt \/ CaptureReturns \/ ScanEnds \/ CallbackReturns
    BY <1>3
    DEF MgCaptureHalt, CaptureReturns, ScanEnds, CallbackReturns, Readable
  <1>4. CASE MgCapture \/ Select \/ SelectInterrupted
    BY <1>4, Bounds DEF MgCapture, Select, SelectInterrupted, Readable
  <1>5. CASE SelectReady \/ SelectTimeout
    BY <1>5, Bounds DEF SelectReady, SelectTimeout, StatusAfterTimeout, Readable
  <1>6. ASSUME NEW d \in Dev, Delivers(d) \/ GivesUp(d) \/ GoesOn(d)
        PROVE  TypeInv'
    <2>1. d \in todo
      BY <1>6 DEF Delivers, GivesUp, GoesOn, Visits
    <2>2. pending' = Fetched(d) /\ (todo' = {} \/ todo' = todo \ {d})
      BY <1>6 DEF Delivers, GivesUp, GoesOn
    <2>3. Queues(pending')
      <3>1. ASSUME NEW e \in Dev PROVE Len(pending'[e]) <= NumBufs
        <4>1. Len(pending'[d]) \in Nat /\ Len(pending[d]) \in Nat
          BY <2>1, <2>2, SwapTypes
        <4>2. Len(pending[e]) <= NumBufs /\ Len(pending[d]) <= NumBufs
          OBVIOUS
        <4>3. CASE e = d
          <5>1. Len(pending'[d]) < Len(pending[d])
            BY <2>1, <2>2, SwapTypes
          <5> QED
            BY <4>1, <4>2, <4>3, <5>1, Bounds
        <4>4. CASE e # d
          BY <2>1, <2>2, <4>2, <4>4, SwapTypes
        <4> QED
          BY <4>3, <4>4
      <3> QED
        BY <2>1, <2>2, <3>1, SwapTypes DEF Queues
    <2>4. todo' \subseteq Readable'
      BY <2>1, <2>2, SwapTypes DEF Readable
    <2>5. frame' \in [Dev -> Frame]
      BY <1>6, <2>1, SwapTypes DEF Delivers, GivesUp, GoesOn
    <2>6. /\ since' \in 0 .. TV_NO_SYNC + 1 /\ quiet' \in 0 .. MaxSilence + 1
          /\ UNCHANGED <<halt, waited, signal>>
          /\ pc' \in {"scan", "callback"}
          /\ sync' \in {"SYNC_OK", "SYNC_FAIL", "SYNC_FATAL"}
      BY <1>6, Bounds DEF Delivers, GivesUp, GoesOn, Visits
    <2> QED
      BY <2>1, <2>2, <2>3, <2>4, <2>5, <2>6, QueueTypes DEF Queues
  <1>7. CASE UNCHANGED vars
    BY <1>7 DEF vars, Readable
  <1> QED
    BY <1>1, <1>2, <1>3, <1>4, <1>5, <1>6, <1>7 DEF Next, Library

\* TypeInv holds in every reachable state.
LEMMA TypeInvariant == Spec => []TypeInv
  <1>1. Init => TypeInv
    <2> SUFFICES ASSUME Init PROVE TypeInv
      OBVIOUS
    <2>1. Queues(pending)
      BY Bounds, EmptySeq DEF Init, Queues
    <2>2. frame \in [Dev -> Frame]
      BY DEF Init, Frame
    <2>3. /\ since \in 0 .. TV_NO_SYNC + 1 /\ waited \in 0 .. TV_NO_SYNC
          /\ signal \in 0 .. SignalGap /\ quiet \in 0 .. MaxSilence + 1
          /\ todo \subseteq Dev /\ pc = "idle" /\ sync = "SYNC_OK"
      BY Bounds DEF Init
    <2>4. halt \in BOOLEAN
      BY DEF Init
    <2>5. TypeOK
      BY <2>1, <2>2, <2>3, <2>4, QueueTypes DEF TypeOK
    <2> QED
      BY <2>1, <2>5 DEF Init, TypeInv, Queues
  <1> QED
    BY <1>1, TypeNext, PTL DEF Spec

\* Every reachable state is well typed: no queue is longer than there are
\* buffers, and no timer runs past its limit.
THEOREM TimingTypes == Spec => []TypeOK
  <1>1. TypeInv => TypeOK
    BY DEF TypeInv
  <1> QED
    BY <1>1, TypeInvariant, PTL

-----------------------------------------------------------------------------
(* How long a capture can be silent.                                       *)

\* Where the silence stands: since the last set while that is not too long ago;
\* at most TV_NO_SYNC, when a pass has tested a frame; and in select one timeout
\* more, or two when a signal has come, and then the time since the signal is
\* that of select.
SilenceInv ==
  /\ quiet <= MaxSilence
  /\ since <= TV_NO_SYNC => quiet <= since
  /\ pc = "callback" => quiet = 0
  /\ pc = "loop" /\ sync # "SYNC_FATAL" => quiet <= TV_NO_SYNC
  /\ pc = "scan" /\ todo = {} /\ sync # "SYNC_FATAL" => quiet <= TV_NO_SYNC
  /\ pc = "select" => \/ quiet <= TV_NO_SYNC + waited
                      \/ /\ SignalGap > 0 /\ signal = waited
                         /\ quiet <= 2 * TV_NO_SYNC + waited

\* Every step keeps SilenceInv.
LEMMA SilenceNext == TypeInv /\ SilenceInv /\ [Next]_vars => SilenceInv'
  <1> SUFFICES ASSUME TypeInv, SilenceInv, [Next]_vars PROVE SilenceInv'
    OBVIOUS
  <1> USE DEF SilenceInv
  <1>1. /\ since \in 0 .. TV_NO_SYNC + 1 /\ waited \in 0 .. TV_NO_SYNC
        /\ signal \in 0 .. SignalGap /\ quiet \in 0 .. MaxSilence + 1
        /\ TV_NO_SYNC \in Nat /\ SignalGap \in Nat /\ MaxSilence \in Nat
    BY Bounds DEF TypeInv, TypeOK
  <1>2. CASE Tick
    <2>1. CASE UserRuns
      BY <1>1, <1>2, <2>1 DEF Tick, UserRuns, Later
    <2>2. CASE Waiting
      <3>1. /\ pc = "select" /\ waited < TV_NO_SYNC /\ waited' = waited + 1
            /\ pc' = pc /\ todo' = todo /\ sync' = sync
            /\ since' = IF since < TV_NO_SYNC + 1 THEN since + 1 ELSE since
            /\ signal' = IF signal < SignalGap THEN signal + 1 ELSE signal
        BY <1>1, <1>2, <2>2 DEF Tick, Waiting, Later
      <3>2. quiet < MaxSilence
        BY <1>1, <3>1, SignalAssumption DEF MaxSilence
      <3>3. quiet' = quiet + 1
        BY <1>1, <1>2, <3>1, <3>2 DEF Tick, UserRuns, Later
      <3>4. quiet' <= MaxSilence /\ (since' <= TV_NO_SYNC => quiet' <= since')
        BY <1>1, <3>1, <3>2, <3>3
      <3>5. \/ quiet' <= TV_NO_SYNC + waited'
            \/ /\ SignalGap > 0 /\ signal' = waited'
               /\ quiet' <= 2 * TV_NO_SYNC + waited'
        BY <1>1, <3>1, <3>3, SignalAssumption
      <3> QED
        BY <3>1, <3>4, <3>5
    <2> QED
      BY <1>2, <2>1, <2>2 DEF Tick
  <1>3. CASE SelectInterrupted
    BY <1>1, <1>3, SignalAssumption DEF SelectInterrupted
  <1>4. CASE MgCapture \/ Select
    BY <1>1, <1>4 DEF MgCapture, Select, Done
  <1>5. CASE MgCaptureHalt \/ CaptureReturns \/ ScanEnds \/ CallbackReturns
    BY <1>1, <1>5 DEF MgCaptureHalt, CaptureReturns, ScanEnds, CallbackReturns
  <1>6. CASE SelectReady \/ SelectTimeout
    BY <1>6 DEF SelectReady, SelectTimeout, StatusAfterTimeout
  <1>7. ASSUME NEW d \in Dev, Exposure(d) PROVE SilenceInv'
    BY <1>7 DEF Exposure
  <1>8. ASSUME NEW d \in Dev, Delivers(d) \/ GivesUp(d) \/ GoesOn(d)
        PROVE  SilenceInv'
    BY <1>1, <1>8 DEF Delivers, GivesUp, GoesOn, Visits, TooLong
  <1>9. CASE UNCHANGED vars
    BY <1>9 DEF vars
  <1> QED
    BY <1>2, <1>3, <1>4, <1>5, <1>6, <1>7, <1>8, <1>9 DEF Next, Library

\* A capture never keeps the program waiting for longer than two timeouts, or
\* three where signals come, whatever the cameras deliver.
THEOREM SilenceIsBounded == Spec => []SilenceBounded
  <1>1. Init => SilenceInv
    BY Bounds DEF Init, SilenceInv
  <1>2. SilenceInv => SilenceBounded
    BY DEF SilenceInv, SilenceBounded
  <1> QED
    BY <1>1, <1>2, SilenceNext, TypeInvariant, PTL DEF Spec

=============================================================================
