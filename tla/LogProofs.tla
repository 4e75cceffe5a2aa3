----------------------------- MODULE LogProofs -----------------------------
(***************************************************************************)
(* Proofs about Log, for any number of logs and streams.                    *)
(***************************************************************************)
EXTENDS Log, TLAPS

\* What is needed beside the two properties: a log closes what fopen returned
\* and nothing else, and what it will close is open and is not shared.
TypeOK == /\ live \subseteq Log
          /\ file \in [Log -> Stream \cup Standard \cup {Null}]
          /\ close \in [Log -> BOOLEAN]
          /\ opened \subseteq Stream \cup Standard

StandardOpen == Standard \subseteq opened

ClosesOwn == \A l \in live :
  /\ close[l] => file[l] \in Stream \cup {Null}
  /\ ~close[l] => file[l] \in Standard
  /\ file[l] \in Stream => file[l] \in opened

Unshared == \A k, l \in live : k # l /\ file[k] = file[l] => file[k] \notin Stream

IInv == TypeOK /\ StandardOpen /\ ClosesOwn /\ Unshared /\ StreamsOwned

\* A log that is created with a standard stream, none, or a new one keeps IInv.
LEMMA CreatedInv ==
  ASSUME IInv, NEW l \in Log, NEW s, NEW c \in BOOLEAN, Created(l, s, c),
         \/ s \in Standard /\ ~c /\ opened' = opened
         \/ s = Null /\ c /\ opened' = opened
         \/ s \in Stream \ opened /\ c /\ opened' = opened \cup {s}
  PROVE  IInv'
<1> USE StreamAssumption DEF IInv, Created
<1>1. TypeOK'
  BY DEF TypeOK
<1>2. StandardOpen'
  BY DEF StandardOpen
<1>3. \A k \in live' : /\ k = l => file'[k] = s /\ close'[k] = c
                       /\ k # l => k \in live /\ file'[k] = file[k] /\ close'[k] = close[k]
  BY DEF TypeOK
<1>4. ClosesOwn'
  BY <1>3 DEF ClosesOwn, Standard
<1>5. Unshared'
  BY <1>3 DEF Unshared, ClosesOwn, Standard
<1>6. StreamsOwned'
  BY <1>3 DEF StreamsOwned, ClosesOwn, TypeOK, Standard
<1>7. QED
  BY <1>1, <1>2, <1>4, <1>5, <1>6

\* Destroying a log keeps IInv.
LEMMA DestroyInv ==
  ASSUME IInv, NEW l \in Log, Destroy(l)
  PROVE  IInv'
<1> USE StreamAssumption DEF IInv, Destroy, Closes
<1>1. TypeOK'
  BY DEF TypeOK
<1>2. StandardOpen'
  BY DEF StandardOpen, ClosesOwn, Standard
<1>3. ClosesOwn'
  BY DEF ClosesOwn, Unshared, Standard
<1>4. Unshared'
  BY DEF Unshared
<1>5. StreamsOwned'
  BY DEF StreamsOwned, ClosesOwn, Standard
<1>6. QED
  BY <1>1, <1>2, <1>3, <1>4, <1>5

\* IInv holds in every reachable state.
LEMMA Invariant == Spec => []IInv
<1>1. Init => IInv
  BY StreamAssumption
  DEF Init, IInv, TypeOK, StandardOpen, ClosesOwn, Unshared, StreamsOwned,
      Standard
<1>2. IInv /\ [Next]_vars => IInv'
  <2> SUFFICES ASSUME IInv, [Next]_vars PROVE IInv'
    OBVIOUS
  <2> USE StreamAssumption
  <2>1. ASSUME NEW l \in Log, CreateWithoutFile(l) PROVE IInv'
    BY <2>1, CreatedInv DEF CreateWithoutFile
  <2>2. ASSUME NEW l \in Log, CreateStandard(l) PROVE IInv'
    BY <2>2, CreatedInv DEF CreateStandard
  <2>3. ASSUME NEW l \in Log, CreateFile(l) PROVE IInv'
    BY <2>3, CreatedInv DEF CreateFile
  <2>4. ASSUME NEW l \in Log, CreateFails(l) PROVE IInv'
    BY <2>4, CreatedInv DEF CreateFails, Standard
  <2>5. ASSUME NEW l \in Log, Destroy(l) PROVE IInv'
    BY <2>5, DestroyInv
  <2>6. ASSUME NEW l \in Log, DestroyDies(l) PROVE IInv'
    BY <2>6 DEF DestroyDies, IInv, TypeOK, StandardOpen, ClosesOwn, Unshared,
                StreamsOwned
  <2>7. CASE UNCHANGED vars
    BY <2>7 DEF vars, IInv, TypeOK, StandardOpen, ClosesOwn, Unshared,
                StreamsOwned
  <2>8. QED
    BY <2>1, <2>2, <2>3, <2>4, <2>5, <2>6, <2>7 DEF Next
<1>3. QED
  BY <1>1, <1>2, PTL DEF Spec

\* A log is writable for as long as it lives, however many logs share the
\* standard streams and are destroyed before it (lg_destroy).
THEOREM LogsWritable == Spec => []WritableWhileLive
<1>1. IInv => WritableWhileLive
  BY DEF IInv, WritableWhileLive, StandardOpen, ClosesOwn, Target, TypeOK,
         Standard
<1>2. QED
  BY <1>1, Invariant, PTL

\* No stream outlives the log that opened it, and no two logs share one.
THEOREM NoStreamLeaks == Spec => []StreamsOwned
<1>1. IInv => StreamsOwned
  BY DEF IInv
<1>2. QED
  BY <1>1, Invariant, PTL

=============================================================================
