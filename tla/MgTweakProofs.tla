--------------------------- MODULE MgTweakProofs ---------------------------
(***************************************************************************)
(* Theorems about MgTweak, for every command line, machine, and moment.    *)
(***************************************************************************)
EXTENDS MgTweak, SequenceTheorems, FiniteSetTheorems,
        WellFoundedInduction, TLAPS

-----------------------------------------------------------------------------
(* The arithmetic of TimeVal.                                              *)

\* A set of numbers has a least one: induction, for definitions of functions.
LEMMA LeastNumber ==
  ASSUME NEW T \in SUBSET Nat, T # {}
  PROVE  \E x \in T : \A y \in T : x <= y
  <1>1. PICK x \in T : \A y \in T : ~(<<y, x>> \in OpToRel(<, Nat))
    BY NatLessThanWellFounded, WFMin
  <1>2. \A y \in T : ~(y < x)
    BY <1>1 DEF OpToRel
  <1> QED
    BY <1>2

\* A time, its parts, and its value.
LEMMA Parts ==
  /\ Second \in Int
  /\ \A s, u \in Int : /\ Timeval(s, u) \in Timevals
                       /\ Timeval(s, u).sec = s /\ Timeval(s, u).usec = u
                       /\ Micro(Timeval(s, u)) = s * Second + u
  /\ \A tv \in Timevals : /\ tv.sec \in Int /\ tv.usec \in Int
                          /\ Micro(tv) = tv.sec * Second + tv.usec
                          /\ Micro(tv) \in Int
                          /\ tv = Timeval(tv.sec, tv.usec)
  <1>1. Second \in Int
    BY SMT DEF Second
  <1> QED
    BY <1>1 DEF Timevals, Timeval, Micro

\* The microseconds are those of a second.
Normal(tv) == tv.usec >= 0 /\ tv.usec < Second

\* Sums and differences are exact, and those of normal times are normal.
LEMMA Sums ==
  ASSUME NEW a \in Timevals, NEW b \in Timevals
  PROVE  /\ timeradd(a, b) \in Timevals
         /\ Micro(timeradd(a, b)) = Micro(a) + Micro(b)
         /\ Normal(a) /\ Normal(b) => Normal(timeradd(a, b))
         /\ timersub(a, b) \in Timevals
         /\ Micro(timersub(a, b)) = Micro(a) - Micro(b)
         /\ Normal(a) /\ Normal(b) => Normal(timersub(a, b))
  <1> DEFINE p == a.sec  x == a.usec  q == b.sec  y == b.usec
  <1>1. /\ p \in Int /\ x \in Int /\ q \in Int /\ y \in Int
        /\ Micro(a) = p * Second + x /\ Micro(b) = q * Second + y
        /\ Normal(a) <=> x >= 0 /\ x < Second
        /\ Normal(b) <=> y >= 0 /\ y < Second
    BY Parts DEF Normal
  <1>2. \E s, u \in Int :
          /\ timeradd(a, b) = Timeval(s, u)
          /\ s * Second + u = (p * Second + x) + (q * Second + y)
          /\ x >= 0 /\ x < Second /\ y >= 0 /\ y < Second
               => u >= 0 /\ u < Second
    <2>1. CASE x + y >= Second
      <3>1. timeradd(a, b) = Timeval(p + q + 1, (x + y) - Second)
        BY <2>1 DEF timeradd
      <3> HIDE DEF p, q, x, y
      <3>2. /\ p + q + 1 \in Int /\ (x + y) - Second \in Int
            /\ (p + q + 1) * Second + ((x + y) - Second)
                 = (p * Second + x) + (q * Second + y)
            /\ x >= 0 /\ x < Second /\ y >= 0 /\ y < Second
                 => (x + y) - Second >= 0 /\ (x + y) - Second < Second
        BY <1>1, <2>1, SMT DEF Second
      <3> QED
        BY <3>1, <3>2
    <2>2. CASE ~(x + y >= Second)
      <3>1. timeradd(a, b) = Timeval(p + q, x + y)
        BY <2>2 DEF timeradd
      <3> HIDE DEF p, q, x, y
      <3>2. /\ p + q \in Int /\ x + y \in Int
            /\ (p + q) * Second + (x + y) = (p * Second + x) + (q * Second + y)
            /\ x >= 0 /\ x < Second /\ y >= 0 /\ y < Second
                 => x + y >= 0 /\ x + y < Second
        BY <1>1, <2>2, SMT DEF Second
      <3> QED
        BY <3>1, <3>2
    <2> QED
      BY <2>1, <2>2
  <1>3. \E s, u \in Int :
          /\ timersub(a, b) = Timeval(s, u)
          /\ s * Second + u = (p * Second + x) - (q * Second + y)
          /\ x >= 0 /\ x < Second /\ y >= 0 /\ y < Second
               => u >= 0 /\ u < Second
    <2>1. CASE x - y < 0
      <3>1. timersub(a, b) = Timeval((p - q) - 1, (x - y) + Second)
        BY <2>1 DEF timersub
      <3> HIDE DEF p, q, x, y
      <3>2. /\ (p - q) - 1 \in Int /\ (x - y) + Second \in Int
            /\ ((p - q) - 1) * Second + ((x - y) + Second)
                 = (p * Second + x) - (q * Second + y)
            /\ x >= 0 /\ x < Second /\ y >= 0 /\ y < Second
                 => (x - y) + Second >= 0 /\ (x - y) + Second < Second
        BY <1>1, <2>1, SMT DEF Second
      <3> QED
        BY <3>1, <3>2
    <2>2. CASE ~(x - y < 0)
      <3>1. timersub(a, b) = Timeval(p - q, x - y)
        BY <2>2 DEF timersub
      <3> HIDE DEF p, q, x, y
      <3>2. /\ p - q \in Int /\ x - y \in Int
            /\ (p - q) * Second + (x - y) = (p * Second + x) - (q * Second + y)
            /\ x >= 0 /\ x < Second /\ y >= 0 /\ y < Second
                 => x - y >= 0 /\ x - y < Second
        BY <1>1, <2>2, SMT DEF Second
      <3> QED
        BY <3>1, <3>2
    <2> QED
      BY <2>1, <2>2
  <1> HIDE DEF p, q, x, y
  <1>4. /\ timeradd(a, b) \in Timevals
        /\ Micro(timeradd(a, b)) = Micro(a) + Micro(b)
        /\ Normal(a) /\ Normal(b) => Normal(timeradd(a, b))
    <2>1. PICK s \in Int, u \in Int :
            /\ timeradd(a, b) = Timeval(s, u)
            /\ s * Second + u = (p * Second + x) + (q * Second + y)
            /\ x >= 0 /\ x < Second /\ y >= 0 /\ y < Second
                 => u >= 0 /\ u < Second
      BY <1>2
    <2>2. Timeval(s, u) \in Timevals /\ Timeval(s, u).usec = u
          /\ Micro(Timeval(s, u)) = s * Second + u
      BY Parts
    <2> QED
      BY <1>1, <2>1, <2>2, Zenon DEF Normal
  <1>5. /\ timersub(a, b) \in Timevals
        /\ Micro(timersub(a, b)) = Micro(a) - Micro(b)
        /\ Normal(a) /\ Normal(b) => Normal(timersub(a, b))
    <2>1. PICK s \in Int, u \in Int :
            /\ timersub(a, b) = Timeval(s, u)
            /\ s * Second + u = (p * Second + x) - (q * Second + y)
            /\ x >= 0 /\ x < Second /\ y >= 0 /\ y < Second
                 => u >= 0 /\ u < Second
      BY <1>3
    <2>2. Timeval(s, u) \in Timevals /\ Timeval(s, u).usec = u
          /\ Micro(Timeval(s, u)) = s * Second + u
      BY Parts
    <2> QED
      BY <1>1, <2>1, <2>2, Zenon DEF Normal
  <1> QED
    BY <1>4, <1>5

\* What the first loop of timernorm computes.
Unborrowed(tv) ==
  IF tv.usec < 0
  THEN Timeval(tv.sec + (tv.usec \div Second), tv.usec % Second)
  ELSE tv

\* The borrow gives every time that value.
LEMMA BorrowedValue == \A tv \in Timevals : borrowed[tv] = Unborrowed(tv)
  <1> DEFINE Step(tv) == timersub(tv, Cleared)
             Loop(f) == f = [tv \in Timevals |->
                              IF tv.usec < 0 THEN f[Step(tv)] ELSE tv]
             size(tv) == IF tv.usec < 0 THEN -tv.usec ELSE 0
             g == [tv \in Timevals |-> Unborrowed(tv)]
  <1>1. \A tv \in Timevals :
          tv.usec < 0 => /\ Step(tv) \in Timevals
                         /\ size(Step(tv)) < size(tv)
                         /\ Unborrowed(Step(tv)) = Unborrowed(tv)
    BY SMT DEF Timevals, timersub, Cleared, Timeval, Second, Unborrowed
  <1>2. \A tv \in Timevals : size(tv) \in Nat
    BY DEF Timevals
  <1> HIDE DEF Step, size
  <1>3. Loop(g)
    BY <1>1 DEF Unborrowed
  <1>4. borrowed = CHOOSE f : Loop(f)
    BY DEF borrowed, Step
  <1>5. Loop(borrowed)
    BY <1>3, <1>4, Zenon
  <1>6. \A tv \in Timevals :
          borrowed[tv] = IF tv.usec < 0 THEN borrowed[Step(tv)] ELSE tv
    BY <1>5
  <1> DEFINE Wrong == {tv \in Timevals : borrowed[tv] # Unborrowed(tv)}
             T == {size(tv) : tv \in Wrong}
  <1>7. SUFFICES ASSUME T # {} PROVE FALSE
    OBVIOUS
  <1>8. T \in SUBSET Nat
    BY <1>2
  <1>9. PICK x \in T : \A y \in T : x <= y
    BY <1>7, <1>8, LeastNumber
  <1>10. PICK tv \in Wrong : x = size(tv)
    BY <1>9
  <1>11. tv.usec < 0
    BY <1>6, <1>10 DEF Unborrowed
  <1>12. Step(tv) \in Wrong /\ size(Step(tv)) < size(tv)
    BY <1>1, <1>6, <1>10, <1>11
  <1>13. size(tv) <= size(Step(tv))
    BY <1>9, <1>10, <1>12
  <1> QED
    BY <1>2, <1>12, <1>13

\* What the second loop computes, of what the first one leaves.
Uncarried(tv) ==
  IF tv.usec > Second
  THEN Timeval(tv.sec + ((tv.usec - 1) \div Second),
               ((tv.usec - 1) % Second) + 1)
  ELSE tv

\* The carry gives every time that value.
LEMMA CarriedValue == \A tv \in Timevals : carried[tv] = Uncarried(tv)
  <1> DEFINE Step(tv) == timeradd(tv, Cleared)
             Loop(f) == f = [tv \in Timevals |->
                              IF tv.usec > Second THEN f[Step(tv)] ELSE tv]
             size(tv) == IF tv.usec > 0 THEN tv.usec ELSE 0
             g == [tv \in Timevals |-> Uncarried(tv)]
  <1>1. \A tv \in Timevals :
          tv.usec > Second => /\ Step(tv) \in Timevals
                              /\ size(Step(tv)) < size(tv)
                              /\ Uncarried(Step(tv)) = Uncarried(tv)
    BY SMT DEF Timevals, timeradd, Cleared, Timeval, Second, Uncarried
  <1>2. \A tv \in Timevals : size(tv) \in Nat
    BY DEF Timevals
  <1> HIDE DEF Step, size
  <1>3. Loop(g)
    BY <1>1 DEF Uncarried
  <1>4. carried = CHOOSE f : Loop(f)
    BY DEF carried, Step
  <1>5. Loop(carried)
    BY <1>3, <1>4, Zenon
  <1>6. \A tv \in Timevals :
          carried[tv] = IF tv.usec > Second THEN carried[Step(tv)] ELSE tv
    BY <1>5
  <1> DEFINE Wrong == {tv \in Timevals : carried[tv] # Uncarried(tv)}
             T == {size(tv) : tv \in Wrong}
  <1>7. SUFFICES ASSUME T # {} PROVE FALSE
    OBVIOUS
  <1>8. T \in SUBSET Nat
    BY <1>2
  <1>9. PICK x \in T : \A y \in T : x <= y
    BY <1>7, <1>8, LeastNumber
  <1>10. PICK tv \in Wrong : x = size(tv)
    BY <1>9
  <1>11. tv.usec > Second
    BY <1>6, <1>10 DEF Uncarried
  <1>12. Step(tv) \in Wrong /\ size(Step(tv)) < size(tv)
    BY <1>1, <1>6, <1>10, <1>11
  <1>13. size(tv) <= size(Step(tv))
    BY <1>9, <1>10, <1>12
  <1> QED
    BY <1>2, <1>12, <1>13

\* timernorm leaves the value as it is and the microseconds within a second,
\* however many seconds it has to borrow or carry.
THEOREM NormalTimes ==
  ASSUME NEW tv \in Timevals
  PROVE  /\ timernorm(tv) \in [sec : Int, usec : 0 .. Second]
         /\ Micro(timernorm(tv)) = Micro(tv)
  <1> DEFINE b == Unborrowed(tv)
  <1>1. b \in Timevals /\ b.usec >= 0 /\ Micro(b) = Micro(tv)
    BY SMT DEF Timevals, Unborrowed, Timeval, Micro, Second
  <1>2. timernorm(tv) = Uncarried(b)
    BY <1>1, BorrowedValue, CarriedValue DEF timernorm
  <1> HIDE DEF b
  <1>3. /\ Uncarried(b) \in [sec : Int, usec : 0 .. Second]
        /\ Micro(Uncarried(b)) = Micro(b)
    <2>1. CASE b.usec > Second
      <3> DEFINE s == b.sec + ((b.usec - 1) \div Second)
                 u == ((b.usec - 1) % Second) + 1
      <3>1. /\ b.sec \in Int /\ b.usec \in Int
            /\ Micro(b) = b.sec * Second + b.usec
        BY <1>1, Parts
      <3>2. /\ s \in Int /\ u \in Int /\ 0 <= u /\ u <= Second
            /\ s * Second + u = b.sec * Second + b.usec
        BY <3>1, SMT DEF Second
      <3>3. Uncarried(b) = Timeval(s, u)
        BY <2>1 DEF Uncarried
      <3> HIDE DEF s, u
      <3>4. Micro(Uncarried(b)) = Micro(b)
        BY <3>1, <3>2, <3>3, Parts
      <3>5. Second \in Int
        BY SMT DEF Second
      <3>6. u \in 0 .. Second
        BY <3>2, <3>5
      <3> QED
        BY <3>2, <3>3, <3>4, <3>6 DEF Timeval
    <2>2. CASE ~(b.usec > Second)
      <3>1. Uncarried(b) = b
        BY <2>2 DEF Uncarried
      <3>2. Second \in Int
        BY SMT DEF Second
      <3>3. b.usec \in 0 .. Second
        <4>1. b.usec \in Int /\ b.usec >= 0 /\ ~(b.usec > Second)
          BY <1>1, <2>2, Parts
        <4> QED
          BY <3>2, <4>1
      <3> QED
        BY <1>1, <3>1, <3>3 DEF Timevals
    <2> QED
      BY <2>1, <2>2
  <1> QED
    BY <1>1, <1>2, <1>3

\* The sum of whole frames.
LEMMA SummedValue ==
  \A k \in Nat : summed[k] = Timeval((k * FRAME) \div Second, (k * FRAME) % Second)
  <1> DEFINE Value(k) == Timeval((k * FRAME) \div Second, (k * FRAME) % Second)
             Longer(tv) == timeradd(tv, Timeval(0, FRAME))
             Loop(f) == f = [k \in Nat |-> IF k = 0 THEN Cleared
                                           ELSE Longer(f[k - 1])]
             g == [k \in Nat |-> Value(k)]
  <1>1. Value(0) = Cleared
    BY SMT DEF Timeval, Cleared, FRAME, Second
  <1>2. \A k \in Nat \ {0} : Value(k) = Longer(Value(k - 1))
    BY SMT DEF Timeval, FRAME, Second, timeradd
  <1> HIDE DEF Value, Longer
  <1>3. Loop(g)
    BY <1>1, <1>2
  <1>4. summed = CHOOSE f : Loop(f)
    BY DEF summed, Longer
  <1>5. Loop(summed)
    BY <1>3, <1>4, Zenon
  <1>6. \A k \in Nat : summed[k] = IF k = 0 THEN Cleared ELSE Longer(summed[k - 1])
    BY <1>5
  <1> DEFINE T == {k \in Nat : summed[k] # Value(k)}
  <1>7. SUFFICES ASSUME T # {} PROVE FALSE
    BY DEF Value
  <1>8. PICK k \in T : \A y \in T : k <= y
    BY <1>7, LeastNumber
  <1>9. k # 0 /\ k - 1 \in Nat /\ ~(k <= k - 1)
    BY <1>1, <1>6, <1>8
  <1>10. summed[k - 1] = Value(k - 1)
    BY <1>8, <1>9
  <1> QED
    BY <1>2, <1>6, <1>8, <1>9, <1>10

\* frame_time gives a normal time for any number of frames and any percentage;
\* without a percentage it is the argument, the time of the frames in whole
\* microseconds: its loop and timernorm lose nothing of that.
THEOREM FrameTimes ==
  ASSUME NEW f \in Int, NEW p \in Int
  PROVE  /\ frame_time(f, p) \in [sec : Int, usec : 0 .. Second]
         /\ Micro(frame_time(f, 0)) = f
  <1> DEFINE abs == IF f < 0 THEN -f ELSE f
             n == abs \div FRAME
             tv == timeradd(summed[n], Timeval(0, abs % FRAME))
             Larger(q) == Timeval(Scaled(tv.sec, q), Scaled(tv.usec, q))
             Signed(q) == IF f < 0 THEN Timeval(-Larger(q).sec, -Larger(q).usec)
                          ELSE Larger(q)
  <1>1. abs \in Nat /\ n \in Nat /\ abs % FRAME \in Nat
        /\ abs = n * FRAME + (abs % FRAME)
    BY SMT DEF FRAME
  <1>2. \A q : frame_time(f, q) = timernorm(Signed(q))
    BY DEF frame_time
  <1> HIDE DEF abs, n
  <1>3. /\ summed[n] \in Timevals /\ Micro(summed[n]) = n * FRAME
        /\ Timeval(0, abs % FRAME) \in Timevals
        /\ Micro(Timeval(0, abs % FRAME)) = abs % FRAME
    <2> DEFINE s == (n * FRAME) \div Second
               u == (n * FRAME) % Second
    <2>1. s \in Int /\ u \in Int /\ s * Second + u = n * FRAME
      BY <1>1, SMT DEF Second, FRAME
    <2>2. summed[n] = Timeval(s, u)
      BY <1>1, SummedValue
    <2> HIDE DEF s, u
    <2>3. summed[n] \in Timevals /\ Micro(summed[n]) = n * FRAME
      <3>1. /\ Timeval(s, u) \in Timevals
            /\ Micro(Timeval(s, u)) = s * Second + u
        BY <2>1, Parts
      <3> QED
        BY <2>1, <2>2, <3>1
    <2>4. /\ 0 \in Int /\ abs % FRAME \in Int
          /\ 0 * Second + (abs % FRAME) = abs % FRAME
      BY <1>1, SMT DEF Second
    <2>5. /\ Timeval(0, abs % FRAME) \in Timevals
          /\ Micro(Timeval(0, abs % FRAME)) = 0 * Second + (abs % FRAME)
      BY <2>4, Parts
    <2> QED
      BY <2>3, <2>4, <2>5
  <1>4. tv \in Timevals /\ Micro(tv) = abs
    BY <1>1, <1>3, Sums, SMT DEF FRAME
  <1> HIDE DEF tv
  <1>5. \A k, q \in Int : Scaled(k, q) \in Int
    BY DEF Scaled
  <1>6. \A k \in Int : Scaled(k, 0) = k
    BY DEF Scaled
  <1>7. \A q \in Int : Signed(q) \in Timevals
    <2> TAKE q \in Int
    <2>1. tv.sec \in Int /\ tv.usec \in Int
      BY <1>4, Parts
    <2>2. Scaled(tv.sec, q) \in Int /\ Scaled(tv.usec, q) \in Int
      BY <1>5, <2>1
    <2>3. \A x \in Int : -x \in Int
      OBVIOUS
    <2> QED
      BY <2>2, <2>3, Parts
  <1>8. Micro(Signed(0)) = f
    <2>1. Larger(0) = tv
      BY <1>4, <1>6 DEF Timevals, Timeval
    <2> QED
      BY <1>4, <2>1, SMT DEF Timevals, Timeval, Micro, Second, abs
  <1> HIDE DEF Signed
  <1> QED
    BY <1>2, <1>7, <1>8, NormalTimes
-----------------------------------------------------------------------------
(* The device numbers that are registered.                                 *)

\* The settings that decide which devices are registered are numbers, and so is
\* the percentage.
SettingsInv ==
  /\ options \in Seq(Options)
  /\ settings = [s \in DOMAIN Defaults |-> settings[s]]
  /\ {settings.devices, settings.masterdev, settings.startdev, settings.percent}
       \subseteq Int

\* The master that is registered before the loop, and the one that it skips.
First == IF settings.masterdev >= 0 THEN 1 ELSE 0
Skipped ==
  IF settings.masterdev \in settings.startdev .. number - 1 THEN 1 ELSE 0

Registering == {"register", "repeat", "capture", "callback"}

\* The loop's bound has moved with the master that it skipped, and the numbers
\* below its variable are registered, once each.
CountInv ==
  /\ number \in Int /\ settings.devices > 0
  /\ number \in settings.startdev .. settings.startdev + devices
  /\ devices = settings.devices - First + Skipped
  /\ Len(numbers) = First + (number - settings.startdev) - Skipped
NumbersInv ==
  /\ IsInjective(numbers)
  /\ ToSet(numbers) =
       ((settings.startdev .. number - 1) \ {settings.masterdev})
       \cup (IF settings.masterdev >= 0 THEN {settings.masterdev} ELSE {})
  /\ settings.masterdev >= 0 => numbers[1] = settings.masterdev

RegistrationInv ==
  /\ numbers \in Seq(Int)
  /\ pc \in {"options", "master"} => numbers = <<>>
  /\ pc = "master" => devices = settings.devices /\ devices > 0
  /\ pc \in Registering => CountInv /\ NumbersInv
  /\ pc \in Registering \ {"register"} => number = settings.startdev + devices

\* One more number.
LEMMA AppendNumber ==
  ASSUME NEW s \in Seq(Int), NEW k \in Int
  PROVE  /\ Append(s, k) \in Seq(Int)
         /\ Len(Append(s, k)) = Len(s) + 1 /\ Len(s) \in Nat
         /\ ToSet(Append(s, k)) = ToSet(s) \cup {k}
         /\ IsInjective(s) /\ k \notin ToSet(s) => IsInjective(Append(s, k))
         /\ Append(s, k)[1] = IF s = <<>> THEN k ELSE s[1]
  <1> DEFINE t == Append(s, k)
  <1>1. /\ t \in Seq(Int) /\ Len(t) = Len(s) + 1 /\ Len(s) \in Nat
        /\ DOMAIN t = 1 .. Len(s) + 1 /\ DOMAIN s = 1 .. Len(s)
        /\ \A i \in 1 .. Len(s) : t[i] = s[i]
        /\ t[Len(s) + 1] = k
    <2>1. /\ t \in Seq(Int) /\ Len(t) = Len(s) + 1
          /\ \A i \in 1 .. Len(s) : t[i] = s[i]
          /\ t[Len(s) + 1] = k
      BY AppendProperties
    <2>2. Len(s) \in Nat /\ DOMAIN s = 1 .. Len(s)
      BY LenProperties
    <2> HIDE DEF t
    <2>3. DOMAIN t = 1 .. Len(t)
      BY <2>1, LenProperties
    <2> QED
      BY <2>1, <2>2, <2>3
  <1>2. ToSet(t) = ToSet(s) \cup {k}
    <2> HIDE DEF t
    <2>1. DOMAIN t = (1 .. Len(s)) \cup {Len(s) + 1}
      BY <1>1
    <2> QED
      BY <1>1, <2>1 DEF ToSet
  <1>3. IsInjective(s) /\ k \notin ToSet(s) => IsInjective(t)
    <2> HIDE DEF t
    <2> SUFFICES ASSUME IsInjective(s), k \notin ToSet(s),
                      NEW a \in DOMAIN t, NEW b \in DOMAIN t, t[a] = t[b]
               PROVE  a = b
        BY DEF IsInjective
    <2>1. a \in 1 .. Len(s) \/ a = Len(s) + 1
      BY <1>1
    <2>2. b \in 1 .. Len(s) \/ b = Len(s) + 1
      BY <1>1
    <2> QED
      BY <1>1, <2>1, <2>2 DEF ToSet, IsInjective
  <1>4. t[1] = IF s = <<>> THEN k ELSE s[1]
    BY <1>1, EmptySeq
  <1> QED
    BY <1>1, <1>2, <1>3, <1>4

\* The options are read into the settings, and nothing changes them later.
LEMMA SettingsNext ==
  ASSUME SettingsInv, [Next]_vars
  PROVE  SettingsInv'
  <1> USE DEF SettingsInv
  <1>1. CASE SetNumber \/ SetCriterion \/ ToggleVerbose
    <2>1. /\ options # <<>> /\ options' = Tail(options)
          /\ Option \in Options /\ options' \in Seq(Options)
      <3>1. options # <<>> /\ options' = Tail(options)
        BY <1>1 DEF SetNumber, SetCriterion, ToggleVerbose, NextOption
      <3> QED
        BY <3>1, HeadTailProperties DEF Option
    <2>2. CASE SetNumber
      <3>1. Option.arg \in Int
        BY <2>1, <2>2 DEF SetNumber, Options
      <3> QED
        BY <2>1, <2>2, <3>1 DEF SetNumber
    <2>3. CASE SetCriterion
      <3>1. PICK c \in {"in_sync", "no_sync"} :
              \E v : settings' = [settings EXCEPT ![c] = v]
        <4>1. Option.opt \in {"i", "o"}
          BY <2>3 DEF SetCriterion, CriterionOption
        <4>2. CriterionOption[Option.opt] \in {"in_sync", "no_sync"}
          BY <4>1 DEF CriterionOption
        <4> QED
          BY <2>3, <4>2 DEF SetCriterion
      <3> QED
        BY <2>1, <3>1
    <2>4. CASE ToggleVerbose
      BY <2>1, <2>4 DEF ToggleVerbose
    <2> QED
      BY <1>1, <2>2, <2>3, <2>4
  <1>2. CASE Usage
    BY <1>2, HeadTailProperties DEF Usage, NextOption
  <1>3. CASE NotSupported \/ Begin
    BY <1>3 DEF NotSupported, Begin
  <1>4. CASE Registration
    BY <1>4
    DEF Registration, RegisterMaster, NoMaster, RegisterNext, SkipMaster,
       RegistrationFails, RegistrationEnds, RegisterDevice
  <1>5. CASE Captures
    BY <1>5
    DEF Captures, Capture, ProcessImages, CallbackReturns, LibraryLogs,
       CaptureEnds, End
  <1>6. CASE BufferFull \/ Interrupt \/ UNCHANGED vars
    BY <1>6 DEF BufferFull, Interrupt, vars
  <1> QED
    BY <1>1, <1>2, <1>3, <1>4, <1>5, <1>6 DEF Next, Main

\* Every step keeps RegistrationInv.
LEMMA RegistrationNext ==
  ASSUME SettingsInv, RegistrationInv, [Next]_vars
  PROVE  RegistrationInv'
  <1> USE DEF RegistrationInv, Registering
  <1> DEFINE m == settings.masterdev
             S == settings.startdev
  <1>1. m \in Int /\ S \in Int /\ settings.devices \in Int
    BY DEF SettingsInv
  <1>a. /\ First \in 0 .. 1 /\ Skipped \in 0 .. 1 /\ Len(numbers) \in Nat
        /\ pc \in Registering => devices \in Int
    BY <1>1 DEF First, Skipped, CountInv
  <1>2. CASE Main
    <2>1. numbers' = numbers /\ pc' \in {"options", "exited", "master"}
      BY <1>2
      DEF Main, SetNumber, SetCriterion, ToggleVerbose, NextOption, Usage,
         NotSupported, Begin, Exit
    <2>2. pc = "options"
      BY <1>2
      DEF Main, SetNumber, SetCriterion, ToggleVerbose, NextOption, Usage,
         NotSupported, Begin
    <2>3. pc' = "master" => devices' = settings'.devices /\ devices' > 0
      BY <1>1, <1>2, <2>2 DEF Main, SetNumber, SetCriterion, ToggleVerbose,
         NextOption, Usage, NotSupported, Begin, Exit, Supported
    <2> QED
      BY <2>1, <2>2, <2>3
  <1>3. CASE RegisterMaster
    <2>1. /\ pc' = "register" /\ number' = S /\ settings' = settings
          /\ numbers = <<>> /\ numbers' = Append(numbers, m) /\ m >= 0
          /\ devices' = settings.devices - 1 /\ settings.devices > 0
      BY <1>3 DEF RegisterMaster, Master, RegisterDevice
    <2>2. /\ numbers' \in Seq(Int) /\ Len(numbers') = 1 /\ numbers'[1] = m
          /\ ToSet(numbers') = {m} /\ IsInjective(numbers')
      BY <1>1, <2>1, AppendNumber DEF ToSet, IsInjective
    <2> QED
      BY <1>1, <2>1, <2>2 DEF CountInv, NumbersInv, First, Skipped
  <1>4. CASE NoMaster
    <2>1. /\ pc' = "register" /\ number' = S /\ settings' = settings
          /\ numbers' = <<>> /\ m < 0
          /\ devices' = settings.devices /\ settings.devices > 0
      BY <1>4 DEF NoMaster
    <2> QED
      BY <1>1, <2>1 DEF CountInv, NumbersInv, First, Skipped, ToSet, IsInjective
  <1>5. CASE RegisterNext
    <2>1. /\ pc = "register" /\ pc' = "register" /\ number' = number + 1
          /\ number < S + devices /\ number # m
          /\ numbers' = Append(numbers, number)
          /\ settings' = settings /\ devices' = devices
      BY <1>5 DEF RegisterNext, Registers, RegisterDevice
    <2>2. number \in Int /\ number >= S /\ number \notin ToSet(numbers)
      BY <1>1, <2>1 DEF CountInv, NumbersInv
    <2>3. PICK f \in 0 .. 1, k \in 0 .. 1 :
            f = First /\ k = Skipped /\ First' = f /\ Skipped' = k
      BY <1>1, <2>1, <2>2 DEF First, Skipped
    <2>4. CountInv'
      <3>1. Len(numbers') = Len(numbers) + 1
        BY <2>1, <2>2, AppendNumber
      <3>2. /\ devices = settings.devices - f + k /\ settings.devices > 0
            /\ Len(numbers) = f + (number - S) - k
        BY <2>1, <2>3 DEF CountInv
      <3>3. devices \in Int
        BY <1>1, <3>2
      <3>4. number + 1 \in S .. S + devices
        BY <1>1, <2>1, <2>2, <3>3
      <3>5. Len(numbers') = f + ((number + 1) - S) - k
        <4>1. S \in Int /\ number \in Int
          BY <1>1, <2>2
        <4> HIDE DEF S
        <4> QED
          BY <3>1, <3>2, <4>1
      <3>6. devices' = settings'.devices - First' + Skipped'
        BY <2>1, <2>3, <3>2
      <3>7. Len(numbers') = First' + (number' - settings'.startdev) - Skipped'
        <4>1. /\ number' = number + 1 /\ settings'.startdev = S
              /\ First' = f /\ Skipped' = k
          BY <2>1, <2>3
        <4> QED
          BY <3>5, <4>1, Zenon
      <3> QED
        BY <2>1, <2>2, <3>2, <3>4, <3>6, <3>7 DEF CountInv
    <2>5. IsInjective(numbers') /\ ToSet(numbers') = ToSet(numbers) \cup {number}
      BY <2>1, <2>2, AppendNumber DEF NumbersInv
    <2>6. S .. number' - 1 = (S .. number - 1) \cup {number}
      BY <1>1, <2>1, <2>2
    <2>7. m >= 0 => numbers'[1] = m
      <3>1. m >= 0 => Len(numbers) > 0
        BY <1>1, <2>1 DEF CountInv, First, Skipped
      <3>2. m >= 0 => numbers # <<>>
        BY <3>1
      <3> QED
        BY <2>1, <2>2, <3>2, AppendNumber DEF NumbersInv
    <2>8. NumbersInv'
      BY <1>1, <2>1, <2>5, <2>6, <2>7 DEF NumbersInv
    <2> QED
      BY <2>1, <2>2, <2>4, <2>8, AppendNumber
  <1>6. CASE SkipMaster
    <2>1. /\ pc = "register" /\ pc' = "register" /\ number' = number + 1
          /\ number < S + devices /\ number = m
          /\ numbers' = numbers /\ settings' = settings /\ devices' = devices + 1
      BY <1>6 DEF SkipMaster, Registers
    <2>2. PICK f \in 0 .. 1 :
            f = First /\ First' = f /\ Skipped = 0 /\ Skipped' = 1
      BY <1>1, <2>1 DEF CountInv, First, Skipped
    <2>3. CountInv'
      <3>1. /\ devices = settings.devices - f + 0 /\ settings.devices > 0
            /\ Len(numbers) = f + (number - S) - 0 /\ number >= S /\ number \in Int
        BY <1>1, <2>1, <2>2 DEF CountInv
      <3>2. devices \in Int
        BY <1>1, <3>1
      <3>3. number + 1 \in S .. S + (devices + 1)
        <4>1. number \in Int /\ number >= S /\ number < S + devices
          BY <2>1, <3>1
        <4> HIDE DEF S
        <4> QED
          BY <1>1, <3>2, <4>1
      <3>4. devices + 1 = settings.devices - f + 1
        BY <1>1, <3>1
      <3>5. Len(numbers) = f + ((number + 1) - S) - 1
        BY <1>1, <3>1
      <3>6. devices' = settings'.devices - First' + Skipped'
        BY <2>1, <2>2, <3>4
      <3>7. Len(numbers') = First' + (number' - settings'.startdev) - Skipped'
        <4>1. /\ number' = number + 1 /\ settings'.startdev = S
              /\ First' = f /\ Skipped' = 1 /\ numbers' = numbers
          BY <2>1, <2>2
        <4> QED
          BY <3>5, <4>1, Zenon
      <3> QED
        BY <2>1, <3>1, <3>3, <3>6, <3>7 DEF CountInv
    <2>4. (S .. number' - 1) \ {m} = (S .. number - 1) \ {m}
      <3>1. number \in Int /\ number' = number + 1 /\ number = m
        BY <2>1 DEF CountInv
      <3>2. \A l \in Int : l \in S .. number => l \in S .. number - 1 \/ l = m
        BY <1>1, <3>1
      <3> QED
        BY <1>1, <3>1, <3>2
    <2>5. NumbersInv'
      BY <2>1, <2>4 DEF NumbersInv
    <2> QED
      BY <2>1, <2>3, <2>5
  <1>7. ASSUME UNCHANGED <<settings, devices, number, numbers>>,
               \/ pc' = pc \/ pc' = "exited"
               \/ pc \in Registering /\ pc' \in Registering \ {"register"}
                  /\ number = S + devices
        PROVE  RegistrationInv'
    BY <1>7 DEF CountInv, NumbersInv, First, Skipped
  <1>8. CASE RegistrationFails
    BY <1>7, <1>8 DEF RegistrationFails, Exit
  <1>9. CASE RegistrationEnds
    <2>1. pc = "register" /\ number >= S + devices
      BY <1>9 DEF RegistrationEnds
    <2>2. number \in S .. S + devices
      BY <2>1 DEF CountInv
    <2>3. devices \in Int
      BY <1>a, <2>1
    <2>4. number = S + devices
      <3> HIDE DEF S
      <3> QED
        BY <1>1, <2>1, <2>2, <2>3
    <2> QED
      BY <1>7, <1>9, <2>4 DEF RegistrationEnds
  <1>10. CASE Captures
    BY <1>7, <1>10 DEF Captures, Capture, ProcessImages, CallbackReturns,
       LibraryLogs, CaptureEnds, End, Exit
  <1>11. CASE BufferFull \/ Interrupt \/ UNCHANGED vars
    BY <1>7, <1>11 DEF BufferFull, Interrupt, vars
  <1> QED
    BY <1>2, <1>3, <1>4, <1>5, <1>6, <1>8, <1>9, <1>10, <1>11
    DEF Next, Registration

\* SettingsInv and RegistrationInv hold in every reachable state.
LEMMA RegistrationInvariant == Spec => [](SettingsInv /\ RegistrationInv)
  <1>1. Init => SettingsInv /\ RegistrationInv
    <2> SUFFICES ASSUME Init PROVE SettingsInv /\ RegistrationInv
      OBVIOUS
    <2>1. options \in Seq(Options)
      BY CommandLineAssumption DEF Init
    <2> QED
      BY <2>1 DEF Init, SettingsInv, RegistrationInv, Defaults, Registering
  <1> QED
    BY <1>1, SettingsNext, RegistrationNext, PTL DEF Spec

\* When the last number is registered, the invariants say which ones are.
LEMMA RegistrationMeaning == SettingsInv /\ RegistrationInv => RegistersWanted
  <1> SUFFICES ASSUME SettingsInv, RegistrationInv,
                      pc \in {"repeat", "capture", "callback"}
               PROVE  LET others == ToSet(numbers) \ {settings.masterdev} IN
                      /\ IsInjective(numbers)
                      /\ Len(numbers) = settings.devices
                      /\ settings.masterdev >= 0
                           => Head(numbers) = settings.masterdev
                      /\ \A k \in others :
                           /\ k >= settings.startdev
                           /\ \A l \in settings.startdev .. k :
                                l \in others \cup {settings.masterdev}
    BY DEF RegistersWanted
  <1>1. CountInv /\ NumbersInv /\ number = settings.startdev + devices
    BY DEF RegistrationInv, Registering
  <1>2. /\ settings.devices \in Int /\ settings.masterdev \in Int
        /\ settings.startdev \in Int /\ numbers \in Seq(Int)
    BY DEF SettingsInv, RegistrationInv
  <1>3. Len(numbers) = settings.devices
    BY <1>1, <1>2 DEF CountInv, First, Skipped
  <1>4. settings.masterdev >= 0 => Head(numbers) = settings.masterdev
    BY <1>1, <1>2, <1>3 DEF NumbersInv, CountInv
  <1>5. ASSUME NEW k \in ToSet(numbers) \ {settings.masterdev},
               NEW l \in settings.startdev .. k
        PROVE  l \in (ToSet(numbers) \ {settings.masterdev})
                     \cup {settings.masterdev}
    BY <1>1, <1>2, <1>5 DEF NumbersInv, CountInv
  <1>6. \A k \in ToSet(numbers) \ {settings.masterdev} : k >= settings.startdev
    BY <1>1, <1>2 DEF NumbersInv, CountInv
  <1> QED
    BY <1>1, <1>3, <1>4, <1>5, <1>6 DEF NumbersInv

\* The first capture starts with as many device numbers registered as were asked
\* for, the master's first, and the others as low as can be, whatever the order
\* of the options and wherever the master lies.
THEOREM WantedRegistered == Spec => []RegistersWanted
  BY RegistrationMeaning, RegistrationInvariant, PTL

-----------------------------------------------------------------------------
(* The types.                                                              *)

Normalised == [sec : Int, usec : 0 .. Second]

\* The numbers of devices.
DevNumbers == 0 .. 99

\* A machine numbers its devices with them.
LEMMA DeviceNumbers ==
  /\ DevNumbers \subseteq Int
  /\ \A m \in Machines : DOMAIN m \subseteq DevNumbers
  BY MachineAssumption DEF DevNumbers

\* The criteria are frame times, and devices are behind the numbers.
CriteriaInv == {settings.in_sync, settings.no_sync} \subseteq Normalised
NodeInv ==
  /\ node \in Machines
  /\ ToSet(numbers) \subseteq DOMAIN node
CounterInv ==
  /\ devices \in Int /\ number \in Int
  /\ rep \in Nat /\ given \in Nat
ControlInv ==
  /\ pc \in {"options", "master", "register", "repeat", "capture", "callback",
             "exited"}
  /\ status \in {"running", "success", "failure", "killed"}
  /\ pc = "exited" <=> status # "running"
  /\ pc = "exited" => buffer = <<>>

TypeInv == CriteriaInv /\ NodeInv /\ CounterInv /\ ControlInv

\* Every step keeps the types.
LEMMA TypeNext ==
  ASSUME SettingsInv, RegistrationInv, TypeInv, [Next]_vars
  PROVE  TypeInv'
  <1>1. /\ settings = [s \in DOMAIN Defaults |-> settings[s]]
        /\ settings.devices \in Int /\ settings.masterdev \in Int
        /\ settings.startdev \in Int /\ settings.percent \in Int
        /\ options \in Seq(Options) /\ numbers \in Seq(Int)
    BY DEF SettingsInv, RegistrationInv
  <1>2. CriteriaInv'
    <2>1. CASE SetCriterion
      <3>1. options # <<>> /\ Option.arg # Bad /\ Option.opt \in {"i", "o"}
        BY <2>1 DEF SetCriterion, NextOption, CriterionOption
      <3>2. Option \in Options
        BY <1>1, <3>1, HeadTailProperties DEF Option
      <3>3. Option.arg \in Int
        BY <3>1, <3>2 DEF Options
      <3>4. frame_time(Option.arg, settings.percent) \in Normalised
        BY <1>1, <3>3, FrameTimes DEF Normalised
      <3>5. CriterionOption[Option.opt] \in {"in_sync", "no_sync"}
        BY <3>1 DEF CriterionOption
      <3>6. PICK c \in {"in_sync", "no_sync"}, t \in Normalised :
              settings' = [settings EXCEPT ![c] = t]
        BY <2>1, <3>4, <3>5 DEF SetCriterion
      <3>7. settings'.in_sync \in {settings.in_sync, t}
            /\ settings'.no_sync \in {settings.no_sync, t}
        BY <1>1, <3>6
      <3> QED
        BY <3>6, <3>7 DEF TypeInv, CriteriaInv
    <2>2. CASE SetNumber \/ ToggleVerbose
      <3>1. PICK c, v : /\ settings' = [settings EXCEPT ![c] = v]
                        /\ c \notin {"in_sync", "no_sync"}
        <4>1. CASE SetNumber
          <5>1. NumberOption[Option.opt] \notin {"in_sync", "no_sync"}
            BY <4>1 DEF SetNumber, NumberOption
          <5> QED
            BY <4>1, <5>1 DEF SetNumber
        <4>2. CASE ToggleVerbose
          BY <4>2 DEF ToggleVerbose
        <4> QED
          BY <2>2, <4>1, <4>2
      <3>2. settings'.in_sync = settings.in_sync
            /\ settings'.no_sync = settings.no_sync
        BY <1>1, <3>1
      <3> QED
        BY <3>2 DEF TypeInv, CriteriaInv
    <2>3. ASSUME ~SetCriterion, ~SetNumber, ~ToggleVerbose
          PROVE  settings' = settings
      BY <2>3 DEF Next, Main, Usage, NotSupported, Begin, Registration,
         RegisterMaster, NoMaster, RegisterNext, RegisterDevice, SkipMaster,
         RegistrationFails, RegistrationEnds, Captures, Capture, ProcessImages,
         CallbackReturns, LibraryLogs, CaptureEnds, End, BufferFull,
         Interrupt, vars
    <2> QED
      BY <2>1, <2>2, <2>3 DEF TypeInv, CriteriaInv
  <1>3. NodeInv'
    <2>1. CASE RegisterMaster \/ RegisterNext
      <3>1. PICK k \in DOMAIN node :
              numbers' = Append(numbers, k) /\ node' = node
        BY <2>1 DEF RegisterMaster, RegisterNext, RegisterDevice, Exists
      <3>2. node \in Machines /\ k \in Int
        <4>1. node \in Machines
          BY DEF TypeInv, NodeInv
        <4> QED
          BY <3>1, <4>1, DeviceNumbers
      <3>3. ToSet(numbers') = ToSet(numbers) \cup {k}
        BY <1>1, <3>1, <3>2, AppendNumber
      <3> QED
        BY <3>1, <3>3 DEF TypeInv, NodeInv
    <2>2. ASSUME ~RegisterMaster, ~RegisterNext
          PROVE  numbers' = numbers /\ node' = node
      BY <2>2 DEF Next, Main, SetNumber, SetCriterion, ToggleVerbose, Usage,
         NotSupported, Begin, Registration, NoMaster, SkipMaster,
         RegistrationFails, RegistrationEnds, Captures, Capture, ProcessImages,
         CallbackReturns, LibraryLogs, CaptureEnds, End, BufferFull,
         Interrupt, vars
    <2> QED
      BY <2>1, <2>2 DEF TypeInv, NodeInv
  <1>4. CounterInv'
    <2> USE DEF TypeInv, CounterInv
    <2>1. CASE Main
      BY <1>1, <2>1 DEF Main, SetNumber, SetCriterion, ToggleVerbose, Usage,
         NotSupported, Begin
    <2>2. CASE Registration
      BY <1>1, <2>2 DEF Registration, RegisterMaster, NoMaster, RegisterNext,
         RegisterDevice, SkipMaster, RegistrationFails, RegistrationEnds
    <2>3. CASE Captures
      BY <2>3 DEF Captures, Capture, ProcessImages, CallbackReturns,
         LibraryLogs, CaptureEnds, End
    <2>4. CASE BufferFull \/ Interrupt \/ UNCHANGED vars
      BY <2>4 DEF BufferFull, Interrupt, vars
    <2> QED
      BY <2>1, <2>2, <2>3, <2>4 DEF Next
  <1>5. ControlInv'
    <2> USE DEF TypeInv, ControlInv
    <2>1. CASE Main
      BY <2>1 DEF Main, SetNumber, SetCriterion, ToggleVerbose, NextOption,
         Usage, NotSupported, Begin, Exit, WriteOut
    <2>2. CASE Registration
      BY <2>2 DEF Registration, RegisterMaster, NoMaster, RegisterNext, Master,
         Registers, RegisterDevice, SkipMaster, RegistrationFails,
         RegistrationEnds, Exit, WriteOut
    <2>3. CASE Captures
      BY <2>3 DEF Captures, Capture, ProcessImages, CallbackReturns,
         LibraryLogs, CaptureEnds, End, Exit, WriteOut
    <2>4. CASE BufferFull \/ Interrupt \/ UNCHANGED vars
      BY <2>4 DEF BufferFull, Interrupt, vars
    <2> QED
      BY <2>1, <2>2, <2>3, <2>4 DEF Next
  <1> QED
    BY <1>2, <1>3, <1>4, <1>5 DEF TypeInv

\* TypeInv holds in every reachable state.
LEMMA TypeInvariant == Spec => []TypeInv
  <1>1. Init => TypeInv
    <2> SUFFICES ASSUME Init PROVE TypeInv
      OBVIOUS
    <2> DEFINE half == FRAME \div 2
               most == 25 * FRAME
    <2>1. half \in Int /\ most \in Int /\ 5 \in Int
      BY SMT DEF FRAME
    <2> HIDE DEF half, most
    <2>2. /\ frame_time(half, 5) \in Normalised
          /\ frame_time(most, 5) \in Normalised
      BY <2>1, FrameTimes DEF Normalised
    <2>3. /\ settings.in_sync = frame_time(half, 5)
          /\ settings.no_sync = frame_time(most, 5)
      BY SMT DEF Init, Defaults, half, most
    <2>4. CriteriaInv
      BY <2>2, <2>3 DEF CriteriaInv
    <2>5. NodeInv
      BY DEF Init, NodeInv, ToSet
    <2>6. CounterInv
      BY DEF Init, CounterInv
    <2>7. ControlInv
      BY DEF Init, ControlInv
    <2> QED
      BY <2>4, <2>5, <2>6, <2>7 DEF TypeInv
  <1> QED
    BY <1>1, TypeNext, RegistrationInvariant, PTL DEF Spec

-----------------------------------------------------------------------------
(* The log, as mg-tweak writes it.                                         *)

\* The lines that there are.  An image is older than the callback.
Ages == [minus : {FALSE}, sec : Nat, usec : 0 .. Second - 1]
LogLine == {Startup, Id, Now, Times, Captured, Message}
           \cup {DevLine(name, age) : name \in DevNumbers, age \in Ages}

\* The kinds of lines that follow each other; text for people may come anywhere.
Follows ==
  {<<"none", "startup">>, <<"startup", "id">>, <<"id", "id">>, <<"id", "now">>,
   <<"id", "times">>, <<"now", "dev">>, <<"dev", "dev">>, <<"dev", "now">>,
   <<"dev", "times">>, <<"times", "captured">>, <<"captured", "now">>,
   <<"captured", "times">>}
Fits(a, b) == <<a, b>> \in Follows \/ a = "message" \/ b = "message"

\* The kind of the line before the k-th of s, and of its last one, if s comes
\* after a line of the kind a; the lines of s fit.
Before(a, s, k) == IF k = 1 THEN a ELSE s[k - 1].kind
LastKind(a, s) == IF s = <<>> THEN a ELSE s[Len(s)].kind
Chain(a, s) == \A k \in 1 .. Len(s) : Fits(Before(a, s, k), s[k].kind)

\* What has been printed, whether or not it has reached the log.
Printed == log \o buffer
Ends == LastKind("none", Printed)

WriterTypes == /\ log \in Seq(LogLine) /\ buffer \in Seq(LogLine)
               /\ pc = "exited" <=> status # "running"

\* What is printed fits, and where the program is tells what it printed last.
WriterInv ==
  /\ Chain("none", Printed)
  /\ pc = "options" => Ends = "none"
  /\ pc = "master" => Ends = "startup"
  /\ pc = "register" => Ends = IF numbers = <<>> THEN "startup" ELSE "id"
  /\ pc = "repeat" => Ends \in {"id", "captured", "message"}
  /\ pc = "capture" => Ends \in {"id", "captured", "message", "dev"}
  /\ pc = "callback" => Ends = "dev"

-----------------------------------------------------------------------------
(* Lines that follow each other.                                           *)

\* Lines fit if they fit before and after the seam.
LEMMA Concatenation ==
  ASSUME NEW a, NEW s \in Seq(LogLine), NEW t \in Seq(LogLine)
  PROVE  /\ s \o t \in Seq(LogLine)
         /\ LastKind(a, s \o t) = LastKind(LastKind(a, s), t)
         /\ Chain(a, s \o t) <=> Chain(a, s) /\ Chain(LastKind(a, s), t)
  <1> DEFINE u == s \o t
             b == LastKind(a, s)
             m == Len(s)
             n == Len(t)
  <1>1. /\ u \in Seq(LogLine) /\ m \in Nat /\ n \in Nat /\ Len(u) = m + n
        /\ \A i \in 1 .. m + n : u[i] = IF i <= m THEN s[i] ELSE t[i - m]
    BY ConcatProperties, LenProperties
  <1>2. s = <<>> <=> m = 0
    BY EmptySeq
  <1>3. t = <<>> <=> n = 0
    BY EmptySeq
  <1>4. u = <<>> <=> m + n = 0
    BY <1>1, EmptySeq
  <1> HIDE DEF u
  <1>5. LastKind(a, u) = LastKind(b, t)
    <2>1. CASE n = 0
      <3>1. Len(u) = m /\ (m > 0 => u[m] = s[m])
        BY <1>1, <2>1
      <3> QED
        BY <1>1, <1>2, <1>3, <1>4, <2>1, <3>1 DEF LastKind
    <2>2. CASE n > 0
      <3>1. u[m + n] = t[n] /\ u # <<>> /\ t # <<>>
        BY <1>1, <1>3, <1>4, <2>2
      <3> QED
        BY <1>1, <3>1 DEF LastKind
    <2> QED
      BY <1>1, <2>1, <2>2
  <1>6. \A i \in 1 .. m : u[i] = s[i] /\ Before(a, u, i) = Before(a, s, i)
    <2> TAKE i \in 1 .. m
    <2>1. u[i] = s[i] /\ (i # 1 => u[i - 1] = s[i - 1])
      BY <1>1
    <2> QED
      BY <2>1 DEF Before
  <1>7. \A i \in 1 .. n : /\ u[m + i] = t[i]
                          /\ Before(a, u, m + i) = Before(b, t, i)
    <2> TAKE i \in 1 .. n
    <2>1. u[m + i] = t[i]
      <3>1. m + i \in 1 .. m + n /\ ~(m + i <= m) /\ (m + i) - m = i
        BY <1>1
      <3> QED
        BY <1>1, <3>1
    <2>2. CASE i > 1
      <3>1. /\ (m + i) - 1 \in 1 .. m + n /\ ~((m + i) - 1 <= m)
            /\ ((m + i) - 1) - m = i - 1 /\ m + i # 1
        BY <1>1, <2>2
      <3>2. u[(m + i) - 1] = t[i - 1]
        BY <1>1, <3>1
      <3> QED
        BY <2>1, <2>2, <3>1, <3>2 DEF Before
    <2>3. CASE i = 1 /\ m > 0
      <3>1. (m + i) - 1 = m /\ m + i # 1 /\ u[m] = s[m] /\ s # <<>>
        BY <1>1, <1>2, <2>3
      <3> QED
        BY <2>1, <2>3, <3>1 DEF Before, LastKind
    <2>4. CASE i = 1 /\ m = 0
      <3>1. m + i = 1 /\ s = <<>>
        BY <1>2, <2>4
      <3> QED
        BY <2>1, <2>4, <3>1 DEF Before, LastKind
    <2> QED
      BY <1>1, <2>2, <2>3, <2>4
  <1>8. Chain(a, u) <=> Chain(a, s) /\ Chain(b, t)
    <2>1. ASSUME Chain(a, u) PROVE Chain(a, s)
      <3>1. \A i \in 1 .. m : i \in 1 .. Len(u)
        BY <1>1
      <3> QED
        BY <1>6, <2>1, <3>1 DEF Chain
    <2>2. ASSUME Chain(a, u) PROVE Chain(b, t)
      <3>1. \A i \in 1 .. n : m + i \in 1 .. Len(u)
        BY <1>1
      <3> QED
        BY <1>7, <2>2, <3>1 DEF Chain
    <2>3. ASSUME Chain(a, s), Chain(b, t) PROVE Chain(a, u)
      <3> SUFFICES ASSUME NEW i \in 1 .. Len(u)
                   PROVE  Fits(Before(a, u, i), u[i].kind)
        BY DEF Chain
      <3>1. CASE i \in 1 .. m
        BY <1>6, <2>3, <3>1 DEF Chain
      <3>2. CASE i \notin 1 .. m
        <4>1. PICK j \in 1 .. n : i = m + j
          <5>1. i - m \in 1 .. n /\ i = m + (i - m)
            BY <1>1, <3>2
          <5> QED
            BY <5>1
        <4> QED
          BY <1>7, <2>3, <4>1 DEF Chain
      <3> QED
        BY <3>1, <3>2
    <2> QED
      BY <2>1, <2>2, <2>3
  <1> QED
    BY <1>1, <1>5, <1>8 DEF u

\* It does not matter in what order lines are put together.
LEMMA LinesAssociate ==
  \A r, s, t \in Seq(LogLine) : (r \o s) \o t = r \o (s \o t)
  <1> TAKE r, s, t \in Seq(LogLine)
  <1> QED
    BY ConcatAssociative, SMTT(30)

\* One line, and none.
LEMMA OneLine ==
  ASSUME NEW a, NEW l \in LogLine
  PROVE  /\ <<l>> \in Seq(LogLine) /\ LastKind(a, <<l>>) = l.kind
         /\ Chain(a, <<l>>) <=> Fits(a, l.kind)
  <1>1. \A k \in 1 .. Len(<<l>>) : k = 1
    OBVIOUS
  <1> QED
    BY <1>1 DEF LastKind, Chain, Before

\* Nothing fits everywhere.
LEMMA NoLines ==
  ASSUME NEW a
  PROVE  /\ <<>> \in Seq(LogLine) /\ LastKind(a, <<>>) = a /\ Chain(a, <<>>)
  BY DEF LastKind, Chain

\* A line of any kind is that line.
LEMMA LineKinds ==
  /\ {Startup, Id, Now, Times, Captured, Message} \subseteq LogLine
  /\ \A name \in DevNumbers, age \in Ages :
       DevLine(name, age) \in LogLine /\ DevLine(name, age).kind = "dev"
  /\ Startup.kind = "startup" /\ Id.kind = "id" /\ Now.kind = "now"
  /\ Times.kind = "times" /\ Captured.kind = "captured"
  /\ Message.kind = "message"
  /\ \A l \in LogLine :
       /\ l.kind \in {"startup", "id", "now", "times", "captured", "message",
                      "dev"}
       /\ l.kind = "captured" => l = Captured
       /\ l.kind = "message" => l = Message
       /\ l.kind = "times" => l = Times
  <1>1. /\ Startup.kind = "startup" /\ Id.kind = "id" /\ Now.kind = "now"
        /\ Times.kind = "times" /\ Captured.kind = "captured"
        /\ Message.kind = "message"
        /\ \A name, age : DevLine(name, age).kind = "dev"
    BY DEF DevLine, Startup, Id, Now, Times, Captured, Message
  <1>2. \A l \in LogLine :
          \/ l \in {Startup, Id, Now, Times, Captured, Message}
          \/ l.kind = "dev"
    BY <1>1 DEF LogLine
  <1> QED
    BY <1>1, <1>2 DEF LogLine

\* A message may be written anywhere, and any line after it.
LEMMA Remark ==
  ASSUME NEW a, NEW c
  PROVE  /\ If(c, Message) \in Seq(LogLine)
         /\ Chain(a, If(c, Message))
         /\ LastKind(a, If(c, Message)) \in {a, "message"}
  <1>1. If(c, Message) \in {<<>>, <<Message>>}
    BY DEF If
  <1>2. Fits(a, Message.kind)
    BY LineKinds DEF Fits
  <1>3. Message \in LogLine
    BY LineKinds
  <1> QED
    BY <1>1, <1>2, <1>3, OneLine, NoLines, LineKinds

\* Lines that fit in two places fit behind a message that may be written first.
LEMMA RemarkFirst ==
  ASSUME NEW a, NEW c, NEW s \in Seq(LogLine), Chain(a, s), Chain("message", s)
  PROVE  /\ If(c, Message) \o s \in Seq(LogLine)
         /\ Chain(a, If(c, Message) \o s)
         /\ LastKind(a, If(c, Message) \o s)
              \in {LastKind(a, s), LastKind("message", s)}
  <1> DEFINE r == If(c, Message)
  <1>1. /\ r \in Seq(LogLine) /\ Chain(a, r)
        /\ LastKind(a, r) \in {a, "message"}
    BY Remark
  <1> HIDE DEF r
  <1>2. /\ r \o s \in Seq(LogLine)
        /\ LastKind(a, r \o s) = LastKind(LastKind(a, r), s)
        /\ Chain(a, r \o s) <=> Chain(a, r) /\ Chain(LastKind(a, r), s)
    BY <1>1, Concatenation
  <1> QED
    BY <1>1, <1>2 DEF r

-----------------------------------------------------------------------------
(* mg-tweak prints.                                                        *)

\* What is in the log stays there; lines are printed.
LogGrows == /\ Len(log) <= Len(log')
            /\ \A k \in 1 .. Len(log) : log'[k] = log[k]
Prints(lines) == /\ log' \in Seq(LogLine) /\ buffer' \in Seq(LogLine)
                 /\ Printed' = Printed \o lines
                 /\ LogGrows

\* Lines at the end of the log.
LEMMA LongerLog ==
  ASSUME WriterTypes, NEW t \in Seq(LogLine), log' = log \o t
  PROVE  log' \in Seq(LogLine) /\ LogGrows
  <1>1. log \in Seq(LogLine)
    BY DEF WriterTypes
  <1>2. /\ log' \in Seq(LogLine) /\ Len(log') = Len(log) + Len(t)
        /\ \A i \in 1 .. Len(log) + Len(t) :
             log'[i] = IF i <= Len(log) THEN log[i] ELSE t[i - Len(log)]
    BY <1>1, ConcatProperties
  <1>3. Len(log) \in Nat /\ Len(t) \in Nat
    BY <1>1, LenProperties
  <1>4. \A i \in 1 .. Len(log) : i \in 1 .. Len(log) + Len(t) /\ i <= Len(log)
    BY <1>3
  <1> QED
    BY <1>2, <1>3, <1>4 DEF LogGrows

\* The ways to print: into the buffer; through it; into the log, past what the
\* library writes there; and to print nothing.
LEMMA Printing ==
  ASSUME WriterTypes, NEW lines \in Seq(LogLine)
  PROVE  /\ Write(lines) => Prints(lines)
         /\ WriteOut(lines) => Prints(lines)
         /\ log' = log \o Append(buffer, Message) /\ buffer' = lines
              => Prints(<<Message>> \o lines)
         /\ UNCHANGED <<log, buffer>> => Prints(<<>>)
  <1>1. log \in Seq(LogLine) /\ buffer \in Seq(LogLine) /\ <<>> \in Seq(LogLine)
    BY EmptySeq DEF WriterTypes
  <1>2. Printed \in Seq(LogLine) /\ Printed \o <<>> = Printed
    BY <1>1, ConcatProperties, ConcatEmptySeq DEF Printed
  <1>3. ASSUME UNCHANGED log PROVE LogGrows
    <2>1. Len(log) \in Nat
      BY <1>1, LenProperties
    <2> QED
      BY <1>3, <2>1 DEF LogGrows
  <1>4. ASSUME Write(lines) PROVE Prints(lines)
    <2>1. buffer' \in Seq(LogLine) /\ log' = log
      BY <1>1, <1>4, ConcatProperties DEF Write
    <2>2. Printed' = Printed \o lines
      <3>1. (log \o buffer) \o lines = log \o (buffer \o lines)
        BY <1>1, LinesAssociate
      <3> QED
        BY <1>4, <3>1 DEF Write, Printed
    <2> QED
      BY <1>1, <1>3, <2>1, <2>2 DEF Prints
  <1>5. ASSUME WriteOut(lines) PROVE Prints(lines)
    <2>1. /\ buffer \o lines \in Seq(LogLine)
          /\ log' = log \o (buffer \o lines) /\ log' = Printed \o lines
      BY <1>1, <1>5, LinesAssociate, ConcatProperties DEF WriteOut, Printed
    <2>2. log' \in Seq(LogLine) /\ LogGrows
      BY <2>1, LongerLog
    <2>3. buffer' = <<>> /\ Printed' = log'
      BY <1>5, <2>2, ConcatEmptySeq DEF WriteOut, Printed
    <2> QED
      BY <1>1, <2>1, <2>2, <2>3 DEF Prints
  <1>6. ASSUME log' = log \o Append(buffer, Message), buffer' = lines
        PROVE  Prints(<<Message>> \o lines)
    <2>1. Message \in LogLine /\ <<Message>> \in Seq(LogLine)
      BY LineKinds
    <2>2. /\ Append(buffer, Message) = buffer \o <<Message>>
          /\ Append(buffer, Message) \in Seq(LogLine)
      BY <1>1, <2>1, AppendIsConcat, AppendProperties
    <2>3. log' \in Seq(LogLine) /\ LogGrows
      BY <1>6, <2>2, LongerLog
    <2>4. log' = Printed \o <<Message>>
      BY <1>1, <1>6, <2>1, <2>2, LinesAssociate DEF Printed
    <2>5. Printed' = Printed \o (<<Message>> \o lines)
      <3>1. (Printed \o <<Message>>) \o lines = Printed \o (<<Message>> \o lines)
        BY <1>2, <2>1, LinesAssociate
      <3> QED
        BY <1>6, <2>4, <3>1 DEF Printed
    <2> QED
      BY <1>6, <2>3, <2>5 DEF Prints
  <1>7. ASSUME UNCHANGED <<log, buffer>> PROVE Prints(<<>>)
    BY <1>1, <1>2, <1>3, <1>7 DEF Prints, Printed
  <1> QED
    BY <1>4, <1>5, <1>6, <1>7

\* Lines that fit where they are printed.
LEMMA PrintedNext ==
  ASSUME WriterTypes, Chain("none", Printed), NEW lines \in Seq(LogLine),
         Prints(lines), Chain(Ends, lines)
  PROVE  Chain("none", Printed') /\ Ends' = LastKind(Ends, lines)
  <1>1. Printed \in Seq(LogLine)
    BY ConcatProperties DEF WriterTypes, Printed
  <1>2. /\ Chain("none", Printed \o lines)
        /\ LastKind("none", Printed \o lines) = LastKind(Ends, lines)
    BY <1>1, Concatenation DEF Ends
  <1>3. Printed' = Printed \o lines
    BY DEF Prints
  <1> QED
    BY <1>2, <1>3 DEF Ends

\* The time between an image and the callback, and how it is shown.
LEMMA ImageAge ==
  ASSUME NEW now \in Moments, NEW t \in Stamps, Micro(t) <= Micro(now)
  PROVE  LET age == Shown(timersub(now, t)) IN
         /\ age \in Ages
         /\ age.usec = (Micro(now) - Micro(t)) % Second
         /\ Micro(now) - Micro(t) \in Nat
  <1> DEFINE d == timersub(now, t)
  <1>1. /\ now \in Timevals /\ t \in Timevals
        /\ Normal(now) /\ Normal(t)
    <2>1. Second \in Int
      BY Parts
    <2>2. /\ now \in [sec : Nat, usec : 0 .. Second - 1]
          /\ t \in [sec : Nat, usec : 0 .. Second - 1]
      BY MomentAssumption
    <2> QED
      BY <2>1, <2>2 DEF Timevals, Normal
  <1>2. /\ d \in Timevals /\ Normal(d)
        /\ Micro(d) = Micro(now) - Micro(t)
    BY <1>1, Sums
  <1> HIDE DEF d
  <1>3. /\ d.sec \in Int /\ d.usec \in Int /\ d.usec >= 0 /\ d.usec < Second
        /\ Micro(d) = d.sec * Second + d.usec
        /\ Micro(now) \in Int /\ Micro(t) \in Int
    BY <1>1, <1>2, Parts DEF Normal
  <1>4. d.sec * Second + d.usec >= 0
    BY <1>2, <1>3
  <1>5. /\ d.sec >= 0 /\ d.usec = (d.sec * Second + d.usec) % Second
        /\ d.sec * Second + d.usec \in Nat
    BY <1>3, <1>4, SMT DEF Second
  <1>6. Shown(d) = [minus |-> FALSE, sec |-> d.sec, usec |-> d.usec]
    <2>1. d.sec # -1 /\ ~(d.sec < -1)
      BY <1>3, <1>5
    <2> QED
      BY <2>1 DEF Shown
  <1>7. d.usec \in 0 .. Second - 1
    <2>1. Second \in Int
      BY Parts
    <2>2. d.usec \in Int /\ d.usec >= 0 /\ d.usec < Second
      BY <1>3
    <2> QED
      BY <2>1, <2>2
  <1>8. d.sec \in Nat
    BY <1>3, <1>5
  <1> QED
    BY <1>2, <1>3, <1>5, <1>6, <1>7, <1>8 DEF Ages, d

\* The devices of a set: the registered ones, some of them at least.
LEMMA SomeNames ==
  ASSUME RegistrationInv, NodeInv, numbers # <<>>
  PROVE  /\ Names \subseteq DevNumbers /\ Names # {}
         /\ IsFiniteSet(Names) /\ Cardinality(Names) \in Nat \ {0}
  <1>1. /\ numbers \in Seq(Int) /\ Len(numbers) \in Nat /\ Len(numbers) > 0
        /\ DOMAIN numbers = 1 .. Len(numbers)
    BY LenProperties, EmptySeq DEF RegistrationInv
  <1>2. Names # {} /\ Names \subseteq ToSet(numbers)
    <2>1. 1 \in DOMAIN numbers /\ 1 .. 1 - 1 = {}
      BY <1>1
    <2>2. numbers[1] \in Names
      BY <2>1 DEF Names
    <2> QED
      BY <2>2 DEF Names, ToSet
  <1>3. IsFiniteSet(Names)
    <2>1. IsFiniteSet(1 .. Len(numbers))
      BY <1>1, FS_Interval
    <2>2. numbers \in Surjection(1 .. Len(numbers), ToSet(numbers))
      <3>1. numbers \in [1 .. Len(numbers) -> ToSet(numbers)]
        BY <1>1 DEF ToSet
      <3> QED
        BY <1>1, <3>1 DEF Surjection, ToSet
    <2>3. IsFiniteSet(ToSet(numbers))
      BY <2>1, <2>2, FS_Surjection
    <2> QED
      BY <1>2, <2>3, FS_Subset
  <1>4. Cardinality(Names) \in Nat /\ Cardinality(Names) # 0
    BY <1>2, <1>3, FS_CardinalityType, FS_EmptySet
  <1> QED
    BY <1>2, <1>3, <1>4, DeviceNumbers DEF NodeInv

\* The lines of a set, one for each of its devices, and what they show.
Older(now) == {t \in Stamps : Micro(t) <= Micro(now)}
DevLines(order, now, tv) ==
  [j \in DOMAIN order |->
     DevLine(order[j], Shown(timersub(now, tv[order[j]])))]

\* What the lines of a set are.
LEMMA SetLines ==
  ASSUME RegistrationInv, NodeInv, numbers # <<>>,
         NEW now \in Moments, NEW tv \in [Names -> Older(now)],
         NEW order \in SetToSeqs(Names)
  PROVE  LET lines == DevLines(order, now, tv)
             n == Len(lines)
         IN /\ lines \in Seq(LogLine) /\ n > 0
            /\ \A j \in 1 .. n :
                 /\ lines[j].kind = "dev" /\ lines[j].name \in Names
                 /\ lines[j].age.usec =
                      (Micro(now) - Micro(tv[lines[j].name])) % Second
            /\ \A i, j \in 1 .. n : lines[i].name = lines[j].name => i = j
            /\ \A d \in Names : \E j \in 1 .. n : lines[j].name = d
  <1> DEFINE lines == DevLines(order, now, tv)
             n == Cardinality(Names)
  <1>1. Names \subseteq DevNumbers /\ IsFiniteSet(Names) /\ n \in Nat \ {0}
    BY SomeNames
  <1>2. /\ order \in [1 .. n -> Names]
        /\ \A i, j \in 1 .. n : order[i] = order[j] => i = j
    BY DEF SetToSeqs
  <1>3. \A d \in Names : \E j \in 1 .. n : order[j] = d
    <2>1. order \in Injection(1 .. n, Names)
      BY <1>2 DEF Injection, IsInjective
    <2>2. Cardinality(1 .. n) = n
      BY <1>1, FS_Interval
    <2>3. order \in Surjection(1 .. n, Names)
      BY <1>1, <2>1, <2>2, FS_Injection
    <2> QED
      BY <2>3 DEF Surjection
  <1>4. \A j \in 1 .. n :
          /\ lines[j] \in LogLine /\ lines[j].kind = "dev"
          /\ lines[j].name = order[j]
          /\ lines[j].age.usec =
               (Micro(now) - Micro(tv[order[j]])) % Second
    <2> TAKE j \in 1 .. n
    <2> DEFINE age == Shown(timersub(now, tv[order[j]]))
    <2>1. order[j] \in DevNumbers /\ tv[order[j]] \in Older(now)
      BY <1>1, <1>2
    <2>2. /\ age \in Ages
          /\ age.usec = (Micro(now) - Micro(tv[order[j]])) % Second
      BY <2>1, ImageAge DEF Older
    <2> HIDE DEF age
    <2>3. lines[j] = DevLine(order[j], age)
      BY <1>2 DEF DevLines, age
    <2>4. DevLine(order[j], age).name = order[j]
          /\ DevLine(order[j], age).age = age
      BY DEF DevLine
    <2> QED
      BY <2>1, <2>2, <2>3, <2>4, LineKinds
  <1>5. lines \in Seq(LogLine) /\ Len(lines) = n
    <2>1. lines \in [1 .. n -> LogLine]
      <3>1. DOMAIN order = 1 .. n
        BY <1>2
      <3>2. lines = [j \in 1 .. n |-> lines[j]]
        BY <3>1 DEF DevLines
      <3> QED
        BY <1>4, <3>2
    <2> HIDE DEF lines
    <2> QED
      BY <1>1, <2>1, IsASeq, LenProperties
  <1> HIDE DEF lines
  <1>6. n > 0
    BY <1>1
  <1> QED
    BY <1>2, <1>3, <1>4, <1>5, <1>6 DEF lines

\* They fit.
LEMMA SetLinesFit ==
  ASSUME NEW lines \in Seq(LogLine), Len(lines) > 0,
         \A j \in 1 .. Len(lines) : lines[j].kind = "dev"
  PROVE  Chain("now", lines) /\ LastKind("now", lines) = "dev"
  <1>1. Len(lines) \in Nat /\ lines # <<>>
    BY LenProperties, EmptySeq
  <1>2. LastKind("now", lines) = "dev"
    BY <1>1 DEF LastKind
  <1>3. Chain("now", lines)
    <2> SUFFICES ASSUME NEW k \in 1 .. Len(lines)
                 PROVE  Fits(Before("now", lines, k), lines[k].kind)
      BY DEF Chain
    <2>1. k # 1 => k - 1 \in 1 .. Len(lines)
      BY <1>1
    <2>2. Before("now", lines, k) \in {"now", "dev"}
      BY <2>1 DEF Before
    <2> QED
      BY <2>2 DEF Fits, Follows
  <1> QED
    BY <1>2, <1>3

\* While it captures, some device is registered.
SomeDevice == pc \in {"repeat", "capture", "callback"} => numbers # <<>>

\* The numbers registered are as many as were wanted, which is not none.
LEMMA SomeRegistered == SettingsInv /\ RegistrationInv => SomeDevice
  <1> SUFFICES ASSUME SettingsInv, RegistrationInv,
                      pc \in {"repeat", "capture", "callback"}
               PROVE  numbers # <<>>
    BY DEF SomeDevice
  <1>1. Len(numbers) = settings.devices
    BY RegistrationMeaning DEF RegistersWanted
  <1>2. settings.devices > 0
    BY DEF RegistrationInv, Registering, CountInv
  <1> QED
    BY <1>1, <1>2

\* Every step keeps WriterInv, and what is in the log; nothing is written once
\* the program has ended.
WriterKept == /\ WriterTypes' /\ WriterInv' /\ LogGrows
              /\ status # "running" => UNCHANGED <<log, status>>

\* A step that prints lines that fit is one that leads where they are expected.
LEMMA WriterKeeps ==
  ASSUME WriterTypes, WriterInv, pc # "exited",
         NEW lines \in Seq(LogLine), Prints(lines), Chain(Ends, lines),
         pc' = "exited" <=> status' # "running",
         Ends' = LastKind(Ends, lines) =>
           /\ pc' = "options" => Ends' = "none"
           /\ pc' = "master" => Ends' = "startup"
           /\ pc' = "register" =>
                Ends' = IF numbers' = <<>> THEN "startup" ELSE "id"
           /\ pc' = "repeat" => Ends' \in {"id", "captured", "message"}
           /\ pc' = "capture" => Ends' \in {"id", "captured", "message", "dev"}
           /\ pc' = "callback" => Ends' = "dev"
  PROVE  WriterKept
  <1>1. Chain("none", Printed') /\ Ends' = LastKind(Ends, lines)
    BY PrintedNext DEF WriterInv
  <1>2. WriterTypes' /\ LogGrows /\ status = "running"
    BY DEF WriterTypes, Prints
  <1>3. WriterInv'
    BY <1>1 DEF WriterInv
  <1> QED
    BY <1>2, <1>3 DEF WriterKept

\* The options, and the start of the library.
LEMMA MainPrints ==
  ASSUME WriterTypes, WriterInv, RegistrationInv, SettingsInv, Main
  PROVE  WriterKept
  <1>1. pc = "options" /\ Ends = "none"
    BY DEF Main, SetNumber, SetCriterion, ToggleVerbose, Usage, NotSupported,
       Begin, NextOption, WriterInv
  <1>2. Message \in LogLine /\ Message.kind = "message" /\ Startup \in LogLine
        /\ Startup.kind = "startup"
    BY LineKinds
  <1>3. CASE SetNumber \/ SetCriterion \/ ToggleVerbose
    <2>1. UNCHANGED <<pc, log, buffer, status>>
      BY <1>3 DEF SetNumber, SetCriterion, ToggleVerbose
    <2>2. Prints(<<>>) /\ <<>> \in Seq(LogLine) /\ Chain(Ends, <<>>)
          /\ LastKind(Ends, <<>>) = Ends
      BY <2>1, Printing, NoLines
    <2>3. pc' = "exited" <=> status' # "running"
      BY <2>1 DEF WriterTypes
    <2> QED
      BY <1>1, <2>1, <2>2, <2>3, WriterKeeps
  <1>4. CASE Usage \/ NotSupported
    <2>1. pc' = "exited" /\ status' = "failure" /\ WriteOut(<<Message>>)
      BY <1>4 DEF Usage, NotSupported, Exit
    <2>2. <<Message>> \in Seq(LogLine) /\ Chain(Ends, <<Message>>)
      BY <1>2, OneLine DEF Fits
    <2>3. Prints(<<Message>>)
      BY <2>1, <2>2, Printing
    <2> QED
      BY <1>1, <2>1, <2>2, <2>3, WriterKeeps
  <1>5. CASE Begin
    <2> DEFINE o == If(operands, Message)
               v == If(settings.verbose, Message)
               lines == o \o v \o <<Startup>>
    <2>1. pc' = "master" /\ status' = status /\ WriteOut(lines)
      BY <1>5 DEF Begin
    <2>2. /\ o \in {<<>>, <<Message>>} /\ v \in {<<>>, <<Message>>}
          /\ <<>> \in Seq(LogLine) /\ <<Message>> \in Seq(LogLine)
          /\ <<Startup>> \in Seq(LogLine)
      BY <1>2, OneLine, NoLines DEF If
    <2>3. lines \in Seq(LogLine)
      BY <2>2, ConcatProperties
    <2>4. Chain("none", lines) /\ LastKind("none", lines) = "startup"
      <3> DEFINE s == <<Startup>>
      <3>1. \A a \in {"none", "message"} :
              Chain(a, s) /\ LastKind(a, s) = "startup"
        BY <1>2, OneLine DEF Fits, Follows
      <3> HIDE DEF s
      <3>2. s \in Seq(LogLine)
        BY <2>2 DEF s
      <3>3. /\ v \o s \in Seq(LogLine)
            /\ \A a \in {"none", "message"} :
                 Chain(a, v \o s) /\ LastKind(a, v \o s) = "startup"
        BY <3>1, <3>2, RemarkFirst
      <3>4. /\ Chain("none", o \o (v \o s))
            /\ LastKind("none", o \o (v \o s)) = "startup"
        <4> DEFINE t == v \o s
        <4>1. /\ t \in Seq(LogLine)
              /\ \A a \in {"none", "message"} :
                   Chain(a, t) /\ LastKind(a, t) = "startup"
          BY <3>3
        <4> HIDE DEF t
        <4>2. Chain("none", o \o t) /\ LastKind("none", o \o t) = "startup"
          BY <4>1, RemarkFirst
        <4> QED
          BY <4>2 DEF t
      <3>5. lines = o \o (v \o s)
        BY <2>2, LinesAssociate DEF s
      <3> QED
        BY <3>4, <3>5
    <2> HIDE DEF lines
    <2>5. Prints(lines)
      BY <2>1, <2>3, Printing
    <2>6. status' = "running"
      BY <1>1, <2>1 DEF WriterTypes
    <2> QED
      BY <1>1, <2>1, <2>3, <2>4, <2>5, <2>6, WriterKeeps
  <1> QED
    BY <1>3, <1>4, <1>5 DEF Main

\* Registration.
LEMMA RegistrationPrints ==
  ASSUME WriterTypes, WriterInv, RegistrationInv, RegistrationInv',
         SettingsInv, SettingsInv', Registration
  PROVE  WriterKept
  <1>1. /\ pc = "master" => numbers = <<>> /\ Ends = "startup"
        /\ pc = "register" => Ends = IF numbers = <<>> THEN "startup" ELSE "id"
    BY DEF WriterInv, RegistrationInv
  <1>2. pc \in {"master", "register"}
    BY DEF Registration, RegisterMaster, NoMaster, RegisterNext, SkipMaster,
       RegistrationFails, RegistrationEnds, Master, Registers
  <1>3. Ends \in {"startup", "id"} /\ status = "running"
    BY <1>1, <1>2 DEF WriterTypes
  <1>4. Id \in LogLine /\ Id.kind = "id" /\ <<Id>> \in Seq(LogLine)
    BY LineKinds, OneLine
  <1>5. \A a \in {"startup", "id", "message"} :
          Chain(a, <<Id>>) /\ LastKind(a, <<Id>>) = "id"
    BY <1>4, OneLine DEF Fits, Follows
  <1>6. CASE RegisterMaster \/ RegisterNext
    <2>1. PICK k : RegisterDevice(k)
      BY <1>6 DEF RegisterMaster, RegisterNext
    <2>2. /\ pc' = "register" /\ status' = status
          /\ \/ Write(<<Id>>)
             \/ log' = log \o Append(buffer, Message) /\ buffer' = <<Id>>
      BY <1>6, <2>1 DEF RegisterMaster, RegisterNext, Registers, RegisterDevice
    <2>3. numbers' # <<>>
      <3>1. numbers' = Append(numbers, k) /\ numbers' \in Seq(Int)
        BY <2>1 DEF RegisterDevice, RegistrationInv
      <3>2. k \in Int /\ numbers \in Seq(Int)
        BY <1>6, <2>1 DEF RegistrationInv, SettingsInv, RegisterMaster,
           RegisterNext, RegisterDevice, CountInv, Registers, Registering
      <3>3. Len(numbers') = Len(numbers) + 1 /\ Len(numbers) \in Nat
        BY <3>1, <3>2, AppendNumber
      <3> QED
        BY <3>3
    <2> DEFINE s == <<Id>>
               m == <<Message>>
    <2>4. PICK lines \in Seq(LogLine) :
            /\ Prints(lines) /\ Chain(Ends, lines)
            /\ LastKind(Ends, lines) = "id"
      <3>1. /\ s \in Seq(LogLine) /\ Chain(Ends, s) /\ Chain("message", s)
            /\ LastKind(Ends, s) = "id" /\ LastKind("message", s) = "id"
        BY <1>3, <1>4, <1>5
      <3>2. CASE Write(s)
        BY <3>1, <3>2, Printing
      <3>3. CASE log' = log \o Append(buffer, Message) /\ buffer' = s
        <4> HIDE DEF s
        <4>1. Prints(m \o s)
          BY <3>1, <3>3, Printing
        <4>2. /\ m \in Seq(LogLine) /\ Chain(Ends, m)
              /\ LastKind(Ends, m) = "message"
          BY LineKinds, OneLine DEF Fits
        <4> HIDE DEF m
        <4>3. /\ m \o s \in Seq(LogLine) /\ Chain(Ends, m \o s)
              /\ LastKind(Ends, m \o s) = "id"
          BY <3>1, <4>2, Concatenation
        <4> QED
          BY <4>1, <4>3
      <3> QED
        BY <2>2, <3>2, <3>3
    <2> QED
      BY <1>2, <1>3, <2>2, <2>3, <2>4, WriterKeeps
  <1>7. CASE NoMaster \/ SkipMaster \/ RegistrationEnds
    <2>1. UNCHANGED <<numbers, log, buffer, status>>
      BY <1>7 DEF NoMaster, SkipMaster, RegistrationEnds
    <2>2. /\ Prints(<<>>) /\ <<>> \in Seq(LogLine) /\ Chain(Ends, <<>>)
          /\ LastKind(Ends, <<>>) = Ends
      BY <2>1, Printing, NoLines
    <2>3. CASE NoMaster \/ SkipMaster
      <3>1. pc' = "register"
        BY <2>3 DEF NoMaster, SkipMaster, Registers
      <3> QED
        BY <1>1, <1>2, <1>3, <2>1, <2>2, <3>1, WriterKeeps
    <2>4. CASE RegistrationEnds
      <3>1. pc = "register" /\ pc' = "repeat"
        BY <2>4 DEF RegistrationEnds
      <3>2. numbers' # <<>>
        <4>1. SettingsInv' /\ RegistrationInv' => SomeDevice'
          BY SomeRegistered, PTL
        <4> QED
          BY <3>1, <4>1 DEF SomeDevice
      <3>3. Ends = "id"
        BY <1>1, <2>1, <3>1, <3>2
      <3> QED
        BY <1>3, <2>1, <2>2, <3>1, <3>3, WriterKeeps
    <2> QED
      BY <1>7, <2>3, <2>4
  <1>8. CASE RegistrationFails
    <2>1. PICK logged \in BOOLEAN :
            Exit("failure", If(logged, Message) \o <<Id>>)
      BY <1>8 DEF RegistrationFails
    <2> DEFINE s == <<Id>>
               lines == If(logged, Message) \o s
    <2>2. pc' = "exited" /\ status' = "failure" /\ WriteOut(lines)
      BY <2>1 DEF Exit
    <2>3. s \in Seq(LogLine) /\ Chain(Ends, s) /\ Chain("message", s)
      BY <1>3, <1>4, <1>5
    <2> HIDE DEF s
    <2>4. lines \in Seq(LogLine) /\ Chain(Ends, lines)
      BY <2>3, RemarkFirst
    <2> HIDE DEF lines
    <2>5. Prints(lines)
      BY <2>2, <2>4, Printing
    <2> QED
      BY <1>2, <2>2, <2>4, <2>5, WriterKeeps
  <1> QED
    BY <1>6, <1>7, <1>8 DEF Registration

\* The captures.
LEMMA CapturesPrint ==
  ASSUME WriterTypes, WriterInv, RegistrationInv, SettingsInv, NodeInv, Captures
  PROVE  WriterKept
  <1>1. pc \in {"repeat", "capture", "callback"}
    BY DEF Captures, Capture, ProcessImages, CallbackReturns, LibraryLogs,
       CaptureEnds, End
  <1>2. numbers # <<>> /\ status = "running"
    BY <1>1, SomeRegistered DEF SomeDevice, WriterTypes
  <1>3. /\ pc = "repeat" => Ends \in {"id", "captured", "message"}
        /\ pc = "capture" => Ends \in {"id", "captured", "message", "dev"}
        /\ pc = "callback" => Ends = "dev"
    BY DEF WriterInv
  <1> DEFINE verbose == If(settings.verbose, Message)
  <1>4. CASE Capture
    <2>1. /\ pc = "repeat" /\ pc' = "capture" /\ status' = status
          /\ Write(verbose)
      BY <1>4 DEF Capture
    <2>2. /\ verbose \in Seq(LogLine) /\ Chain(Ends, verbose)
          /\ LastKind(Ends, verbose) \in {Ends, "message"}
      BY Remark
    <2>3. Prints(verbose)
      BY <2>1, <2>2, Printing
    <2> QED
      BY <1>2, <1>3, <2>1, <2>2, <2>3, WriterKeeps
  <1>5. CASE ProcessImages
    <2>1. pc = "capture" /\ pc' = "callback" /\ status' = status
      BY <1>5 DEF ProcessImages
    <2>2. \E now \in Moments, order \in SetToSeqs(Names) :
            \E tv \in [Names -> Older(now)] :
              Write(<<Now>> \o DevLines(order, now, tv))
      BY <1>5, Zenon DEF ProcessImages, DevLines, Older
    <2>a. PICK now \in Moments, order \in SetToSeqs(Names) :
            \E tv \in [Names -> Older(now)] :
              Write(<<Now>> \o DevLines(order, now, tv))
      BY <2>2
    <2>b. PICK tv \in [Names -> Older(now)] :
            Write(<<Now>> \o DevLines(order, now, tv))
      BY <2>a
    <2> DEFINE set == DevLines(order, now, tv)
               s == <<Now>>
               lines == s \o set
    <2>3. /\ set \in Seq(LogLine) /\ Chain("now", set)
          /\ LastKind("now", set) = "dev"
      BY <1>2, SetLines, SetLinesFit
    <2>4. s \in Seq(LogLine) /\ Chain(Ends, s) /\ LastKind(Ends, s) = "now"
      <3>1. Now \in LogLine /\ Now.kind = "now"
        BY LineKinds
      <3>2. Fits(Ends, "now")
        BY <1>3, <2>1 DEF Fits, Follows
      <3> QED
        BY <3>1, <3>2, OneLine
    <2>5. Write(lines)
      BY <2>b
    <2> HIDE DEF s, set
    <2>6. /\ lines \in Seq(LogLine) /\ Chain(Ends, lines)
          /\ LastKind(Ends, lines) = "dev"
      BY <2>3, <2>4, Concatenation
    <2> HIDE DEF lines
    <2>7. Prints(lines)
      BY <2>5, <2>6, Printing
    <2> QED
      BY <1>2, <2>1, <2>6, <2>7, WriterKeeps
  <1>6. CASE CallbackReturns
    <2>1. /\ pc = "callback" /\ pc' = "capture" /\ status' = status
          /\ WriteOut(<<>>)
      BY <1>6 DEF CallbackReturns
    <2>2. /\ <<>> \in Seq(LogLine) /\ Chain(Ends, <<>>)
          /\ LastKind(Ends, <<>>) = Ends
      BY NoLines
    <2>3. Prints(<<>>)
      BY <2>1, <2>2, Printing
    <2> QED
      BY <1>2, <1>3, <2>1, <2>2, <2>3, WriterKeeps
  <1>7. CASE CaptureEnds
    <2>1. /\ pc = "capture" /\ pc' = "repeat" /\ status' = status
      BY <1>7 DEF CaptureEnds
    <2> DEFINE good == <<Times, Captured>>
               bad == <<Times, Message>>
    <2>2. \A a \in {"id", "captured", "message", "dev"} :
            /\ good \in Seq(LogLine) /\ bad \in Seq(LogLine)
            /\ Chain(a, good) /\ Chain(a, bad)
            /\ LastKind(a, good) = "captured" /\ LastKind(a, bad) = "message"
      <3> TAKE a \in {"id", "captured", "message", "dev"}
      <3>1. /\ Times \in LogLine /\ Captured \in LogLine /\ Message \in LogLine
            /\ Times.kind = "times" /\ Captured.kind = "captured"
            /\ Message.kind = "message"
        BY LineKinds
      <3>2. /\ Fits(a, "times")
            /\ Fits("times", "captured") /\ Fits("times", "message")
        BY DEF Fits, Follows
      <3>3. \A l \in {Captured, Message} :
              /\ <<Times, l>> \in Seq(LogLine) /\ Chain(a, <<Times, l>>)
              /\ LastKind(a, <<Times, l>>) = l.kind
        <4> TAKE l \in {Captured, Message}
        <4>1. l \in LogLine /\ Fits("times", l.kind)
          BY <3>1, <3>2
        <4>2. /\ \A k \in 1 .. Len(<<Times, l>>) : k \in {1, 2}
              /\ <<Times, l>> # <<>> /\ Len(<<Times, l>>) = 2
          OBVIOUS
        <4> QED
          BY <3>1, <3>2, <4>1, <4>2 DEF Chain, LastKind, Before
      <3> QED
        BY <3>1, <3>3
    <2> HIDE DEF good, bad
    <2>3. /\ verbose \o good \in Seq(LogLine) /\ verbose \o bad \in Seq(LogLine)
          /\ \A a \in {"id", "captured", "message", "dev"} :
               /\ Chain(a, verbose \o good) /\ Chain(a, verbose \o bad)
               /\ LastKind(a, verbose \o good) = "captured"
               /\ LastKind(a, verbose \o bad) = "message"
      BY <2>2, RemarkFirst
    <2> HIDE DEF verbose
    <2>4. Write(verbose \o good) \/ Write(verbose \o bad)
      BY <1>7 DEF CaptureEnds, verbose, good, bad
    <2>5. Prints(verbose \o good) \/ Prints(verbose \o bad)
      BY <2>3, <2>4, Printing
    <2>6. PICK lines \in Seq(LogLine) :
            /\ Prints(lines) /\ Chain(Ends, lines)
            /\ LastKind(Ends, lines) \in {"captured", "message"}
      BY <1>3, <2>1, <2>3, <2>5
    <2> QED
      BY <1>2, <2>1, <2>6, WriterKeeps
  <1>8. CASE LibraryLogs
    <2>1. /\ pc = "capture" /\ pc' = "capture" /\ status' = status
          /\ WriteOut(<<Message>>)
      BY <1>8 DEF LibraryLogs
    <2>2. /\ <<Message>> \in Seq(LogLine) /\ Chain(Ends, <<Message>>)
          /\ LastKind(Ends, <<Message>>) = "message"
      BY LineKinds, OneLine DEF Fits
    <2>3. Prints(<<Message>>)
      BY <2>1, <2>2, Printing
    <2> QED
      BY <1>2, <2>1, <2>2, <2>3, WriterKeeps
  <1>9. CASE End
    <2>1. PICK logged \in BOOLEAN : Exit("success", If(logged, Message))
      BY <1>9 DEF End
    <2> DEFINE lines == If(logged, Message)
    <2>2. pc' = "exited" /\ status' = "success" /\ WriteOut(lines)
      BY <2>1 DEF Exit
    <2>3. lines \in Seq(LogLine) /\ Chain(Ends, lines)
      BY Remark
    <2> HIDE DEF lines
    <2>4. Prints(lines)
      BY <2>2, <2>3, Printing
    <2> QED
      BY <1>1, <2>2, <2>3, <2>4, WriterKeeps
  <1> QED
    BY <1>4, <1>5, <1>6, <1>7, <1>8, <1>9 DEF Captures

\* A full buffer prints nothing new.
LEMMA BufferPrints ==
  ASSUME WriterTypes, BufferFull
  PROVE  Prints(<<>>)
  <1>1. /\ log \in Seq(LogLine) /\ buffer \in Seq(LogLine)
        /\ <<>> \in Seq(LogLine) /\ Len(buffer) \in Nat
    BY NoLines, LenProperties DEF WriterTypes
  <1>2. PICK k \in 1 .. Len(buffer) :
          /\ log' = log \o SubSeq(buffer, 1, k)
          /\ buffer' = SubSeq(buffer, k + 1, Len(buffer))
    BY DEF BufferFull
  <1> DEFINE s == SubSeq(buffer, 1, k)
             t == SubSeq(buffer, k + 1, Len(buffer))
  <1>3. \A i \in 1 .. Len(buffer) : buffer[i] \in LogLine
    BY <1>1, ElementOfSeq
  <1>4. s \in Seq(LogLine) /\ t \in Seq(LogLine) /\ s \o t = buffer
    <2>1. /\ s \in Seq(LogLine) /\ Len(s) = k
          /\ \A i \in 1 .. k : s[i] = buffer[i]
      BY <1>1, <1>3, SubSeqProperties
    <2>2. /\ t \in Seq(LogLine) /\ Len(t) = Len(buffer) - k
          /\ \A i \in 1 .. Len(buffer) - k : t[i] = buffer[k + i]
      BY <1>1, <1>3, SubSeqProperties
    <2> HIDE DEF s, t
    <2>3. /\ s \o t \in Seq(LogLine) /\ Len(s \o t) = Len(buffer)
          /\ \A i \in 1 .. Len(buffer) :
               (s \o t)[i] = IF i <= k THEN s[i] ELSE t[i - k]
      <3>1. Len(s) + Len(t) = Len(buffer)
        BY <1>1, <2>1, <2>2
      <3>2. /\ s \o t \in Seq(LogLine) /\ Len(s \o t) = Len(s) + Len(t)
            /\ \A i \in 1 .. Len(s) + Len(t) :
                 (s \o t)[i] = IF i <= Len(s) THEN s[i] ELSE t[i - Len(s)]
        BY <2>1, <2>2, ConcatProperties
      <3> QED
        BY <2>1, <3>1, <3>2
    <2>4. \A i \in 1 .. Len(buffer) : (s \o t)[i] = buffer[i]
      <3> TAKE i \in 1 .. Len(buffer)
      <3>1. CASE i <= k
        BY <2>1, <2>3, <3>1
      <3>2. CASE ~(i <= k)
        <4>1. i - k \in 1 .. Len(buffer) - k /\ k + (i - k) = i
          BY <1>1, <3>2
        <4> QED
          BY <2>2, <2>3, <3>2, <4>1
      <3> QED
        BY <3>1, <3>2
    <2> QED
      BY <1>1, <2>1, <2>2, <2>3, <2>4, SeqEqual
  <1> HIDE DEF s, t
  <1>5. log' = log \o s /\ buffer' = t
    BY <1>2 DEF s, t
  <1>6. log' \in Seq(LogLine) /\ LogGrows
    BY <1>4, <1>5, LongerLog
  <1>7. Printed' = Printed
    <2>1. log \in Seq(LogLine) /\ s \in Seq(LogLine) /\ t \in Seq(LogLine)
      BY <1>1, <1>4
    <2>2. (log \o s) \o t = log \o (s \o t)
      BY <2>1, LinesAssociate
    <2> QED
      BY <1>4, <1>5, <2>2 DEF Printed
  <1>8. Printed \o <<>> = Printed
    BY <1>1, ConcatProperties, ConcatEmptySeq DEF Printed
  <1> QED
    BY <1>4, <1>5, <1>6, <1>7, <1>8 DEF Prints

\* Lines go from the buffer to the log, or are lost.
LEMMA OutputPrints ==
  ASSUME WriterTypes, WriterInv, BufferFull \/ Interrupt
  PROVE  WriterKept
  <1>1. /\ log \in Seq(LogLine) /\ buffer \in Seq(LogLine)
        /\ <<>> \in Seq(LogLine) /\ Len(buffer) \in Nat
    BY NoLines, LenProperties DEF WriterTypes
  <1>2. CASE BufferFull
    <2>1. UNCHANGED <<pc, numbers, status>> /\ pc # "exited"
      BY <1>2 DEF BufferFull
    <2>2. Prints(<<>>) /\ Chain(Ends, <<>>) /\ LastKind(Ends, <<>>) = Ends
      BY <1>2, BufferPrints, NoLines
    <2>3. pc' = "exited" <=> status' # "running"
      BY <2>1 DEF WriterTypes
    <2> QED
      BY <1>1, <2>1, <2>2, <2>3, WriterKeeps DEF WriterInv
  <1>3. CASE Interrupt
    <2>1. /\ pc # "exited" /\ pc' = "exited" /\ status' = "killed"
          /\ log' = log /\ buffer' = <<>>
      BY <1>3 DEF Interrupt
    <2>2. status = "running" /\ WriterTypes'
      BY <1>1, <2>1 DEF WriterTypes
    <2>3. LogGrows
      BY <1>1, <2>1, LenProperties DEF LogGrows
    <2>4. Chain("none", log)
      BY <1>1, Concatenation DEF WriterInv, Printed
    <2>5. Printed' = log
      BY <1>1, <2>1, ConcatEmptySeq DEF Printed
    <2> QED
      BY <2>1, <2>2, <2>3, <2>4, <2>5 DEF WriterKept, WriterInv
  <1> QED
    BY <1>2, <1>3

\* Every step of mg-tweak keeps the two invariants.
LEMMA WriterNext ==
  ASSUME WriterTypes, WriterInv, RegistrationInv, RegistrationInv',
         SettingsInv, SettingsInv', NodeInv, [Next]_vars
  PROVE  WriterKept
  <1>1. CASE UNCHANGED vars
    <2>1. Len(log) \in Nat
      BY LenProperties DEF WriterTypes
    <2>2. UNCHANGED <<pc, log, buffer, status, numbers>>
      BY <1>1 DEF vars
    <2>3. WriterTypes' /\ WriterInv'
      BY <2>2 DEF WriterTypes, WriterInv, Printed, Ends
    <2> QED
      BY <2>1, <2>2, <2>3 DEF WriterKept, LogGrows
  <1> QED
    BY <1>1, MainPrints, RegistrationPrints, CapturesPrint, OutputPrints
    DEF Next

\* What is printed fits, in every reachable state.
LEMMA WriterInvariant == Spec => [](WriterTypes /\ WriterInv)
  <1>1. Init => WriterTypes /\ WriterInv
    <2> SUFFICES ASSUME Init PROVE WriterTypes /\ WriterInv
      OBVIOUS
    <2>1. /\ log = <<>> /\ buffer = <<>> /\ pc = "options" /\ status = "running"
      BY DEF Init
    <2>2. /\ <<>> \in Seq(LogLine) /\ Chain("none", <<>>)
          /\ LastKind("none", <<>>) = "none"
      BY NoLines
    <2>3. Printed = <<>>
      BY <2>1, <2>2, ConcatEmptySeq DEF Printed
    <2> QED
      BY <2>1, <2>2, <2>3 DEF WriterTypes, WriterInv, Ends
  <1>2. ASSUME WriterTypes, WriterInv, [Next]_vars, TypeInv,
               SettingsInv /\ RegistrationInv, (SettingsInv /\ RegistrationInv)'
        PROVE  (WriterTypes /\ WriterInv)'
    <2>1. NodeInv
      BY <1>2 DEF TypeInv
    <2> QED
      BY <1>2, <2>1, WriterNext DEF WriterKept
  <1> QED
    BY <1>1, <1>2, RegistrationInvariant, TypeInvariant, PTL DEF Spec

\* The program's variables have their types: whatever the options, the criteria
\* that frame_time makes of them are normal times, the numbers registered are
\* those of devices, and the ages in the log are normal and not negative.
THEOREM TweakTypes == Spec => []TypeOK
  <1>1. LogLine \subseteq Lines
    <2>1. DevNumbers \subseteq Nat
      BY DEF DevNumbers
    <2>2. \A name \in DevNumbers, age \in Ages : DevLine(name, age) \in Lines
      BY <2>1 DEF DevLine, Lines, Ages
    <2>3. {Startup, Id, Now, Times, Captured, Message} \subseteq Lines
      BY DEF Lines
    <2> QED
      BY <2>2, <2>3 DEF LogLine
  <1>2. SettingsInv /\ RegistrationInv /\ TypeInv /\ WriterTypes => TypeOK
    <2> SUFFICES ASSUME SettingsInv, RegistrationInv, TypeInv, WriterTypes
                 PROVE  TypeOK
      OBVIOUS
    <2>1. DOMAIN settings = DOMAIN Defaults
      BY DEF SettingsInv
    <2>2. \A l \in ToSet(buffer \o log) : l \in Lines
      <3>1. buffer \o log \in Seq(LogLine)
        BY ConcatProperties DEF WriterTypes
      <3>2. \A k \in DOMAIN (buffer \o log) : (buffer \o log)[k] \in LogLine
        BY <3>1, LenProperties, ElementOfSeq
      <3> QED
        BY <1>1, <3>2 DEF ToSet
    <2>3. \A j \in DOMAIN numbers : numbers[j] \in DOMAIN node
      BY DEF TypeInv, NodeInv, ToSet
    <2>4. /\ {settings.in_sync, settings.no_sync}
               \subseteq [sec : Int, usec : 0 .. Second]
      BY DEF TypeInv, CriteriaInv, Normalised
    <2> QED
      BY <2>1, <2>2, <2>3, <2>4 DEF TypeOK, TypeInv, CounterInv, ControlInv
  <1> QED
    BY <1>2, RegistrationInvariant, TypeInvariant, WriterInvariant, PTL

-----------------------------------------------------------------------------
(* The sets, as the log tells of them.                                     *)

\* The number of the set that line p of s belongs to, and the lines of devices.
SetOf(s, p) == Cardinality({q \in 1 .. p : s[q].kind = "now"})
DevAt(s) == {p \in 1 .. Len(s) : s[p].kind = "dev"}

\* A line shows an image of its set; the lines up to p show the whole set.
ShowsImage(s, z, p) ==
  LET n == SetOf(s, p) IN
  /\ n \in 1 .. Len(z)
  /\ s[p].name \in DOMAIN z[n]
  /\ s[p].age.usec = z[n][s[p].name] % Second
WholeAt(s, z, p) ==
  \A d \in DOMAIN z[SetOf(s, p)] :
    \E q \in DevAt(s) : q <= p /\ SetOf(s, q) = SetOf(s, p) /\ s[q].name = d

\* The lines of s tell of the sets z in their order, of each device once, and
\* a set that is followed by something is told of whole.
SetsShown(s, z) ==
  /\ SetOf(s, Len(s)) <= Len(z)
  /\ \A p \in DevAt(s) : ShowsImage(s, z, p)
  /\ \A p, q \in DevAt(s) :
       SetOf(s, p) = SetOf(s, q) /\ s[p].name = s[q].name => p = q
  /\ \A p \in DevAt(s) : p < Len(s) /\ p + 1 \notin DevAt(s) => WholeAt(s, z, p)
AllShown(s, z) ==
  /\ SetOf(s, Len(s)) = Len(z)
  /\ Len(s) \in DevAt(s) => WholeAt(s, z, Len(s))

\* The ages of a set, by device number.
Ageing == UNION {[D -> Nat] : D \in SUBSET DevNumbers}

\* What is printed tells of all the sets, unless the program was killed.
SetsInv ==
  /\ sets \in Seq(Ageing)
  /\ SetsShown(Printed, sets)
  /\ status # "killed" => AllShown(Printed, sets)

\* Counting one line more.
LEMMA SetCount ==
  ASSUME NEW s, NEW p \in Nat
  PROVE  /\ SetOf(s, p) \in Nat /\ SetOf(s, 0) = 0
         /\ SetOf(s, p + 1) = IF s[p + 1].kind = "now" THEN SetOf(s, p) + 1
                              ELSE SetOf(s, p)
  <1> DEFINE Q(k) == {q \in 1 .. k : s[q].kind = "now"}
  <1>1. IsFiniteSet(Q(p)) /\ Cardinality(Q(p)) \in Nat
    <2>1. IsFiniteSet(1 .. p) /\ Q(p) \in SUBSET (1 .. p)
      BY FS_Interval
    <2> QED
      BY <2>1, FS_Subset, FS_CardinalityType
  <1>2. Q(0) = {}
    OBVIOUS
  <1>3. p + 1 \notin Q(p)
    OBVIOUS
  <1>4. Q(p + 1) = IF s[p + 1].kind = "now" THEN Q(p) \cup {p + 1} ELSE Q(p)
    <2>1. 1 .. p + 1 = (1 .. p) \cup {p + 1}
      OBVIOUS
    <2> QED
      BY <2>1
  <1> HIDE DEF Q
  <1>5. Cardinality(Q(p) \cup {p + 1}) = Cardinality(Q(p)) + 1
    BY <1>1, <1>3, FS_AddElement
  <1>6. Cardinality(Q(p + 1)) =
          IF s[p + 1].kind = "now" THEN Cardinality(Q(p)) + 1
          ELSE Cardinality(Q(p))
    BY <1>4, <1>5
  <1>7. Cardinality(Q(0)) = 0
    BY <1>2, FS_EmptySet
  <1> QED
    BY <1>1, <1>6, <1>7 DEF SetOf, Q

\* Later lines belong to later sets, or to the same one if none begins between.
LEMMA SetOrder ==
  ASSUME NEW s, NEW p \in Nat, NEW q \in Nat, p <= q
  PROVE  /\ SetOf(s, p) <= SetOf(s, q)
         /\ (\A i \in p + 1 .. q : s[i].kind # "now") => SetOf(s, q) = SetOf(s, p)
         /\ p < q /\ s[q].kind = "now" => SetOf(s, p) < SetOf(s, q)
  <1> DEFINE Q(k) == {i \in 1 .. k : s[i].kind = "now"}
  <1>1. /\ IsFiniteSet(1 .. q) /\ Q(q) \in SUBSET (1 .. q)
        /\ Q(p) \in SUBSET Q(q)
    <2>1. IsFiniteSet(1 .. q)
      BY FS_Interval
    <2>2. \A i \in 1 .. p : i \in 1 .. q
      OBVIOUS
    <2> QED
      BY <2>1, <2>2
  <1>2. (\A i \in p + 1 .. q : s[i].kind # "now") => Q(q) = Q(p)
    <2> SUFFICES ASSUME \A i \in p + 1 .. q : s[i].kind # "now"
                 PROVE  Q(q) = Q(p)
      OBVIOUS
    <2>1. \A i \in 1 .. q : i \in 1 .. p \/ i \in p + 1 .. q
      OBVIOUS
    <2> QED
      BY <1>1, <2>1
  <1>3. p < q /\ s[q].kind = "now" => Q(q) # Q(p)
    <2>1. p < q => q \in 1 .. q /\ q \notin 1 .. p
      OBVIOUS
    <2> QED
      BY <2>1
  <1> HIDE DEF Q
  <1>4. /\ IsFiniteSet(Q(q)) /\ Cardinality(Q(q)) \in Nat
        /\ IsFiniteSet(Q(p)) /\ Cardinality(Q(p)) \in Nat
    BY <1>1, FS_Subset, FS_CardinalityType
  <1>5. /\ Cardinality(Q(p)) <= Cardinality(Q(q))
        /\ Cardinality(Q(p)) = Cardinality(Q(q)) => Q(p) = Q(q)
    BY <1>1, <1>4, FS_Subset
  <1>6. SetOf(s, p) = Cardinality(Q(p)) /\ SetOf(s, q) = Cardinality(Q(q))
    BY DEF SetOf, Q
  <1>7. p < q /\ s[q].kind = "now" => Cardinality(Q(p)) # Cardinality(Q(q))
    BY <1>3, <1>5
  <1> QED
    BY <1>2, <1>4, <1>5, <1>6, <1>7

\* A longer log tells the same of the sets in its first lines.
LEMMA FirstLines ==
  ASSUME NEW s \in Seq(LogLine), NEW u \in Seq(LogLine), Len(s) <= Len(u),
         \A i \in 1 .. Len(s) : u[i] = s[i], NEW z
  PROVE  /\ \A p \in 0 .. Len(s) : SetOf(u, p) = SetOf(s, p)
         /\ DevAt(s) = {p \in DevAt(u) : p <= Len(s)}
         /\ \A p \in DevAt(s) : /\ ShowsImage(u, z, p) <=> ShowsImage(s, z, p)
                                /\ WholeAt(u, z, p) <=> WholeAt(s, z, p)
  <1>1. Len(s) \in Nat /\ Len(u) \in Nat
    BY LenProperties
  <1>2. \A p \in 0 .. Len(s) : SetOf(u, p) = SetOf(s, p)
    <2> TAKE p \in 0 .. Len(s)
    <2>1. \A q \in 1 .. p : u[q] = s[q]
      BY <1>1
    <2>2. {q \in 1 .. p : u[q].kind = "now"} = {q \in 1 .. p : s[q].kind = "now"}
      BY <2>1
    <2> QED
      BY <2>2 DEF SetOf
  <1>3. DevAt(s) = {p \in DevAt(u) : p <= Len(s)}
    BY <1>1 DEF DevAt
  <1>4. \A p \in DevAt(s) : p \in 0 .. Len(s) /\ u[p] = s[p]
    BY <1>1 DEF DevAt
  <1>5. ASSUME NEW p \in DevAt(s)
        PROVE  ShowsImage(u, z, p) <=> ShowsImage(s, z, p)
    <2>1. SetOf(u, p) = SetOf(s, p) /\ u[p] = s[p]
      BY <1>2, <1>4
    <2> QED
      BY <2>1 DEF ShowsImage
  <1>6. ASSUME NEW p \in DevAt(s)
        PROVE  WholeAt(u, z, p) <=> WholeAt(s, z, p)
    <2>1. SetOf(u, p) = SetOf(s, p)
      BY <1>2, <1>4
    <2>2. \A q : q \in DevAt(s) /\ q <= p <=> q \in DevAt(u) /\ q <= p
      <3>1. \A q \in DevAt(u) : q <= p => q <= Len(s)
        BY <1>1, <1>4 DEF DevAt
      <3> QED
        BY <1>3, <3>1
    <2>3. \A q \in DevAt(s) : SetOf(u, q) = SetOf(s, q) /\ u[q] = s[q]
      BY <1>2, <1>4
    <2> QED
      BY <2>1, <2>2, <2>3 DEF WholeAt
  <1> QED
    BY <1>2, <1>3, <1>5, <1>6

\* A log that is cut short shows the sets as far as it goes.
LEMMA CutLog ==
  ASSUME NEW s \in Seq(LogLine), NEW u \in Seq(LogLine), Len(s) <= Len(u),
         \A i \in 1 .. Len(s) : u[i] = s[i],
         NEW z \in Seq(Ageing), SetsShown(u, z)
  PROVE  SetsShown(s, z)
  <1>1. /\ Len(s) \in Nat /\ Len(u) \in Nat /\ Len(z) \in Nat
        /\ Len(s) \in 0 .. Len(s)
    BY LenProperties
  <1>2. /\ \A p \in 0 .. Len(s) : SetOf(u, p) = SetOf(s, p)
        /\ DevAt(s) = {p \in DevAt(u) : p <= Len(s)}
        /\ \A p \in DevAt(s) : /\ ShowsImage(u, z, p) <=> ShowsImage(s, z, p)
                               /\ WholeAt(u, z, p) <=> WholeAt(s, z, p)
    BY FirstLines
  <1>3. SetOf(s, Len(s)) <= Len(z)
    <2>1. SetOf(u, Len(s)) <= SetOf(u, Len(u))
      BY <1>1, SetOrder
    <2>2. /\ SetOf(u, Len(s)) \in Nat /\ SetOf(u, Len(u)) \in Nat
          /\ SetOf(u, Len(u)) <= Len(z)
      BY <1>1, SetCount DEF SetsShown
    <2>3. SetOf(s, Len(s)) = SetOf(u, Len(s))
      BY <1>1, <1>2
    <2> QED
      BY <1>1, <2>1, <2>2, <2>3
  <1>4. \A p \in DevAt(s) : p \in DevAt(u) /\ ShowsImage(s, z, p)
    BY <1>2 DEF SetsShown
  <1>5. ASSUME NEW p \in DevAt(s), NEW q \in DevAt(s),
               SetOf(s, p) = SetOf(s, q), s[p].name = s[q].name
        PROVE  p = q
    <2>1. /\ p \in DevAt(u) /\ q \in DevAt(u) /\ u[p] = s[p] /\ u[q] = s[q]
          /\ SetOf(u, p) = SetOf(s, p) /\ SetOf(u, q) = SetOf(s, q)
      BY <1>1, <1>2 DEF DevAt
    <2> QED
      BY <1>5, <2>1 DEF SetsShown
  <1>6. ASSUME NEW p \in DevAt(s), p < Len(s), p + 1 \notin DevAt(s)
        PROVE  WholeAt(s, z, p)
    <2>1. p \in DevAt(u) /\ p < Len(u) /\ p + 1 \notin DevAt(u)
      BY <1>1, <1>2, <1>6 DEF DevAt
    <2> QED
      BY <1>2, <2>1 DEF SetsShown
  <1> QED
    BY <1>3, <1>4, <1>5, <1>6 DEF SetsShown

\* Lines between which no set begins belong to the same one.
LEMMA SameSet ==
  ASSUME NEW s, NEW p \in Nat, NEW q \in Nat, p <= q,
         \A i \in p + 1 .. q : s[i].kind # "now"
  PROVE  SetOf(s, q) = SetOf(s, p)
  BY SetOrder

\* The lines on both sides of a seam.
Joined(u, s, m, t, n) ==
  /\ u \in Seq(LogLine) /\ Len(u) = m + n
  /\ \A i \in 1 .. m : u[i] = s[i]
  /\ \A j \in 1 .. n : u[m + j] = t[j]

\* A concatenation has the lines of its parts.
LEMMA Seam ==
  ASSUME NEW s \in Seq(LogLine), NEW t \in Seq(LogLine),
         NEW m \in Nat, NEW n \in Nat, Len(s) = m, Len(t) = n
  PROVE  Joined(s \o t, s, m, t, n)
  <1> DEFINE u == s \o t
  <1>1. /\ u \in Seq(LogLine) /\ Len(u) = m + n
        /\ \A i \in 1 .. m + n : u[i] = IF i <= m THEN s[i] ELSE t[i - m]
    BY ConcatProperties
  <1> HIDE DEF u
  <1>2. \A j \in 1 .. n : m + j \in 1 .. m + n /\ ~(m + j <= m) /\ (m + j) - m = j
    OBVIOUS
  <1>3. \A i \in 1 .. m : i \in 1 .. m + n /\ i <= m
    OBVIOUS
  <1> QED
    BY <1>1, <1>2, <1>3 DEF u, Joined

\* Lines that tell of no device, after a log that shows all the sets.
LEMMA PlainLines ==
  ASSUME NEW s \in Seq(LogLine), NEW t \in Seq(LogLine),
         \A j \in 1 .. Len(t) : t[j].kind \notin {"now", "dev"},
         NEW z \in Seq(Ageing), SetsShown(s, z), AllShown(s, z)
  PROVE  SetsShown(s \o t, z) /\ AllShown(s \o t, z)
  <1> DEFINE u == s \o t
             m == Len(s)
             n == Len(t)
  <1>1. /\ m \in Nat /\ n \in Nat /\ Len(z) \in Nat
    BY LenProperties
  <1>2. /\ u \in Seq(LogLine) /\ Len(u) = m + n /\ m <= Len(u)
        /\ \A i \in 1 .. m : u[i] = s[i]
        /\ \A j \in 1 .. n : u[m + j] = t[j]
    <2>1. Joined(u, s, m, t, n)
      BY <1>1, Seam
    <2> QED
      BY <1>1, <2>1 DEF Joined
  <1> HIDE DEF u
  <1>3. \A i \in m + 1 .. m + n : u[i].kind \notin {"now", "dev"}
    <2> TAKE i \in m + 1 .. m + n
    <2>1. PICK j \in 1 .. n : i = m + j
      <3>1. i - m \in 1 .. n /\ i = m + (i - m)
        BY <1>1
      <3> QED
        BY <3>1
    <2> QED
      BY <1>2, <2>1
  <1>4. /\ \A p \in 0 .. m : SetOf(u, p) = SetOf(s, p)
        /\ DevAt(s) = {p \in DevAt(u) : p <= m}
        /\ \A p \in DevAt(s) : /\ ShowsImage(u, z, p) <=> ShowsImage(s, z, p)
                               /\ WholeAt(u, z, p) <=> WholeAt(s, z, p)
    BY <1>1, <1>2, FirstLines
  <1>5. DevAt(u) = DevAt(s)
    <2>1. \A p \in DevAt(u) : p <= m
      BY <1>1, <1>2, <1>3 DEF DevAt
    <2> QED
      BY <1>4, <2>1
  <1>6. SetOf(u, m + n) = Len(z)
    <2>1. m + n \in Nat /\ m <= m + n
      BY <1>1
    <2>2. \A i \in m + 1 .. m + n : u[i].kind # "now"
      BY <1>3
    <2> HIDE DEF m, n
    <2>3. SetOf(u, m + n) = SetOf(u, m)
      BY <1>1, <2>1, <2>2, SameSet
    <2>4. m \in 0 .. m /\ SetOf(s, m) = Len(z)
      BY <1>1 DEF AllShown, m
    <2> QED
      BY <1>4, <2>3, <2>4
  <1>7. \A p \in DevAt(u) : p \in 0 .. m /\ p \in 1 .. m /\ ShowsImage(u, z, p)
    <2>1. \A p \in DevAt(s) : p \in 1 .. m /\ p \in 0 .. m
      BY <1>1 DEF DevAt
    <2>2. \A p \in DevAt(s) : ShowsImage(u, z, p)
      BY <1>4 DEF SetsShown
    <2> QED
      BY <1>5, <2>1, <2>2
  <1>8. ASSUME NEW p \in DevAt(u), NEW q \in DevAt(u),
               SetOf(u, p) = SetOf(u, q), u[p].name = u[q].name
        PROVE  p = q
    <2>1. /\ u[p] = s[p] /\ u[q] = s[q]
          /\ SetOf(u, p) = SetOf(s, p) /\ SetOf(u, q) = SetOf(s, q)
      BY <1>2, <1>4, <1>7
    <2> QED
      BY <1>5, <1>8, <2>1 DEF SetsShown
  <1>9. ASSUME NEW p \in DevAt(u), p + 1 \notin DevAt(u)
        PROVE  WholeAt(u, z, p)
    <2>1. CASE p < m
      BY <1>4, <1>5, <1>9, <2>1 DEF SetsShown
    <2>2. CASE p = m
      BY <1>4, <1>5, <2>2 DEF AllShown
    <2> QED
      BY <1>1, <1>7, <2>1, <2>2
  <1>10. \A p \in DevAt(u) : p = Len(u) => p + 1 \notin DevAt(u)
    BY <1>1, <1>2 DEF DevAt
  <1>11. SetsShown(u, z)
    BY <1>1, <1>2, <1>6, <1>7, <1>8, <1>9 DEF SetsShown
  <1>12. AllShown(u, z)
    BY <1>1, <1>2, <1>6, <1>9, <1>10 DEF AllShown
  <1> QED
    BY <1>11, <1>12 DEF u

\* The line that begins a set, and the lines of its devices, after a log.
SetJoined(u, s, m, lines, n) ==
  /\ u \in Seq(LogLine) /\ Len(u) = m + (1 + n)
  /\ \A i \in 1 .. m : u[i] = s[i]
  /\ u[m + 1] = Now
  /\ \A j \in 1 .. n : u[m + (1 + j)] = lines[j]

\* A log and the lines of a set, joined.
LEMMA SetSeam ==
  ASSUME NEW s \in Seq(LogLine), NEW lines \in Seq(LogLine),
         NEW m \in Nat, NEW n \in Nat, Len(s) = m, Len(lines) = n
  PROVE  SetJoined(s \o (<<Now>> \o lines), s, m, lines, n)
  <1> DEFINE o == <<Now>>
             t == o \o lines
             k == 1 + n
  <1>1. /\ o \in Seq(LogLine) /\ Len(o) = 1 /\ o[1] = Now
        /\ 1 \in Nat /\ 1 \in 1 .. 1
    BY LineKinds, OneLine
  <1> HIDE DEF o
  <1>2. /\ t \in Seq(LogLine) /\ Len(t) = 1 + n
        /\ \A i \in 1 .. 1 : t[i] = o[i]
        /\ \A j \in 1 .. n : t[1 + j] = lines[j]
    <2>1. Joined(t, o, 1, lines, n)
      BY <1>1, Seam
    <2> QED
      BY <2>1 DEF Joined
  <1> HIDE DEF t
  <1>3. k \in Nat /\ Len(t) = k
    BY <1>2
  <1>4. 1 \in 1 .. k /\ \A j \in 1 .. n : 1 + j \in 1 .. k
    OBVIOUS
  <1> HIDE DEF k
  <1>5. /\ s \o t \in Seq(LogLine) /\ Len(s \o t) = m + k
        /\ \A i \in 1 .. m : (s \o t)[i] = s[i]
        /\ \A j \in 1 .. k : (s \o t)[m + j] = t[j]
    <2>1. Joined(s \o t, s, m, t, k)
      BY <1>2, <1>3, Seam
    <2> QED
      BY <2>1 DEF Joined
  <1>6. t[1] = Now
    BY <1>1, <1>2
  <1>7. (s \o t)[m + 1] = Now
    BY <1>4, <1>5, <1>6
  <1>8. \A j \in 1 .. n : (s \o t)[m + (1 + j)] = lines[j]
    BY <1>2, <1>4, <1>5
  <1> QED
    BY <1>5, <1>7, <1>8 DEF t, o, k, SetJoined

\* A set begins after line m, and no other in the n lines that follow.
Begins(u, m, n) == /\ u[m + 1].kind = "now"
                   /\ \A j \in 1 .. n : u[m + (1 + j)].kind # "now"

\* Those lines belong to one more set than the lines before it.
LEMMA SetBegins ==
  ASSUME NEW u, NEW m \in Nat, NEW n \in Nat, Begins(u, m, n)
  PROVE  \A j \in 0 .. n : SetOf(u, m + (1 + j)) = SetOf(u, m) + 1
  <1> USE DEF Begins
  <1> TAKE j \in 0 .. n
  <1> DEFINE a == m + 1
             b == m + (1 + j)
  <1>1. SetOf(u, a) = SetOf(u, m) + 1
    BY SetCount
  <1>2. a \in Nat /\ b \in Nat /\ a <= b
    OBVIOUS
  <1>3. \A i \in a + 1 .. b : u[i].kind # "now"
    <2> TAKE i \in a + 1 .. b
    <2>1. i - a \in 1 .. n /\ i = m + (1 + (i - a))
      OBVIOUS
    <2> QED
      BY <2>1
  <1> HIDE DEF a, b
  <1>4. SetOf(u, b) = SetOf(u, a)
    BY <1>2, <1>3, SameSet
  <1> QED
    BY <1>1, <1>4 DEF b

\* The lines of one more set.
LEMMA OneMoreSet ==
  ASSUME NEW s \in Seq(LogLine), NEW z \in Seq(Ageing),
         SetsShown(s, z), AllShown(s, z),
         NEW set \in Ageing, NEW lines \in Seq(LogLine), Len(lines) > 0,
         \A j \in 1 .. Len(lines) :
           /\ lines[j].kind = "dev" /\ lines[j].name \in DOMAIN set
           /\ lines[j].age.usec = set[lines[j].name] % Second,
         \A i, j \in 1 .. Len(lines) : lines[i].name = lines[j].name => i = j,
         \A d \in DOMAIN set : \E j \in 1 .. Len(lines) : lines[j].name = d
  PROVE  LET u == s \o (<<Now>> \o lines) IN
         SetsShown(u, Append(z, set)) /\ AllShown(u, Append(z, set))
  <1> DEFINE u == s \o (<<Now>> \o lines)
             y == Append(z, set)
             m == Len(s)
             n == Len(lines)
             L == Len(z)
  <1>1. /\ m \in Nat /\ n \in Nat /\ L \in Nat /\ n > 0
    BY LenProperties
  <1>3. /\ u \in Seq(LogLine) /\ Len(u) = m + (1 + n)
        /\ \A i \in 1 .. m : u[i] = s[i]
        /\ u[m + 1] = Now
        /\ \A j \in 1 .. n : u[m + (1 + j)] = lines[j]
    <2>1. Len(s) = m /\ Len(lines) = n
      OBVIOUS
    <2> HIDE DEF m, n, u
    <2>2. SetJoined(u, s, m, lines, n)
      BY <1>1, <2>1, SetSeam DEF u
    <2> QED
      BY <2>2 DEF SetJoined
  <1>4. /\ y \in Seq(Ageing) /\ Len(y) = L + 1 /\ y[L + 1] = set
        /\ \A k \in 1 .. L : y[k] = z[k]
    BY AppendProperties
  <1> HIDE DEF u, y
  <1>5. m <= Len(u)
    BY <1>1, <1>3
  <1>6. /\ \A p \in 0 .. m : SetOf(u, p) = SetOf(s, p)
        /\ DevAt(s) = {p \in DevAt(u) : p <= m}
        /\ \A p \in DevAt(s) : /\ ShowsImage(u, z, p) <=> ShowsImage(s, z, p)
                               /\ WholeAt(u, z, p) <=> WholeAt(s, z, p)
    BY <1>3, <1>5, FirstLines
  <1>7. \A j \in 0 .. n : SetOf(u, m + (1 + j)) = L + 1
    <2>1. SetOf(u, m) = L
      BY <1>1, <1>6 DEF AllShown
    <2>2. u[m + 1].kind = "now"
      BY <1>3, LineKinds
    <2>3. \A j \in 1 .. n : u[m + (1 + j)].kind # "now"
      <3> TAKE j \in 1 .. n
      <3>1. u[m + (1 + j)] = lines[j]
        BY <1>3
      <3> QED
        BY <3>1
    <2>4. Begins(u, m, n)
      BY <2>2, <2>3 DEF Begins
    <2> HIDE DEF m, n
    <2>5. \A j \in 0 .. n : SetOf(u, m + (1 + j)) = SetOf(u, m) + 1
      BY <1>1, <2>4, SetBegins
    <2> QED
      BY <2>1, <2>5
  <1>8. \A p \in DevAt(s) : /\ p \in 1 .. m /\ p \in 0 .. m /\ SetOf(u, p) \in 1 .. L
                            /\ SetOf(u, p) # L + 1 /\ u[p] = s[p]
    <2> TAKE p \in DevAt(s)
    <2>1. p \in 1 .. m /\ p \in 0 .. m
      BY <1>1 DEF DevAt
    <2>2. SetOf(u, p) \in 1 .. L
      BY <1>6, <2>1 DEF SetsShown, ShowsImage
    <2> QED
      BY <1>1, <1>3, <2>1, <2>2
  <1>9. \A p \in DevAt(u) : p \in DevAt(s) \/ \E j \in 1 .. n : p = m + (1 + j)
    <2> TAKE p \in DevAt(u)
    <2>1. p \in 1 .. m + (1 + n) /\ u[p].kind = "dev"
      BY <1>3 DEF DevAt
    <2>2. p # m + 1
      BY <1>3, <2>1, LineKinds
    <2>3. p <= m \/ (p - (m + 1) \in 1 .. n /\ p = m + (1 + (p - (m + 1))))
      <3> HIDE DEF m, n
      <3> QED
        BY <1>1, <2>1, <2>2
    <2> QED
      BY <1>6, <2>3
  <1>10. \A j \in 1 .. n : m + (1 + j) \in DevAt(u)
    <2> TAKE j \in 1 .. n
    <2>1. m + (1 + j) \in 1 .. Len(u)
      BY <1>1, <1>3
    <2>2. u[m + (1 + j)].kind = "dev"
      <3>1. u[m + (1 + j)] = lines[j]
        BY <1>3
      <3> QED
        BY <3>1
    <2> QED
      BY <2>1, <2>2 DEF DevAt
  <1>11. ASSUME NEW p \in DevAt(u)
         PROVE  ShowsImage(u, y, p)
    <2>1. CASE p \in DevAt(s)
      <3>1. ShowsImage(u, z, p)
        BY <1>6, <2>1 DEF SetsShown
      <3>2. SetOf(u, p) \in 1 .. L + 1 /\ y[SetOf(u, p)] = z[SetOf(u, p)]
        BY <1>1, <1>4, <1>8, <2>1
      <3> QED
        BY <1>4, <3>1, <3>2 DEF ShowsImage
    <2>2. CASE p \notin DevAt(s)
      <3>1. PICK j \in 1 .. n : p = m + (1 + j)
        BY <1>9, <2>2
      <3>2. SetOf(u, p) = L + 1
        <4>1. j \in 0 .. n
          BY <1>1
        <4> QED
          BY <1>7, <3>1, <4>1
      <3>3. u[p] = lines[j] /\ y[L + 1] = set
        BY <1>3, <1>4, <3>1
      <3>4. L + 1 \in 1 .. Len(y)
        BY <1>1, <1>4
      <3> QED
        BY <3>2, <3>3, <3>4 DEF ShowsImage
    <2> QED
      BY <2>1, <2>2
  <1>12. ASSUME NEW p \in DevAt(u), NEW q \in DevAt(u),
                SetOf(u, p) = SetOf(u, q), u[p].name = u[q].name
         PROVE  p = q
    <2>1. CASE p \in DevAt(s) /\ q \in DevAt(s)
      <3>1. SetOf(s, p) = SetOf(s, q) /\ s[p].name = s[q].name
        BY <1>6, <1>8, <1>12, <2>1
      <3> QED
        BY <2>1, <3>1 DEF SetsShown
    <2>2. \A r \in DevAt(u) : r \in DevAt(s) <=> SetOf(u, r) # L + 1
      <3>1. \A j \in 0 .. n : SetOf(u, m + (1 + j)) = L + 1
        BY <1>7
      <3>2. \A j \in 1 .. n : j \in 0 .. n
        BY <1>1
      <3> QED
        BY <1>8, <1>9, <3>1, <3>2
    <2>3. CASE p \notin DevAt(s) /\ q \notin DevAt(s)
      <3>1. PICK i \in 1 .. n : p = m + (1 + i)
        BY <1>9, <2>3
      <3>2. PICK j \in 1 .. n : q = m + (1 + j)
        BY <1>9, <2>3
      <3>3. lines[i].name = lines[j].name
        BY <1>3, <1>12, <3>1, <3>2
      <3> QED
        BY <3>1, <3>2, <3>3
    <2> QED
      BY <1>12, <2>1, <2>2, <2>3
  <1>13. \A p \in DevAt(s) : WholeAt(s, z, p) => WholeAt(u, y, p)
    <2> TAKE p \in DevAt(s)
    <2>1. y[SetOf(u, p)] = z[SetOf(u, p)]
      BY <1>4, <1>8
    <2> QED
      BY <1>6, <2>1 DEF WholeAt
  <1>14. WholeAt(u, y, m + (1 + n))
    <2>1. SetOf(u, m + (1 + n)) = L + 1
      BY <1>1, <1>7
    <2>2. ASSUME NEW d \in DOMAIN set
          PROVE  \E q \in DevAt(u) : /\ q <= m + (1 + n)
                                     /\ SetOf(u, q) = L + 1 /\ u[q].name = d
      <3>1. PICK j \in 1 .. n : lines[j].name = d
        OBVIOUS
      <3>2. m + (1 + j) <= m + (1 + n) /\ j \in 0 .. n
        BY <1>1
      <3> QED
        BY <1>3, <1>7, <1>10, <3>1, <3>2
    <2> QED
      BY <1>4, <2>1, <2>2 DEF WholeAt
  <1>15. ASSUME NEW p \in DevAt(u), p < Len(u), p + 1 \notin DevAt(u)
         PROVE  WholeAt(u, y, p)
    <2>1. CASE p \in DevAt(s) /\ p < m
      <3>1. p + 1 \notin DevAt(s)
        BY <1>6, <1>15
      <3> QED
        BY <1>13, <2>1, <3>1 DEF SetsShown
    <2>2. CASE p \in DevAt(s) /\ ~(p < m)
      <3>1. p = m
        BY <1>1, <1>8, <2>2
      <3> QED
        BY <1>13, <2>2, <3>1 DEF AllShown
    <2>3. CASE p \notin DevAt(s)
      <3>1. PICK j \in 1 .. n : p = m + (1 + j)
        BY <1>9, <2>3
      <3>2. j + 1 \in 1 .. n /\ p + 1 = m + (1 + (j + 1))
        BY <1>1, <1>3, <1>15, <3>1
      <3>3. p + 1 \in DevAt(u)
        BY <1>10, <3>2
      <3> QED
        BY <1>15, <3>3
    <2> QED
      BY <2>1, <2>2, <2>3
  <1>16. SetOf(u, Len(u)) = L + 1
    BY <1>1, <1>3, <1>7
  <1>17. L + 1 <= Len(y)
    BY <1>1, <1>4
  <1>18. SetsShown(u, y)
    BY <1>11, <1>12, <1>15, <1>16, <1>17 DEF SetsShown
  <1>19. AllShown(u, y)
    BY <1>3, <1>4, <1>14, <1>16 DEF AllShown
  <1> QED
    BY <1>18, <1>19 DEF u, y


\* What has reached the log tells of the sets as far as it goes.
LEMMA LogShowsSets ==
  ASSUME WriterTypes, SetsInv
  PROVE  SetsShown(log, sets)
  <1>1. /\ log \in Seq(LogLine) /\ buffer \in Seq(LogLine)
        /\ Printed \in Seq(LogLine) /\ sets \in Seq(Ageing)
        /\ Len(log) \in Nat /\ Len(buffer) \in Nat
    BY ConcatProperties, LenProperties DEF WriterTypes, Printed, SetsInv
  <1>2. /\ Len(Printed) = Len(log) + Len(buffer)
        /\ \A i \in 1 .. Len(log) : Printed[i] = log[i]
    <2>1. Joined(Printed, log, Len(log), buffer, Len(buffer))
      BY <1>1, Seam DEF Printed
    <2> QED
      BY <2>1 DEF Joined
  <1>3. Len(log) <= Len(Printed)
    BY <1>1, <1>2
  <1> QED
    BY <1>1, <1>2, <1>3, CutLog DEF SetsInv

\* Most steps print lines that tell of no set.
PlainLine == {Startup, Id, Times, Captured, Message}
PrintsPlain == /\ pc # "exited" /\ sets' = sets
               /\ \E lines \in Seq(PlainLine) : Prints(lines)

\* Such lines are lines of the log, of other kinds than those of a set.
LEMMA PlainKinds ==
  ASSUME NEW lines \in Seq(PlainLine)
  PROVE  /\ lines \in Seq(LogLine)
         /\ \A j \in 1 .. Len(lines) : lines[j].kind \notin {"now", "dev"}
  <1>1. \A l \in PlainLine : l \in LogLine /\ l.kind \notin {"now", "dev"}
    BY LineKinds DEF PlainLine
  <1> HIDE DEF PlainLine
  <1>2. \A j \in 1 .. Len(lines) : lines[j] \in PlainLine
    BY ElementOfSeq
  <1> QED
    BY <1>1, <1>2, LenProperties, IsASeq

\* What they are put together from.
LEMMA PlainSequences ==
  /\ <<>> \in Seq(PlainLine)
  /\ \A l \in PlainLine : <<l>> \in Seq(PlainLine)
  /\ \A k, l \in PlainLine : <<k, l>> \in Seq(PlainLine)
  /\ \A c : If(c, Message) \in Seq(PlainLine)
  /\ \A s, t \in Seq(PlainLine) : s \o t \in Seq(PlainLine)
  <1>1. Message \in PlainLine
    BY DEF PlainLine
  <1> HIDE DEF PlainLine
  <1>2. <<>> \in Seq(PlainLine) /\ \A l \in PlainLine : <<l>> \in Seq(PlainLine)
    BY EmptySeq
  <1>3. \A k, l \in PlainLine : <<k, l>> \in Seq(PlainLine)
    OBVIOUS
  <1> QED
    BY <1>1, <1>2, <1>3, ConcatProperties DEF If

\* All steps but the callback of a set and the interruption are such.
LEMMA PlainSteps ==
  ASSUME WriterTypes,
         \/ Main \/ Registration \/ BufferFull
         \/ Capture \/ CallbackReturns \/ LibraryLogs \/ CaptureEnds \/ End
  PROVE  PrintsPlain
  <1>1. {Startup, Id, Times, Captured, Message} \subseteq PlainLine
    BY DEF PlainLine
  <1>2. ASSUME NEW lines \in Seq(PlainLine),
               Write(lines) \/ WriteOut(lines), sets' = sets, pc # "exited"
        PROVE  PrintsPlain
    <2>1. Prints(lines)
      BY <1>2, Printing, PlainKinds
    <2> QED
      BY <1>2, <2>1 DEF PrintsPlain
  <1>3. ASSUME Prints(<<>>), sets' = sets, pc # "exited"
        PROVE  PrintsPlain
    BY <1>3, PlainSequences DEF PrintsPlain
  <1>4. CASE Main
    <2>1. pc # "exited" /\ sets' = sets
      BY <1>4 DEF Main, SetNumber, SetCriterion, ToggleVerbose, Usage,
         NotSupported, Begin, NextOption
    <2>2. CASE SetNumber \/ SetCriterion \/ ToggleVerbose
      <3>1. Prints(<<>>)
        BY <2>2, Printing, NoLines DEF SetNumber, SetCriterion, ToggleVerbose
      <3> QED
        BY <1>3, <2>1, <3>1
    <2>3. CASE Usage \/ NotSupported
      <3>1. WriteOut(<<Message>>)
        BY <2>3 DEF Usage, NotSupported, Exit
      <3> QED
        BY <1>1, <1>2, <2>1, <3>1, PlainSequences
    <2>4. CASE Begin
      <3> DEFINE lines == If(operands, Message) \o If(settings.verbose, Message)
                          \o <<Startup>>
      <3>1. WriteOut(lines)
        BY <2>4 DEF Begin
      <3>2. lines \in Seq(PlainLine)
        BY <1>1, PlainSequences
      <3> HIDE DEF lines
      <3> QED
        BY <1>2, <2>1, <3>1, <3>2
    <2> QED
      BY <1>4, <2>2, <2>3, <2>4 DEF Main
  <1>5. CASE Registration
    <2>1. pc # "exited" /\ sets' = sets
      BY <1>5 DEF Registration, RegisterMaster, NoMaster, RegisterNext,
         SkipMaster, RegistrationFails, RegistrationEnds, Master, Registers,
         RegisterDevice
    <2>2. CASE RegisterMaster \/ RegisterNext
      <3> DEFINE s == <<Id>>
                 late == <<Message>> \o s
      <3>1. \/ Write(s)
            \/ log' = log \o Append(buffer, Message) /\ buffer' = s
        BY <2>2 DEF RegisterMaster, RegisterNext, RegisterDevice
      <3>2. s \in Seq(PlainLine)
        BY <1>1, PlainSequences
      <3> HIDE DEF s
      <3>3. late \in Seq(PlainLine)
        BY <1>1, <3>2, PlainSequences
      <3>4. CASE log' = log \o Append(buffer, Message) /\ buffer' = s
        <4>1. Prints(late)
          BY <3>2, <3>4, Printing, PlainKinds
        <4> QED
          BY <2>1, <3>3, <4>1 DEF PrintsPlain
      <3> QED
        BY <1>2, <2>1, <3>1, <3>2, <3>4
    <2>3. CASE NoMaster \/ SkipMaster \/ RegistrationEnds
      <3>1. Prints(<<>>)
        BY <2>3, Printing, NoLines DEF NoMaster, SkipMaster, RegistrationEnds
      <3> QED
        BY <1>3, <2>1, <3>1
    <2>4. CASE RegistrationFails
      <3>1. PICK logged \in BOOLEAN : WriteOut(If(logged, Message) \o <<Id>>)
        BY <2>4 DEF RegistrationFails, Exit
      <3> DEFINE lines == If(logged, Message) \o <<Id>>
      <3>2. lines \in Seq(PlainLine)
        BY <1>1, PlainSequences
      <3>3. WriteOut(lines)
        BY <3>1
      <3> HIDE DEF lines
      <3> QED
        BY <1>2, <2>1, <3>2, <3>3
    <2> QED
      BY <1>5, <2>2, <2>3, <2>4 DEF Registration
  <1>6. CASE BufferFull
    <2>1. pc # "exited" /\ sets' = sets
      BY <1>6 DEF BufferFull
    <2> QED
      BY <1>3, <1>6, <2>1, BufferPrints
  <1>7. CASE Capture \/ CallbackReturns \/ LibraryLogs \/ End
    <2>1. pc # "exited" /\ sets' = sets
      BY <1>7 DEF Capture, CallbackReturns, LibraryLogs, End
    <2>2. \/ Write(If(settings.verbose, Message))
          \/ WriteOut(<<>>)
          \/ WriteOut(<<Message>>)
          \/ \E logged \in BOOLEAN : WriteOut(If(logged, Message))
      BY <1>7 DEF Capture, CallbackReturns, LibraryLogs, End, Exit
    <2> QED
      BY <1>1, <1>2, <2>1, <2>2, PlainSequences
  <1>8. CASE CaptureEnds
    <2>1. pc # "exited" /\ sets' = sets
      BY <1>8 DEF CaptureEnds
    <2> DEFINE v == If(settings.verbose, Message)
               good == v \o <<Times, Captured>>
               bad == v \o <<Times, Message>>
    <2>2. Write(good) \/ Write(bad)
      BY <1>8 DEF CaptureEnds
    <2>3. good \in Seq(PlainLine) /\ bad \in Seq(PlainLine)
      BY <1>1, PlainSequences
    <2> HIDE DEF good, bad
    <2> QED
      BY <1>2, <2>1, <2>2, <2>3
  <1> QED
    BY <1>4, <1>5, <1>6, <1>7, <1>8

\* The history of the sets grows at its end.
SetsGrow == /\ Len(sets) <= Len(sets')
            /\ \A k \in 1 .. Len(sets) : sets'[k] = sets[k]

\* Every step of mg-tweak keeps SetsInv, and what is in the history.
LEMMA SetsNext ==
  ASSUME WriterTypes, RegistrationInv, SettingsInv, NodeInv, SetsInv,
         [Next]_vars
  PROVE  SetsInv' /\ SetsGrow
  <1>1. /\ log \in Seq(LogLine) /\ buffer \in Seq(LogLine)
        /\ Printed \in Seq(LogLine) /\ sets \in Seq(Ageing)
        /\ Len(sets) \in Nat
    BY ConcatProperties, LenProperties DEF WriterTypes, Printed, SetsInv
  <1>2. CASE UNCHANGED vars
    <2>1. UNCHANGED <<log, buffer, sets, status>>
      BY <1>2 DEF vars
    <2> QED
      BY <1>1, <2>1 DEF SetsInv, SetsGrow, Printed
  <1>3. pc # "exited" =>
          SetsShown(Printed, sets) /\ AllShown(Printed, sets)
    BY DEF WriterTypes, SetsInv
  <1>4. CASE PrintsPlain
    <2>1. PICK lines \in Seq(PlainLine) : Prints(lines)
      BY <1>4 DEF PrintsPlain
    <2>2. sets' = sets /\ Printed' = Printed \o lines
      BY <1>4, <2>1 DEF PrintsPlain, Prints
    <2>3. /\ lines \in Seq(LogLine)
          /\ \A j \in 1 .. Len(lines) : lines[j].kind \notin {"now", "dev"}
      BY <2>1, PlainKinds
    <2>4. SetsShown(Printed \o lines, sets) /\ AllShown(Printed \o lines, sets)
      BY <1>1, <1>3, <1>4, <2>3, PlainLines DEF PrintsPlain
    <2> QED
      BY <1>1, <2>2, <2>4 DEF SetsInv, SetsGrow
  <1>5. CASE ProcessImages
    <2>1. pc \in {"repeat", "capture", "callback"} /\ pc # "exited"
      BY <1>5 DEF ProcessImages
    <2>2. numbers # <<>>
      BY <2>1, SomeRegistered DEF SomeDevice
    <2>3. \E now \in Moments, order \in SetToSeqs(Names) :
            \E tv \in [Names -> Older(now)] :
              /\ Write(<<Now>> \o DevLines(order, now, tv))
              /\ sets' = Append(sets, [d \in Names |->
                                         Micro(now) - Micro(tv[d])])
      BY <1>5, Zenon DEF ProcessImages, DevLines, Older
    <2>4. PICK now \in Moments, order \in SetToSeqs(Names) :
            \E tv \in [Names -> Older(now)] :
              /\ Write(<<Now>> \o DevLines(order, now, tv))
              /\ sets' = Append(sets, [d \in Names |->
                                         Micro(now) - Micro(tv[d])])
      BY <2>3
    <2>5. PICK tv \in [Names -> Older(now)] :
              /\ Write(<<Now>> \o DevLines(order, now, tv))
              /\ sets' = Append(sets, [d \in Names |->
                                         Micro(now) - Micro(tv[d])])
      BY <2>4
    <2> DEFINE set == [d \in Names |-> Micro(now) - Micro(tv[d])]
               lines == DevLines(order, now, tv)
               o == <<Now>>
    <2>6. /\ lines \in Seq(LogLine) /\ Len(lines) > 0
          /\ \A j \in 1 .. Len(lines) :
               /\ lines[j].kind = "dev" /\ lines[j].name \in Names
               /\ lines[j].age.usec =
                    (Micro(now) - Micro(tv[lines[j].name])) % Second
          /\ \A i, j \in 1 .. Len(lines) : lines[i].name = lines[j].name => i = j
          /\ \A d \in Names : \E j \in 1 .. Len(lines) : lines[j].name = d
      BY <2>2, SetLines
    <2>7. set \in Ageing /\ DOMAIN set = Names
      <3>1. Names \subseteq DevNumbers
        BY <2>2, SomeNames
      <3>2. \A d \in Names : Micro(now) - Micro(tv[d]) \in Nat
        <4> TAKE d \in Names
        <4>1. tv[d] \in Stamps /\ Micro(tv[d]) <= Micro(now)
          BY DEF Older
        <4> QED
          BY <4>1, ImageAge
      <3>3. set \in [Names -> Nat]
        BY <3>2
      <3> QED
        BY <3>1, <3>3 DEF Ageing
    <2>8. \A j \in 1 .. Len(lines) :
            /\ lines[j].kind = "dev" /\ lines[j].name \in DOMAIN set
            /\ lines[j].age.usec = set[lines[j].name] % Second
      <3> HIDE DEF lines
      <3> QED
        BY <2>6, <2>7
    <2>9. Write(o \o lines) /\ sets' = Append(sets, set)
      BY <2>5
    <2>10. o \in Seq(LogLine)
      BY LineKinds, OneLine
    <2> HIDE DEF lines, set
    <2>11. /\ SetsShown(Printed \o (o \o lines), Append(sets, set))
           /\ AllShown(Printed \o (o \o lines), Append(sets, set))
      BY <1>1, <1>3, <2>1, <2>6, <2>7, <2>8, OneMoreSet
    <2> HIDE DEF o
    <2>12. Printed' = Printed \o (o \o lines)
      <3>1. o \o lines \in Seq(LogLine)
        BY <2>6, <2>10, ConcatProperties
      <3>2. Prints(o \o lines)
        BY <2>9, <3>1, Printing
      <3> QED
        BY <3>2 DEF Prints
    <2>13. /\ sets' \in Seq(Ageing) /\ Len(sets) <= Len(sets')
           /\ \A k \in 1 .. Len(sets) : sets'[k] = sets[k]
      BY <1>1, <2>7, <2>9, AppendProperties
    <2> QED
      BY <2>9, <2>11, <2>12, <2>13 DEF SetsInv, SetsGrow
  <1>6. CASE Interrupt
    <2>1. /\ log' = log /\ buffer' = <<>> /\ sets' = sets
          /\ status' = "killed"
      BY <1>6 DEF Interrupt
    <2>2. Printed' = log
      BY <1>1, <2>1, ConcatEmptySeq DEF Printed
    <2>3. SetsShown(log, sets)
      BY LogShowsSets
    <2> QED
      BY <1>1, <2>1, <2>2, <2>3 DEF SetsInv, SetsGrow
  <1> QED
    BY <1>2, <1>4, <1>5, <1>6, PlainSteps DEF Next, Captures

\* What is printed tells of the sets, in every reachable state.
LEMMA SetsInvariant == Spec => []SetsInv
  <1>1. Init => SetsInv
    <2> SUFFICES ASSUME Init PROVE SetsInv
      OBVIOUS
    <2>1. log = <<>> /\ buffer = <<>> /\ sets = <<>>
      BY DEF Init
    <2>2. <<>> \in Seq(LogLine) /\ <<>> \in Seq(Ageing) /\ Len(<<>>) = 0
      BY EmptySeq
    <2>3. Printed = <<>>
      BY <2>1, <2>2, ConcatEmptySeq DEF Printed
    <2>4. SetOf(<<>>, 0) = 0
      BY SetCount
    <2>5. DevAt(<<>>) = {}
      BY <2>2 DEF DevAt
    <2> QED
      BY <2>1, <2>2, <2>3, <2>4, <2>5 DEF SetsInv, SetsShown, AllShown
  <1>2. ASSUME SetsInv, WriterTypes, TypeInv, SettingsInv /\ RegistrationInv,
               [Next]_vars
        PROVE  SetsInv'
    BY <1>2, SetsNext DEF TypeInv
  <1> QED
    BY <1>1, <1>2, RegistrationInvariant, TypeInvariant, WriterInvariant, PTL
    DEF Spec

=============================================================================
