-------------------------- MODULE TweakCheckProofs --------------------------
(***************************************************************************)
(* Theorems about TweakCheck: what the exit status of sync-check tells of   *)
(* the log, for every command line, machine, interruption and length of the *)
(* log.                                                                     *)
(***************************************************************************)
EXTENDS TweakCheck, MgTweakProofs

-----------------------------------------------------------------------------
(* The log, as sync-check reads it.                                        *)

\* Where the parser may be after a line of a kind.
Places ==
  {<<"none", "closed">>, <<"none", "run">>, <<"startup", "start_block">>,
   <<"id", "ids">>, <<"now", "now_block">>, <<"dev", "devs">>,
   <<"dev", "sync_blocks">>, <<"times", "end_block">>, <<"captured", "run">>}

\* The line that was read last, and the one that is next.
ReadKind == IF pos = 0 THEN "none" ELSE log[pos].kind
NextLine == pos < Len(log)

\* Nothing that was read is for people, and the end of a capture comes after a
\* set.  A set is complete because of the line that follows, or because none
\* does.  The program has ended for a reason that lasts.
ParserInv ==
  /\ pos \in 0 .. Len(log)
  /\ <<ReadKind, at>> \in Places
  /\ \A k \in 1 .. pos :
       /\ log[k].kind # "message"
       /\ log[k].kind = "times" => k > 1 /\ log[k - 1].kind = "dev"
  /\ at = "sync_blocks" => \/ NextLine /\ Check!Kind \notin {"dev", "id"}
                           \/ pos = Len(log) /\ status # "running"
  /\ exit = "success" => pos = Len(log) /\ status # "running" /\ at = "run"
  /\ exit = "failure" =>
       \/ NextLine /\ at # "closed" /\ ~Check!Acceptable
       \/ /\ pos = Len(log) /\ status # "running"
          /\ at \notin {"closed", "run", "devs"}

-----------------------------------------------------------------------------
(* sync-check reads.                                                       *)

\* The log grows under the parser, until the program that writes it has ended.
LEMMA ParserWaits ==
  ASSUME WriterTypes, ParserInv, WriterKept, UNCHANGED check
  PROVE  ParserInv'
  <1>1. /\ Len(log) \in Nat /\ Len(log') \in Nat
    BY LenProperties DEF WriterKept, WriterTypes
  <1>2. pos \in 0 .. Len(log) /\ pos' = pos /\ at' = at /\ exit' = exit
    BY DEF ParserInv, check
  <1>3. /\ Len(log) <= Len(log')
        /\ \A k \in 1 .. Len(log) : log'[k] = log[k]
        /\ status # "running" => log' = log /\ status' = status
    BY DEF WriterKept, LogGrows
  <1>4. pos \in 0 .. Len(log')
    BY <1>1, <1>2, <1>3
  <1>5. ReadKind' = ReadKind
    <2>1. pos # 0 => log'[pos] = log[pos]
      BY <1>1, <1>2, <1>3
    <2> QED
      BY <1>2, <2>1 DEF ReadKind
  <1>6. ASSUME NEW k \in 1 .. pos'
        PROVE  /\ log'[k].kind # "message"
               /\ log'[k].kind = "times" => k > 1 /\ log'[k - 1].kind = "dev"
    <2>1. k \in 1 .. pos /\ log'[k] = log[k] /\ (k > 1 => log'[k - 1] = log[k - 1])
      BY <1>1, <1>2, <1>3
    <2> QED
      BY <2>1 DEF ParserInv
  <1>7. NextLine => NextLine' /\ log'[pos + 1] = log[pos + 1]
    BY <1>1, <1>2, <1>3 DEF NextLine
  <1>8. NextLine => /\ Check!Kind' = Check!Kind
                    /\ Check!Acceptable' <=> Check!Acceptable
    BY <1>2, <1>7 DEF Check!Kind, Check!Acceptable
  <1>9. pos = Len(log) /\ status # "running" =>
          pos' = Len(log') /\ status' # "running"
    BY <1>2, <1>3
  <1> QED
    BY <1>2, <1>4, <1>5, <1>6, <1>7, <1>8, <1>9 DEF ParserInv

\* One step of the parser.
LEMMA ParserSteps ==
  ASSUME WriterTypes, ParserInv, Check!Next, UNCHANGED vars
  PROVE  ParserInv'
  <1>1. Len(log) \in Nat /\ log' = log /\ status' = status
    BY LenProperties DEF WriterTypes, vars
  <1>2. /\ pos \in 0 .. Len(log) /\ <<ReadKind, at>> \in Places
        /\ \A k \in 1 .. pos :
             /\ log[k].kind # "message"
             /\ log[k].kind = "times" => k > 1 /\ log[k - 1].kind = "dev"
    BY DEF ParserInv
  <1>3. exit = "running"
    BY DEF Check!Next, Check!OpenStdin, Check!Line, Check!DevBlock,
       Check!SyncBlock, Check!EndOfFile, Check!SyntaxError, Check!More,
       Check!AtEnd
  <1>4. ASSUME pos' = pos + 1, Check!More, UNCHANGED exit,
               <<Check!Kind, at'>> \in Places, at' # "sync_blocks",
               Check!Kind # "message",
               Check!Kind = "times" => pos > 0 /\ log[pos].kind = "dev"
        PROVE  ParserInv'
    <2>1. pos < Len(log) /\ pos' \in 0 .. Len(log) /\ pos' # 0
      BY <1>1, <1>2, <1>4 DEF Check!More
    <2>2. ReadKind' = Check!Kind
      BY <1>1, <1>4, <2>1 DEF ReadKind, Check!Kind
    <2>3. ASSUME NEW k \in 1 .. pos'
          PROVE  /\ log[k].kind # "message"
                 /\ log[k].kind = "times" => k > 1 /\ log[k - 1].kind = "dev"
      <3>1. CASE k \in 1 .. pos
        BY <1>2, <3>1
      <3>2. CASE k = pos + 1
        <4>1. k - 1 = pos /\ (pos > 0 => k > 1)
          BY <1>2, <3>2
        <4> QED
          BY <1>4, <3>2, <4>1 DEF Check!Kind
      <3> QED
        BY <1>2, <1>4, <2>3, <3>1, <3>2
    <2> QED
      BY <1>1, <1>3, <1>4, <2>1, <2>2, <2>3 DEF ParserInv
  <1>5. ASSUME UNCHANGED pos, <<ReadKind, at'>> \in Places,
               at' = "sync_blocks" =>
                 \/ NextLine /\ Check!Kind \notin {"dev", "id"}
                 \/ pos = Len(log) /\ status # "running",
               exit' = "success" =>
                 pos = Len(log) /\ status # "running" /\ at' = "run",
               exit' = "failure" =>
                 \/ NextLine /\ at # "closed" /\ ~Check!Acceptable /\ at' = at
                 \/ /\ pos = Len(log) /\ status # "running"
                    /\ at' \notin {"closed", "run", "devs"}
        PROVE  ParserInv'
    <2>1. /\ NextLine' <=> NextLine
          /\ ReadKind' = ReadKind /\ Check!Kind' = Check!Kind
          /\ at' = at => (Check!Acceptable' <=> Check!Acceptable)
      BY <1>1, <1>5 DEF NextLine, ReadKind, Check!Kind, Check!Acceptable
    <2> QED
      BY <1>1, <1>2, <1>5, <2>1 DEF ParserInv
  <1>6. CASE Check!OpenStdin
    <2>1. /\ at = "closed" /\ at' \in {"closed", "run"} /\ pos' = pos
          /\ exit' \in {"running", "no input"}
      BY <1>3, <1>6 DEF Check!OpenStdin
    <2>2. ReadKind = "none"
      BY <1>2, <2>1 DEF Places
    <2> QED
      BY <1>5, <2>1, <2>2 DEF Places
  <1>7. CASE Check!Line
    <2>1. /\ Check!More /\ <<at, Check!Kind, at'>> \in Check!Moves
          /\ pos' = pos + 1 /\ exit' = exit
      BY <1>7 DEF Check!Line
    <2>2. /\ <<Check!Kind, at'>> \in Places /\ at' # "sync_blocks"
          /\ Check!Kind # "message"
          /\ Check!Kind = "times" => at = "sync_blocks"
      BY <2>1 DEF Check!Moves, Places
    <2>3. at = "sync_blocks" => pos > 0 /\ log[pos].kind = "dev"
      BY <1>2 DEF Places, ReadKind
    <2> QED
      BY <1>4, <2>1, <2>2, <2>3
  <1>8. CASE Check!DevBlock
    <2>1. /\ Check!More /\ Check!Kind = "dev" /\ at' = "devs"
          /\ pos' = pos + 1 /\ exit' = exit
      BY <1>8 DEF Check!DevBlock
    <2> QED
      BY <1>4, <2>1 DEF Places
  <1>9. CASE Check!SyncBlock
    <2>1. /\ at = "devs" /\ at' = "sync_blocks" /\ pos' = pos /\ exit' = exit
          /\ Check!AtEnd \/ (Check!More /\ Check!Kind \notin {"dev", "id"})
      BY <1>9 DEF Check!SyncBlock
    <2>2. ReadKind = "dev"
      BY <1>2, <2>1 DEF Places
    <2>3. \/ NextLine /\ Check!Kind \notin {"dev", "id"}
          \/ pos = Len(log) /\ status # "running"
      BY <2>1 DEF Check!AtEnd, Check!More, NextLine
    <2> QED
      BY <1>3, <1>5, <2>1, <2>2, <2>3 DEF Places
  <1>10. CASE Check!EndOfFile
    <2>1. /\ at = "run" /\ at' = at /\ pos' = pos /\ exit' = "success"
          /\ pos = Len(log) /\ status # "running"
      BY <1>10 DEF Check!EndOfFile, Check!AtEnd
    <2> QED
      BY <1>2, <1>5, <2>1
  <1>11. CASE Check!SyntaxError
    <2>1. /\ at' = at /\ pos' = pos /\ exit' = "failure"
          /\ \/ NextLine /\ at # "closed" /\ ~Check!Acceptable
             \/ /\ pos = Len(log) /\ status # "running"
                /\ at \notin {"closed", "run", "devs"}
      BY <1>11 DEF Check!SyntaxError, Check!AtEnd, Check!More, NextLine
    <2>2. at = "sync_blocks" =>
            \/ NextLine /\ Check!Kind \notin {"dev", "id"}
            \/ pos = Len(log) /\ status # "running"
      BY DEF ParserInv
    <2> QED
      BY <1>2, <1>5, <2>1, <2>2
  <1> QED
    BY <1>6, <1>7, <1>8, <1>9, <1>10, <1>11 DEF Check!Next

-----------------------------------------------------------------------------
(* The two together.                                                       *)

\* The pipeline runs mg-tweak as it is.
LEMMA PipelineRunsTweak == Pipeline => Spec
  <1>1. PipelineInit => Init
    BY DEF PipelineInit
  <1>2. [PipelineNext]_<<vars, check>> => [Next]_vars
    BY DEF PipelineNext
  <1> QED
    BY <1>1, <1>2, PTL DEF Pipeline, Spec

\* What is known of mg-tweak alone.
TweakInv == SettingsInv /\ RegistrationInv /\ TypeInv

\* It holds in every state of the pipeline.
LEMMA TweakInvariant == Pipeline => []TweakInv
  BY PipelineRunsTweak, RegistrationInvariant, TypeInvariant, PTL DEF TweakInv

PipelineInv == WriterTypes /\ WriterInv /\ ParserInv

\* PipelineInv holds in every reachable state.
LEMMA PipelineInvariant == Pipeline => []PipelineInv
  <1>1. PipelineInit => PipelineInv
    <2> SUFFICES ASSUME PipelineInit PROVE PipelineInv
      OBVIOUS
    <2>1. /\ log = <<>> /\ buffer = <<>> /\ pc = "options" /\ status = "running"
          /\ pos = 0 /\ at = "closed" /\ exit = "running"
      BY DEF PipelineInit, Init, Check!Init
    <2>2. /\ <<>> \in Seq(LogLine) /\ Chain("none", <<>>)
          /\ LastKind("none", <<>>) = "none" /\ Len(<<>>) = 0
      BY NoLines
    <2>3. Printed = <<>>
      BY <2>1, <2>2, ConcatEmptySeq DEF Printed
    <2>4. WriterTypes /\ WriterInv
      BY <2>1, <2>2, <2>3 DEF WriterTypes, WriterInv, Ends
    <2>5. ParserInv
      BY <2>1, <2>2 DEF ParserInv, ReadKind, Places
    <2> QED
      BY <2>4, <2>5 DEF PipelineInv
  <1>2. ASSUME PipelineInv, [PipelineNext]_<<vars, check>>,
               TweakInv, TweakInv'
        PROVE  PipelineInv'
    <2> USE DEF TweakInv, TypeInv
    <2>1. CASE [Next]_vars /\ UNCHANGED check
      <3>1. WriterKept
        BY <1>2, <2>1, WriterNext DEF PipelineInv
      <3>2. ParserInv'
        BY <1>2, <2>1, <3>1, ParserWaits DEF PipelineInv
      <3> QED
        BY <3>1, <3>2 DEF PipelineInv, WriterKept
    <2>2. CASE Check!Next /\ UNCHANGED vars
      <3>1. WriterKept
        BY <1>2, <2>2, WriterNext DEF PipelineInv
      <3>2. ParserInv'
        BY <1>2, <2>2, ParserSteps DEF PipelineInv
      <3> QED
        BY <3>1, <3>2 DEF PipelineInv, WriterKept
    <2> QED
      BY <1>2, <2>1, <2>2 DEF PipelineNext
  <1> QED
    BY <1>1, <1>2, TweakInvariant, PTL DEF Pipeline

\* Nothing that was read spoils the log.
LEMMA NothingSpoiled == ParserInv => \A k \in 1 .. pos : ~Spoils(k)
  BY LineKinds DEF ParserInv, Spoils

\* A line that is an error where it stands spoils the log.
LEMMA ErrorSpoils ==
  ASSUME PipelineInv, NextLine, at # "closed", ~Check!Acceptable
  PROVE  Spoils(pos + 1) /\ at # "devs"
  <1>1. /\ log \in Seq(LogLine) /\ buffer \in Seq(LogLine) /\ Len(log) \in Nat
        /\ pos \in 0 .. Len(log) /\ <<ReadKind, at>> \in Places
    BY LenProperties DEF PipelineInv, WriterTypes, ParserInv
  <1>2. /\ pos + 1 \in 1 .. Len(log) /\ Check!Kind = log[pos + 1].kind
        /\ (pos + 1) - 1 = pos
    BY <1>1 DEF NextLine, Check!Kind
  <1>3. log[pos + 1] \in LogLine
    BY <1>1, <1>2, ElementOfSeq
  <1>4. Fits(ReadKind, Check!Kind)
    <2>1. Chain("none", log)
      BY <1>1, Concatenation DEF PipelineInv, WriterInv, Printed
    <2>2. Before("none", log, pos + 1) = ReadKind
      BY <1>1, <1>2 DEF Before, ReadKind
    <2> QED
      BY <1>2, <2>1, <2>2 DEF Chain
  <1>5. ReadKind # "message"
    BY <1>1 DEF Places
  <1>6. at = "sync_blocks" => Check!Kind \notin {"dev", "id"}
    <2>1. pos # Len(log)
      BY <1>1 DEF NextLine
    <2> QED
      BY <2>1 DEF PipelineInv, ParserInv
  <1>7. /\ \A m \in Check!Moves : <<m[1], m[2]>> # <<at, Check!Kind>>
        /\ ~(at \in {"now_block", "devs"} /\ Check!Kind = "dev")
        /\ ~(at = "devs" /\ Check!Kind # "id")
    BY DEF Check!Acceptable
  <1>8. CASE Check!Kind = "message"
    <2>1. log[pos + 1] = Message
      BY <1>2, <1>3, <1>8, LineKinds
    <2> QED
      BY <1>7, <1>8, <2>1 DEF Spoils
  <1>9. CASE Check!Kind # "message"
    <2>1. <<ReadKind, Check!Kind>> \in Follows
      BY <1>4, <1>5, <1>9 DEF Fits
    <2>2. Check!Kind = "times" /\ ReadKind # "dev" /\ at # "devs"
      BY <1>1, <1>6, <1>7, <2>1 DEF Places, Follows, Check!Moves
    <2>3. log[pos + 1] = Times
      BY <1>2, <1>3, <2>2, LineKinds
    <2>4. log[pos].kind = ReadKind
      BY <2>1, <2>2 DEF Follows, ReadKind
    <2> QED
      BY <1>2, <2>2, <2>3, <2>4 DEF Spoils
  <1> QED
    BY <1>8, <1>9

\* sync-check succeeds for the logs that are whole, however long they are and
\* however they come about, and fails for the others once they are finished.
THEOREM WholeLogsAccepted == Pipeline => []AcceptsWhole
  <1>1. PipelineInv => AcceptsWhole
    <2> SUFFICES ASSUME PipelineInv PROVE AcceptsWhole
      OBVIOUS
    <2>1. /\ log \in Seq(LogLine) /\ buffer \in Seq(LogLine) /\ Len(log) \in Nat
          /\ DOMAIN log = 1 .. Len(log)
          /\ log = <<>> <=> Len(log) = 0
      BY LenProperties, EmptySeq DEF PipelineInv, WriterTypes
    <2>2. /\ pos \in 0 .. Len(log) /\ <<ReadKind, at>> \in Places
          /\ \A k \in 1 .. pos :
               /\ log[k].kind # "message"
               /\ log[k].kind = "times" => k > 1 /\ log[k - 1].kind = "dev"
      BY DEF PipelineInv, ParserInv
    <2>3. \A k \in 1 .. Len(log) : log[k] \in LogLine
      BY <2>1, ElementOfSeq
    <2>4. Last(log) = log[Len(log)]
      BY DEF Last
    <2>5. ASSUME exit = "success" PROVE Whole
      <3>1. pos = Len(log) /\ at = "run"
        BY <2>5 DEF PipelineInv, ParserInv
      <3>2. CASE pos = 0
        BY <2>1, <3>1, <3>2 DEF Whole
      <3>3. CASE pos # 0
        <4>1. log[Len(log)] = Captured
          <5>1. ReadKind \in {"none", "captured"}
            BY <2>2, <3>1 DEF Places
          <5>2. ReadKind = log[Len(log)].kind /\ Len(log) \in 1 .. Len(log)
            BY <2>1, <3>1, <3>3 DEF ReadKind
          <5>3. log[Len(log)].kind # "none"
            BY <2>3, <5>2, LineKinds
          <5> QED
            BY <2>3, <5>1, <5>2, <5>3, LineKinds
        <4>2. \A k \in DOMAIN log : ~Spoils(k)
          BY <2>1, <3>1, NothingSpoiled DEF PipelineInv
        <4> QED
          BY <2>4, <4>1, <4>2 DEF Whole
      <3> QED
        BY <3>2, <3>3
    <2>6. ASSUME exit = "failure", status # "running", Whole PROVE FALSE
      <3>1. \/ NextLine /\ at # "closed" /\ ~Check!Acceptable
            \/ /\ pos = Len(log) /\ status # "running"
               /\ at \notin {"closed", "run", "devs"}
        BY <2>6 DEF PipelineInv, ParserInv
      <3>2. log # <<>>
        <4> SUFFICES ASSUME log = <<>> PROVE FALSE
          OBVIOUS
        <4>1. pos = 0 /\ Len(log) = 0 /\ ~NextLine
          BY <2>1, <2>2 DEF NextLine
        <4> QED
          BY <2>2, <3>1, <4>1 DEF Places, ReadKind
      <3>3. log[Len(log)] = Captured /\ \A k \in DOMAIN log : ~Spoils(k)
        BY <2>4, <2>6, <3>2 DEF Whole
      <3>4. CASE pos = Len(log) /\ at \notin {"closed", "run", "devs"}
        <4>1. ReadKind = "captured"
          BY <2>1, <3>2, <3>3, <3>4, LineKinds DEF ReadKind
        <4> QED
          BY <2>2, <3>4, <4>1 DEF Places
      <3>5. CASE NextLine /\ at # "closed" /\ ~Check!Acceptable
        <4>1. pos + 1 \in DOMAIN log
          BY <2>1, <2>2, <3>5 DEF NextLine
        <4> QED
          BY <3>3, <3>5, <4>1, ErrorSpoils
      <3> QED
        BY <3>1, <3>4, <3>5
    <2> QED
      BY <2>5, <2>6 DEF AcceptsWhole
  <1> QED
    BY <1>1, PipelineInvariant, PTL

-----------------------------------------------------------------------------
(* The rows.                                                               *)

\* The device objects, and the rows that are made of them.
DeviceObjects == [id : DevNumbers, diff : Ages]
AllRows == {Check!Row(l) : l \in Seq(DeviceObjects)}

\* Device objects in the order of their names.
Ordered(l) ==
  \A i, j \in 1 .. Len(l) : i < j => Check!Place(l[i].id) < Check!Place(l[j].id)

\* The order of the names is that of numbers, which tell the devices apart.
LEMMA Placed ==
  \A a, b \in DevNumbers : /\ Check!Place(a) \in Int
                           /\ Check!Place(a) = Check!Place(b) => a = b
  <1>1. \A a, b \in Int :
          a >= 0 /\ b >= 0 =>
            /\ Check!Place(a) \in Int
            /\ Check!Place(a) = Check!Place(b) => a = b
    BY DEF Check!Place
  <1>2. \A a \in DevNumbers : a \in Int /\ a >= 0
    BY DEF DevNumbers
  <1> QED
    BY <1>1, <1>2

\* The element d goes to its place, and those behind it move up by one.
Inserted(r, S, l, n, k, d) ==
  /\ r \in Seq(S) /\ Len(r) = n + 1
  /\ \A j \in 1 .. n + 1 :
       r[j] = IF j < k THEN l[j] ELSE IF j = k THEN d ELSE l[j - 1]

\* InsertAt does that.
LEMMA Inserting ==
  ASSUME NEW S, NEW l \in Seq(S), NEW d \in S, NEW n \in Nat, Len(l) = n,
         NEW k \in 1 .. n + 1
  PROVE  Inserted(InsertAt(l, k, d), S, l, n, k, d)
  <1> DEFINE f == SubSeq(l, 1, k - 1)
             o == <<d>>
             g == SubSeq(l, k, n)
             fo == f \o o
  <1>1. \A i \in 1 .. n : l[i] \in S
    BY ElementOfSeq
  <1>2. /\ f \in Seq(S) /\ Len(f) = k - 1
        /\ \A i \in 1 .. k - 1 : f[i] = l[i]
    <2>1. /\ f \in Seq(S) /\ Len(f) = IF 1 <= k - 1 THEN ((k - 1) - 1) + 1 ELSE 0
          /\ \A i \in 1 .. ((k - 1) - 1) + 1 : f[i] = l[(1 + i) - 1]
      <3>1. \A i \in 1 .. k - 1 : l[i] \in S
        BY <1>1
      <3> QED
        BY <3>1, SubSeqProperties
    <2> HIDE DEF f
    <2>2. ((k - 1) - 1) + 1 = k - 1 /\ \A i \in 1 .. k - 1 : (1 + i) - 1 = i
      OBVIOUS
    <2> QED
      BY <2>1, <2>2
  <1>3. /\ g \in Seq(S) /\ Len(g) = (n + 1) - k
        /\ \A i \in 1 .. (n + 1) - k : g[i] = l[(k + i) - 1]
    <2>1. /\ g \in Seq(S) /\ Len(g) = IF k <= n THEN (n - k) + 1 ELSE 0
          /\ \A i \in 1 .. (n - k) + 1 : g[i] = l[(k + i) - 1]
      <3>1. \A i \in k .. n : l[i] \in S
        BY <1>1
      <3> QED
        BY <3>1, SubSeqProperties
    <2> HIDE DEF g
    <2>2. (n - k) + 1 = (n + 1) - k
      OBVIOUS
    <2> QED
      BY <2>1, <2>2
  <1>4. o \in Seq(S) /\ Len(o) = 1 /\ o[1] = d
    OBVIOUS
  <1> HIDE DEF f, o, g
  <1>5. /\ fo \in Seq(S) /\ Len(fo) = k
        /\ \A i \in 1 .. k : fo[i] = IF i < k THEN l[i] ELSE d
    <2>1. /\ fo \in Seq(S) /\ Len(fo) = Len(f) + Len(o)
          /\ \A i \in 1 .. Len(f) + Len(o) :
               fo[i] = IF i <= Len(f) THEN f[i] ELSE o[i - Len(f)]
      BY <1>2, <1>4, ConcatProperties
    <2>2. Len(f) + Len(o) = k
      BY <1>2, <1>4
    <2> HIDE DEF fo
    <2>3. \A i \in 1 .. k : fo[i] = IF i <= k - 1 THEN f[i] ELSE o[i - (k - 1)]
      BY <1>2, <2>1, <2>2
    <2>4. \A i \in 1 .. k : /\ i <= k - 1 => i \in 1 .. k - 1 /\ i < k
                            /\ ~(i <= k - 1) => i - (k - 1) = 1 /\ ~(i < k)
      OBVIOUS
    <2> QED
      BY <1>2, <1>4, <2>1, <2>2, <2>3, <2>4
  <1> HIDE DEF fo
  <1> DEFINE r == fo \o g
  <1>6. /\ r \in Seq(S) /\ Len(r) = n + 1
        /\ \A i \in 1 .. n + 1 : r[i] = IF i <= k THEN fo[i] ELSE g[i - k]
    <2>1. /\ r \in Seq(S) /\ Len(r) = Len(fo) + Len(g)
          /\ \A i \in 1 .. Len(fo) + Len(g) :
               r[i] = IF i <= Len(fo) THEN fo[i] ELSE g[i - Len(fo)]
      BY <1>3, <1>5, ConcatProperties
    <2>2. Len(fo) + Len(g) = n + 1
      BY <1>3, <1>5
    <2> HIDE DEF r
    <2> QED
      BY <1>5, <2>1, <2>2
  <1>7. r = InsertAt(l, k, d)
    BY DEF r, fo, f, o, g, InsertAt
  <1> HIDE DEF r
  <1>8. ASSUME NEW j \in 1 .. n + 1
        PROVE  r[j] = IF j < k THEN l[j] ELSE IF j = k THEN d ELSE l[j - 1]
    <2>1. CASE j <= k
      <3>1. j \in 1 .. k /\ (~(j < k) => j = k)
        BY <2>1
      <3> QED
        BY <1>5, <1>6, <2>1, <3>1
    <2>2. CASE ~(j <= k)
      <3>1. /\ j - k \in 1 .. (n + 1) - k /\ (k + (j - k)) - 1 = j - 1
            /\ ~(j < k) /\ j # k
        BY <2>2
      <3> QED
        BY <1>3, <1>6, <2>2, <3>1
    <2> QED
      BY <2>1, <2>2
  <1> QED
    BY <1>6, <1>7, <1>8 DEF Inserted

\* The place that is chosen for a device whose name is new.
IsPlace(l, d, k) ==
  /\ k \in 1 .. Len(l) + 1
  /\ \A j \in 1 .. k - 1 : Check!dev_compare(l[j], d) < 0
  /\ k <= Len(l) => Check!dev_compare(l[k], d) >= 0

\* There is such a place, and InsertSorted uses it.
LEMMA SomePlace ==
  ASSUME NEW l \in Seq(DeviceObjects), NEW d \in DeviceObjects
  PROVE  \E k : /\ IsPlace(l, d, k)
                /\ Check!InsertSorted(l, d) = InsertAt(l, k, d)
  <1> DEFINE n == Len(l)
             T == {k \in 1 .. n + 1 : k <= n => Check!dev_compare(l[k], d) >= 0}
  <1>1. n \in Nat
    BY LenProperties
  <1>2. T \in SUBSET Nat /\ T # {}
    <2>1. n + 1 \in T
      BY <1>1
    <2> QED
      BY <1>1, <2>1
  <1>3. PICK k \in T : \A j \in T : k <= j
    <2> HIDE DEF T
    <2> QED
      BY <1>2, LeastNumber
  <1>4. \A j \in 1 .. n : Check!dev_compare(l[j], d) \in Int
    <2>1. \A j \in 1 .. n : l[j] \in DeviceObjects
      BY ElementOfSeq
    <2>2. \A j \in 1 .. n : l[j].id \in DevNumbers /\ d.id \in DevNumbers
      BY <2>1 DEF DeviceObjects
    <2> QED
      BY <2>2, Placed DEF Check!dev_compare
  <1>5. \A j \in 1 .. k - 1 : Check!dev_compare(l[j], d) < 0
    <2> TAKE j \in 1 .. k - 1
    <2>1. j \in 1 .. n /\ j <= n /\ j \in 1 .. n + 1 /\ ~(k <= j)
      BY <1>1, <1>3
    <2>2. ~(Check!dev_compare(l[j], d) >= 0)
      BY <1>3, <2>1
    <2> QED
      BY <1>4, <2>1, <2>2
  <1>6. IsPlace(l, d, k)
    BY <1>3, <1>5 DEF IsPlace
  <1> DEFINE c == CHOOSE i \in 1 .. Len(l) + 1 :
                    /\ \A j \in 1 .. i - 1 : Check!dev_compare(l[j], d) < 0
                    /\ i <= Len(l) => Check!dev_compare(l[i], d) >= 0
  <1>7. IsPlace(l, d, c)
    BY <1>6 DEF IsPlace
  <1>8. Check!InsertSorted(l, d) = InsertAt(l, c, d)
    BY DEF Check!InsertSorted, Check!InsertAt, InsertAt
  <1> QED
    BY <1>7, <1>8

\* A device whose name is new goes where the order is kept.
LEMMA Sorted ==
  ASSUME NEW l \in Seq(DeviceObjects), NEW d \in DeviceObjects, Ordered(l),
         \A j \in 1 .. Len(l) : l[j].id # d.id
  PROVE  LET r == Check!InsertSorted(l, d) IN
         /\ r \in Seq(DeviceObjects) /\ r # <<>> /\ Ordered(r)
         /\ \A j \in 1 .. Len(r) : r[j] = d \/ \E i \in 1 .. Len(l) : r[j] = l[i]
         /\ \E j \in 1 .. Len(r) : r[j] = d
         /\ \A i \in 1 .. Len(l) : \E j \in 1 .. Len(r) : r[j] = l[i]
  <1> DEFINE r == Check!InsertSorted(l, d)
             n == Len(l)
             P(j) == Check!Place(l[j].id)
             D == Check!Place(d.id)
             R(j) == Check!Place(r[j].id)
  <1>1. n \in Nat
    BY LenProperties
  <1>2. PICK k : IsPlace(l, d, k) /\ r = InsertAt(l, k, d)
    BY SomePlace
  <1>3. k \in 1 .. n + 1
    BY <1>2 DEF IsPlace
  <1> HIDE DEF r
  <1>4. /\ r \in Seq(DeviceObjects) /\ Len(r) = n + 1
        /\ \A j \in 1 .. n + 1 :
             r[j] = IF j < k THEN l[j] ELSE IF j = k THEN d ELSE l[j - 1]
    <2>1. Len(l) = n
      OBVIOUS
    <2> HIDE DEF n
    <2>2. Inserted(r, DeviceObjects, l, n, k, d)
      BY <1>1, <1>2, <1>3, <2>1, Inserting
    <2> QED
      BY <2>2 DEF Inserted
  <1>5. /\ D \in Int
        /\ \A j \in 1 .. n : P(j) \in Int /\ P(j) # D
    <2>1. \A j \in 1 .. n : l[j] \in DeviceObjects
      BY ElementOfSeq
    <2>2. \A j \in 1 .. n : l[j].id \in DevNumbers /\ d.id \in DevNumbers
      BY <2>1 DEF DeviceObjects
    <2>3. d.id \in DevNumbers
      BY DEF DeviceObjects
    <2> QED
      BY <2>2, <2>3, Placed
  <1>6. \A i, j \in 1 .. n : i < j => P(i) < P(j)
    BY DEF Ordered
  <1>7. /\ \A j \in 1 .. k - 1 : P(j) - D < 0
        /\ k <= n => P(k) - D >= 0
    BY <1>2 DEF IsPlace, Check!dev_compare
  <1>8. \A j \in 1 .. n + 1 :
          R(j) = IF j < k THEN P(j) ELSE IF j = k THEN D ELSE P(j - 1)
    BY <1>4
  <1> HIDE DEF n, P, D, R
  <1>9. /\ \A j \in 1 .. n : j < k => P(j) < D
        /\ \A j \in 1 .. n : j >= k => D < P(j)
    <2>1. \A j \in 1 .. n : j < k => P(j) < D
      BY <1>1, <1>3, <1>5, <1>7
    <2>2. ASSUME NEW j \in 1 .. n, j >= k PROVE D < P(j)
      <3>1. k \in 1 .. n /\ D < P(k)
        BY <1>1, <1>3, <1>5, <1>7, <2>2
      <3>2. k = j \/ P(k) < P(j)
        BY <1>1, <1>6, <2>2, <3>1
      <3> QED
        BY <1>5, <3>1, <3>2
    <2> QED
      BY <2>1, <2>2
  <1>10. ASSUME NEW i \in 1 .. n + 1, NEW j \in 1 .. n + 1, i < j
         PROVE  R(i) < R(j)
    <2>1. CASE j < k
      <3>1. i \in 1 .. n /\ j \in 1 .. n /\ i < k
        BY <1>1, <1>3, <1>10, <2>1
      <3> QED
        BY <1>6, <1>8, <1>10, <2>1, <3>1
    <2>2. CASE j = k
      <3>1. i \in 1 .. n /\ i < k /\ ~(j < k)
        BY <1>1, <1>3, <1>10, <2>2
      <3> QED
        BY <1>8, <1>9, <2>2, <3>1
    <2>3. CASE j > k
      <3>1. /\ j - 1 \in 1 .. n /\ j - 1 >= k /\ ~(j < k) /\ j # k
            /\ R(j) = P(j - 1)
        BY <1>1, <1>3, <1>8, <2>3
      <3>2. CASE i < k
        <4>1. i \in 1 .. n /\ i < j - 1 /\ R(i) = P(i)
          BY <1>1, <1>3, <1>8, <2>3, <3>2
        <4> QED
          BY <1>6, <3>1, <4>1
      <3>3. CASE i = k
        <4>1. R(i) = D
          BY <1>8, <3>3
        <4> QED
          BY <1>9, <3>1, <4>1
      <3>4. CASE i > k
        <4>1. i - 1 \in 1 .. n /\ i - 1 < j - 1 /\ R(i) = P(i - 1)
          BY <1>1, <1>3, <1>8, <1>10, <3>4
        <4> QED
          BY <1>6, <3>1, <4>1
      <3> QED
        BY <1>3, <3>2, <3>3, <3>4
    <2> QED
      BY <1>3, <2>1, <2>2, <2>3
  <1>11. Ordered(r)
    BY <1>4, <1>10 DEF Ordered, R
  <1>12. ASSUME NEW j \in 1 .. Len(r)
         PROVE  r[j] = d \/ \E i \in 1 .. n : r[j] = l[i]
    <2>1. j < k => j \in 1 .. n
      BY <1>1, <1>3, <1>4
    <2>2. j > k => j - 1 \in 1 .. n
      BY <1>1, <1>3, <1>4
    <2>3. j < k \/ j = k \/ (j > k /\ ~(j < k) /\ j # k)
      BY <1>1, <1>3, <1>4
    <2> QED
      BY <1>4, <2>1, <2>2, <2>3
  <1>13. k \in 1 .. Len(r) /\ r[k] = d
    BY <1>3, <1>4
  <1>14. ASSUME NEW i \in 1 .. n
         PROVE  \E j \in 1 .. Len(r) : r[j] = l[i]
    <2>1. CASE i < k
      <3>1. i \in 1 .. n + 1
        BY <1>1
      <3> QED
        BY <1>4, <2>1, <3>1
    <2>2. CASE ~(i < k)
      <3>1. i + 1 \in 1 .. n + 1 /\ ~(i + 1 < k) /\ i + 1 # k /\ (i + 1) - 1 = i
        BY <1>1, <1>3, <2>2
      <3> QED
        BY <1>4, <3>1
    <2> QED
      BY <2>1, <2>2
  <1>15. r # <<>>
    BY <1>1, <1>4, EmptySeq
  <1> QED
    BY <1>4, <1>11, <1>12, <1>13, <1>14, <1>15 DEF r, n

\* The lines, up to line p, of the devices of the set that it belongs to; a list
\* that consists of their objects.
Current(s, p) == {q \in DevAt(s) : q <= p /\ SetOf(s, q) = SetOf(s, p)}
Lists(l, s, p) ==
  /\ Ordered(l)
  /\ \A j \in 1 .. Len(l) :
       \E q \in Current(s, p) : l[j] = Check!dev_create(s[q])
  /\ \A q \in Current(s, p) :
       \E j \in 1 .. Len(l) : l[j] = Check!dev_create(s[q])

\* The object of a line is that of a device.
LEMMA Created ==
  ASSUME NEW line \in LogLine, line.kind = "dev"
  PROVE  Check!dev_create(line) \in DeviceObjects
  <1>1. PICK name \in DevNumbers : \E age \in Ages : line = DevLine(name, age)
    <2>1. line \notin {Startup, Id, Now, Times, Captured, Message}
      BY LineKinds
    <2> QED
      BY <2>1 DEF LogLine
  <1>2. PICK age \in Ages : line = DevLine(name, age)
    BY <1>1
  <1>3. line.name = name /\ line.age = age
    BY <1>2 DEF DevLine
  <1> QED
    BY <1>3 DEF Check!dev_create, DeviceObjects

\* The list begins empty, where a set begins.
LEMMA ListBegins ==
  ASSUME NEW s \in Seq(LogLine), NEW p \in Nat, p + 1 \in 1 .. Len(s),
         s[p + 1].kind = "now"
  PROVE  Lists(<<>>, s, p + 1) /\ SetOf(s, p + 1) = SetOf(s, p) + 1
  <1>1. SetOf(s, p + 1) = SetOf(s, p) + 1 /\ SetOf(s, p) \in Nat
    BY SetCount
  <1>2. Current(s, p + 1) = {}
    <2> SUFFICES ASSUME NEW q \in Current(s, p + 1) PROVE FALSE
      OBVIOUS
    <2>1. /\ q \in DevAt(s) /\ q <= p + 1 /\ SetOf(s, q) = SetOf(s, p + 1)
      BY DEF Current
    <2>2. q \in 1 .. Len(s) /\ s[q].kind = "dev"
      BY <2>1 DEF DevAt
    <2>3. q \in Nat /\ q <= p
      BY <2>1, <2>2
    <2>4. SetOf(s, q) <= SetOf(s, p) /\ SetOf(s, q) \in Nat
      BY <2>3, SetOrder, SetCount
    <2> QED
      BY <1>1, <2>1, <2>4
  <1> QED
    BY <1>1, <1>2 DEF Lists, Ordered

\* The next device of a set goes to its place in the list.
LEMMA ListGrows ==
  ASSUME NEW s \in Seq(LogLine), NEW z, SetsShown(s, z),
         NEW p \in Nat, p + 1 \in 1 .. Len(s), s[p + 1].kind = "dev",
         NEW l \in Seq(DeviceObjects), Lists(l, s, p)
  PROVE  LET r == Check!InsertSorted(l, Check!dev_create(s[p + 1])) IN
         /\ r \in Seq(DeviceObjects) /\ r # <<>> /\ Lists(r, s, p + 1)
         /\ SetOf(s, p + 1) = SetOf(s, p)
  <1> DEFINE d == Check!dev_create(s[p + 1])
             r == Check!InsertSorted(l, d)
             P == p + 1
  <1>1. SetOf(s, P) = SetOf(s, p)
    BY SetCount
  <1>2. P \in DevAt(s) /\ P \in Nat
    BY DEF DevAt
  <1>3. Current(s, P) = Current(s, p) \cup {P}
    <2>1. \A q \in DevAt(s) : q \in Nat
      BY DEF DevAt
    <2>2. \A q \in Nat : q <= P <=> q <= p \/ q = P
      OBVIOUS
    <2> QED
      BY <1>1, <1>2, <2>1, <2>2 DEF Current
  <1>4. d \in DeviceObjects
    <2>1. s[p + 1] \in LogLine
      BY ElementOfSeq
    <2> QED
      BY <2>1, Created
  <1>5. \A j \in 1 .. Len(l) : l[j].id # d.id
    <2> TAKE j \in 1 .. Len(l)
    <2>1. PICK q \in Current(s, p) : l[j] = Check!dev_create(s[q])
      BY DEF Lists
    <2>2. q \in DevAt(s) /\ q <= p /\ SetOf(s, q) = SetOf(s, P) /\ q # P
      BY <1>1 DEF Current, DevAt
    <2>3. s[q].name # s[P].name
      BY <1>2, <2>2 DEF SetsShown
    <2> QED
      BY <2>1, <2>3 DEF Check!dev_create
  <1>6. /\ r \in Seq(DeviceObjects) /\ r # <<>> /\ Ordered(r)
        /\ \A j \in 1 .. Len(r) : r[j] = d \/ \E i \in 1 .. Len(l) : r[j] = l[i]
        /\ \E j \in 1 .. Len(r) : r[j] = d
        /\ \A i \in 1 .. Len(l) : \E j \in 1 .. Len(r) : r[j] = l[i]
    <2> HIDE DEF d
    <2> QED
      BY <1>4, <1>5, Sorted DEF Lists
  <1> HIDE DEF r
  <1>7. \A j \in 1 .. Len(r) :
          \E q \in Current(s, P) : r[j] = Check!dev_create(s[q])
    <2> TAKE j \in 1 .. Len(r)
    <2>1. CASE r[j] = d
      BY <1>3, <2>1
    <2>2. CASE \E i \in 1 .. Len(l) : r[j] = l[i]
      BY <1>3, <2>2 DEF Lists
    <2> QED
      BY <1>6, <2>1, <2>2
  <1>8. \A q \in Current(s, P) :
          \E j \in 1 .. Len(r) : r[j] = Check!dev_create(s[q])
    <2> TAKE q \in Current(s, P)
    <2>1. CASE q = P
      BY <1>6, <2>1
    <2>2. CASE q \in Current(s, p)
      <3>1. PICK i \in 1 .. Len(l) : l[i] = Check!dev_create(s[q])
        BY <2>2 DEF Lists
      <3> QED
        BY <1>6, <3>1
    <2> QED
      BY <1>3, <2>1, <2>2
  <1> QED
    BY <1>1, <1>6, <1>7, <1>8 DEF Lists, r

\* A row shows a set, and maybe the whole of it.
RowShown(row, set, whole) ==
  \E name \in [DOMAIN row -> DOMAIN set] :
    Shows(row, set, name) /\ (whole => ToSet(name) = DOMAIN set)

\* The row of the list shows its set.
LEMMA RowMade ==
  ASSUME NEW s \in Seq(LogLine), NEW z, SetsShown(s, z), NEW p \in DevAt(s),
         NEW l \in Seq(DeviceObjects), Lists(l, s, p),
         NEW whole, whole => WholeAt(s, z, p)
  PROVE  RowShown(Check!Row(l), z[SetOf(s, p)], whole)
  <1> DEFINE n == Len(l)
             set == z[SetOf(s, p)]
             name == [j \in 1 .. n |-> l[j].id]
             row == Check!Row(l)
  <1>1. n \in Nat /\ DOMAIN l = 1 .. n
    BY LenProperties
  <1>2. ASSUME NEW q \in Current(s, p)
        PROVE  /\ s[q].name \in DOMAIN set
               /\ s[q].age.usec = set[s[q].name] % Second
    BY <1>2 DEF Current, SetsShown, ShowsImage
  <1>3. \A j \in 1 .. n : /\ l[j].id \in DOMAIN set
                          /\ l[j].diff.usec = set[l[j].id] % Second
    <2> TAKE j \in 1 .. n
    <2>1. PICK q \in Current(s, p) : l[j] = Check!dev_create(s[q])
      BY DEF Lists
    <2>2. l[j].id = s[q].name /\ l[j].diff = s[q].age
      BY <2>1 DEF Check!dev_create
    <2> QED
      BY <1>2, <2>2
  <1>4. /\ DOMAIN row = 1 .. n
        /\ \A j \in 1 .. n :
             row[j] = [digit |-> name[j] % 10,
                       offset |-> Check!Rint(set[name[j]] % Second)]
    BY <1>1, <1>3 DEF Check!Row, Check!Mark
  <1>5. name \in [DOMAIN row -> DOMAIN set]
    BY <1>3, <1>4
  <1>6. \A i, j \in 1 .. n : i < j => Check!Place(name[i]) < Check!Place(name[j])
    BY DEF Lists, Ordered
  <1>7. WholeAt(s, z, p) => ToSet(name) = DOMAIN set
    <2> SUFFICES ASSUME WholeAt(s, z, p), NEW d \in DOMAIN set
                 PROVE  \E j \in 1 .. n : name[j] = d
      BY <1>3 DEF ToSet
    <2>1. PICK q \in DevAt(s) :
            q <= p /\ SetOf(s, q) = SetOf(s, p) /\ s[q].name = d
      BY DEF WholeAt
    <2>2. PICK j \in 1 .. n : l[j] = Check!dev_create(s[q])
      BY <2>1 DEF Lists, Current
    <2> QED
      BY <2>1, <2>2 DEF Check!dev_create
  <1> HIDE DEF name, row, set
  <1>8. Shows(row, set, name)
    BY <1>4, <1>6 DEF Shows
  <1> QED
    BY <1>5, <1>7, <1>8 DEF RowShown, row, set

\* How sync-check may end.
Exits == {"running", "no input", "success", "failure"}

\* Is a set being read?  Has the log ended within one?
Reading == IF at \in {"now_block", "devs"} THEN 1 ELSE 0
CutShort == at = "sync_blocks" /\ pos = Len(log) /\ status # "running"

\* The rows show the sets that were read, the list the one that is being read.
ReaderInv ==
  /\ exit \in Exits
  /\ list \in Seq(DeviceObjects) /\ rows \in Seq(AllRows)
  /\ list # <<>> <=> at = "devs"
  /\ Len(rows) + Reading = SetOf(log, pos)
  /\ Reading = 1 => Lists(list, log, pos)
  /\ \A k \in 1 .. Len(rows) :
       RowShown(rows[k], sets[k], k < Len(rows) \/ ~CutShort)

\* A row that shows a whole set shows it.
LEMMA Weaker ==
  ASSUME NEW row, NEW set, NEW a, NEW b, b => a, RowShown(row, set, a)
  PROVE  RowShown(row, set, b)
  BY DEF RowShown

\* There are no more rows than sets.
LEMMA RowsAreSets ==
  ASSUME WriterTypes, SetsInv, ParserInv, ReaderInv
  PROVE  /\ Len(rows) \in Nat /\ Len(sets) \in Nat
         /\ Len(rows) + Reading <= Len(sets)
  <1>1. /\ Len(rows) \in Nat /\ Len(sets) \in Nat /\ Len(log) \in Nat
        /\ Reading \in {0, 1} /\ pos \in 0 .. Len(log)
    BY LenProperties DEF ReaderInv, SetsInv, WriterTypes, Reading, ParserInv
  <1>2. SetOf(log, pos) <= SetOf(log, Len(log))
    BY <1>1, SetOrder
  <1>3. SetOf(log, Len(log)) <= Len(sets)
    BY LogShowsSets DEF SetsShown
  <1>4. SetOf(log, pos) \in Nat /\ SetOf(log, Len(log)) \in Nat
    BY <1>1, SetCount
  <1> QED
    BY <1>1, <1>2, <1>3, <1>4 DEF ReaderInv

\* mg-tweak writes, and the rows still show its sets.
LEMMA ReaderWaits ==
  ASSUME WriterTypes, SetsInv, ParserInv, ReaderInv, WriterKept, SetsGrow,
         UNCHANGED check
  PROVE  ReaderInv'
  <1>1. /\ log \in Seq(LogLine) /\ log' \in Seq(LogLine)
        /\ Len(log) \in Nat /\ Len(log') \in Nat
    BY LenProperties DEF WriterKept, WriterTypes
  <1>2. /\ pos \in 0 .. Len(log)
        /\ pos' = pos /\ at' = at /\ exit' = exit /\ list' = list /\ rows' = rows
        /\ Reading' = Reading
    BY DEF ParserInv, check, Reading
  <1>3. /\ Len(log) <= Len(log')
        /\ \A k \in 1 .. Len(log) : log'[k] = log[k]
        /\ status # "running" => log' = log /\ status' = status
    BY DEF WriterKept, LogGrows
  <1>4. /\ \A p \in 0 .. Len(log) : SetOf(log', p) = SetOf(log, p)
        /\ DevAt(log) = {p \in DevAt(log') : p <= Len(log)}
    <2> DEFINE u == log'
    <2>1. /\ u \in Seq(LogLine) /\ Len(log) <= Len(u)
          /\ \A k \in 1 .. Len(log) : u[k] = log[k]
      BY <1>1, <1>3
    <2> HIDE DEF u
    <2>2. /\ \A p \in 0 .. Len(log) : SetOf(u, p) = SetOf(log, p)
          /\ DevAt(log) = {p \in DevAt(u) : p <= Len(log)}
      BY <1>1, <2>1, FirstLines
    <2> QED
      BY <2>2 DEF u
  <1>5. /\ Current(log', pos) = Current(log, pos)
        /\ \A q \in Current(log, pos) : log'[q] = log[q]
    <2>1. \A q : q \in DevAt(log') /\ q <= pos <=> q \in DevAt(log) /\ q <= pos
      <3>1. \A q \in DevAt(log') : q <= pos => q <= Len(log)
        BY <1>1, <1>2 DEF DevAt
      <3> QED
        BY <1>4, <3>1
    <2>2. \A q \in DevAt(log) : /\ SetOf(log', q) = SetOf(log, q)
                                /\ log'[q] = log[q]
      BY <1>1, <1>3, <1>4 DEF DevAt
    <2>3. SetOf(log', pos) = SetOf(log, pos)
      BY <1>2, <1>4
    <2> QED
      BY <2>1, <2>2, <2>3 DEF Current
  <1>6. Lists(list, log, pos) => Lists(list, log', pos)
    BY <1>5 DEF Lists
  <1>7. CutShort => CutShort'
    BY <1>2, <1>3 DEF CutShort
  <1>8. ASSUME NEW k \in 1 .. Len(rows)
        PROVE  RowShown(rows[k], sets'[k], k < Len(rows) \/ ~CutShort')
    <2>1. RowShown(rows[k], sets[k], k < Len(rows) \/ ~CutShort)
      BY DEF ReaderInv
    <2>2. sets'[k] = sets[k]
      <3>1. Reading \in Nat
        BY DEF Reading
      <3>2. k \in 1 .. Len(sets)
        BY <3>1, RowsAreSets
      <3> QED
        BY <3>2 DEF SetsGrow
    <2> QED
      BY <1>7, <2>1, <2>2, Weaker
  <1> QED
    BY <1>2, <1>4, <1>6, <1>8 DEF ReaderInv

\* One step of the parser: its rows still show the sets.
LEMMA ReaderSteps ==
  ASSUME WriterTypes, SetsInv, ParserInv, ReaderInv, Check!Next, UNCHANGED vars
  PROVE  ReaderInv'
  <1>1. /\ log' = log /\ status' = status /\ sets' = sets
        /\ log \in Seq(LogLine) /\ Len(log) \in Nat /\ pos \in 0 .. Len(log)
        /\ SetsShown(log, sets)
    BY LenProperties, LogShowsSets DEF WriterTypes, ParserInv, vars
  <1>2. /\ exit \in Exits
        /\ list \in Seq(DeviceObjects) /\ rows \in Seq(AllRows)
        /\ list # <<>> <=> at = "devs"
        /\ Len(rows) + Reading = SetOf(log, pos)
        /\ Reading = 1 => Lists(list, log, pos)
        /\ Len(rows) \in Nat
    BY LenProperties DEF ReaderInv
  <1>3. \A k \in 1 .. Len(rows) :
          RowShown(rows[k], sets[k], k < Len(rows) \/ ~CutShort)
    BY DEF ReaderInv
  <1>4. ASSUME UNCHANGED <<list, rows>>, exit' \in Exits,
               at = "devs" <=> at' = "devs",
               Reading' = Reading, SetOf(log, pos') = SetOf(log, pos),
               Reading = 1 => UNCHANGED pos, CutShort => CutShort'
        PROVE  ReaderInv'
    <2>1. \A k \in 1 .. Len(rows) :
            RowShown(rows[k], sets[k], k < Len(rows) \/ ~CutShort')
      BY <1>3, <1>4, Weaker
    <2> QED
      BY <1>1, <1>2, <1>4, <2>1 DEF ReaderInv
  <1>5. CASE Check!OpenStdin
    <2>1. /\ at = "closed" /\ at' \in {"closed", "run"}
          /\ UNCHANGED <<pos, list, rows>>
      BY <1>5 DEF Check!OpenStdin
    <2>2. exit' \in Exits
      BY <1>2, <1>5, Zenon DEF Check!OpenStdin, Exits
    <2> QED
      BY <1>4, <2>1, <2>2 DEF Reading, CutShort
  <1>6. CASE Check!Line
    <2>1. /\ pos < Len(log) /\ <<at, Check!Kind, at'>> \in Check!Moves
          /\ pos' = pos + 1 /\ UNCHANGED <<list, rows, exit>>
      BY <1>6 DEF Check!Line, Check!More
    <2>2. /\ at \notin {"now_block", "devs"} /\ at' # "devs" /\ at' # "sync_blocks"
          /\ at' = "now_block" <=> Check!Kind = "now"
          /\ Check!Kind # "dev"
      BY <2>1 DEF Check!Moves
    <2>3. ~CutShort /\ ~CutShort' /\ Reading = 0
      BY <1>1, <2>1, <2>2 DEF CutShort, Reading
    <2>4. pos \in Nat /\ pos + 1 \in 1 .. Len(log) /\ Check!Kind = log[pos + 1].kind
      BY <1>1, <2>1 DEF Check!Kind
    <2>5. CASE Check!Kind = "now"
      <3>1. Reading' = 1 /\ list = <<>>
        BY <1>2, <2>2, <2>5 DEF Reading
      <3>2. Lists(<<>>, log, pos + 1) /\ SetOf(log, pos + 1) = SetOf(log, pos) + 1
        BY <1>1, <2>4, <2>5, ListBegins
      <3>3. \A k \in 1 .. Len(rows) :
              RowShown(rows[k], sets[k], k < Len(rows) \/ ~CutShort')
        BY <1>3, <2>3, Weaker
      <3> QED
        BY <1>1, <1>2, <2>1, <2>2, <2>3, <3>1, <3>2, <3>3 DEF ReaderInv
    <2>6. CASE Check!Kind # "now"
      <3>1. Reading' = 0
        BY <2>2, <2>6 DEF Reading
      <3>2. SetOf(log, pos + 1) = SetOf(log, pos)
        BY <2>4, <2>6, SetCount
      <3> QED
        BY <1>2, <1>4, <2>1, <2>2, <2>3, <3>1, <3>2
    <2> QED
      BY <2>5, <2>6
  <1>7. CASE Check!DevBlock
    <2>1. /\ pos < Len(log) /\ at \in {"now_block", "devs"} /\ Check!Kind = "dev"
          /\ list' = Check!InsertSorted(list, Check!dev_create(log[pos + 1]))
          /\ at' = "devs" /\ pos' = pos + 1 /\ UNCHANGED <<rows, exit>>
      BY <1>7 DEF Check!DevBlock, Check!More
    <2>2. Reading = 1 /\ Reading' = 1 /\ ~CutShort /\ ~CutShort'
      BY <2>1 DEF Reading, CutShort
    <2>3. /\ pos \in Nat /\ pos + 1 \in 1 .. Len(log)
          /\ log[pos + 1].kind = "dev"
      BY <1>1, <2>1 DEF Check!Kind
    <2>4. Lists(list, log, pos)
      BY <1>2, <2>2
    <2>5. /\ list' \in Seq(DeviceObjects) /\ list' # <<>>
          /\ Lists(list', log, pos + 1)
          /\ SetOf(log, pos + 1) = SetOf(log, pos)
      BY <1>1, <1>2, <2>1, <2>3, <2>4, ListGrows
    <2>6. \A k \in 1 .. Len(rows) :
            RowShown(rows[k], sets[k], k < Len(rows) \/ ~CutShort')
      BY <1>3, <2>2, Weaker
    <2> QED
      BY <1>1, <1>2, <2>1, <2>2, <2>5, <2>6 DEF ReaderInv
  <1>8. CASE Check!SyncBlock
    <2> DEFINE row == Check!Row(list)
               n == Len(rows)
    <2>1. /\ at = "devs" /\ at' = "sync_blocks" /\ UNCHANGED <<pos, exit>>
          /\ rows' = Append(rows, row) /\ list' = <<>>
      BY <1>8 DEF Check!SyncBlock
    <2>2. \/ pos = Len(log) /\ status # "running"
          \/ pos < Len(log) /\ Check!Kind # "dev"
      BY <1>8 DEF Check!SyncBlock, Check!AtEnd, Check!More
    <2>3. Reading = 1 /\ Reading' = 0 /\ ~CutShort
      BY <2>1 DEF Reading, CutShort
    <2>4. pos \in DevAt(log) /\ n + 1 = SetOf(log, pos)
      <3>1. ReadKind = "dev"
        BY <2>1 DEF ParserInv, Places
      <3>2. pos # 0 /\ log[pos].kind = "dev"
        BY <3>1 DEF ReadKind
      <3> QED
        BY <1>1, <1>2, <2>3, <3>2 DEF DevAt
    <2>5. RowShown(row, sets[n + 1], ~CutShort')
      <3>1. Lists(list, log, pos)
        BY <1>2, <2>3
      <3>2. ~CutShort' => WholeAt(log, sets, pos)
        <4> SUFFICES ASSUME ~CutShort' PROVE WholeAt(log, sets, pos)
          OBVIOUS
        <4>1. pos < Len(log) /\ Check!Kind # "dev"
          BY <1>1, <2>1, <2>2 DEF CutShort
        <4>2. pos + 1 \notin DevAt(log)
          BY <4>1 DEF DevAt, Check!Kind
        <4> QED
          BY <1>1, <2>4, <4>1, <4>2 DEF SetsShown
      <3>3. RowShown(row, sets[SetOf(log, pos)], ~CutShort')
        BY <1>1, <1>2, <2>4, <3>1, <3>2, RowMade
      <3> QED
        BY <2>4, <3>3
    <2>6. row \in AllRows
      BY <1>2 DEF AllRows
    <2> HIDE DEF row
    <2>7. /\ rows' \in Seq(AllRows) /\ Len(rows') = n + 1
          /\ rows'[n + 1] = row /\ \A k \in 1 .. n : rows'[k] = rows[k]
      BY <1>2, <2>1, <2>6, AppendProperties
    <2>8. ASSUME NEW k \in 1 .. Len(rows')
          PROVE  RowShown(rows'[k], sets[k], k < Len(rows') \/ ~CutShort')
      <3>1. CASE k \in 1 .. n
        BY <1>3, <2>3, <2>7, <3>1, Weaker
      <3>2. CASE k = n + 1
        <4>1. ~(k < Len(rows'))
          BY <1>2, <2>7, <3>2
        <4> QED
          BY <2>5, <2>7, <3>2, <4>1, Weaker
      <3> QED
        BY <1>2, <2>7, <3>1, <3>2
    <2>9. list' \in Seq(DeviceObjects)
      BY <2>1, EmptySeq
    <2>10. Len(rows') + Reading' = SetOf(log, pos)
      BY <1>2, <2>3, <2>4, <2>7
    <2> QED
      BY <1>1, <1>2, <2>1, <2>3, <2>7, <2>8, <2>9, <2>10 DEF ReaderInv
  <1>9. CASE Check!EndOfFile
    <2>1. UNCHANGED <<pos, at, list, rows>>
      BY <1>9 DEF Check!EndOfFile
    <2>2. exit' \in Exits
      BY <1>9, Zenon DEF Check!EndOfFile, Exits
    <2> QED
      BY <1>1, <1>4, <2>1, <2>2 DEF Reading, CutShort
  <1>10. CASE Check!SyntaxError
    <2>1. UNCHANGED <<pos, at, list, rows>>
      BY <1>10 DEF Check!SyntaxError
    <2>2. exit' \in Exits
      BY <1>10, Zenon DEF Check!SyntaxError, Exits
    <2> QED
      BY <1>1, <1>4, <2>1, <2>2 DEF Reading, CutShort
  <1> QED
    BY <1>5, <1>6, <1>7, <1>8, <1>9, <1>10 DEF Check!Next

\* ReaderInv holds in every reachable state.
LEMMA ReaderInvariant == Pipeline => [](SetsInv /\ ReaderInv)
  <1>1. PipelineInit => ReaderInv
    <2> SUFFICES ASSUME PipelineInit PROVE ReaderInv
      OBVIOUS
    <2>1. pos = 0 /\ at = "closed" /\ list = <<>> /\ rows = <<>>
      BY DEF PipelineInit, Check!Init
    <2>2. exit \in Exits
      BY Zenon DEF PipelineInit, Check!Init, Exits
    <2>3. /\ <<>> \in Seq(DeviceObjects) /\ <<>> \in Seq(AllRows) /\ Len(<<>>) = 0
      BY EmptySeq
    <2>4. SetOf(log, 0) = 0
      BY SetCount
    <2> QED
      BY <2>1, <2>2, <2>3, <2>4 DEF ReaderInv, Reading
  <1>2. ASSUME PipelineInv, SetsInv, ReaderInv, [PipelineNext]_<<vars, check>>,
               TweakInv, TweakInv'
        PROVE  ReaderInv'
    <2>1. ASSUME [Next]_vars PROVE WriterKept /\ SetsGrow
      BY <1>2, <2>1, WriterNext, SetsNext DEF PipelineInv, TweakInv, TypeInv
    <2>2. CASE [Next]_vars /\ UNCHANGED check
      BY <1>2, <2>1, <2>2, ReaderWaits DEF PipelineInv
    <2>3. CASE Check!Next /\ UNCHANGED vars
      BY <1>2, <2>3, ReaderSteps DEF PipelineInv
    <2> QED
      BY <1>2, <2>2, <2>3 DEF PipelineNext
  <1> QED
    BY <1>1, <1>2, PipelineRunsTweak, SetsInvariant, PipelineInvariant,
       TweakInvariant, PTL DEF Pipeline

\* The variables of the two programs have their types: among other things the
\* parser has read no more than was written, and it keeps a list of devices
\* exactly while it is within a set.
THEOREM PipelineTypes == Pipeline => []PipelineTypeOK
  <1>1. ParserInv /\ ReaderInv => Check!TypeOK
    <2> SUFFICES ASSUME ParserInv, ReaderInv PROVE Check!TypeOK
      OBVIOUS
    <2>1. at \in {"closed", "run", "start_block", "ids", "now_block", "devs",
                  "sync_blocks", "end_block"}
      BY DEF ParserInv, Places
    <2>2. at \in {"closed"} \cup {m[1] : m \in Check!Moves}
                 \cup {"now_block", "devs"}
      BY <2>1 DEF Check!Moves
    <2>3. /\ pos \in 0 .. Len(log)
          /\ list # <<>> <=> at = "devs"
      BY DEF ParserInv, ReaderInv
    <2>4. exit \in Exits
      BY DEF ReaderInv
    <2> QED
      BY <2>2, <2>3, <2>4, Zenon DEF Check!TypeOK, Exits
  <1>2. Pipeline => []TypeOK
    BY PipelineRunsTweak, TweakTypes, PTL
  <1>3. PipelineInv /\ ReaderInv /\ TypeOK => PipelineTypeOK
    BY <1>1 DEF PipelineInv, PipelineTypeOK
  <1> QED
    BY <1>2, <1>3, PipelineInvariant, ReaderInvariant, PTL

\* The rows of sync-check are the first of the sets that mg-tweak's callback was
\* given, in their order: however many sets there are, whichever devices are in
\* them, and wherever the log ends.  Each row has all the devices of its set, but
\* for the last row of a log that sync-check has not accepted.
THEOREM RowsAreTheSets == Pipeline => []RowsShowSets
  <1>1. ASSUME PipelineInv, SetsInv, ReaderInv, TypeInv PROVE RowsShowSets
    <2>1. /\ Len(rows) \in Nat /\ Len(sets) \in Nat
          /\ Len(rows) + Reading <= Len(sets) /\ Reading \in {0, 1}
      BY <1>1, RowsAreSets DEF PipelineInv, Reading
    <2>2. Len(rows) <= Len(sets)
      BY <2>1
    <2>3. DOMAIN rows = 1 .. Len(rows)
      BY <1>1, LenProperties DEF ReaderInv
    <2>4. exit = "success" => /\ pos = Len(log) /\ status # "running"
                              /\ at = "run"
      BY <1>1 DEF PipelineInv, ParserInv
    <2>5. ASSUME NEW k \in DOMAIN rows
          PROVE  \E name \in [DOMAIN rows[k] -> DOMAIN sets[k]] :
                   /\ Shows(rows[k], sets[k], name)
                   /\ k < Len(rows) \/ exit = "success" =>
                        ToSet(name) = DOMAIN sets[k]
      <3>1. RowShown(rows[k], sets[k], k < Len(rows) \/ ~CutShort)
        BY <1>1, <2>3 DEF ReaderInv
      <3>2. exit = "success" => ~CutShort
        BY <2>4 DEF CutShort
      <3>3. RowShown(rows[k], sets[k], k < Len(rows) \/ exit = "success")
        BY <3>1, <3>2, Weaker
      <3> QED
        BY <3>3 DEF RowShown
    <2> QED
      BY <2>2, <2>5 DEF RowsShowSets
  <1>2. TweakInv => TypeInv
    BY DEF TweakInv
  <1> QED
    BY <1>1, <1>2, PipelineInvariant, ReaderInvariant, TweakInvariant, PTL

\* When the parser has stopped, what it read is what it was told of: every set
\* that began, but for one that it had no device of.
LEMMA ToldWasRead ==
  ASSUME PipelineInv, exit \in {"success", "failure"}
  PROVE  Told = {q \in 1 .. pos : log[q].kind = "now"}
                \ (IF at = "now_block" THEN {pos} ELSE {})
  <1>1. /\ log \in Seq(LogLine) /\ buffer \in Seq(LogLine) /\ Len(log) \in Nat
        /\ DOMAIN log = 1 .. Len(log)
        /\ pos \in 0 .. Len(log) /\ <<ReadKind, at>> \in Places
    BY LenProperties DEF PipelineInv, WriterTypes, ParserInv
  <1>2. \A k \in 1 .. Len(log) : log[k].kind = "now" => log[k] = Now
    <2>1. \A l \in LogLine : l.kind = "now" => l = Now
      BY LineKinds DEF LogLine
    <2> QED
      BY <1>1, <2>1, ElementOfSeq
  <1>3. Now.kind = "now"
    BY LineKinds
  <1>4. \A k \in 1 .. pos : ~Spoils(k)
    BY NothingSpoiled DEF PipelineInv
  <1>5. \/ pos = Len(log)
        \/ pos + 1 \in 1 .. Len(log) /\ Spoils(pos + 1)
    <2>1. \/ pos = Len(log)
          \/ NextLine /\ at # "closed" /\ ~Check!Acceptable
      BY DEF PipelineInv, ParserInv
    <2>2. NextLine => pos + 1 \in 1 .. Len(log)
      BY <1>1 DEF NextLine
    <2> QED
      BY <2>1, <2>2, ErrorSpoils
  <1>6. \A k \in Told : /\ k \in 1 .. pos /\ k + 1 \in 1 .. pos
                        /\ log[k].kind = "now"
    <2> TAKE k \in Told
    <2>1. /\ k \in 1 .. Len(log) /\ k + 1 \in 1 .. Len(log)
          /\ log[k] = Now /\ log[k + 1].kind = "dev"
          /\ \A j \in 1 .. k : ~Spoils(j)
      BY <1>1 DEF Told
    <2>2. CASE pos = Len(log)
      BY <1>3, <2>1, <2>2
    <2>3. CASE pos + 1 \in 1 .. Len(log) /\ Spoils(pos + 1)
      <3>1. log[pos + 1] \in {Message, Times}
        BY <2>3 DEF Spoils
      <3>2. pos + 1 # k + 1
        BY <2>1, <3>1, LineKinds
      <3>3. ~(pos + 1 <= k)
        BY <1>1, <2>1, <2>3
      <3>4. k + 1 <= pos
        BY <1>1, <2>1, <3>2, <3>3
      <3> QED
        BY <1>1, <1>3, <2>1, <3>4
    <2> QED
      BY <1>5, <2>2, <2>3
  <1>7. ASSUME NEW k \in 1 .. pos, log[k].kind = "now", k # pos
        PROVE  k \in Told
    <2>1. /\ k \in 1 .. Len(log)
          /\ k + 1 \in 1 .. Len(log) /\ k + 1 \in 1 .. pos
          /\ k + 1 # 1 /\ (k + 1) - 1 = k
          /\ \A j \in 1 .. k : j \in 1 .. pos
      BY <1>1, <1>7
    <2>2. Fits("now", log[k + 1].kind)
      <3>1. Chain("none", log)
        BY <1>1, Concatenation DEF PipelineInv, WriterInv, Printed
      <3> QED
        BY <1>7, <2>1, <3>1 DEF Chain, Before
    <2>3. log[k + 1].kind # "message"
      BY <2>1 DEF PipelineInv, ParserInv
    <2>4. log[k + 1].kind = "dev"
      BY <2>2, <2>3 DEF Fits, Follows
    <2> QED
      BY <1>1, <1>2, <1>4, <1>7, <2>1, <2>4 DEF Told
  <1>8. ASSUME pos \in Told PROVE FALSE
    <2>1. pos + 1 \in 1 .. pos
      BY <1>6, <1>8
    <2> QED
      BY <1>1, <2>1
  <1>9. pos \in 1 .. pos /\ log[pos].kind = "now" <=> at = "now_block"
    BY <1>1 DEF Places, ReadKind
  <1> QED
    BY <1>6, <1>7, <1>8, <1>9

\* Every set that the log tells of before its first spoilt line has its row, and
\* so has every set of the callback if both programs end well: no set is lost
\* otherwise, however long the log is and wherever it ends.
THEOREM RowsAreComplete == Pipeline => []RowsComplete
  <1>1. ASSUME PipelineInv, SetsInv, ReaderInv, TypeInv PROVE RowsComplete
    <2>1. /\ Len(rows) \in Nat /\ Len(log) \in Nat /\ pos \in 0 .. Len(log)
          /\ Len(rows) + Reading = SetOf(log, pos)
      BY <1>1, RowsAreSets, LenProperties
         DEF PipelineInv, ParserInv, ReaderInv, WriterTypes
    <2>2. ASSUME exit \in {"success", "failure"}
          PROVE  Len(rows) = Cardinality(Told)
      <3> DEFINE Q(p) == {q \in 1 .. p : log[q].kind = "now"}
      <3>1. SetOf(log, pos) = Cardinality(Q(pos))
        BY DEF SetOf
      <3>2. at # "devs"
        BY <1>1, <2>2, ErrorSpoils DEF PipelineInv, ParserInv
      <3>3. CASE at # "now_block"
        <4>1. Told = Q(pos)
          BY <1>1, <2>2, <3>3, ToldWasRead
        <4>2. Reading = 0
          BY <3>2, <3>3 DEF Reading
        <4> QED
          BY <2>1, <3>1, <4>1, <4>2
      <3>4. CASE at = "now_block"
        <4>1. Told = Q(pos) \ {pos}
          BY <1>1, <2>2, <3>4, ToldWasRead
        <4>2. pos # 0 /\ log[pos].kind = "now"
          BY <1>1, <3>4 DEF PipelineInv, ParserInv, Places, ReadKind
        <4>3. /\ pos - 1 \in Nat /\ (pos - 1) + 1 = pos
              /\ 1 .. pos = (1 .. pos - 1) \cup {pos} /\ pos \notin 1 .. pos - 1
          BY <2>1, <4>2
        <4>4. Q(pos) \ {pos} = Q(pos - 1)
          BY <4>3
        <4>5. /\ SetOf(log, pos - 1) \in Nat
              /\ SetOf(log, pos) = SetOf(log, pos - 1) + 1
          BY <4>2, <4>3, SetCount
        <4>6. Cardinality(Told) = SetOf(log, pos - 1)
          BY <4>1, <4>4 DEF SetOf
        <4>7. Reading = 1
          BY <3>4 DEF Reading
        <4> QED
          BY <2>1, <4>5, <4>6, <4>7
      <3> QED
        BY <3>3, <3>4
    <2>3. ASSUME exit = "success", status = "success"
          PROVE  Len(rows) = Len(sets)
      <3>1. pos = Len(log) /\ at = "run"
        BY <1>1, <2>3 DEF PipelineInv, ParserInv
      <3>2. Len(rows) = SetOf(log, Len(log))
        BY <2>1, <3>1 DEF Reading
      <3>3. buffer = <<>>
        BY <1>1, <2>3 DEF TypeInv, ControlInv, PipelineInv, WriterTypes
      <3>4. Printed = log
        BY <1>1, <3>3, ConcatEmptySeq DEF Printed, PipelineInv, WriterTypes
      <3> QED
        BY <1>1, <2>3, <3>2, <3>4 DEF SetsInv, AllShown
    <2> QED
      BY <2>2, <2>3 DEF RowsComplete
  <1>2. TweakInv => TypeInv
    BY DEF TweakInv
  <1> QED
    BY <1>1, <1>2, PipelineInvariant, ReaderInvariant, TweakInvariant, PTL

=============================================================================
