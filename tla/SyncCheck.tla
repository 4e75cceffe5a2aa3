----------------------------- MODULE SyncCheck -----------------------------
(***************************************************************************)
(* examples/sync-check.c, with device.c and the grammar of sync-grammar.y:  *)
(* the program that reads the log of mg-tweak and shows one row for each    *)
(* set, with the devices at offsets that tell the ages of their images.     *)
(*                                                                         *)
(* The parser is that of the grammar with the lines of MgTweak as tokens:   *)
(* its states are the places between two lines.                             *)
(***************************************************************************)
EXTENDS Integers, Sequences, SequencesExt

VARIABLES
  input,   \* the log, as far as it has been written
  ended,   \* nothing will be added to it
  pos,     \* lines read so far
  at,      \* state of the parser
  list,    \* the device objects of the set being read (dev_block_list)
  rows,    \* the rows shown
  exit     \* how the program ended

state == <<pos, at, list, rows, exit>>

Init == /\ pos = 0 /\ at = "closed"
        /\ list = <<>> /\ rows = <<>>
        /\ exit = "running"

More == exit = "running" /\ pos < Len(input)
Kind == input[pos + 1].kind
AtEnd == exit = "running" /\ ended /\ pos = Len(input)

-----------------------------------------------------------------------------
(* The objects of device.c, as far as they are read.                       *)

dev_create(line) == [id |-> line.name, diff |-> line.age]

\* dev_compare: the names are compared as strings, "/dev/video" and a number of
\* one digit or two, so that 10 comes after 1 and before 2.
Place(id) == IF id < 10 THEN 11 * id ELSE 11 * (id \div 10) + (id % 10) + 1
dev_compare(a, b) == Place(a.id) - Place(b.id)

\* Mutant: the list is in the order of the log.
AppendedOnly(l, d) == Append(l, d)

\* g_slist_insert_sorted: before the first device that does not come before d.
InsertSorted(l, d) ==
  LET k == CHOOSE k \in 1 .. Len(l) + 1 :
             /\ \A j \in 1 .. k - 1 : dev_compare(l[j], d) < 0
             /\ k <= Len(l) => dev_compare(l[k], d) >= 0
  IN InsertAt(l, k, d)

-----------------------------------------------------------------------------
(* What is shown.                                                          *)

\* rint(usec / 4000.)
Rint(u) == LET q == u \div 4000  r == u % 4000 IN
           IF r > 2000 \/ (r = 2000 /\ q % 2 = 1) THEN q + 1 ELSE q

\* render_device: the last digit of the name, behind as many spaces as the
\* microseconds of the age tell; the seconds do not count.
Mark(d) == [digit |-> d.id % 10, offset |-> Rint(d.diff.usec)]

Row(l) == [j \in DOMAIN l |-> Mark(l[j])]

-----------------------------------------------------------------------------
(* main, and yyparse.                                                      *)

\* open_stdin; without a file name, or with that of no file, the program fails.
OpenStdin ==
  /\ at = "closed" /\ exit = "running"
  /\ \/ at' = "run" /\ UNCHANGED exit
     \/ exit' = "no input" /\ UNCHANGED at
  /\ UNCHANGED <<pos, list, rows>>

\* The lines that the parser accepts in a state, and where it goes with them.
\* A run that is over (YYACCEPT) makes main call yyparse again.
Moves == {<<"run", "startup", "start_block">>, <<"start_block", "id", "ids">>,
          <<"ids", "id", "ids">>, <<"run", "now", "now_block">>,
          <<"ids", "now", "now_block">>, <<"sync_blocks", "now", "now_block">>,
          <<"sync_blocks", "times", "end_block">>,
          <<"end_block", "captured", "run">>}

Line ==
  /\ More
  /\ \E to \in {m[3] : m \in Moves} : <<at, Kind, to>> \in Moves /\ at' = to
  /\ pos' = pos + 1
  /\ UNCHANGED <<list, rows, exit>>

\* dev_block.
DevBlock ==
  /\ More
  /\ at \in {"now_block", "devs"} /\ Kind = "dev"
  /\ list' = InsertSorted(list, dev_create(input[pos + 1]))
  /\ at' = "devs" /\ pos' = pos + 1
  /\ UNCHANGED <<rows, exit>>

\* Mutant: the row is not shown at the end of the input, or before a line that
\* is an error there.
SyncBlockForgetful ==
  /\ at = "devs"
  /\ AtEnd \/ (More /\ Kind \notin {"dev", "id"})
  /\ rows' = IF More /\ Kind \in {"now", "times"} THEN Append(rows, Row(list))
                                                  ELSE rows
  /\ list' = <<>>
  /\ at' = "sync_blocks"
  /\ UNCHANGED <<pos, exit>>

\* sync_block: at any line that does not begin with the word dev, and at the end
\* of the input, the set is complete.  Its row is shown and its devices are
\* destroyed, whether or not the grammar goes on with that line.
SyncBlock ==
  /\ at = "devs"
  /\ AtEnd \/ (More /\ Kind \notin {"dev", "id"})
  /\ rows' = Append(rows, Row(list))
  /\ list' = <<>>
  /\ at' = "sync_blocks"
  /\ UNCHANGED <<pos, exit>>

\* Mutant: the end of the input is one more run, which is accepted.
EndOfFileAccepted == at = "run" /\ AtEnd /\ UNCHANGED state

\* Mutant: the end of the input ends any run well.
EndOfFileAnywhere == /\ at \notin {"closed", "devs"}
                     /\ AtEnd
                     /\ exit' = "success"
                     /\ UNCHANGED <<pos, at, list, rows>>

\* YYABORT where a run could begin, which ends the loop of main with success.
EndOfFile ==
  /\ at = "run"
  /\ AtEnd
  /\ exit' = "success"
  /\ UNCHANGED <<pos, at, list, rows>>

Acceptable == \/ \E m \in Moves : m[1] = at /\ m[2] = Kind
              \/ at \in {"now_block", "devs"} /\ Kind = "dev"
              \/ at = "devs" /\ Kind # "id"

\* yyerror.
SyntaxError ==
  /\ \/ More /\ at # "closed" /\ ~Acceptable
     \/ AtEnd /\ at \notin {"closed", "run", "devs"}
  /\ exit' = "failure"
  /\ UNCHANGED <<pos, at, list, rows>>

Next == OpenStdin \/ Line \/ DevBlock \/ SyncBlock \/ EndOfFile \/ SyntaxError

TypeOK ==
  /\ pos \in 0 .. Len(input)
  /\ at \in {"closed"} \cup {m[1] : m \in Moves} \cup {"now_block", "devs"}
  /\ exit \in {"running", "no input", "success", "failure"}
  /\ list # <<>> <=> at = "devs"

=============================================================================
