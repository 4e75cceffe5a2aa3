---------------------------- MODULE TweakCheck ----------------------------
(***************************************************************************)
(* The log of mg-tweak, read by sync-check, while it is written or after.   *)
(* That mg-tweak dies of SIGPIPE when it writes to a pipe that sync-check   *)
(* has left is not modelled: nothing reads what it would not have written.  *)
(***************************************************************************)
EXTENDS MgTweak

VARIABLES pos, at, list, rows, exit

Check == INSTANCE SyncCheck WITH input <- log, ended <- status # "running"

check == <<pos, at, list, rows, exit>>

PipelineInit == Init /\ Check!Init

PipelineNext == \/ Next /\ UNCHANGED check
                \/ Check!Next /\ UNCHANGED vars

\* sync-check reads what there is to read.
Pipeline == /\ PipelineInit
            /\ [][PipelineNext]_<<vars, check>>
            /\ WF_<<vars, check>>(Check!Next /\ UNCHANGED vars)

-----------------------------------------------------------------------------
(* Properties.                                                             *)

PipelineTypeOK == TypeOK /\ Check!TypeOK

\* The row shows devices of the set in the order of their names, name[j] in the
\* j-th place, each at the offset of the age that its own image had.
Shows(row, set, name) ==
  /\ \A i, j \in DOMAIN row :
       i < j => Check!Place(name[i]) < Check!Place(name[j])
  /\ \A j \in DOMAIN row :
       row[j] = [digit |-> name[j] % 10,
                 offset |-> Check!Rint(set[name[j]] % Second)]

\* The rows of sync-check are the first sets that mg-tweak's callback was given,
\* in their order, each with all its devices; the last one may lack devices, of
\* a log that was cut short within a set.
RowsShowSets ==
  /\ Len(rows) <= Len(sets)
  /\ \A k \in DOMAIN rows : \E name \in [DOMAIN rows[k] -> DOMAIN sets[k]] :
       /\ Shows(rows[k], sets[k], name)
       /\ k < Len(rows) \/ exit = "success" => ToSet(name) = DOMAIN sets[k]

\* What no log that sync-check accepts may have in line k: text for people, or
\* the end of a capture that captured nothing.
Spoils(k) == log[k] = Message \/ (log[k] = Times /\ log[k - 1].kind # "dev")

\* The log consists of whole captures that captured something, and of nothing
\* that is for people; or nothing was written before the program was killed.
Whole == \/ log = <<>>
         \/ Last(log) = Captured /\ \A k \in DOMAIN log : ~Spoils(k)

\* Where the log begins to tell of a set and has a device of it, with no line
\* before that spoils it.
Told == {k \in DOMAIN log : /\ log[k] = Now
                            /\ k + 1 \in DOMAIN log /\ log[k + 1].kind = "dev"
                            /\ \A j \in 1 .. k : ~Spoils(j)}

\* No set gets lost but by a capture that failed, a message, or a log cut short:
\* when sync-check has ended, every set told of before the first line that
\* spoils the log has its row, also if it ends with an error at that line; and if
\* both programs end well, every set has.
RowsComplete ==
  /\ exit \in {"success", "failure"} => Len(rows) = Cardinality(Told)
  /\ exit = "success" /\ status = "success" => Len(rows) = Len(sets)

\* sync-check succeeds for the logs that are whole, and for no others: neither
\* for one that says that mg-tweak failed or is cut short in the middle of a
\* capture, nor for one with a message of the library or with a capture that
\* lost the synchronisation.
AcceptsWhole ==
  /\ exit = "success" => Whole
  /\ exit = "failure" => ~Whole \/ status = "running"

\* Once mg-tweak has ended, sync-check ends.
Finishes == status # "running" ~> exit # "running"

=============================================================================
