-------------------------------- MODULE Log --------------------------------
(***************************************************************************)
(* The log objects of multi-gee/log.c.  Every multi_gee object has one; a   *)
(* process with several of them has several logs, which may share a         *)
(* standard stream.  What is logged is left out: a log is the stream that   *)
(* it writes to.                                                           *)
(***************************************************************************)
CONSTANTS
  Log,      \* log objects
  Stream,   \* streams that fopen can return
  Stdout,
  Stderr,
  Null      \* the null pointer

Standard == {Stdout, Stderr}

ASSUME StreamAssumption == /\ Stdout # Stderr
                           /\ Null \notin Stream \cup Standard
                           /\ Standard \cap Stream = {}

VARIABLES
  live,    \* the log objects that exist
  file,    \* their stream
  close,   \* whether lg_destroy closes it
  opened,  \* the streams that are open
  died     \* has the program died in lg_destroy?

vars == <<live, file, close, opened, died>>

Init ==
  /\ live = {}
  /\ file = [l \in Log |-> Null] /\ close = [l \in Log |-> TRUE]
  /\ opened = Standard
  /\ died = FALSE

\* lg_create and open_log: the new log gets the stream s.
Created(l, s, c) ==
  /\ l \notin live
  /\ live' = live \cup {l}
  /\ file' = [file EXCEPT ![l] = s]
  /\ close' = [close EXCEPT ![l] = c]
  /\ UNCHANGED died

\* No file name: open_log returns early, and leaves close as lg_create set it.
CreateWithoutFile(l) == Created(l, Null, TRUE) /\ UNCHANGED opened

CreateStandard(l) ==
  \E s \in Standard : Created(l, s, FALSE) /\ UNCHANGED opened

CreateFile(l) ==
  \E s \in Stream \ opened : Created(l, s, TRUE) /\ opened' = opened \cup {s}

\* The file cannot be opened: stderr takes its place.
CreateFails(l) == Created(l, Stderr, FALSE) /\ UNCHANGED opened

\* Where lg_log and lg_errno write: to stderr when the log has no file.
Target(l) == IF file[l] = Null THEN Stderr ELSE file[l]

\* Mutants: the stream is closed in any case, and in none.
ClosesAlways(l) == TRUE
ClosesNever(l) == FALSE

\* Does lg_destroy close the stream?
Closes(l) == close[l]

Destroy(l) ==
  /\ l \in live
  /\ Closes(l) => file[l] # Null
  /\ live' = live \ {l}
  /\ opened' = IF Closes(l) THEN opened \ {file[l]} ELSE opened
  /\ UNCHANGED <<file, close, died>>

\* fclose(0): the program dies, and is started again.
DestroyDies(l) ==
  /\ l \in live
  /\ Closes(l) /\ file[l] = Null
  /\ live' = {} /\ opened' = Standard
  /\ died' = TRUE
  /\ UNCHANGED <<file, close>>

Next == \E l \in Log :
  \/ CreateWithoutFile(l) \/ CreateStandard(l) \/ CreateFile(l) \/ CreateFails(l)
  \/ Destroy(l) \/ DestroyDies(l)

Spec == Init /\ [][Next]_vars

-----------------------------------------------------------------------------
(* Properties.                                                             *)

\* A log can be written to for as long as it lives: the destruction of another
\* log never closes the stream that they share.
WritableWhileLive == \A l \in live : Target(l) \in opened

\* Every stream that fopen has opened is that of one live log, which will close
\* it; none is left open when the logs are gone.
StreamsOwned ==
  \A s \in opened \ Standard :
    \E l \in live : /\ file[l] = s /\ close[l]
                    /\ \A k \in live \ {l} : file[k] # s

(* What the documents say, and the code does not do.                       *)

\* A log without a file can be created and destroyed like any other.
NeverDies == ~died

=============================================================================
