------------------------------ MODULE SelfTest ------------------------------
(***************************************************************************)
(* The library with the program at the end of multi-gee/multi-gee.c that    *)
(* tests it: MultiGee, with the calls of that program for its user.  Its    *)
(* callback exchanges one device for another in the middle of a capture,    *)
(* as doc/api.txt allows.                                                   *)
(***************************************************************************)
EXTENDS MultiGee, Sequences

CONSTANTS
  Base,     \* the devices that are registered at the start, in their order
  Extra,    \* the two devices that the callback exchanges
  Sets,     \* sets for each capture (5)
  Captures  \* captures for each object (5)

VARIABLES
  step,     \* where the program is
  k,        \* its loop variable
  dev_id,   \* static in process_images: identifier of the device to replace
  flag      \* static in process_images: which one is next

program == <<step, k, dev_id, flag>>

ProgramInit == /\ step = "create" /\ k = 0
               /\ dev_id = -1 /\ flag = TRUE

-----------------------------------------------------------------------------
(* multi_gee().                                                            *)

Create == /\ step = "create" /\ step' = "callback"
          /\ MgCreate
          /\ UNCHANGED <<k, dev_id, flag>>

SetCallback == /\ step = "callback" /\ step' = "register"
               /\ MgRegisterCallback
               /\ k' = 0
               /\ UNCHANGED <<dev_id, flag>>

\* register_device, which may fail, and whose answer is not looked at.
RegisterBase == /\ step = "register" /\ k < Len(Base)
                /\ MgRegisterDevice(Base[k + 1]) \/ UNCHANGED vars
                /\ k' = k + 1
                /\ UNCHANGED <<step, dev_id, flag>>

Capture == /\ \/ step = "register" /\ k = Len(Base) /\ k' = 0
              \/ step = "capturing" /\ k + 1 < Captures /\ k' = k + 1
           /\ step' = "capturing"
           /\ MgCapture(Sets)
           /\ UNCHANGED <<dev_id, flag>>

\* main makes one object after the other; the static variables stay.
Destroy == /\ step = "capturing" /\ k + 1 = Captures
           /\ step' = "create"
           /\ MgDestroy
           /\ UNCHANGED <<k, dev_id, flag>>

-----------------------------------------------------------------------------
(* process_images.                                                         *)

InCallback == step = "capturing" /\ pc = "callback"

\* mg_deregister_device of what may be no device any more.
ReplaceOld ==
  /\ InCallback /\ step' = "replacing"
  /\ \/ \E d \in device : fd[d] = dev_id /\ MgDeregisterDevice(d)
     \/ (\A d \in device : fd[d] # dev_id) /\ UNCHANGED vars
  /\ UNCHANGED <<k, dev_id, flag>>

\* The next device is registered, unless it is already or cannot be.
ReplaceNew ==
  /\ step = "replacing" /\ step' = "replaced"
  /\ LET d == Extra[IF flag THEN 1 ELSE 2] IN
       \/ MgRegisterDevice(d) /\ dev_id' = fd'[d]
       \/ dev_id' = (IF d \in device THEN fd[d] ELSE -1) /\ UNCHANGED vars
  /\ flag' = ~flag
  /\ UNCHANGED k

Leave == /\ step = "replaced" /\ step' = "capturing"
         /\ CallbackReturns
         /\ UNCHANGED <<k, dev_id, flag>>

-----------------------------------------------------------------------------
\* The callback has returned, and what the loop reads from a freed list node
\* ends the program, which may be run again.
Dies == /\ step = "replaced" /\ step' = "create"
        /\ ProgramDies
        /\ k' = 0
        /\ dev_id' = -1 /\ flag' = TRUE

Program == \/ Create \/ SetCallback \/ RegisterBase \/ Capture \/ Destroy
           \/ ReplaceOld \/ ReplaceNew \/ Leave

SelfTestInit == Init /\ ProgramInit

SelfTestNext == \/ Program \/ Dies
                \/ (World \/ EndOfTime) /\ UNCHANGED program
                \/ pc # "callback" /\ Library /\ UNCHANGED program

SelfTestSpec == SelfTestInit /\ [][SelfTestNext]_<<vars, program>>

=============================================================================
