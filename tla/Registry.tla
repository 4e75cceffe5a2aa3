------------------------------ MODULE Registry ------------------------------
(***************************************************************************)
(* What mg_register_device and mg_deregister_device promise, without how    *)
(* they do it: a table of devices and their identifiers.  No device is in   *)
(* the table twice, no two devices have the same identifier, and a device   *)
(* keeps its identifier for as long as it is registered; a free identifier  *)
(* may become that of another device.                                       *)
(*                                                                         *)
(* The answer to a call is the identifier of the device that it is about,   *)
(* as multi-gee/multi-gee.h says (lines 166 and 193).  doc/api.txt:235-237  *)
(* says otherwise of a deregistration: that it answers with the number of   *)
(* devices that remain registered, which the code does not.                 *)
(***************************************************************************)
EXTENDS Integers

CONSTANTS
  Dev,     \* the video devices
  NoDev,   \* no device: what the program names does not exist
  Id,      \* the identifiers
  NoCall   \* no call is in progress

VARIABLES
  id,      \* identifier of every registered device
  call,    \* the call in progress
  answer   \* answer to the last call

vars == <<id, call, answer>>

Ids == {id[d] : d \in DOMAIN id}

\* An identifier that the program asks for may be any number.
Calls == [op : {"register"}, dev : Dev \cup {NoDev}]
         \cup [op : {"deregister"}, dev : {NoDev}, id : Int]

Init == /\ id = [d \in {} |-> 0]
        /\ call = NoCall
        /\ answer = -1

Call == /\ call = NoCall
        /\ call' \in Calls
        /\ UNCHANGED <<id, answer>>

Answer(a) == answer' = a /\ call' = NoCall

\* The device joins the table under a free identifier.
Register ==
  \E d \in Dev, f \in Id :
    /\ call = [op |-> "register", dev |-> d]
    /\ d \notin DOMAIN id /\ f \notin Ids
    /\ id' = [e \in DOMAIN id \cup {d} |-> IF e = d THEN f ELSE id[e]]
    /\ Answer(f)

\* The device is registered already, under this or another name.
Again ==
  \E d \in DOMAIN id :
    /\ call = [op |-> "register", dev |-> d]
    /\ Answer(id[d])
    /\ UNCHANGED id

Deregister ==
  \E d \in DOMAIN id :
    /\ call = [op |-> "deregister", dev |-> NoDev, id |-> id[d]]
    /\ id' = [e \in DOMAIN id \ {d} |-> id[e]]
    /\ Answer(id[d])

\* A registration may fail; a deregistration fails for want of the device only.
Refuse ==
  /\ \/ call \in [op : {"register"}, dev : Dev \cup {NoDev}]
     \/ /\ call \in [op : {"deregister"}, dev : {NoDev}, id : Int]
        /\ call.id \notin Ids
  /\ Answer(-1)
  /\ UNCHANGED id

Next == Call \/ Register \/ Again \/ Deregister \/ Refuse

Spec == Init /\ [][Next]_vars

=============================================================================
