-------------------------------- MODULE V4L2 --------------------------------
(***************************************************************************)
(* The buffer queue of one streaming video4linux2 device, seen through the *)
(* ioctls that multi-gee/fg_util.c issues.  The driver is not part of the  *)
(* library: it is a concurrent actor, and what is stated here is what      *)
(* fg_util.c relies on.                                                    *)
(*                                                                         *)
(* A memory mapped buffer is with the process ("app": dequeued, or never   *)
(* queued), with the driver and empty ("queued"), or with the driver and   *)
(* holding a captured image that waits for VIDIOC_DQBUF ("done").  The     *)
(* contents of an image are abstracted to its capture time `ts'.           *)
(***************************************************************************)
EXTENDS Naturals

CONSTANT Buf            \* the memory mapped buffers of a device

Place == {"app", "queued", "done"}
Queue == [Buf -> [at : Place, ts : Nat]]

Empty(place) == [at |-> place, ts |-> 0]

\* A device that is not open: no buffer is with the driver.
Closed == [b \in Buf |-> Empty("app")]

\* VIDIOC_STREAMON at time t, after the buffers Q have been queued.  The first
\* image takes a frame period: the time of the start counts as that of an image.
Started(Q, t) ==
  [b \in Buf |-> IF b \in Q THEN [at |-> "queued", ts |-> t] ELSE Empty("app")]

App(q)  == {b \in Buf : q[b].at = "app"}
Done(q) == {b \in Buf : q[b].at = "done"}

\* select() reports the descriptor of the device readable.
Readable(q) == Done(q) # {}

\* Images are handed out in the order in which they were captured.
Oldest(q, b) == /\ b \in Done(q)
                /\ \A c \in Done(q) : q[b].ts <= q[c].ts

\* VIDIOC_DQBUF of buffer b, and VIDIOC_QBUF of buffer b.
Dequeued(q, b) == [q EXCEPT ![b].at = "app"]
Enqueued(q, b) == [q EXCEPT ![b] = Empty("queued")]

\* The hardware completes an image at time t.  A camera has one exposure per
\* frame period, which is longer than the unit of time, hence no two images of
\* a device carry the same time stamp.
CanFill(q, b, t) == /\ q[b].at = "queued"
                    /\ \A c \in Buf : q[c].ts # t
Filled(q, b, t)  == [q EXCEPT ![b] = [at |-> "done", ts |-> t]]
=============================================================================
