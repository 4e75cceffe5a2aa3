----------------------------- MODULE MCMultiGee -----------------------------
(***************************************************************************)
(* Small instances of MultiGee for TLC.                                    *)
(***************************************************************************)
EXTENDS MultiGee, TLC

\* The devices are interchangeable, and so are the buffers: no definition of
\* MultiGee or V4L2 tells one from another.
Symmetry == Permutations(Dev) \cup Permutations(Buf)

TwoFds == {3, 4}

\* For a fixed number of sets, for no set, and until further notice.
AllRequests == {-1, 0, 1, 2}
=============================================================================
