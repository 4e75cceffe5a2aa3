------------------------------ MODULE TimeVal ------------------------------
(***************************************************************************)
(* struct timeval, as multi-gee/tv_util.h and examples/mg-tweak.c compute   *)
(* with it.                                                                *)
(*                                                                         *)
(* The number of frames that frame_time is given is a float, f.  Here it is *)
(* the time of these frames in whole microseconds, FRAME * f towards zero,  *)
(* which is all that the code goes on with: the float 0.7f is a little less *)
(* than 0.7, and stands for 27999 microseconds.  The percentage is a float  *)
(* too, and here a whole number that is scaled exactly: single precision    *)
(* rounds the percentages of the instances up, and truncation hides that;   *)
(* of one that it rounds down, such as 1, a microsecond more may be lost.   *)
(***************************************************************************)
EXTENDS Integers

Second == 1000000
FRAME == 40000

Timeval(s, u) == [sec |-> s, usec |-> u]

\* The value in microseconds, which the C code never forms.
Micro(tv) == tv.sec * Second + tv.usec

\* timeradd and timersub of sys/time.h, and timerclear.
timeradd(a, b) ==
  LET u == a.usec + b.usec IN
  IF u >= Second THEN Timeval(a.sec + b.sec + 1, u - Second)
                 ELSE Timeval(a.sec + b.sec, u)
timersub(a, b) ==
  LET u == a.usec - b.usec IN
  IF u < 0 THEN Timeval(a.sec - b.sec - 1, u + Second)
           ELSE Timeval(a.sec - b.sec, u)
Cleared == Timeval(0, 0)

Timevals == [sec : Int, usec : Int]

\* timernorm: two loops that borrow or carry one second each time round.  The
\* second leaves a whole second in the microseconds where it is.
borrowed[tv \in Timevals] ==
  IF tv.usec < 0 THEN borrowed[timersub(tv, Cleared)] ELSE tv
carried[tv \in Timevals] ==
  IF tv.usec > Second THEN carried[timeradd(tv, Cleared)] ELSE tv
timernorm(tv) == carried[borrowed[tv]]

\* C's conversion of k * (1 + p / 100) to an integer, towards zero.
Scaled(k, p) ==
  LET m == k * (100 + p) IN IF m < 0 THEN -((-m) \div 100) ELSE m \div 100

\* Whole frames are added up one by one.
summed[k \in Nat] ==
  IF k = 0 THEN Cleared ELSE timeradd(summed[k - 1], Timeval(0, FRAME))

\* frame_time, for the frames that take f microseconds: the whole frames, and
\* then the fraction; seconds and microseconds are each enlarged by p per cent,
\* and each truncated.
frame_time(f, p) ==
  LET abs == IF f < 0 THEN -f ELSE f
      tv == timeradd(summed[abs \div FRAME], Timeval(0, abs % FRAME))
      larger == Timeval(Scaled(tv.sec, p), Scaled(tv.usec, p))
  IN timernorm(IF f < 0 THEN Timeval(-larger.sec, -larger.usec) ELSE larger)

\* What print_tv shows: a sign, the text before the point and the digits after
\* it.  Below -1 second, the text is two seconds away from the value.
Shown(tv) ==
  CASE tv.sec = -1 -> [minus |-> TRUE, sec |-> 0, usec |-> Second - tv.usec]
    [] tv.sec < -1 ->
         [minus |-> TRUE, sec |-> 1 - tv.sec, usec |-> Second - tv.usec]
    [] OTHER       -> [minus |-> FALSE, sec |-> tv.sec, usec |-> tv.usec]

=============================================================================
