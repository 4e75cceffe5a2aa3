--------------------------- MODULE MCTweakCheck ---------------------------
EXTENDS TweakCheck, TLC

Number(o, k) == [opt |-> o, arg |-> k]
Flag(o) == [opt |-> o, arg |-> 0]
Cmd(o) == [options |-> o, operands |-> FALSE]

\* -d, -c and -n, and then what else.
Small(d, c, n, more) ==
  Cmd(<<Number("d", d), Number("c", c), Number("n", n)>> \o more)

Working == {
  Small(1, 2, 1, <<>>),
  Small(2, 1, 2, <<>>),
  Small(3, 1, 1, <<Number("m", 1)>>),                     \* master in the range
  Small(2, 1, 1, <<Number("m", 1), Number("S", 1)>>),     \* first of the range
  Small(2, 1, 1, <<Number("m", 0), Number("S", 2)>>),     \* outside it
  Small(2, 1, 1, <<Number("S", 9)>>),                     \* one digit and two
  Small(1, 1, -1, <<Number("b", 2)>>),                    \* until interrupted
  Small(1, 2, 0, <<>>),                                   \* no sets
  Small(1, 0, 1, <<>>),                                   \* no captures
  Small(1, 2, 1, <<Flag("v")>>),
  [options |-> Small(1, 1, 1, <<>>).options, operands |-> TRUE]}

Criteria == {
  Cmd(<<Number("o", 10 * FRAME), Number("i", -(FRAME \div 4)), Number("p", 10),
        Number("d", 0)>>)}

Rejected == {Small(7, 1, 1, <<>>), Small(0, 1, 1, <<>>), Cmd(<<Flag("h")>>),
             Cmd(<<Number("b", 1)>>), Cmd(<<Number("s", Bad)>>),
             Cmd(<<Number("o", Bad)>>)}

AllLines == Working \cup Criteria \cup Rejected

\* All the numbers are devices, one is missing, two of them mean the same, or
\* one has two digits.
AllMachines == {0 :> 4 @@ 1 :> 5 @@ 2 :> 6 @@ 3 :> 7,
                0 :> 4 @@ 2 :> 6,
                0 :> 4 @@ 1 :> 4 @@ 2 :> 6,
                9 :> 4 @@ 10 :> 5}

\* Images of this second and of the one before, one of them over a second old.
OneMoment == {Timeval(10, 5000)}
TwoStamps == {Timeval(10, 1000), Timeval(8, 999000)}

\* A percentage between the criteria: it comes too late for the one, of which
\* truncation would take nothing, and is in time for the other.
PercentBetween == {Cmd(<<Number("i", FRAME), Number("p", 10),
                         Number("o", 25 * FRAME)>>)}
=============================================================================
