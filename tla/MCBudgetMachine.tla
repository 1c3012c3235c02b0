-------------------------- MODULE MCBudgetMachine --------------------------
(* Programs for TLC: hand-made ones, and every small loop, in main and in a *)
(* routine.                                                                 *)
EXTENDS BudgetMachine

Push1  == Operation("plain", 0, 1)
Pop1   == Operation("plain", 1, 0)
Err    == Operation("err", 0, 0)
Ret    == Operation("return", 1, 0)
Retsub == Operation("retsub", 0, 0)
CallTo(b)     == [Operation("callsub", 0, 0) EXCEPT !.to = b]
Goto(b)       == [Operation("b", 0, 0) EXCEPT !.to = b]
IfGoto(b)     == [Operation("bnz", 1, 0) EXCEPT !.to = b]
ProtoOf(a, r) == [Operation("proto", 0, 0) EXCEPT !.imm = a, !.rets = r]

\* Dear operations, one that depends on the length of its operand, one whose charge
\* is unknown.
Hash    == Operation("plain", 1, 1)
Sized   == Operation("plain", 2, 2)
Strange == Operation("plain", 2, 1)

OpCostTable(o) ==
    CASE o = Hash    -> Cost(3, 3)
      [] o = Sized   -> Cost(1, 2)
      [] o = Strange -> Cost(1, Unbounded)
      [] OTHER       -> Cost(1, 1)

\* A routine called twice, with a dear and a cheap way through it.
TwoCalls ==
    <<<<Push1, CallTo(4)>>,
      <<Push1, CallTo(4)>>,
      <<Push1, Ret>>,
      <<ProtoOf(1, 0), Push1, IfGoto(6)>>,
      <<Push1, Push1, Sized, Push1, Hash>>,
      <<Retsub>>>>

\* A loop that calls a routine.
CallingLoop ==
    <<<<Push1, CallTo(3)>>,
      <<IfGoto(1)>>,
      <<Push1, IfGoto(5)>>,
      <<Push1, Hash, Retsub>>,
      <<Push1, Retsub>>>>

\* Two routines that call each other, with a loop in one of them.
Mutual ==
    <<<<CallTo(3)>>,
      <<Push1, Ret>>,
      <<Push1, IfGoto(6)>>,
      <<CallTo(7)>>,
      <<Push1, IfGoto(3)>>,
      <<Retsub>>,
      <<Push1, IfGoto(9)>>,
      <<CallTo(3)>>,
      <<Retsub>>>>

\* A loop with two entries.
TwoEntries ==
    <<<<Push1, IfGoto(3)>>,
      <<Push1, Push1>>,
      <<Push1, IfGoto(2)>>,
      <<Ret>>>>

\* The same, one entry behind a long way and the other dear.
DearEntry ==
    <<<<Push1, IfGoto(4)>>,
      <<Push1, Hash, Hash, Pop1>>,
      <<Goto(5)>>,
      <<Push1, Hash, Hash, Hash, Pop1>>,
      <<Push1, IfGoto(4)>>,
      <<Err>>>>

\* A nested loop that empties what the outer one pushes.
Emptying ==
    <<<<Goto(2)>>,
      <<Push1, Push1, Push1, Push1>>,
      <<IfGoto(3)>>,
      <<Goto(2)>>>>

\* A routine that ends in another.
TailJump ==
    <<<<Push1, CallTo(5)>>,
      <<Push1, CallTo(8)>>,
      <<Push1, IfGoto(1)>>,
      <<Err>>,
      <<Push1, IfGoto(8)>>,
      <<Push1, Hash, Hash, Hash>>,
      <<Retsub>>,
      <<Retsub>>>>

\* A call that comes back to where its own routine starts.
FallsIntoEntry ==
    <<<<Push1, CallTo(4)>>,
      <<Push1, Ret>>,
      <<CallTo(6)>>,
      <<Push1, IfGoto(3)>>,
      <<Retsub>>,
      <<Retsub>>>>

TailJumps == {TailJump}

HandMade == {TwoCalls, CallingLoop, Mutual, TwoEntries, DearEntry, Emptying, TailJump,
             FallsIntoEntry}

\* Every loop of three branches.
Turns == {<<Push1>>, <<Push1, Hash>>, <<Push1, Push1>>, <<>>}

Small(x, y, z, i, j, k) ==
    <<Append(x, IfGoto(i)), Append(y, IfGoto(j)), Append(z, IfGoto(k)), <<Err>>>>

SmallLoops == {Small(x, y, z, i, j, k) : x \in Turns, y \in Turns, z \in Turns,
                                         i \in 1..4, j \in 1..4, k \in 1..4}

AllPrograms == HandMade \union SmallLoops

=============================================================================
