--------------------------- MODULE MCStackMachine ---------------------------
(* Programs for TLC: hand-made ones, one per heuristic of construction.     *)
EXTENDS StackMachine

Push1  == Operation("plain", 0, 1)
Add    == Operation("plain", 2, 1)
AddW   == Operation("plain", 2, 2)
Pop1   == Operation("plain", 1, 0)
Ret    == Operation("return", 1, 0)
Err    == Operation("err", 0, 0)
Retsub == Operation("retsub", 0, 0)

FrameAt(n)       == [Operation("frame_dig", 0, 1) EXCEPT !.imm = n]
FrameSet(n)      == [Operation("frame_bury", 1, 0) EXCEPT !.imm = n]
ProtoOf(a, r)    == [Operation("proto", 0, 0) EXCEPT !.imm = a, !.rets = r]
CallTo(b)        == [Operation("callsub", 0, 0) EXCEPT !.to = b]
Goto(b)          == [Operation("b", 0, 0) EXCEPT !.to = b]
IfGoto(b)        == [Operation("bnz", 1, 0) EXCEPT !.to = b]

\* Arguments and a result through the frame, from two call sites.
TwoCalls ==
    <<<<Push1, Push1, CallTo(4)>>,
      <<Push1, CallTo(4)>>,
      <<Add, Ret>>,
      <<ProtoOf(1, 1), FrameAt(-1), Push1, Add, FrameSet(-1), FrameAt(-1), Retsub>>>>

\* Recursion: the result of the inner call is not known when it is walked.
Recursive ==
    <<<<Push1, CallTo(3)>>,
      <<Ret>>,
      <<ProtoOf(1, 1), FrameAt(-1), IfGoto(6)>>,
      <<Push1, CallTo(3)>>,
      <<Add, Retsub>>,
      <<Push1, Retsub>>>>

\* A routine without proto that takes what is on the stack.
Legacy ==
    <<<<Push1, Push1, CallTo(4)>>,
      <<Push1, CallTo(4)>>,
      <<Ret>>,
      <<Add, Dup, IfGoto(6)>>,
      <<Retsub>>,
      <<Pop1, Push1, Retsub>>>>

\* Its two returns leave different heights.
Divergent ==
    <<<<Push1, Push1, Push1, CallTo(3)>>,
      <<Add, Ret>>,
      <<IfGoto(5)>>,
      <<Push1, Push1, Retsub>>,
      <<Retsub>>>>

\* proto names one argument; cover reaches the caller's cells.
Dipping ==
    <<<<Push1, Push1, Push1, CallTo(3)>>,
      <<Pop1, Add, Ret>>,
      <<ProtoOf(1, 1), Push1, Cover(2), Dup, IfGoto(5)>>,
      <<Retsub>>,
      <<Pop1, Push1, Cover(2), Retsub>>>>

\* The same in a loop, which has no summary.
DippingLoop ==
    <<<<Push1, Push1, Push1, CallTo(3)>>,
      <<Pop1, Add, Ret>>,
      <<ProtoOf(1, 1)>>,
      <<Swap, Dup, IfGoto(4)>>,
      <<Push1, Retsub>>>>

\* Calls of routines that never return: after one comes another block of main, after
\* the other a block of the routine called.
Interleaved ==
    <<<<Push1, IfGoto(4)>>,
      <<CallTo(8)>>,
      <<Err>>,
      <<CallTo(10)>>,
      <<CallTo(6)>>,
      <<Push1, IfGoto(7)>>,
      <<Err>>,
      <<Push1, IfGoto(9)>>,
      <<Err>>,
      <<Push1, IfGoto(12)>>,
      <<Retsub>>,
      <<Retsub>>>>

\* After such a call comes a block of a routine that does return.
TailAhead ==
    <<<<Goto(4)>>,
      <<Push1, IfGoto(6)>>,
      <<Retsub>>,
      <<CallTo(2)>>,
      <<CallTo(7)>>,
      <<Retsub>>,
      <<Err>>>>

\* Main joins two heights.
Uneven ==
    <<<<Push1, Push1, IfGoto(3)>>,
      <<Push1>>,
      <<Dup, Add, Dup, IfGoto(5)>>,
      <<Push1>>,
      <<Ret>>>>

\* Loops that carry a value, push on every lap, and pop on every lap.
Loops ==
    <<<<Push1, Push1>>,
      <<Push1, Add, Dup, IfGoto(2)>>,
      <<Push1, Dup, IfGoto(3)>>,
      <<Add, Dup, IfGoto(4)>>,
      <<Ret>>>>

\* A caller of a routine that reaches below its own cells.
DippingCaller ==
    <<<<Push1, Push1, Push1, CallTo(3)>>,
      <<Add, Ret>>,
      <<ProtoOf(1, 1), CallTo(5)>>,
      <<Push1, Retsub>>,
      <<ProtoOf(0, 0), Push1, Cover(3), Retsub>>>>

\* A routine without proto whose loop begins at its entry.
EntryLoop ==
    <<<<Push1, CallTo(3)>>,
      <<Ret>>,
      <<Push1, Add, Dup, IfGoto(3)>>,
      <<Retsub>>>>

\* A slot read and then written in a loop that pushes on every lap, and returned.
FrameLoop ==
    <<<<Push1, CallTo(3)>>,
      <<Ret>>,
      <<ProtoOf(1, 1), Push1>>,
      <<FrameAt(0), FrameAt(-1), Add, FrameSet(0), Push1, Push1, IfGoto(4)>>,
      <<Retsub>>>>

\* A return two heights lead to, and each brings a result of its own.
UnevenReturn ==
    <<<<Push1, CallTo(3)>>,
      <<Ret>>,
      <<ProtoOf(1, 1), Push1, Push1, IfGoto(5)>>,
      <<Push1, FrameSet(0), Push1>>,
      <<Retsub>>>>

\* The same in a recursive routine.
RecursiveReturn ==
    <<<<Push1, CallTo(3)>>,
      <<Ret>>,
      <<ProtoOf(1, 1), Push1, FrameAt(-1), IfGoto(6)>>,
      <<FrameAt(-1), CallTo(3)>>,
      <<FrameSet(0), Push1>>,
      <<Retsub>>>>

\* A join of two heights behind another, with a read in each.
TwoJoins ==
    <<<<Push1, CallTo(3)>>,
      <<Ret>>,
      <<ProtoOf(1, 1), Push1, Push1, IfGoto(7)>>,
      <<Push1, IfGoto(6)>>,
      <<Push1>>,
      <<FrameAt(-1), Pop1>>,
      <<FrameAt(-1), FrameSet(0), Retsub>>>>

\* Two writes of a slot in a loop, one on every lap, the other on some.
TwoWrites ==
    <<<<Push1, CallTo(3)>>,
      <<Add, Ret>>,
      <<ProtoOf(0, 1), Push1>>,
      <<FrameAt(0), Pop1, Push1, FrameSet(0), Push1, IfGoto(6)>>,
      <<Push1, FrameSet(0), Goto(4)>>,
      <<Push1, Push1, IfGoto(4)>>,
      <<Retsub>>>>

\* A call that comes back to where its own routine starts.
FallsIntoEntry ==
    <<<<Push1, CallTo(6)>>,
      <<Push1, CallTo(7)>>,
      <<Push1, Ret>>,
      <<Push1, IfGoto(9)>>,
      <<CallTo(10)>>,
      <<Goto(4)>>,
      <<Push1, IfGoto(8)>>,
      <<Retsub>>,
      <<Retsub>>,
      <<Retsub>>>>

\* Both outputs of one operation, in main and as the results of a routine.
TwoOutputs ==
    <<<<Push1, Push1, AddW, Swap, CallTo(3)>>,
      <<Swap, Pop1, AddW, Add, Ret>>,
      <<ProtoOf(1, 2), FrameAt(-1), Dup, AddW, Retsub>>>>

\* They are made of a cell of the caller and consumed, or in a loop: without summary.
WideConsumed ==
    <<<<Push1, Push1, Push1, CallTo(3)>>,
      <<Add, Ret>>,
      <<ProtoOf(1, 0), AddW, Add, Push1, Retsub>>>>

WideLoop ==
    <<<<Push1, Push1, Push1, CallTo(3)>>,
      <<Add, Ret>>,
      <<ProtoOf(1, 0)>>,
      <<AddW, Dup, IfGoto(4)>>,
      <<Retsub>>>>

\* They are left in place of the argument and the cell under it.
WideLeft ==
    <<<<Push1, Push1, Push1, CallTo(3)>>,
      <<Add, Ret>>,
      <<ProtoOf(1, 0), AddW, Retsub>>>>

\* They are left under the argument on one path, and exchanged there on the other.
WideOrSwapped ==
    <<<<Push1, Push1, Push1, CallTo(3)>>,
      <<Add, Ret>>,
      <<ProtoOf(1, 0), Cover(2), AddW, Push1, IfGoto(5)>>,
      <<Uncover(2), Retsub>>,
      <<Swap, Uncover(2), Retsub>>>>

WidePrograms == {WideLeft, WideOrSwapped}
LoopPrograms == {Loops, EntryLoop}
SlotPrograms == {FrameLoop, TwoWrites}

HandMade == {TwoCalls, Recursive, Legacy, Divergent, Dipping, DippingLoop, Interleaved,
             TailAhead, Uneven, Loops, DippingCaller, FrameLoop, UnevenReturn, RecursiveReturn,
             TwoJoins, FallsIntoEntry, TwoOutputs, WideConsumed, WideLoop} \union WidePrograms

\* Every routine of one branch over few operations, joining or looping back.
Heads   == {<<ProtoOf(1, 1)>>, <<ProtoOf(0, 0)>>, <<>>}
Middles == {Push1, Add, Dup, Cover(2), FrameAt(-1), FrameSet(-1)}

Short(head, x, y, z, target) ==
    <<<<Push1, Push1, Push1, CallTo(3)>>,
      <<Add, Ret>>,
      Append(head, x),
      <<y, Dup, IfGoto(target)>>,
      <<z>>,
      <<Retsub>>>>

ShortRoutines ==
    {Short(head, x, y, z, target) :
        head \in Heads, x \in Middles, y \in Middles, z \in {Push1, Pop1}, target \in {4, 6}}

\* Every routine that reads and writes its slots in a loop of one branch, which pushes
\* on every lap.
Read(n)  == <<FrameAt(n), Pop1>>
Write(n) == <<Push1, FrameSet(n)>>
Accesses == {Read(-1), Read(0), Write(-1), Write(0)}

SlotLoop(x, y, z, w) ==
    <<<<Push1, CallTo(3)>>,
      <<Ret>>,
      <<ProtoOf(1, 1), Push1>>,
      x \o y \o <<Push1, IfGoto(6)>>,
      z \o <<Goto(4)>>,
      w \o <<Push1, Push1, IfGoto(4)>>,
      <<Retsub>>>>

SlotLoops ==
    {SlotLoop(x, y, z, w) : x \in Accesses, y \in Accesses, z \in Accesses, w \in {Read(0), Write(0)}}

AllPrograms == HandMade \union ShortRoutines \union SlotLoops

=============================================================================
