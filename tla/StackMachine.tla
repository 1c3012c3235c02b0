---------------------------- MODULE StackMachine ----------------------------
(***************************************************************************)
(* SSA construction composed with the AVM.  The machine runs the program   *)
(* that was analysed.  It is not part of the repository: it is modelled    *)
(* from what ssa/stacksim.py, ssa/frame_slots.py and cfg/subroutines.py    *)
(* rely on (callsub pushes a frame, proto names its arguments and results, *)
(* retsub of a proto'd routine truncates the stack to them, frame          *)
(* operations index from the height at the call).                          *)
(*                                                                         *)
(* A cell is the set of the names the SSA may give the value in it: the    *)
(* output that computed it, and every shuffle output that copied it since. *)
(***************************************************************************)
EXTENDS StackSim

CONSTANTS
    MaxFrames,      \* bound on the depth of the call stack
    MaxStack        \* bound on the height of the stack

ASSUME BoundsAreNat == MaxFrames \in Nat /\ MaxStack \in Nat

VARIABLES
    at,         \* block and operation about to execute
    stack,      \* cells, bottom first
    frames      \* the calls in progress, innermost last

machine == <<at, stack, frames>>
vars    == <<program, analysis, machine>>

-----------------------------------------------------------------------------
(* The machine.                                                            *)

Cur    == prog[at[1]][at[2]]
Height == Len(stack)
Frame  == Last(frames)

\* The position the operation names from the height at the call, from 0.
Index == Len(Frame.before) + Cur.imm

\* proto keeps its routine from reaching under the arguments.
Named == /\ frames # <<>>
         /\ Frame.proto # <<>> => Frame.proto[1] + Cur.imm >= 0
         /\ Index >= 0

Enough(n) == n <= Height

\* The mark of a cell written by a frame_bury the walk cannot place: until it is copied
\* only frame operations can tell what is in it.
Buried == Var(0, 0, 0)
Placed == ~Poisoned(at[1]) /\ at \notin ssa.unresolved

\* The cells of a shuffle or a frame_dig, each under its new name too.
Renamed(cells) == [k \in DOMAIN cells |-> (cells[k] \ {Buried}) \union {Var(at[1], at[2], k)}]
Computed       == [k \in 1..Cur.pushes |-> {Var(at[1], at[2], k)}]

GoTo(b) == at' = <<b, 1>>

Advance == IF at[2] < Len(prog[at[1]]) THEN at' = <<at[1], at[2] + 1>>
           ELSE \E b \in Following(at[1]) : GoTo(b)

Compute ==
    /\ Cur.op \in {"plain", "shuffle"}
    /\ Enough(Cur.pops)
    /\ Height + Cur.pushes - Cur.pops <= MaxStack
    /\ LET taken == Top(stack, Cur.pops)
           left  == IF Cur.op = "shuffle" THEN Renamed([k \in DOMAIN Cur.perm |-> taken[Cur.perm[k]]])
                    ELSE Computed
       IN stack' = Under(stack, Cur.pops) \o Reverse(left)
    /\ Advance
    /\ UNCHANGED frames

Enter ==
    /\ Cur.op = "proto"
    /\ frames # <<>>
    /\ Frame.proto = <<>>
    /\ Enough(Cur.imm)
    /\ frames' = [frames EXCEPT ![Len(frames)].proto = <<Cur.imm, Cur.rets>>]
    /\ Advance
    /\ UNCHANGED stack

FrameDig ==
    /\ Cur.op = "frame_dig"
    /\ Named
    /\ Index < Height
    /\ Height < MaxStack
    /\ stack' = stack \o Renamed(<<stack[Index + 1]>>)
    /\ Advance
    /\ UNCHANGED frames

FrameBury ==
    /\ Cur.op = "frame_bury"
    /\ Named
    /\ Index < Height - 1
    /\ stack' = Under([stack EXCEPT ![Index + 1] =
                          Last(stack) \union (IF Placed THEN {} ELSE {Buried})], 1)
    /\ Advance
    /\ UNCHANGED frames

Jump ==
    /\ Cur.op = "b"
    /\ GoTo(Cur.to)
    /\ UNCHANGED <<stack, frames>>

Branch ==
    /\ Cur.op = "bnz"
    /\ Enough(1)
    /\ stack' = Under(stack, 1)
    /\ \E b \in Flow(at[1]) : GoTo(b)
    /\ UNCHANGED frames

\* The frame keeps the stack before the call.
Call ==
    /\ Cur.op = "callsub"
    /\ Len(frames) < MaxFrames
    /\ frames' = Append(frames, [call |-> at[1], before |-> stack, proto |-> <<>>])
    /\ GoTo(Cur.to)
    /\ UNCHANGED stack

\* What a return leaves: proto's results in place of its arguments, or all of it.
Truncated ==
    LET h == Len(Frame.before) IN
    IF Frame.proto = <<>> THEN {stack}
    ELSE IF Enough(h + Frame.proto[2])
    THEN {SubSeq(stack, 1, h - Frame.proto[1])
              \o [j \in 1..Frame.proto[2] |-> stack[h + j] \ {Buried}]}
    ELSE {}

Return ==
    /\ Cur.op = "retsub"
    /\ frames # <<>>
    /\ stack' \in Truncated
    /\ \E b \in Following(Frame.call) : GoTo(b)
    /\ frames' = Front(frames)

InitMachine ==
    /\ at = <<1, 1>>
    /\ stack = <<>>
    /\ frames = <<>>

\* Where no action is enabled the program has ended, or the machine rejects it.
Operate ==
    /\ phase = "built"
    /\ \/ Compute \/ Enter \/ FrameDig \/ FrameBury \/ Jump \/ Branch \/ Call \/ Return
    /\ UNCHANGED <<program, analysis>>

Init == InitBuild /\ InitMachine
Next == (Build /\ UNCHANGED machine) \/ Operate
Spec == Init /\ [][Next]_vars


-----------------------------------------------------------------------------
(* The programs construction is right about.                               *)

\* No two routines share a block.
Separate == \A e, f \in {1} \union Entries : e = f \/ Extent(e) \cap Extent(f) = {}

\* A routine without proto is entered by calls alone, and each of its blocks at one
\* height above it.
Plainly(s) ==
    LET Leave(b, d) == Effect(b, d, arity).at
        depth == FirstHeights(s :> 0, LAMBDA b, d : LocalFlow(b), Leave)
    IN /\ Predecessors(s) \subseteq Callsubs
       /\ \A b \in DOMAIN depth : \A c \in LocalFlow(b) : depth[c] = Leave(b, depth[b])

Orderly == Separate /\ Settled /\ Apart

\* No return of a routine that takes cells below its own is read through a merge.
Anchored == \A r \in Retsubs : Poisoned(r) => owner[r] \notin sim.skewed

\* No lap of a loop whose height varies leaves fewer cells than it began with.
Steady == \A e \in {b \in Blocks : Poisoned(b) /\ Known(b) # {}} :
              LET lap == Lap(Region(e), e) IN
              \A b \in DOMAIN lap : e \in LocalFlow(b) => Leaving(b, lap[b]) >= 0

\* A call made at a known height comes back to a known height.
Continued == \A c \in Callsubs \cap DOMAIN heights : conts[c] # 0 => ~Poisoned(conts[c])

\* No frame_bury names the cell it empties: the machine rejects it.
Rooted == \A b \in DOMAIN heights : \A i \in DOMAIN prog[b] :
              prog[b][i].op = "frame_bury" => Slot(owner[b], prog[b][i]) # Before(b, i, heights[b]) - 1

\* A slot read before a write of it in the same block is written in that block alone.
OneWriter ==
    \A b \in {k \in Blocks : Poisoned(k)} : \A r \in ReadsIn({b}) : \A pos \in Positions(r) :
        (\E w \in Writes({b}, pos) : r[2] < w[2]) => Writes(Region(b), pos) = Writes({b}, pos)

\* Merges of frame slots stand for the cells they name, whatever the writes of them.
Mergeable == Anchored /\ Steady /\ Continued /\ Rooted

\* No cell the summary of s names is one of several outputs of an operation: it lists
\* those in the wrong order.
Narrow(s) == \A path \in summaries[s].paths : \A c \in Range(path.cells) :
                 c[1] = "var" => prog[c[2]][c[3]].pushes = 1

InScope == Orderly /\ 1 \notin Entries /\ \A s \in Entries \ Declared : Plainly(s)

-----------------------------------------------------------------------------
(* What the operation about to execute reads, and what construction says.  *)

Allowed ==
    CASE Cur.op = "frame_dig"  -> Named /\ Index < Height
      [] Cur.op = "frame_bury" -> Named /\ Index < Height - 1
      [] OTHER                 -> TRUE

Takes == IF Cur.op = "callsub" /\ CalleeOf(at[1]) # 0 THEN arity[CalleeOf(at[1])][1]
         ELSE Cur.pops

\* The cells the operation takes, the top first; none if the machine rejects it.
Taken ==
    IF ~Allowed \/ ~Enough(Takes) THEN <<>>
    ELSE IF Cur.op = "frame_dig" THEN <<stack[Index + 1]>>
    ELSE Top(stack, Takes)

Recorded(record) == IF at \in DOMAIN record.args THEN record.args[at] ELSE <<>>

\* Every value v may stand for, before parameters are bound.
Origins(v) ==
    LET Arms(x) == CASE IsPhi(x)   -> sim.phis[x].args
                     [] IsParam(x) -> {Passed(c, x[2], x[3]) : c \in Sites(x[2])}
                     [] OTHER      -> {}
        found[n \in Nat] == IF n = 0 THEN {v}
                            ELSE LET S == found[n - 1] IN S \union UNION {Arms(x) : x \in S}
    IN found[Cardinality(DOMAIN sim.phis) + Cardinality(Roots) * MaxStack + 1]

\* An arm construction could not tell and left out: no value, or a cell that some path
\* to a join inside a routine lacks, which may be its caller's.
Refused(v) ==
    \E x \in Origins(v) :
        \/ x = None
        \/ IsPhi(x) /\ sim.phis[x].partial /\ owner[x[2]] \in Entries

Built == phase = "built"

-----------------------------------------------------------------------------
TypeOK ==
    /\ phase \in {"identify", "identified", "pair", "heights", "effects", "frames", "walk", "bind", "built"}
    /\ round \in 0..MaxRounds
    /\ conts \in [Callsubs -> Blocks \union {0}]
    /\ phase \notin {"identify", "identified"} => owner \in [Blocks -> Blocks \union {0}]
    /\ divergent \union unsafe \union todo \subseteq Blocks
    /\ Built => /\ arity \in [Roots -> Nat \X Nat]
                /\ DOMAIN heights \subseteq Blocks
                /\ DOMAIN summaries \subseteq unsafe
    /\ at[1] \in Blocks
    /\ at[2] \in DOMAIN prog[at[1]]
    /\ Height <= MaxStack
    /\ Len(frames) <= MaxFrames

Covered ==
    Len(Recorded(ssa)) = Len(Taken) =>
        \A k \in DOMAIN Taken :
            \/ Recorded(ssa)[k] = None
            \/ Buried \in Taken[k] /\ Cur.op # "frame_dig"
            \/ Leaves(Recorded(ssa)[k]) \cap Taken[k] # {}
            \/ Refused(Recorded(sim)[k])

\* An operand the SSA publishes may stand for the value the operation takes when it
\* runs, on every path and in every call, unless an arm was refused.
ReadsAreCovered ==
    Built /\ InScope /\ Mergeable /\ OneWriter /\ (\A s \in DOMAIN summaries : Narrow(s)) => Covered

\* An operand is missing for no reason of the operation: it only moves cells, and was
\* to move one nobody knows, or no call is known to pass what it takes.
HandedOn ==
    /\ Len(Recorded(ssa)) = Len(Taken)
    /\ \/ Cur.op \in {"frame_dig", "frame_bury", "callsub"}
       \/ \E k \in DOMAIN Taken : Recorded(ssa)[k] = None /\ IsParam(Recorded(sim)[k])

\* An operation that takes cells when it runs is published with an operand for each,
\* or is listed as unresolved, unless it was handed a cell that is not known: "the gap
\* can never again read as clean".
NoSilentRead ==
    Built => \/ Len(Inputs(at)) = Len(Taken)
             \/ Taken = <<>>
             \/ at \in ssa.unresolved
             \/ HandedOn

\* The height a block is said to be entered at is the height of the stack above the
\* caller's cells whenever it is entered.  A routine that takes cells below its own
\* has no such height: the cells left count, not the difference.
HeightsAreExact ==
    LET b    == at[1]
        s    == owner[b]
        own  == \/ s \notin Entries
                \/ s \in Declared \ unsafe /\ ReachesReturn(b)
                \/ s \notin Declared /\ arity[s][1] = 0
        base == IF frames = <<>> THEN 0
                ELSE Len(Frame.before) - (IF s \in Declared THEN Proto(s)[1] ELSE 0)
    IN (Built /\ InScope /\ at[2] = 1 /\ b \in DOMAIN heights /\ own) =>
           Height - base = heights[b]

\* The block that runs belongs to the routine in progress.
OwnersRun ==
    (Built /\ Orderly) => owner[at[1]] = (IF frames = <<>> THEN 1 ELSE CallTarget(Frame.call))

-----------------------------------------------------------------------------
Returning == Len(frames') < Len(frames)

Called == CallTarget(Frame.call)
Passing == arity[Called][1]

\* The caller's cells under the arguments, and one of them kept by the call.
Rest     == Under(Frame.before, Passing)
Keeps(k) == Rest[k] \subseteq stack'[k]

\* A call changes the height by what its routine is said to take and leave, unless its
\* returns differ, and keeps the cells under the arguments, unless it is said to be
\* unsafe.
CallsKeepTheRest ==
    [][(Returning /\ InScope /\ Called \notin divergent) =>
        /\ Len(stack') - Len(Frame.before) = arity[Called][2] - Passing
        /\ Called \notin unsafe => \A k \in DOMAIN Rest : Keeps(k)]_vars

\* The return leaves the caller's cells as one of the paths of the summary says, and
\* those deeper alone.
LeftAsTold ==
    LET summary == summaries[Called]
        n == Len(Rest)
        Is(cell, c) ==
            CASE c[1] = "below" -> Rest[n + 1 - c[2]] \subseteq cell
              [] IsParam(c)     -> Frame.before[n + c[3] + 1] \subseteq cell
              [] OTHER          -> c \in cell
    IN summary.reach <= n =>
         /\ \A k \in 1..(n - summary.reach) : Keeps(k)
         /\ \E path \in summary.paths :
                /\ path.at = at[1]
                /\ \A d \in 1..summary.reach : Is(stack'[n + 1 - d], path.cells[d])

Summarised == Returning /\ InScope /\ Called \in DOMAIN summaries

\* A routine that touches the cells under its arguments leaves them as one of the
\* paths of its summary says, and those deeper alone, unless the summary names one of
\* several outputs of an operation.
SummariesHold == [][Summarised /\ Narrow(Called) => LeftAsTold]_vars

-----------------------------------------------------------------------------
\* What the walk says of the arms a loop brings back: omitting one "would make the
\* forward value look definite on every iteration".  So wherever a routine's loop
\* begins, an operand covers the values later laps read.
LoopsKeepEveryLap == Built /\ Orderly => Covered

\* A merge of a frame slot leaves a write out when "every path from after write (wb,
\* widx) to read (rb, ridx) passes the later write (sb, sidx)".  So a value that was
\* written, and is read, is not left out.
KilledWritesAreDead == Built /\ InScope /\ Mergeable => Covered

\* Summaries are "EXACT", of walks "with real semantics" in which operations "pop their
\* arity and push their own output PyVars".  So every summary says what a call leaves,
\* whatever its operations push.
SummariesAreExact == [][Summarised => LeftAsTold]_vars

=============================================================================
