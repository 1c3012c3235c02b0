--------------------------- MODULE BudgetMachine ---------------------------
(***************************************************************************)
(* The reports on the budget composed with the AVM.  The machine runs the  *)
(* program reported on, a block at a time, on Credit units.  It is not     *)
(* part of the repository: it is modelled from what budget/ relies on (an  *)
(* operation that cannot be paid ends the run, and so does a stack above   *)
(* its limit; callsub, proto and retsub work on frames).                   *)
(*                                                                         *)
(* Only the heights of the stack are kept.                                 *)
(***************************************************************************)
EXTENDS LoopBounds

CONSTANTS
    MaxFrames,      \* bound on the depth of the call stack
    MaxExcess       \* bound on what an operation without ceiling charges above its least

ASSUME BoundsAreNat == MaxFrames \in Nat /\ MaxExcess \in Nat

VARIABLES
    at,         \* block about to execute
    height,     \* of the stack
    spent,      \* budget
    frames,     \* the calls in progress, innermost last
    watch,      \* the loop observed, and the block whose turns are counted
    stay,       \* what this stay in the loop has seen: the block, and its turns
    laps        \* turns in the whole run

machine == <<at, height, spent, frames>>
watcher == <<watch, stay, laps>>
vars    == <<program, phase, identified, costing, reports, machine, watcher>>

-----------------------------------------------------------------------------
(* Counting turns.                                                         *)

Arrived(b) == [met |-> b = watch.block, laps |-> 0]

\* Control goes from block b to block c of the same routine, in the stay s.  A turn
\* leads back to the block without leaving the loop.
Move(b, c, s) ==
    LET inside == {b, c} \subseteq watch.loop.shape.body
        turn   == IF inside /\ s.met /\ c = watch.block THEN 1 ELSE 0
    IN /\ laps' = laps + turn
       /\ stay' = IF inside THEN [met |-> s.met \/ c = watch.block, laps |-> s.laps + turn]
                  ELSE Arrived(c)
       /\ UNCHANGED watch

-----------------------------------------------------------------------------
(* The machine.                                                            *)

\* The height along the operations of block b, -1 once the machine rejects one.
HeightAfter(b) ==
    LET After(h, o) == IF h < o.pops \/ h + o.pushes - o.pops > MaxStack
                       THEN -1 ELSE h + o.pushes - o.pops
        run[i \in 0..Len(prog[b])] ==
            IF i = 0 THEN height ELSE After(run[i - 1], prog[b][i])
    IN run[Len(prog[b])]

Charges(b) ==
    LET cost == BlockCost(b)
        most == IF cost.most = Unbounded THEN cost.least + MaxExcess ELSE cost.most
    IN cost.least .. Min({most, Credit - spent})

Proto(b) == IF Head(prog[b]).op = "proto" THEN <<Head(prog[b]).imm, Head(prog[b]).rets>> ELSE <<>>

\* Execute the block: what every block does.
Execute ==
    /\ HeightAfter(at) # -1
    /\ \E charge \in Charges(at) : spent' = spent + charge

Step ==
    /\ End(at) \notin {"callsub", "retsub"}
    /\ Execute
    /\ height' = HeightAfter(at)
    /\ at' \in Flow(at)
    /\ Move(at, at', stay)
    /\ UNCHANGED frames

\* proto finds its arguments on the stack.
Call ==
    /\ End(at) = "callsub"
    /\ Len(frames) < MaxFrames
    /\ Execute
    /\ height' = HeightAfter(at)
    /\ at' = Last1(at).to
    /\ Proto(at') # <<>> => height' >= Proto(at')[1]
    /\ frames' = Append(frames, [call |-> at, height |-> height', spent |-> spent', stay |-> stay])
    /\ stay' = Arrived(at')
    /\ UNCHANGED <<watch, laps>>

\* proto's results take the place of its arguments.
Return ==
    /\ End(at) = "retsub"
    /\ frames # <<>>
    /\ Execute
    /\ LET frame == Last(frames)
           proto == Proto(Last1(frame.call).to)
       IN /\ height' = IF proto = <<>> THEN HeightAfter(at) ELSE frame.height - proto[1] + proto[2]
          /\ proto # <<>> => HeightAfter(at) >= frame.height + proto[2]
          /\ at' \in Following(frame.call)
          /\ Move(frame.call, at', frame.stay)
    /\ frames' = Front(frames)

Nowhere == [loop |-> [shape |-> Shape("none", {}, {}, {}), budget |-> 0, stack |-> None], block |-> 0]

InitMachine ==
    /\ at = Earliest(Blocks)
    /\ height = 0
    /\ spent = 0
    /\ frames = <<>>
    /\ watch = Nowhere
    /\ stay = [met |-> FALSE, laps |-> 0]
    /\ laps = 0

\* Any loop may be watched, an irreducible one at any of its blocks.
Watch ==
    /\ phase = "analysed"
    /\ phase' = "running"
    /\ watch' \in {Nowhere} \union
           UNION {[loop : {loop},
                   block : IF loop.shape.kind = "reducible" THEN loop.shape.entries
                           ELSE loop.shape.body] : loop \in loops}
    /\ stay' = [met |-> at = watch'.block, laps |-> 0]
    /\ UNCHANGED <<program, identified, costing, reports, machine, laps>>

\* Where no action is enabled the program has ended, or the machine rejects it.
Operate ==
    /\ phase = "running"
    /\ Step \/ Call \/ Return
    /\ UNCHANGED <<program, phase, identified, costing, reports>>

Init == InitAnalysis /\ InitMachine
Next == \/ Analysis /\ UNCHANGED <<machine, watcher>>
        \/ Watch
        \/ Operate
Spec == Init /\ [][Next]_vars

-----------------------------------------------------------------------------
(* The programs the reports are right about.                               *)

\* Each call comes back to where the repository takes it to.
Attributed == Contained /\ Settled /\ Apart

\* The entry that is cheapest once executed is reached by the cheapest way.
PlainlyEntered(shape) ==
    \A e \in shape.entries : Distances[Nearest(shape)] <= Distances[e]

-----------------------------------------------------------------------------

\* In one run, on Credit units and MaxStack cells, a loop turns no more often than
\* LoopBound says: the budget bounds all turns, the stack those of one stay.
WithinBounds == /\ laps <= watch.loop.budget
                /\ watch.loop.stack # None => stay.laps <= watch.loop.stack

LapsWithinBounds == WithinBounds \/ ~Attributed \/ ~PlainlyEntered(watch.loop.shape)

\* What minimum_cost says a block costs has been paid by every run that executed it,
\* with the call it makes.
Finished == (IF End(at) = "callsub" THEN {} ELSE {at})
              \union (IF Len(frames') < Len(frames) THEN {Last(frames).call} ELSE {})

MinimumIsPaid ==
    [][spent' # spent =>
        \A b \in Finished : (b \in Callsubs => Attributed) => spent' >= minimum[b]]_vars

\* What minimum_cost calls budget-infeasible (proven_over_budget: "Every CFG execution
\* reaching the target spends too much") no run executes, whatever the program.
InfeasibleIsNeverExecuted == [][spent' # spent => \A b \in Finished : minimum[b] <= Credit]_vars

\* A call that returns charges at least, and at most, what its routine is said to.
ReturnsCostTheirSummary ==
    [][(Attributed /\ Len(frames') < Len(frames)) =>
        LET frame == Last(frames)
            cost  == charges[CallTarget(frame.call)]
        IN /\ spent' - frame.spent >= cost.least
           /\ cost.most # Unbounded => spent' - frame.spent <= cost.most]_vars

=============================================================================
