------------------------------ MODULE AvmOnCfg ------------------------------
(***************************************************************************)
(* The AVM's control registers run beside the published graph: a program   *)
(* counter and a call stack.  The machine itself is not part of the        *)
(* repository; it is modelled from what the comments of cfg/build.py and   *)
(* language/avm.py rely on (callsub pushes the next line, retsub pops it,  *)
(* bnz / bz decide on a popped boolean, switch / match take an arm or fall *)
(* through, assert / err / return stop).                                   *)
(*                                                                         *)
(* The composition states what the graph is for: no execution leaves it.   *)
(***************************************************************************)
EXTENDS ProgramCFG

CONSTANT MaxFrames      \* bound on the depth of the call stack
ASSUME MaxFramesIsNat == MaxFrames \in Nat

VARIABLES
    pc,         \* line about to execute
    frames,     \* the callsub lines of the calls in progress, innermost last
    how,        \* successor type of the last move
    halted

avmVars == <<pc, frames, how, halted>>
vars    == <<prog, phase, body, todo, live, seen, frontier, reachable,
             pc, frames, how, halted>>

Top == frames[Len(frames)]
Pop == SubSeq(frames, 1, Len(frames) - 1)

\* The line after the innermost call in progress, if there is one.
ReturnPoint == IF frames = <<>> THEN {} ELSE Nxt(Top)

InitAvm ==
    /\ pc = 1
    /\ frames = <<>>
    /\ how = "entry"
    /\ halted = FALSE

MoveTo(j, type) ==
    /\ pc' = j
    /\ how' = type
    /\ UNCHANGED halted

\* An opcode with no control effect, or a label: the next line.
Fall ==
    /\ Cls(pc) \in {"Ordinary", "Label", "ItxnSubmit"}
    /\ \E j \in Nxt(pc) : MoveTo(j, "normal")
    /\ UNCHANGED frames

AssertPasses ==
    /\ Cls(pc) = "Assert"
    /\ \E j \in Nxt(pc) : MoveTo(j, "true")
    /\ UNCHANGED frames

Jump ==
    /\ Cls(pc) = "B"
    /\ \E j \in Targets(pc) : MoveTo(j, "normal")
    /\ UNCHANGED frames

\* bnz jumps on a nonzero condition, bz on zero.
Branch(nonzero) ==
    /\ Cls(pc) \in Branches
    /\ \E j \in IF (Cls(pc) = "Bnz") = nonzero THEN Targets(pc) ELSE Nxt(pc) :
           MoveTo(j, IF nonzero THEN "true" ELSE "false")
    /\ UNCHANGED frames

Dispatch ==
    /\ Cls(pc) \in Multi
    /\ \E j \in Targets(pc) \union Nxt(pc) : MoveTo(j, "normal")
    /\ UNCHANGED frames

Call ==
    /\ Cls(pc) = "Callsub"
    /\ Len(frames) < MaxFrames
    /\ \E j \in Targets(pc) : MoveTo(j, "normal")
    /\ frames' = Append(frames, pc)

Retsub ==
    /\ Cls(pc) = "Retsub"
    /\ \E j \in ReturnPoint : MoveTo(j, "normal")
    /\ frames' = Pop

\* return, err, a failed assert, a retsub with no caller, running off the end.
Halt ==
    /\ \/ Cls(pc) \in Exits \union {"Assert"}
       \/ Cls(pc) = "Retsub" /\ ReturnPoint = {}
       \/ Cls(pc) \in {"Ordinary", "Label", "ItxnSubmit"} \union Branches \union Multi
             /\ Nxt(pc) = {}
    /\ halted' = TRUE
    /\ UNCHANGED <<pc, frames, how>>

Execute ==
    /\ phase = "built"
    /\ ~ halted
    /\ \/ Fall \/ AssertPasses \/ Jump \/ Dispatch \/ Call \/ Retsub \/ Halt
       \/ \E nonzero \in BOOLEAN : Branch(nonzero)
    /\ UNCHANGED buildVars

Init == InitBuild /\ InitAvm
Next == (Build /\ UNCHANGED avmVars) \/ Execute
Spec == Init /\ [][Next]_vars

\* The analyser is one thread that runs to completion; execution of the
\* analysed program is under no obligation to go on.
FairSpec == Spec /\ WF_vars(Build /\ UNCHANGED avmVars)

-----------------------------------------------------------------------------
TypeOK ==
    /\ prog \in Programs
    /\ phase \in {"bodies", "reach", "gate", "built"}
    /\ body \in [Entries -> SUBSET Lines]
    /\ todo \in [Entries -> SUBSET Lines]
    /\ live \subseteq Return
    /\ seen \subseteq Lines
    /\ frontier \subseteq Lines
    /\ reachable \subseteq Lines
    /\ pc \in Lines
    /\ frames \in Seq(Lines)
    /\ how \in SuccTypes \union {"entry"}
    /\ halted \in BOOLEAN

\* Every line an execution stands on survives the pruning by reachability, and
\* so does the callsub of every call still in progress: no guard, sink or call
\* site of a real run is dropped from the graph as unreachable.
ExecutionIsReachable ==
    phase = "built" => /\ pc \in reachable
                       /\ \A k \in DOMAIN frames : frames[k] \in reachable

\* The call chain is nested in the predicted bodies: the callsub of each frame
\* lies in the body of the callee one frame below it, and the pc in the body of
\* the innermost callee.  This is what makes the context-insensitive prediction
\* of retsub_returns cover the dynamic return.
FramesNestInBodies ==
    \A k \in DOMAIN frames :
        /\ Cls(frames[k]) = "Callsub"
        /\ \E e \in Targets(frames[k]) :
              (IF k = Len(frames) THEN pc ELSE frames[k + 1]) \in body[e]

\* A retsub keeps exactly the returns of its reachable calls: an edge to a
\* continuation is published if and only if a reachable callsub stands before it
\* and calls a routine that holds the retsub.  More edges would let return counts
\* exceed reachable call counts (the corruption of the lift the gating loop is
\* there to prevent), fewer would cut a continuation a real run reaches.
ReturnsMatchReachableCalls ==
    phase = "built" =>
        \A p \in reachable, s \in Lines : Cls(p) = "Retsub" =>
            ((\E e \in Edges : e.from = p /\ e.to = s)
             <=> \E c \in reachable :
                    /\ Cls(c) = "Callsub"
                    /\ s \in Nxt(c)
                    /\ \E t \in Targets(c) : p \in body[t])

\* A codeblock is all live or all dead, and control enters it only at its first
\* line and leaves it only at its last: "the partition is structural and is only
\* intersected with CFG reachability".
BlocksAreStraightLine ==
    phase = "built" =>
        /\ \A b \in Rows : b.first .. b.last \subseteq reachable
        /\ \A e \in Edges : \E b \in Rows :
              /\ b.line = e.from
              /\ \/ e.to = e.from + 1 /\ e.to <= b.last
                 \/ e.from = b.last /\ StartsCodeblock(e.to)

\* The graph is a correct abstraction of execution (CfgWalk): every move of the
\* AVM is along a published edge that carries the boolean it decided on.
Walk == INSTANCE CfgWalk WITH
            edges <- IF phase = "built" THEN Edges ELSE {}, at <- pc

CoversExecution == Walk!Spec

\* The closure walks and the gating loop end for every program.
DerivationEnds == <>(phase = "built")

=============================================================================
