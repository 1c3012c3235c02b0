---------------------------- MODULE BlockMachine ----------------------------
(***************************************************************************)
(* Programs as the path-sensitive analyses see them, basic blocks over SSA *)
(* values, and the AVM that runs them.  A module about an analysis extends *)
(* this one: it says what the analysis does before a run begins, and what  *)
(* it promises of the values the run then holds.                           *)
(*                                                                         *)
(* A program is its sequence of basic blocks in source order.  A block     *)
(* defines some leaves, reads some values, then ends in one operation; the *)
(* operations that make its leaves take nothing from one another.          *)
(* arms are the blocks its labels name; consts are the candidates of a     *)
(* match, top of stack first, as inputs[1:] has them; phi has a triple     *)
(* <<leaf, predecessor, leaf>> per argument.                               *)
(***************************************************************************)
EXTENDS Operations

CONSTANTS
    Programs,       \* the programs under analysis
    MaxFrames       \* bound on the calls in progress in a run

Conditional == {"bnz", "bz"}
MultiWay    == {"switch", "match"}
BlockOps    == {"next", "b", "assert", "callsub", "retsub", "return"}
                   \union Conditional \union MultiWay
Testing     == {"assert"} \union Conditional \union MultiWay

Block == [op : BlockOps, cond : Value, arms : Seq(Nat), consts : Seq(Uint),
          defs : SUBSET (Leaves \ Fixed), uses : SUBSET Value,
          phi : SUBSET ((Leaves \ Fixed) \X Nat \X Leaves)]

\* Labels name blocks; a match pops one candidate per label; what makes a leaf takes
\* values its block reads.
Linked(block, blocks) ==
    /\ \A i \in DOMAIN block.arms : block.arms[i] \in DOMAIN blocks
    /\ Len(block.arms) <= MaxInt + 1
    /\ block.op = "match" => Len(block.consts) = Len(block.arms)
    /\ \A l \in block.defs : InputsOf(l) \subseteq block.uses \ block.defs
    /\ \A t \in block.phi : t[1] \notin block.defs

\* Blocks, and the entry_seeds and bb_seeds of a path analysis.
IsProgram(p) ==
    /\ p.blocks \in Seq(Block) \ {<<>>}
    /\ \A b \in DOMAIN p.blocks : Linked(p.blocks[b], p.blocks)
    /\ p.entry \subseteq Predicate
    /\ \A b \in DOMAIN p.seeds : p.seeds[b] \subseteq Predicate

ASSUME ProgramsArePrograms == \A p \in Programs : IsProgram(p)

VARIABLES
    prog,       \* the program, fixed
    succ,       \* its block graph, fixed: block -> successors
    mode,       \* "analyse", "run" or "halted"
    at,         \* the block the run is in
    env,        \* what each leaf last read
    own,        \* the leaves the routine in progress has defined
    frames      \* return block, leaves and values of the callers, outermost first

program     == <<prog, succ>>
runVars     == <<mode, at, env, own, frames>>
machineVars == <<program, runVars>>

B(b)    == prog.blocks[b]
All     == 1..Len(prog.blocks)
Arms(b) == {B(b).arms[i] : i \in DOMAIN B(b).arms}

-----------------------------------------------------------------------------
(* The block graph.                                                        *)

Following(b) == {b + 1} \cap All

\* Successors inside a routine.
Flow(b) ==
    CASE B(b).op \in {"next", "assert", "callsub"} -> Following(b)
      [] B(b).op = "b"                             -> Arms(b)
      [] B(b).op \in Conditional \union MultiWay   -> Arms(b) \union Following(b)
      [] OTHER                                     -> {}

\* Blocks reached from S in any number of steps of next.
Closure(S, next) ==
    LET reach[n \in Nat] ==
            IF n = 0 THEN S
            ELSE LET R == reach[n - 1] IN R \union UNION {next[b] : b \in R}
    IN reach[Len(prog.blocks)]

Routine(entries) == Closure(entries, [b \in All |-> Flow(b)])

\* A retsub, and a callsub of the routine it is in.
Returns == {e \in All \X All : /\ B(e[1]).op = "retsub"
                              /\ B(e[2]).op = "callsub"
                              /\ e[1] \in Routine(Arms(e[2]))}

\* Where block b leads: a callsub to its routine, a retsub to the blocks after the
\* calls in the live code that it ends.
Onward(b, returns, live) ==
    CASE B(b).op = "callsub" -> Arms(b)
      [] B(b).op = "retsub"  -> UNION {Following(c) : c \in {k \in live : <<b, k>> \in returns}}
      [] OTHER               -> Flow(b)

Reached(returns, live) == Closure({1}, [b \in All |-> Onward(b, returns, live)])

\* Blocks and edges of the reachable code.
BlockGraph ==
    LET returns == Returns
        gated[n \in Nat] ==
            IF n = 0 THEN All ELSE LET live == gated[n - 1] IN Reached(returns, live)
        blocks == gated[Len(prog.blocks)]
    IN [b \in blocks |-> Onward(b, returns, blocks)]

Blocks          == DOMAIN succ
Successors(b)   == succ[b]
Predecessors(b) == {p \in Blocks : b \in Successors(p)}

InOrder(S) ==
    LET upto[n \in 0..Len(prog.blocks)] ==
            IF n = 0 THEN <<>>
            ELSE IF n \in S THEN Append(upto[n - 1], n) ELSE upto[n - 1]
    IN upto[Len(prog.blocks)]

-----------------------------------------------------------------------------
(* SSA.                                                                    *)

PhisOf(b) == {t[1] : t \in B(b).phi}

Defines(b) == B(b).defs \union PhisOf(b)

Phis == UNION {PhisOf(b) : b \in Blocks}

\* What the operations of the program make.
Made == UNION {B(b).defs : b \in Blocks}

\* The values the operations that compute v read, v among them.
Computing(v) ==
    LET parts[x \in Value] ==
            {x} \union UNION {parts[Def[x].args[i]] : i \in DOMAIN Def[x].args}
    IN parts[v]

Tests(b) == IF B(b).op \in Testing THEN Computing(B(b).cond) ELSE {}

Reads(b) == Tests(b) \union UNION {Computing(v) : v \in B(b).uses}

\* What the phis of b merge.
MergedAt(b) == {t[3] : t \in B(b).phi}

Definitions(l) == {b \in Blocks : l \in Defines(b)}

Entries == {1} \union UNION {Arms(b) : b \in {c \in Blocks : B(c).op = "callsub"}}

\* The blocks a path of their routine leads to and through without defining l.
Undefined(l) ==
    LET here == Definitions(l)
    IN Closure(Entries \ here, [b \in All |-> Flow(b) \ here])

\* A leaf that can change has one definition, and every path of a routine to what
\* reads it passes it, a phi reading its arguments at the end of the blocks before.
SingleAssignment ==
    \A l \in (Leaves \ Fixed)
                 \cap UNION {Defines(b) \union Reads(b) \union MergedAt(b) : b \in Blocks} :
        /\ Cardinality(Definitions(l)) <= 1
        /\ \A b \in Undefined(l) \cap Blocks :
               /\ l \notin Reads(b)
               /\ \A s \in Successors(b) : \A t \in B(s).phi : <<t[2], t[3]>> # <<b, l>>

PhisHaveArguments ==
    \A b \in Blocks : \A m \in PhisOf(b) :
        b # 1 /\ \A a \in Predecessors(b) : \E t \in B(b).phi : t[1] = m /\ t[2] = a

-----------------------------------------------------------------------------
(* The AVM.                                                                *)

InitMachine ==
    /\ prog \in Programs
    /\ succ = BlockGraph
    /\ SingleAssignment
    /\ PhisHaveArguments
    /\ mode = "analyse"
    /\ at = 1
    /\ env = [l \in Leaves |-> 0]
    /\ own = {}
    /\ frames = <<>>

Seeds(b) == IF b \in DOMAIN prog.seeds THEN prog.seeds[b] ELSE {}

\* What the leaves in S may become, when they are made from the values e; an operation
\* that fails makes nothing.
Readings(S, e) ==
    LET Outcomes(l) == IF Fails(l, e) THEN {0} ELSE Results(l, e)
    IN  {read \in [S -> UNION {Outcomes(l) : l \in S}] : \A l \in S : read[l] \in Outcomes(l)}

\* Execution enters block b with the values e and the definitions d of its routine.
\* A leaf defined here is made afresh; the caller of the analysis vouches for the
\* seeds.
Enter(b, e, d) ==
    /\ at' = b
    /\ own' = d \union Defines(b)
    /\ \E read \in Readings(B(b).defs, e) :
           env' = [l \in Leaves |-> IF l \in B(b).defs THEN read[l] ELSE e[l]]
    /\ \A p \in Seeds(b) : Holds(p, env')
    /\ mode' = "run"
    /\ UNCHANGED program

\* The values when block b is entered from block a, e but for its phis.
Merged(a, b, e) ==
    [l \in Leaves |->
        IF \E t \in B(b).phi : t[1] = l /\ t[2] = a
        THEN env[(CHOOSE t \in B(b).phi : t[1] = l /\ t[2] = a)[3]]
        ELSE e[l]]

Constants == {l \in Fixed : IsInt(l) \/ IsLiteral(l)}

\* The run begins, with any values of the immutable fields.
Begin ==
    /\ mode = "analyse"
    /\ \E read \in Readings(Fixed \ Constants, [l \in {} |-> 0]) :
           LET e == [l \in Leaves |-> IF l \in Constants THEN Constant(l)
                                      ELSE IF l \in Fixed THEN read[l] ELSE 0] IN
           /\ \A p \in prog.entry : Holds(p, e)
           /\ Enter(1, e, {})
    /\ UNCHANGED frames

Val(v) == Eval(env)[v]

\* The candidates that match, lowest arm first.
Matching(b) == {i \in DOMAIN B(b).arms :
                   IF B(b).op = "switch" THEN Val(B(b).cond) = i - 1
                   ELSE /\ i \in DOMAIN B(b).consts
                        /\ B(b).consts[Len(B(b).consts) + 1 - i] = Val(B(b).cond)}

\* Where the operation at the end of block b goes, within the routine.
Taken(b) ==
    CASE B(b).op = "next"   -> Following(b)
      [] B(b).op = "b"      -> Arms(b)
      [] B(b).op = "bnz"    -> IF Val(B(b).cond) # 0 THEN Arms(b) ELSE Following(b)
      [] B(b).op = "bz"     -> IF Val(B(b).cond) = 0 THEN Arms(b) ELSE Following(b)
      [] B(b).op = "assert" -> IF Val(B(b).cond) # 0 THEN Following(b) ELSE {}
      [] B(b).op \in MultiWay ->
             IF Matching(b) = {} THEN Following(b) ELSE {B(b).arms[MinOf(Matching(b))]}
      [] OTHER              -> {}

\* An operation of the block the run is in has failed.
Panics == mode = "run" /\ \E l \in B(at).defs : Fails(l, env)

Step ==
    /\ mode = "run"
    /\ ~ Panics
    /\ \E b \in Taken(at) : Enter(b, Merged(at, b, env), own)
    /\ UNCHANGED frames

Call ==
    /\ mode = "run"
    /\ ~ Panics
    /\ B(at).op = "callsub"
    /\ Len(frames) < MaxFrames
    /\ \E b \in Arms(at) : Enter(b, Merged(at, b, env), {})
    /\ frames' = Append(frames, [cont |-> Following(at), own |-> own, env |-> env])

\* The caller finds its own values again; what the callee defined stays known.
Return ==
    /\ mode = "run"
    /\ ~ Panics
    /\ B(at).op = "retsub"
    /\ frames # <<>>
    /\ LET f == frames[Len(frames)]
           e == [l \in Leaves |-> IF l \in f.own THEN f.env[l] ELSE env[l]] IN
       /\ frames' = SubSeq(frames, 1, Len(frames) - 1)
       /\ \E b \in f.cont : Enter(b, Merged(at, b, e), f.own)

Halt ==
    /\ mode = "run"
    /\ \/ Panics
       \/ /\ Taken(at) = {}
          /\ B(at).op = "callsub" => Arms(at) = {}
          /\ B(at).op = "retsub" => IF frames = <<>> THEN TRUE ELSE frames[Len(frames)].cont = {}
    /\ mode' = "halted"
    /\ UNCHANGED <<program, at, env, own, frames>>

Run == Step \/ Call \/ Return \/ Halt

MachineOK ==
    /\ mode \in {"analyse", "run", "halted"}
    /\ at \in Blocks
    /\ env \in [Leaves -> Uint]
    /\ own \subseteq Leaves
    /\ \A i \in DOMAIN frames : frames[i].cont \subseteq All

=============================================================================
