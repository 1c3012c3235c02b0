----------------------------- MODULE ProgramCFG -----------------------------
(***************************************************************************)
(* Derivation of one program's control-flow graph (tealtools/cfg/build.py) *)
(*                                                                         *)
(*   _program_cfg   candidate edges, the bodies of the callsub entries,    *)
(*                  the predicted returns of every retsub, and the loop    *)
(*                  that gates those returns on their callsub being        *)
(*                  reachable;                                             *)
(*   build_cfg      the pruned edges that leave the module;                *)
(*   _blocks_of     the basic blocks.                                      *)
(*                                                                         *)
(* A program is a sequence of children; a child is its node class, the     *)
(* label it defines and the labels it names.  Both depth-first walks pop   *)
(* from a LIFO list; here any pending node may be popped next, so what is  *)
(* shown does not depend on the order.                                     *)
(***************************************************************************)
EXTENDS Naturals, Sequences, FiniteSets

CONSTANTS
    Names,      \* label names
    Programs    \* the programs under analysis

Branches == {"Bnz", "Bz"}
Multi    == {"Switch", "Match"}
Exits    == {"Return", "Err"}
AuxStop  == Exits \union {"Retsub"}
Classes  == {"Ordinary", "Label", "Assert", "ItxnSubmit", "B", "Callsub", "Retsub"}
                \union Branches \union Multi \union Exits

EndsClasses == {"B", "Callsub", "Retsub", "Assert", "ItxnSubmit"}
                  \union Branches \union Multi \union Exits

Instr == [cls : Classes, name : Names, targets : SUBSET Names]

SuccTypes == {"normal", "true", "false"}

\* A file with no child has no graph (build_cfg skips it).
ASSUME ProgramsAreText == Programs \subseteq Seq(Instr) \ {<<>>}

VARIABLES
    prog,       \* the program, fixed
    phase,      \* "bodies", "reach", "gate", then "built"
    body,       \* entry_body: callsub entry -> lines found so far
    todo,       \* the stack of each entry's walk
    live,       \* predicted returns still believed, [ret, cont, call]
    seen,       \* nodes popped by the current _reach
    frontier,   \* stack of the current _reach
    reachable   \* what the last _reach returned

buildVars == <<prog, phase, body, todo, live, seen, frontier, reachable>>

Lines  == 1..Len(prog)
Cls(i) == prog[i].cls

-----------------------------------------------------------------------------
(* Candidate edges.                                                        *)

UnboundedNxt(i) == {i + 1}

Nxt(i) == {i + 1} \cap Lines

Definitions(x) == {i \in Lines : Cls(i) = "Label" /\ prog[i].name = x}

\* The first definition of a label wins; a name with none resolves to no node.
Resolve(x) == {i \in Definitions(x) : \A j \in Definitions(x) : i <= j}

Targets(i) == UNION {Resolve(x) : x \in prog[i].targets}

AuxSuccFallThroughOnly(i) ==
    CASE Cls(i) \in AuxStop  -> {}
      [] Cls(i) = "B"        -> Targets(i)
      [] Cls(i) \in Branches -> Targets(i) \union Nxt(i)
      [] OTHER               -> Nxt(i)

AuxSuccIntoCallee(i) ==
    CASE Cls(i) \in AuxStop -> {}
      [] Cls(i) \in {"B", "Callsub"} -> Targets(i)
      [] Cls(i) \in Branches \union Multi -> Targets(i) \union Nxt(i)
      [] OTHER -> Nxt(i)

\* Successors inside a routine: a callsub continues at the next line, a switch
\* follows its arms and falls through.
AuxSucc(i) ==
    CASE Cls(i) \in AuxStop            -> {}
      [] Cls(i) = "B"                  -> Targets(i)
      [] Cls(i) \in Branches \union Multi -> Targets(i) \union Nxt(i)
      [] OTHER                         -> Nxt(i)

\* The class emits an edge of this type to its targets.
JumpsBzAsBnz(c, type) ==
    \/ c \in Branches /\ type = "true"
    \/ c \in {"B", "Callsub"} \union Multi /\ type = "normal"

Jumps(c, type) ==
    \/ c = "Bnz" /\ type = "true"
    \/ c = "Bz" /\ type = "false"
    \/ c \in {"B", "Callsub"} \union Multi /\ type = "normal"

\* The class emits an edge of this type to the next line.
Falls(c, type) ==
    \/ c \in {"Bz", "Assert"} /\ type = "true"
    \/ c = "Bnz" /\ type = "false"
    \/ c \in {"Ordinary", "Label", "ItxnSubmit"} \union Multi /\ type = "normal"

\* The lines an edge of the given type leads to from line i, returns apart.
Out(i, type) ==
    {j \in Targets(i) : Jumps(Cls(i), type)} \union {j \in Nxt(i) : Falls(Cls(i), type)}

StaticSucc(i) == UNION {Out(i, type) : type \in SuccTypes}

\* Lines some callsub resolves to.
Entries == UNION {Targets(c) : c \in {k \in Lines : Cls(k) = "Callsub"}}

Return == [ret : Lines, cont : Lines, call : Lines]

\* retsub_returns over every retsub: the line after each callsub whose entry's
\* body holds the retsub, with that callsub.
PredictedReturns ==
    {r \in Return :
        /\ Cls(r.ret) = "Retsub"
        /\ Cls(r.call) = "Callsub"
        /\ r.cont \in Nxt(r.call)
        /\ \E e \in Targets(r.call) : r.ret \in body[e]}

Succ(i) == StaticSucc(i) \union {r.cont : r \in {q \in live : q.ret = i}}

-----------------------------------------------------------------------------
(* The derivation.                                                         *)

InitBuild ==
    /\ prog \in Programs
    /\ phase = "bodies"
    /\ body = [e \in Entries |-> {}]
    /\ todo = [e \in Entries |-> {e}]
    /\ live = {}
    /\ seen = {}
    /\ frontier = {}
    /\ reachable = Lines

\* One pop of the walk that collects the body of entry e.
VisitBody(e, l) ==
    /\ phase = "bodies"
    /\ l \in todo[e]
    /\ body' = [body EXCEPT ![e] = @ \union {l}]
    /\ todo' = [todo EXCEPT ![e] = (@ \union AuxSucc(l)) \ body'[e]]
    /\ UNCHANGED <<prog, phase, live, seen, frontier, reachable>>

StartReach(returns) ==
    /\ live' = returns
    /\ seen' = {}
    /\ frontier' = {1}
    /\ phase' = "reach"
    /\ UNCHANGED <<prog, body, todo, reachable>>

\* Every body is closed: predict the returns and walk from the first child.
Predict ==
    /\ phase = "bodies"
    /\ \A e \in Entries : todo[e] = {}
    /\ StartReach(PredictedReturns)

VisitReachUnmarked(l) ==
    /\ phase = "reach"
    /\ l \in frontier
    /\ seen' = seen \union {l}
    /\ frontier' = (frontier \ {l}) \union Succ(l)
    /\ UNCHANGED <<prog, phase, body, todo, live, reachable>>

\* One pop of _reach.
VisitReach(l) ==
    /\ phase = "reach"
    /\ l \in frontier
    /\ seen' = seen \union {l}
    /\ frontier' = (frontier \union Succ(l)) \ seen'
    /\ UNCHANGED <<prog, phase, body, todo, live, reachable>>

EndReach ==
    /\ phase = "reach"
    /\ frontier = {}
    /\ reachable' = seen
    /\ phase' = "gate"
    /\ UNCHANGED <<prog, body, todo, live, seen, frontier>>

UngatedReturns == live

\* A predicted return survives while its callsub is reachable.
Gated == {r \in live : r.call \in reachable}

\* Some return was dropped: walk again without it.
DropReturns ==
    /\ phase = "gate"
    /\ Gated # live
    /\ StartReach(Gated)

Publish ==
    /\ phase = "gate"
    /\ Gated = live
    /\ phase' = "built"
    /\ UNCHANGED <<prog, body, todo, live, seen, frontier, reachable>>

Build ==
    \/ \E e \in DOMAIN todo : \E l \in todo[e] : VisitBody(e, l)
    \/ Predict
    \/ \E l \in frontier : VisitReach(l)
    \/ EndReach
    \/ DropReturns
    \/ Publish

BuildSpec == InitBuild /\ [][Build]_buildVars /\ WF_buildVars(Build)

-----------------------------------------------------------------------------
(* What leaves the module.                                                 *)

Edge == [from : Lines, to : Lines, type : SuccTypes]

\* build_cfg: candidate edges whose predecessor is reachable.
Edges ==
    {e \in Edge :
        /\ e.from \in reachable
        /\ \/ e.to \in Out(e.from, e.type)
           \/ /\ e.type = "normal"
              /\ \E r \in live : r.ret = e.from /\ r.cont = e.to}

EndsCodeblockAtClassesOnly(i) == i = Len(prog) \/ Cls(i) \in EndsClasses

\* The last line of a codeblock.
EndsCodeblock(i) ==
    \/ i = Len(prog)
    \/ Cls(i) \in EndsClasses
    \/ Cls(i + 1) = "Label"

StartsCodeblock(i) == i = 1 \/ EndsCodeblock(i - 1)

\* _blocks_of: each reachable line with the first and last line of its codeblock.
Rows ==
    {b \in [line : reachable, first : Lines, last : Lines] :
        /\ b.first <= b.line /\ b.line <= b.last
        /\ StartsCodeblock(b.first)
        /\ EndsCodeblock(b.last)
        /\ \A k \in b.first .. b.last : EndsCodeblock(k) => k = b.last}

=============================================================================
