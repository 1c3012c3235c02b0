--------------------------- MODULE StackPrograms ---------------------------
(***************************************************************************)
(* Programs as SSA construction reads them: basic blocks of stack          *)
(* operations, in source order, and the block graph of their reachable     *)
(* code.  No block is empty: a label followed by a label, which leads on   *)
(* to the next real block (ssa/program.py), is left out.                   *)
(*                                                                         *)
(* What an operation computes is left out.  It takes pops cells from the   *)
(* stack and leaves pushes; perm says which of the cells it took a shuffle *)
(* leaves, top of stack first, and is empty for any other operation.       *)
(***************************************************************************)
EXTENDS Integers, FiniteSets, SequencesExt

CONSTANT Programs

Terminators == {"callsub", "retsub", "b", "bnz", "return", "err"}
Mnemonics   == {"plain", "shuffle", "proto", "frame_dig", "frame_bury"} \union Terminators

\* imm and rets are the immediates of the frame operations and of proto; to is the
\* block a label names.
Op == [op : Mnemonics, pops : Nat, pushes : Nat, imm : Int, rets : Nat,
       perm : Seq(Nat \ {0}), to : Nat]

\* An operation that leads elsewhere ends its block, and the block its label names
\* exists.
IsProgram(p) ==
    /\ p # <<>>
    /\ p \in Seq(Seq(Op) \ {<<>>})
    /\ \A b \in DOMAIN p : \A i \in DOMAIN p[b] :
           /\ p[b][i].op \in Terminators => i = Len(p[b])
           /\ p[b][i].op \in {"b", "bnz", "callsub"} => p[b][i].to \in DOMAIN p

ASSUME ProgramsArePrograms == \A p \in Programs : IsProgram(p)

Operation(name, pops, pushes) ==
    [op |-> name, pops |-> pops, pushes |-> pushes, imm |-> 0, rets |-> 0,
     perm |-> <<>>, to |-> 0]

Shuffle(pops, perm) ==
    [Operation("shuffle", pops, Len(perm)) EXCEPT !.perm = perm]

Ascending(i, j) == [k \in 1..(j - i + 1) |-> i + k - 1]

\* _canon_shuffle.
Swap       == Shuffle(2, <<2, 1>>)
Dup        == Shuffle(1, <<1, 1>>)
Cover(n)   == Shuffle(n + 1, Append(Ascending(2, n + 1), 1))
Uncover(n) == Shuffle(n + 1, <<n + 1>> \o Ascending(1, n))
Dig(n)     == Shuffle(n + 1, <<n + 1>> \o Ascending(1, n + 1))
Bury(n)    == Shuffle(n + 1, Append(Ascending(2, n), 1))

VARIABLES
    prog,       \* the program, fixed
    succ        \* its block graph, fixed: reachable block -> successors

program == <<prog, succ>>

All    == 1..Len(prog)
Last1(b) == Last(prog[b])
End(b) == IF Last1(b).op \in Terminators THEN Last1(b).op ELSE "next"

InOrder(S) == SelectSeq([i \in All |-> i], LAMBDA b : b \in S)
Earliest(S) == IF S = {} THEN 0 ELSE CHOOSE b \in S : \A c \in S : b <= c

Following(b) == {b + 1} \cap All

\* Where control may go from the end of b without leaving the routine.
Flow(b) ==
    CASE End(b) \in {"next", "callsub"} -> Following(b)
      [] End(b) = "b"                   -> {Last1(b).to}
      [] End(b) = "bnz"                 -> {Last1(b).to} \union Following(b)
      [] OTHER                          -> {}

\* Blocks reached from S in any number of steps of next.
Closure(S, next) ==
    LET reach[n \in Nat] ==
            IF n = 0 THEN S
            ELSE LET R == reach[n - 1] IN R \union UNION {next[b] : b \in R}
    IN reach[Len(prog)]

\* The graph: a callsub leads to its routine, a retsub to the blocks after the calls
\* of the routines it ends, unless those calls are dead code.
BlockGraph ==
    LET Calls(S) == {c \in S : End(c) = "callsub"}
        Ends(c) == Closure({Last1(c).to}, [b \in All |-> Flow(b)])
        Next(b, live) ==
            CASE End(b) = "callsub" -> {Last1(b).to}
              [] End(b) = "retsub"  -> UNION {Following(c) : c \in {k \in Calls(live) : b \in Ends(k)}}
              [] OTHER              -> Flow(b)
        gated[n \in Nat] ==
            IF n = 0 THEN All
            ELSE LET live == gated[n - 1] IN Closure({1}, [b \in All |-> Next(b, live)])
        blocks == gated[Len(prog)]
    IN [b \in blocks |-> Next(b, blocks)]

Blocks          == DOMAIN succ
Predecessors(b) == {p \in Blocks : b \in succ[p]}
Callsubs        == {b \in Blocks : End(b) = "callsub"}
Retsubs         == {b \in Blocks : End(b) = "retsub"}

CallTarget(c) == CHOOSE t \in succ[c] : TRUE
Entries       == {CallTarget(c) : c \in Callsubs}

=============================================================================
