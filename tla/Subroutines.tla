---------------------------- MODULE Subroutines ----------------------------
(***************************************************************************)
(* The routines of a program (cfg/subroutines.py):                         *)
(*                                                                         *)
(*   pyblock_partition      the routine that owns each block;              *)
(*   infer_legacy_arities   what a routine without proto takes and leaves; *)
(*   sound_return_targets   the return blocks only returns reach.          *)
(***************************************************************************)
EXTENDS Continuations

VARIABLES
    owner,      \* block -> entry of the routine that owns it, 0 for none
    arity,      \* routine -> <<cells taken, cells left>>
    divergent   \* routines whose returns leave different heights

claims     == <<owner, arity, divergent>>
boundaries == <<identified, claims>>

-----------------------------------------------------------------------------
(* pyblock_partition.                                                      *)

\* Successors inside a routine, a call going to its continuation.
LocalFlow(b) ==
    CASE End(b) = "callsub"                   -> {conts[b]} \ {0}
      [] End(b) \in {"retsub", "return", "err"} -> {}
      [] OTHER                                -> succ[b]

\* The program's first block, and any that nothing leads to.
Mains == ({b \in Blocks : Predecessors(b) = {}} \union {Earliest(Blocks)}) \ Entries

\* Every root claims what it reaches and no earlier root has claimed.
Partition ==
    /\ phase = "identified"
    /\ LET Claim(claimed, root) ==
               LET free == {b \in Blocks : claimed[b] = 0}
                   mine == Closure({root} \cap free, [b \in Blocks |-> LocalFlow(b) \cap free])
               IN [b \in Blocks |-> IF b \in mine THEN root ELSE claimed[b]]
       IN owner' = FoldLeft(Claim, [b \in Blocks |-> 0], InOrder(Mains) \o InOrder(Entries))
    /\ phase' = "pair"
    /\ UNCHANGED <<program, identified, arity, divergent>>

Roots    == {b \in Blocks : owner[b] = b}
Owned(s) == {b \in Blocks : owner[b] = s}

\* The routine a callsub block enters, 0 if a root before it claimed the entry.
CalleeOf(b) == Earliest(succ[b] \cap Roots)

Declared == {e \in Entries : prog[e][1].op = "proto"}
Proto(e) == <<prog[e][1].imm, prog[e][1].rets>>

-----------------------------------------------------------------------------
(* infer_legacy_arities.                                                   *)

\* Heights by first visit of a breadth-first walk.  The blocks Into(b, d) are those
\* that follow b entered at height d, Leave(b, d) the height it passes them.
FirstHeights(start, Into(_, _), Leave(_, _)) ==
    LET walk[n \in Nat] ==
            IF n = 0 THEN [depth |-> start, queue |-> InOrder(DOMAIN start)]
            ELSE LET w == walk[n - 1] IN
                 IF n > Len(w.queue) THEN w
                 ELSE LET b   == w.queue[n]
                          d   == w.depth[b]
                          new == Into(b, d) \ DOMAIN w.depth
                      IN [depth |-> [c \in DOMAIN w.depth \union new |->
                                        IF c \in new THEN Leave(b, d) ELSE w.depth[c]],
                          queue |-> w.queue \o InOrder(new)]
    IN walk[Len(prog)].depth

NoCells == <<0, 0>>

\* The height at the end of block b entered at height d, and the lowest it reaches.
\* A frame slot below the frame is an argument, popped or not.
Effect(b, d, known) ==
    LET Step(h, o) ==
            LET takes == IF o.op # "callsub" THEN <<o.pops, o.pushes>>
                         ELSE IF CalleeOf(b) = 0 THEN NoCells ELSE known[CalleeOf(b)]
                dip   == h.at - takes[1]
                slot  == IF o.op \in {"frame_dig", "frame_bury"} THEN o.imm ELSE 0
                low   == Min({h.low, slot, dip})
            IN [at |-> dip + takes[2], low |-> low]
    IN FoldLeft(Step, [at |-> d, low |-> d], prog[b])

\* Mutant: what is left counts from the height at the entry.
MeasuredFromEntry(s, known) ==
    LET depth == FirstHeights(s :> 0, LAMBDA b, d : LocalFlow(b),
                                      LAMBDA b, d : Effect(b, d, known).at)
        lows  == {Effect(b, depth[b], known).low : b \in DOMAIN depth}
        left  == {Effect(r, depth[r], known).at : r \in DOMAIN depth \cap Retsubs}
    IN [arity |-> <<-Min(lows),
                    IF left = {} THEN 0 ELSE Max(left)>>,
        divergent |-> Cardinality(left) > 1]

\* What the routine s, entered at height 0, takes and leaves.  A branch out of the
\* blocks it owns still counts.
Measured(s, known) ==
    LET depth == FirstHeights(s :> 0, LAMBDA b, d : LocalFlow(b),
                                      LAMBDA b, d : Effect(b, d, known).at)
        lows  == {Effect(b, depth[b], known).low : b \in DOMAIN depth}
        floor == Min(lows)
        left  == {Effect(r, depth[r], known).at : r \in DOMAIN depth \cap Retsubs}
    IN [arity |-> <<-floor, IF left = {} THEN 0
                            ELSE Max(left) - floor>>,
        divergent |-> Cardinality(left) > 1]

\* Every routine without proto is measured again, in source order, until a sweep
\* changes nothing.
Arities ==
    LET Sweep(known) == FoldLeft(LAMBDA k, s : [k EXCEPT ![s] = Measured(s, k).arity],
                                 known, InOrder(Roots \ Declared))
        sweep[n \in Nat] ==
            IF n = 0 THEN [s \in Roots |-> IF s \in Declared THEN Proto(s) ELSE NoCells]
            ELSE LET known == sweep[n - 1] IN Sweep(known)
    IN sweep[Cardinality(Roots) + 4]

-----------------------------------------------------------------------------
(* sound_return_targets.                                                   *)

\* The next block, where only returns lead to it.
SoundReturn(c) ==
    LET b == Earliest({k \in Blocks : k > c}) IN
    IF b # 0 /\ Predecessors(b) # {} /\ Predecessors(b) \subseteq Retsubs THEN b ELSE 0

=============================================================================
