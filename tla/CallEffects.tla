----------------------------- MODULE CallEffects -----------------------------
(***************************************************************************)
(* What calls do to the stack of their caller, as far as it can be told    *)
(* before anything is walked (ssa/ssa.py, ssa/stacksim.py,                 *)
(* ssa/callee_effects.py): the calls whose return is verified, the height  *)
(* each block is entered at, the callees that may touch the cells below    *)
(* their own, and what the simplest of them do to those.                   *)
(***************************************************************************)
EXTENDS Subroutines

VARIABLES
    pairs,      \* callsub block -> [cont, takes, leaves], the verified calls
    heights,    \* block -> the one height it is entered at
    unsafe,     \* declared routines that may touch the cells below their own
    summaries   \* routine -> what it does to those cells, when it can be told

effects == <<pairs, heights, unsafe, summaries>>

-----------------------------------------------------------------------------
(* Values.                                                                 *)

None           == <<"none", 0, 0, 0>>
Var(b, i, k)   == <<"var", b, i, k>>        \* output k of operation i of block b
Param(s, p)    == <<"param", s, p, 0>>      \* cell p routine s was entered with, 0 deepest
Phi(b, slot)   == <<"phi", b, slot, 0>>
FramePhi(b, at) == <<"phi", b, at[1], at[2]>>   \* minted by the frame read at
Below(j)       == <<"below", j, 0, 0>>      \* cell j under the arguments, 1 the first

IsParam(v) == v[1] = "param"
IsPhi(v)   == v[1] = "phi"
IsFramePhi(v) == IsPhi(v) /\ v[4] # 0

Outputs(b, i) == [k \in 1..prog[b][i].pushes |-> Var(b, i, k)]

\* Stacks are written bottom first; the top n cells, top first, and what is under.
Top(stack, n)   == [k \in 1..n |-> stack[Len(stack) + 1 - k]]
Under(stack, n) == SubSeq(stack, 1, Len(stack) - n)
FromTop(stack, k) == stack[Len(stack) + 1 - k]
Blank(stack)    == [k \in DOMAIN stack |-> None]

-----------------------------------------------------------------------------
(* Call pairs.                                                             *)

Callee(c) ==
    LET declared == succ[c] \cap Declared
        legacy   == {s \in succ[c] : owner[s] = s /\ s \notin divergent}
    IN IF declared # {} THEN Earliest(declared) ELSE Earliest(legacy)

\* The call comes back, to a block of its own routine that a return of its callee
\* leads to, and its callee takes and leaves a known number of cells.
Verified(c) ==
    /\ conts[c] \notin {0, c}
    /\ Callee(c) # 0
    /\ owner[conts[c]] = owner[c]
    /\ \E r \in Predecessors(conts[c]) \cap Retsubs : owner[r] = Callee(c)

Pair ==
    /\ phase = "pair"
    /\ LET known == Arities IN
       /\ arity' = known
       /\ divergent' = {s \in Roots \ Declared : Measured(s, known).divergent}
    /\ phase' = "heights"
    /\ UNCHANGED <<program, identified, owner, effects>>

-----------------------------------------------------------------------------
(* Entry heights.                                                          *)

\* The height before operation i of block b, entered at height h.
Before(b, i, h) == FoldLeft(LAMBDA n, o : n + o.pushes - o.pops, h, SubSeq(prog[b], 1, i - 1))
Net(b) == Before(b, Len(prog[b]) + 1, 0)

Arity(s) == IF s \in Declared THEN Proto(s) ELSE arity[s]

\* Successors in the same routine by a plain edge.
Plain(b) == IF End(b) \in {"callsub", "retsub"} THEN {}
            ELSE {s \in succ[b] : owner[s] = owner[b]}

AtEnd(b, d) == IF d + Net(b) < 0 THEN 0 ELSE d + Net(b)

Crossing(pair, d) == d - pair.takes + pair.leaves

\* Mutant: the first height that reaches a block is kept.
HeightsByFirstVisit(crossed) ==
    LET Out(b, d)  == AtEnd(b, d) + (IF b \in DOMAIN crossed THEN Crossing(crossed[b], 0) ELSE 0)
        Into(b, d) == IF b \in DOMAIN crossed
                      THEN IF Out(b, d) >= 0 THEN {crossed[b].cont} ELSE {}
                      ELSE Plain(b)
    IN FirstHeights([s \in Roots |-> IF s \in Declared THEN Proto(s)[1] ELSE 0], Into, Out)

HeightsOf(crossed) ==
    LET Out(b, d)  == AtEnd(b, d) + (IF b \in DOMAIN crossed THEN Crossing(crossed[b], 0) ELSE 0)
        Into(b, d) == IF b \in DOMAIN crossed
                      THEN IF Out(b, d) >= 0 THEN {crossed[b].cont} ELSE {}
                      ELSE Plain(b)
        Suffix(b)  == IF b \in DOMAIN crossed THEN {crossed[b].cont} ELSE Plain(b)
        start      == [s \in Roots |-> IF s \in Declared THEN Proto(s)[1] ELSE 0]
        first      == FirstHeights(start, Into, Out)
        conflicted == {c \in DOMAIN first :
                          \E b \in DOMAIN first : c \in Into(b, first[b]) /\ Out(b, first[b]) # first[c]}
        exact      == DOMAIN first \ Closure(conflicted, [b \in Blocks |-> Suffix(b)])
    IN [b \in exact |-> first[b]]

EntryHeights ==
    /\ phase = "heights"
    /\ LET known == {c \in Callsubs : Verified(c)} IN
       pairs' = [c \in known |-> [cont |-> conts[c], takes |-> Arity(Callee(c))[1],
                                  leaves |-> Arity(Callee(c))[2]]]
    /\ heights' = HeightsOf(pairs')
    /\ phase' = "effects"
    /\ UNCHANGED <<program, boundaries, unsafe, summaries>>

\* Entered at no height that is the same on every path.
Poisoned(b) == owner[b] # 0 /\ b \notin DOMAIN heights

-----------------------------------------------------------------------------
(* Callees that may touch the cells below their own.                       *)

ReachesReturn(b) == Closure({b}, [k \in Blocks |-> LocalFlow(k)]) \cap Retsubs # {}

\* Shuffles that put back every cell they take.
ReadOnly(o) == \/ o.op = "frame_dig"
               \/ /\ o.op = "shuffle"
                  /\ o.perm # <<>>
                  /\ Len(o.perm) > o.pops
                  /\ SubSeq(o.perm, Len(o.perm) - o.pops + 1, Len(o.perm)) = Ascending(1, o.pops)

\* Some operation of block b, entered at height h, takes a cell below the routine's
\* own, or calls a routine that does.
Dips(b) ==
    LET h(i) == Before(b, i, heights[b])
        nargs == IF owner[b] \in Declared THEN Proto(owner[b])[1] ELSE 0
        called == {s \in succ[b] : s \in Declared \union DOMAIN arity}
    IN \E i \in DOMAIN prog[b] :
           LET o == prog[b][i] IN
           CASE o.op = "frame_bury" -> nargs + o.imm < 0
             [] o.op = "callsub"    -> called # {} /\ Arity(Earliest(called))[1] > h(i)
             [] OTHER               -> o.pops > h(i) /\ ~ReadOnly(o)

\* Mutant: callers of an unsafe routine count as safe.
UnsafeOfThemselves ==
    LET relevant == {b \in Blocks : owner[b] # 0 /\ ReachesReturn(b)}
    IN {owner[b] : b \in {k \in relevant : k \notin DOMAIN heights \/ Dips(k)}} \cap Declared

UnsafeRoutines ==
    LET relevant == {b \in Blocks : owner[b] # 0 /\ ReachesReturn(b)}
        direct   == {owner[b] : b \in {k \in relevant : k \notin DOMAIN heights \/ Dips(k)}}
        Callers(s) == {owner[b] : b \in {c \in relevant \cap Callsubs :
                                            \E e \in succ[c] : owner[e] = s}}
    IN Closure(direct, [s \in Roots |-> Callers(s)]) \cap Declared

-----------------------------------------------------------------------------
(* What such a callee does to those cells.                                 *)

BodyEdges(s, b) == IF End(b) \in {"retsub", "return", "err", "callsub"} THEN {}
                   ELSE succ[b] \cap Owned(s)

TreeShaped(s) ==
    /\ Owned(s) \cap Callsubs = {}
    /\ \A b \in Owned(s) :
           Cardinality({p \in Owned(s) : b \in BodyEdges(s, p)}) <= (IF b = s THEN 0 ELSE 1)

\* The blocks on the way from the entry of s to block b of its tree.
Path(s, b) ==
    LET path[n \in Nat] ==
            IF n = 0 THEN <<b>>
            ELSE LET p == path[n - 1] IN
                 IF Head(p) = s THEN p
                 ELSE <<CHOOSE q \in Owned(s) : Head(p) \in BodyEdges(s, q)>> \o p
    IN path[Cardinality(Owned(s))]

\* The operations on the way to and through block b, with their places.
Along(s, b) ==
    FlattenSeq([k \in DOMAIN Path(s, b) |->
        [i \in DOMAIN prog[Path(s, b)[k]] |-> <<Path(s, b)[k], i>>]])

Reach(s) ==
    LET Dip(h, at) ==
            LET o == prog[at[1]][at[2]] IN
            [now |-> h.now - o.pops + o.pushes,
             low |-> IF h.now - o.pops < h.low THEN h.now - o.pops ELSE h.low]
        lows == {FoldLeft(Dip, [now |-> Proto(s)[1], low |-> 0], Along(s, b)).low : b \in Owned(s)}
    IN -Min(lows)

Put(stack, pos, v) == IF pos = Len(stack) THEN Append(stack, v)
                      ELSE [stack EXCEPT ![pos + 1] = v]

\* One operation over the cells of a path: "live", "dead" where the AVM rejects the
\* frame operation, "refused" where the cells cannot be placed.  The outputs of an
\* operation go on in the order they are listed in, the topmost first: two of them
\* change places (see SummariesAreExact of StackMachine).
Summarise(reach, takes, v, at) ==
    LET o   == prog[at[1]][at[2]]
        pos == reach + takes + o.imm
        In(n) == pos < n
    IN  CASE v.is # "live" -> v
          [] o.op \in {"frame_dig", "frame_bury"} /\ takes + o.imm < 0 -> [v EXCEPT !.is = "dead"]
          [] o.op = "frame_dig" ->
                 IF In(Len(v.cells)) THEN [v EXCEPT !.cells = Append(@, Var(at[1], at[2], 1))]
                 ELSE [v EXCEPT !.is = "refused"]
          [] o.op = "frame_bury" ->
                 IF Len(v.cells) > 0 /\ pos <= Len(v.cells) - 1
                 THEN [v EXCEPT !.cells = Put(Under(@, 1), pos, Last(@))]
                 ELSE [v EXCEPT !.is = "refused"]
          [] o.pops > Len(v.cells) -> [v EXCEPT !.is = "refused"]
          [] o.op = "shuffle" ->
                 LET taken == Top(v.cells, o.pops) IN
                 [v EXCEPT !.cells = Under(@, o.pops) \o Reverse([k \in DOMAIN o.perm |-> taken[o.perm[k]]])]
          [] OTHER -> [v EXCEPT !.cells = Under(@, o.pops) \o Outputs(at[1], at[2])]

\* Mutant: counted from the deepest.
BeneathFromBottom(cells, reach) == SubSeq(cells, 1, reach)

\* The cells under the arguments, the first next to them.
Beneath(cells, reach) == Reverse(SubSeq(cells, 1, reach))

\* The cells under the arguments after each returning path, or no answer.
Summary(s) ==
    LET reach == Reach(s)
        takes == Proto(s)[1]
        start == [is |-> "live",
                  cells |-> [k \in 1..reach |-> Below(reach + 1 - k)]
                              \o [k \in 1..takes |-> Param(s, k - 1)]]
        At(b) == FoldLeft(LAMBDA v, at : Summarise(reach, takes, v, at), start, Along(s, b))
        exits == {r \in Owned(s) \cap Retsubs :
                     At(r).is = "live" /\ Len(At(r).cells) >= reach + takes}
    IN IF reach = 0 \/ exits = {} \/ \E b \in Owned(s) : At(b).is = "refused" THEN {}
       ELSE {[reach |-> reach,
              paths |-> {[at |-> r, cells |-> Beneath(At(r).cells, reach)] : r \in exits}]}

Effects ==
    /\ phase = "effects"
    /\ unsafe' = UnsafeRoutines
    /\ LET told == {s \in unsafe' : TreeShaped(s) /\ Summary(s) # {}} IN
       summaries' = [s \in told |-> CHOOSE x \in Summary(s) : TRUE]
    /\ phase' = "frames"
    /\ UNCHANGED <<program, boundaries, pairs, heights>>

=============================================================================
