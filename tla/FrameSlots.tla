------------------------------ MODULE FrameSlots ------------------------------
(***************************************************************************)
(* Frame operations in blocks entered at several heights                   *)
(* (ssa/frame_slots.py).  The stack of such a block is aligned at its top, *)
(* so a position counted from the bottom, as frame operations count, names *)
(* different cells on different paths.                                     *)
(*                                                                         *)
(* A region is a group of such blocks that lead to each other.  The plan   *)
(* answers a read there from the stacks the region is entered with and the *)
(* writes that may reach it, or not at all.                                *)
(***************************************************************************)
EXTENDS CallEffects

VARIABLE plan   \* frame_dig or retsub -> position -> where its cell may come from

-----------------------------------------------------------------------------
\* The position an operation of routine s names, from the bottom of its stack.
Slot(s, o) == arity[s][1] + o.imm

CallArity(b) == IF End(b) = "callsub" /\ CalleeOf(b) # 0 THEN arity[CalleeOf(b)] ELSE NoCells

\* The height b leaves, and the lowest it reaches, entered at height h.
Leaving(b, h) == h + Net(b) - CallArity(b)[1] + CallArity(b)[2]
Lowest(b, h) ==
    Min({Before(b, i, h) - prog[b][i].pops : i \in DOMAIN prog[b]}
            \union {h + Net(b) - CallArity(b)[1]})

CallsUnsafe(b) == End(b) = "callsub" /\ CalleeOf(b) \in unsafe

\* Neighbours of block b in its region.  A call is next to its continuation, not the
\* other way round.
Near(b) == {c \in LocalFlow(b) \union {p \in Predecessors(b) : b \in LocalFlow(p)} :
                Poisoned(c) /\ owner[c] = owner[b]}

Region(b) == Closure({b}, [k \in Blocks |-> Near(k)])

\* Blocks of known height that lead into block b of a region.
Known(b) == {p \in Predecessors(b) \cap DOMAIN heights :
                 owner[p] = owner[b] /\ End(p) # "callsub" /\ b \in LocalFlow(p)}

Within(region, b)     == LocalFlow(b) \cap region
Reached(region, S)    == Closure(S, [b \in Blocks |-> Within(region, b)])
Writes(region, pos)   == {w \in UNION {{b} \X DOMAIN prog[b] : b \in region} :
                              LET o == prog[w[1]][w[2]] IN
                              o.op = "frame_bury" /\ Slot(owner[w[1]], o) = pos}

\* Every way to read r from the entry of the region passes write w.
Dominates(region, entry, w, r) ==
    IF w[1] = r[1] THEN w[2] < r[2]
    ELSE r[1] \notin Reached(region \ {w[1]}, {entry} \ {w[1]})

\* Every way from write w to read r passes write s.
Kills(region, s, w, r) ==
    IF w[1] = s[1]
    THEN w[2] < s[2] /\ ~(r[1] = w[1] /\ w[2] < r[2] /\ r[2] <= s[2])
    ELSE IF r[1] = s[1] THEN s[2] < r[2]
    ELSE /\ ~(r[1] = w[1] /\ w[2] < r[2])
         /\ LET rest == region \ {w[1], s[1]} IN r[1] \notin Reached(rest, Within(rest, w[1]))

\* What is read in the blocks B, and at which positions: the slot a frame_dig names,
\* and the slots a return of a routine with proto leaves.
ReadsIn(B) ==
    UNION {{<<b, i>> : i \in {k \in DOMAIN prog[b] :
                \/ prog[b][k].op = "frame_dig"
                \/ prog[b][k].op = "retsub" /\ owner[b] \in Declared}} : b \in B}

Positions(r) ==
    LET o == prog[r[1]][r[2]]
        s == owner[r[1]]
    IN IF o.op = "frame_dig" THEN {Slot(s, o)} ELSE arity[s][1]..(arity[s][1] + Proto(s)[2] - 1)

Answered(B, Answer(_, _)) ==
    [r \in ReadsIn(B) |-> [pos \in {p \in Positions(r) : Answer(r, p) # {}} |->
                              CHOOSE m \in Answer(r, pos) : TRUE]]

\* The heights of the blocks of one lap from the entry, over the height at the entry.
Lap(region, entry) ==
    FirstHeights(entry :> 0, LAMBDA b, h : Within(region, b) \ {entry}, Leaving)

\* A region with one entry: a position below what any lap touches is read from the
\* stacks the region is entered with, unless a write of it reaches the read.
SingleEntry(region, entry) ==
    LET Into(b) == Within(region, b) \ {entry}
        lap   == Lap(region, entry)
        given == Min({Leaving(p, heights[p]) : p \in Known(entry)})
        floor == given + Min({0} \union {Lowest(b, lap[b]) : b \in DOMAIN lap})
        sound == /\ given >= 0
                 /\ \A b \in DOMAIN lap :
                        ~CallsUnsafe(b) /\ \A c \in Into(b) : lap[c] = Leaving(b, lap[b])
        After(w) == Reached(region, Within(region, w[1]))
        Answer(r, pos) ==
            LET reaching  == {w \in Writes(region, pos) :
                                 r[1] \in After(w) \/ (w[1] = r[1] /\ w[2] < r[2])}
                surviving == {w \in reaching : \A s \in reaching \ {w} : ~Kills(region, s, w, r)}
                live      == \A w \in reaching : ~Dominates(region, entry, w, r)
            IN IF 0 <= pos /\ pos < floor /\ (live \/ surviving # {})
               THEN {[home |-> entry, from |-> IF live THEN Known(entry) ELSE {},
                      writes |-> surviving, phi |-> TRUE]}
               ELSE {}
        answers == Answered(region, Answer)
    IN IF sound THEN Restrict(answers, {r \in DOMAIN answers :
                        DOMAIN answers[r] # {} \/ prog[r[1]][r[2]].op = "retsub"})
       ELSE <<>>

\* A region with several entries: a position nothing in it touches or writes.
SeveralEntries(region, entries) ==
    LET start == [e \in entries |-> Min({Leaving(p, heights[p]) : p \in Known(e)})]
        Relax(h) == [b \in DOMAIN h \union UNION {Within(region, p) : p \in DOMAIN h} |->
                        Min((IF b \in DOMAIN h THEN {h[b]} ELSE {}) \union
                            {Leaving(p, h[p]) : p \in {q \in DOMAIN h : b \in Within(region, q)}})]
        relaxed[n \in Nat] == IF n = 0 THEN start ELSE LET h == relaxed[n - 1] IN Relax(h)
        lows  == relaxed[Cardinality(region)]
        floor == Min({Lowest(b, lows[b]) : b \in DOMAIN lows})
        sound == Relax(lows) = lows /\ \A b \in DOMAIN lows : ~CallsUnsafe(b)
        Boundary(b) == UNION {Known(e) : e \in {x \in entries : b \in Reached(region, {x})}}
        Answer(r, pos) ==
            IF /\ sound /\ 0 <= pos /\ pos < floor
               /\ Writes(region, pos) = {}
               /\ Boundary(r[1]) # {}
            THEN {[home |-> r[1], from |-> Boundary(r[1]), writes |-> {},
                   phi |-> Boundary(r[1]) = Predecessors(r[1])]}
            ELSE {}
        answers == Answered(region, Answer)
    IN Restrict(answers, {r \in DOMAIN answers : DOMAIN answers[r] # {}})

PlanRegion(region) ==
    LET entries == {b \in region : Known(b) # {}} IN
    IF entries = {} THEN <<>>
    ELSE IF Cardinality(entries) = 1 THEN SingleEntry(region, CHOOSE e \in entries : TRUE)
    ELSE SeveralEntries(region, entries)

\* The last write of the position before read r in its block, if nothing between can
\* put another value there.
LocalWrite(r, pos) ==
    LET written == {w \in Writes({r[1]}, pos) : w[2] < r[2]}
        last    == CHOOSE w \in written : \A x \in written : x[2] <= w[2]
    IN IF written # {} /\ \A k \in (last[2] + 1)..(r[2] - 1) : prog[r[1]][k].pushes = 0
       THEN {[home |-> r[1], from |-> {}, writes |-> {last}, phi |-> TRUE]}
       ELSE {}

PlanFrames ==
    /\ phase = "frames"
    /\ LET poisoned == {b \in Blocks : Poisoned(b)}
           Visit(acc, b) == IF b \in acc.seen THEN acc
                            ELSE [seen |-> acc.seen \union Region(b),
                                  plan |-> PlanRegion(Region(b)) @@ acc.plan]
           regional == FoldLeft(Visit, [seen |-> {}, plan |-> <<>>], InOrder(poisoned)).plan
           local    == Answered(poisoned, LocalWrite)
       IN plan' = [r \in DOMAIN local |->
                      IF r \in DOMAIN regional THEN regional[r] @@ local[r] ELSE local[r]]
    /\ phase' = "walk"
    /\ UNCHANGED <<program, boundaries, effects>>

=============================================================================
