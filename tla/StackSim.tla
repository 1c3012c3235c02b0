------------------------------ MODULE StackSim ------------------------------
(***************************************************************************)
(* SSA construction (ssa/ssa.py, ssa/stacksim.py): what each operation of  *)
(* a program takes from the stack.                                         *)
(*                                                                         *)
(* The boundaries of the routines, the effects of calls and the frame      *)
(* slots come first.  Each routine is then walked once, callees first;     *)
(* what recursion left open is filled in, and the cells a routine was      *)
(* entered with are bound to what its calls pass.                          *)
(***************************************************************************)
EXTENDS FrameSlots

VARIABLES
    todo,       \* routines not walked yet
    sim,        \* what the walks recorded
    ssa         \* what construction publishes: operands, phis, unresolved operations

walks    == <<todo, sim, ssa>>
products == <<effects, plan, walks>>
analysis == <<phase, boundaries, products>>

\* What blocks no routine owns read is unresolved: they are never walked.
Unclaimed ==
    UNION {{<<b, i>> : i \in {k \in DOMAIN prog[b] : \/ prog[b][k].pops > 0
                                                   \/ prog[b][k].op \in {"callsub", "frame_dig"}}} :
           b \in {c \in Blocks : owner[c] = 0}}

StartWalks ==
    /\ todo' = {owner[b] : b \in Blocks} \ {0}
    /\ sim' = [args |-> <<>>, exit |-> <<>>, phis |-> <<>>, unresolved |-> Unclaimed,
               skewed |-> {}, deferred |-> {}, late |-> {}]
    /\ UNCHANGED ssa

-----------------------------------------------------------------------------
(* One operation of a walk.                                                *)

\* The state of a walk: the stack, and everything recorded so far.
Record(w, at, operands)   == [w EXCEPT !.out.args = (at :> operands) @@ @]
Unresolved(w, at)         == [w EXCEPT !.out.unresolved = @ \union {at}]
Push(w, v)                == [w EXCEPT !.stack = Append(@, v)]
Drop(w, n)                == [w EXCEPT !.stack = Under(@, n)]

\* Phi p of the values vs.
Mint(w, p, vs, partial) ==
    [w EXCEPT !.out.phis = (p :> [args |-> vs, partial |-> partial]) @@ @]

\* The value phi p carries when all it merges is that value and itself, phis taken in
\* turn; else p.
Root(phis, v) ==
    LET Collapsed(f, p) ==
            LET met == {IF x \in DOMAIN f THEN f[x] ELSE x : x \in phis[p].args \ {p}} IN
            IF Cardinality(met) = 1 THEN CHOOSE x \in met : TRUE ELSE p
        pass[n \in Nat] == IF n = 0 THEN [p \in DOMAIN phis |-> p]
                             ELSE LET f == pass[n - 1] IN [p \in DOMAIN phis |-> Collapsed(f, p)]
    IN IF v \in DOMAIN phis THEN pass[Cardinality(DOMAIN phis)][v] ELSE v

\* The one value behind the cells vs, or none.
SameCell(phis, vs) ==
    LET roots == {Root(phis, v) : v \in vs}
    IN IF Cardinality(roots) = 1 THEN CHOOSE v \in roots : TRUE ELSE None

\* The cells planned merge m names at position pos, and its writes not walked yet.
Pending(out, m) == {x \in m.writes : x \notin DOMAIN out.args \/ None \in Range(out.args[x])}
Cells(out, m, pos) ==
    {IF pos < Len(out.exit[p]) THEN out.exit[p][pos + 1] ELSE None : p \in m.from \cap DOMAIN out.exit}
        \union {None : p \in m.from \ DOMAIN out.exit}
        \union {out.args[x][1] : x \in m.writes \ Pending(out, m)}

Refuse(w, at) == Push(Unresolved(w, at), None)
Copy(w, at, v) == Push(Record(w, at, <<v>>), Var(at[1], at[2], 1))

\* A frame_dig in a block entered at several heights: the one value its merge names,
\* else a phi of them at the merge's home, which writes not walked yet complete later.
ExecPlannedDig(w, at, pos) ==
    LET known == at \in DOMAIN plan /\ pos \in DOMAIN plan[at]
        m     == plan[at][pos]
        cells == Cells(w.out, m, pos)
        late  == Pending(w.out, m)
        phi   == FramePhi(m.home, at)
        same  == SameCell(w.out.phis, cells)
    IN IF ~known \/ None \in cells THEN Refuse(w, at)
       ELSE IF late = {} /\ same # None THEN Copy(w, at, same)
       ELSE IF ~m.phi \/ cells \union late = {} THEN Refuse(w, at)
       ELSE [Copy(Mint(w, phi, cells, FALSE), at, phi) EXCEPT
                !.out.late = @ \union {[phi |-> phi, write |-> x] : x \in late}]

\* Mutant: a frame_dig that cannot be told is passed over.
ExecFrameDigSilently(w, at) ==
    LET pos == Slot(owner[at[1]], prog[at[1]][at[2]])
    IN IF ~Poisoned(at[1]) /\ 0 <= pos /\ pos < Len(w.stack) THEN Copy(w, at, w.stack[pos + 1])
       ELSE Push(w, None)

ExecFrameDig(w, at) ==
    LET pos == Slot(owner[at[1]], prog[at[1]][at[2]])
    IN IF owner[at[1]] \in w.out.skewed THEN Refuse(w, at)
       ELSE IF Poisoned(at[1]) THEN ExecPlannedDig(w, at, pos)
       ELSE IF 0 <= pos /\ pos < Len(w.stack) THEN Copy(w, at, w.stack[pos + 1])
       ELSE Refuse(w, at)

ExecFrameBury(w, at) ==
    LET b    == at[1]
        s    == owner[b]
        pos  == Slot(s, prog[b][at[2]])
        rest == Drop(w, 1)
        told == Record(rest, at, <<Last(w.stack)>>)
        kept == IF Poisoned(b) THEN None ELSE Last(w.stack)
    IN IF w.stack = <<>> THEN Unresolved(w, at)
       ELSE IF s \in w.out.skewed THEN Unresolved(rest, at)
       ELSE IF 0 <= pos /\ pos <= Len(rest.stack)
       THEN [told EXCEPT !.stack = Put(@, pos, kept)]
       ELSE Unresolved(told, at)

ExecPlain(w, at) ==
    LET b      == at[1]
        o      == prog[b][at[2]]
        have   == IF o.pops <= Len(w.stack) THEN o.pops ELSE Len(w.stack)
        taken  == Top(w.stack, have) \o [k \in 1..(o.pops - have) |-> None]
        told   == Record(w, at, taken)
        noted  == IF None \in Range(taken) THEN Unresolved(told, at) ELSE told
        skewed == IF have < o.pops THEN [noted EXCEPT !.out.skewed = @ \union {owner[b]}] ELSE noted
    IN [skewed EXCEPT !.stack = Under(@, have) \o Reverse(Outputs(b, at[2]))]

\* Predecessors of block b in its own routine.
Inside(b) == {p \in Owned(owner[b]) : b \in LocalFlow(p)}

\* A phi of what several returns leave belongs to the continuation, if only the call
\* leads there.
CanMerge(b) == /\ conts[b] # 0
               /\ owner[conts[b]] = owner[b]
               /\ Cardinality(Inside(conts[b])) <= 1

\* One value for the cells vs of the returns of a call: theirs, a phi, or none.
Joined(vs, b, slot) ==
    IF vs = {} \/ None \in vs THEN None
    ELSE IF Cardinality(vs) = 1 THEN CHOOSE v \in vs : TRUE
    ELSE IF CanMerge(b) THEN Phi(conts[b], slot)
    ELSE None

\* The stack with v instead of cell d from the top, and the phi that is v, if it is one
\* of the values vs merged after block b.
SetJoined(w, b, d, slot, vs) ==
    LET v    == Joined(vs, b, slot)
        told == IF v = Phi(conts[b], slot) THEN Mint(w, v, vs, FALSE) ELSE w
    IN [told EXCEPT !.stack[Len(w.stack) + 1 - d] = v]

PushJoined(w, b, slot, vs) == SetJoined(Push(w, None), b, 1, slot, vs)

\* The residual after a callee that touches it: rewritten through its summary, where
\* there is one the residual is deep enough for, else withdrawn.
Residual(w, b, callee, operands) ==
    LET base == w.stack
        x    == summaries[callee]
        Cell(path, d) ==
            LET c == path.cells[d] IN
            CASE c[1] = "below" -> IF c[2] <= Len(base) THEN FromTop(base, c[2]) ELSE None
              [] IsParam(c)     -> IF Arity(callee)[1] - c[3] \in DOMAIN operands
                                   THEN operands[Arity(callee)[1] - c[3]] ELSE None
              [] OTHER          -> c
        Rewrite(v, d) == SetJoined(v, b, d, Arity(callee)[2] + d, {Cell(p, d) : p \in x.paths})
    IN IF callee \notin unsafe THEN w
       ELSE IF callee \notin DOMAIN summaries \/ x.reach > Len(base)
       THEN [w EXCEPT !.stack = Blank(@)]
       ELSE FoldLeft(Rewrite, w, Ascending(1, x.reach))

\* What return r leaves as result j of n, the first 0: where proto truncates the stack
\* to the frame, a slot of it, which a merge may name in a block entered at several
\* heights; else a cell counted from the top.
Returned(out, callee, r, j, n) ==
    LET st    == out.exit[r]
        pos   == Proto(callee)[1] + j
        at    == <<r, Len(prog[r])>>
        known == at \in DOMAIN plan /\ pos \in DOMAIN plan[at]
        m     == plan[at][pos]
    IN IF callee \notin Declared
       THEN IF n - j <= Len(st) THEN {FromTop(st, n - j)} ELSE {None}
       ELSE IF Poisoned(r)
       THEN IF known /\ Pending(out, m) = {} THEN Cells(out, m, pos) ELSE {None}
       ELSE IF callee \in out.skewed \/ pos >= Len(st) THEN {None} ELSE {st[pos + 1]}

\* Result j of n of a call of block b.  Where some return has not been walked yet a
\* phi stands for the result and is completed later.
PushResult(w, b, callee, j, n) ==
    LET rets    == Owned(callee) \cap Retsubs
        walked  == rets \cap DOMAIN w.out.exit
        slot    == n - j
        vs      == UNION {Returned(w.out, callee, r, j, n) : r \in walked}
        later   == [phi |-> Phi(conts[b], slot), callee |-> callee, j |-> j, n |-> n,
                    rets |-> rets \ walked]
        pending == Push(Mint(w, later.phi, vs, FALSE), later.phi)
    IN IF rets = walked \/ None \in vs THEN PushJoined(w, b, slot, vs)
       ELSE IF callee \in divergent \/ ~CanMerge(b) THEN Push(w, None)
       ELSE [pending EXCEPT !.out.deferred = @ \union {later}]

\* After a callee without proto whose returns leave different heights, every cell from
\* the top down to the caller's last is a merge of the cells each return shifts there.
Shifted(w, b, callee, n) ==
    LET exits == {w.out.exit[r] : r \in Owned(callee) \cap Retsubs}
        base  == w.stack
        Cell(st, k) ==
            IF k <= Len(st) THEN IF k <= n THEN FromTop(st, k) ELSE None
            ELSE IF k - Len(st) <= Len(base) THEN FromTop(base, k - Len(st)) ELSE None
        Trail(v, k)  == SetJoined(v, b, k - n, k, {Cell(st, k) : st \in exits})
        Result(v, j) == PushJoined(v, b, n - j, {Cell(st, n - j) : st \in exits})
        rest         == FoldLeft(Trail, w, Ascending(n + 1, n + Len(base)))
    IN FoldLeft(Result, rest, Ascending(0, n - 1))

ExecCallsub(w, at) ==
    LET b      == at[1]
        callee == CalleeOf(b)
        io     == arity[callee]
        have   == IF io[1] <= Len(w.stack) THEN io[1] ELSE Len(w.stack)
        taken  == Top(w.stack, have)
        told   == Record(Drop(w, have), at, taken)
        noted  == IF have < io[1] THEN Unresolved(told, at) ELSE told
        rest   == Residual(noted, b, callee, taken)
        open   == ~(Owned(callee) \cap Retsubs \subseteq DOMAIN w.out.exit) \/ ~CanMerge(b)
        shift  == callee \in divergent
        blank  == IF shift THEN [rest EXCEPT !.stack = Blank(@)] ELSE rest
    IN IF callee = 0 THEN Record(w, at, <<>>)
       ELSE IF shift /\ ~open THEN Shifted(rest, b, callee, io[2])
       ELSE FoldLeft(LAMBDA v, j : PushResult(v, b, callee, j, io[2]), blank, Ascending(0, io[2] - 1))

Exec(w, at) ==
    CASE prog[at[1]][at[2]].op = "frame_dig"  -> ExecFrameDig(w, at)
      [] prog[at[1]][at[2]].op = "frame_bury" -> ExecFrameBury(w, at)
      [] prog[at[1]][at[2]].op = "callsub"    -> ExecCallsub(w, at)
      [] prog[at[1]][at[2]].op = "proto"      -> w
      [] OTHER                                -> ExecPlain(w, at)

-----------------------------------------------------------------------------
(* The walk of a routine.                                                  *)

\* The depth-first walk of routine s: the blocks in the order they are left, and the
\* edges back to a block on the way to them.  It reaches every block of s: ownership is
\* handed out along the same edges, so the walk has no orphans to add.
Search(s) ==
    LET Inward(b) == LocalFlow(b) \cap Owned(s)
        Step(w) ==
            LET b     == Last(w.path)
                c     == Earliest({x \in Inward(b) : <<b, x>> \notin w.tried})
                tried == [w EXCEPT !.tried = @ \union {<<b, c>>}]
            IN IF c = 0 THEN [w EXCEPT !.path = Front(@), !.left = Append(@, b)]
               ELSE IF c \in Range(w.path) THEN [tried EXCEPT !.back = @ \union {<<b, c>>}]
               ELSE IF c \in Range(w.left) THEN tried
               ELSE [tried EXCEPT !.path = Append(@, c)]
        walk[n \in Nat] ==
            IF n = 0 THEN [path |-> <<s>>, tried |-> {}, left |-> <<>>, back |-> {}]
            ELSE LET w == walk[n - 1] IN IF w.path = <<>> THEN w ELSE Step(w)
    IN walk[Cardinality(Owned(s)) * (Cardinality(Owned(s)) + 1)]

\* The stack block b is entered with: one predecessor's, or a merge of them aligned at
\* the top.  A cell some predecessor lacks makes a partial phi.  A loop header has a phi
\* for every cell.
EnterBlock(out, s, b, back) ==
    LET forward == {p \in Inside(b) : <<p, b>> \notin back}
        loop    == \E p \in Inside(b) : <<p, b>> \in back
        st(p)   == out.exit[p]
        deepest == CHOOSE n \in {Len(st(p)) : p \in forward} : \A p \in forward : n >= Len(st(p))
        Have(k) == {p \in forward : Len(st(p)) >= k}
        Arms(k) == {FromTop(st(p), k) : p \in Have(k)}
        Same(k) == ~loop /\ Have(k) = forward /\ Cardinality(Arms(k)) = 1
        Merge(w, k) ==
            IF Same(k) THEN Push(w, CHOOSE v \in Arms(k) : TRUE)
            ELSE Push(Mint(w, Phi(b, k), Arms(k), Have(k) # forward), Phi(b, k))
    IN IF b = s THEN [stack |-> [k \in 1..arity[s][1] |-> Param(s, k - 1)], out |-> out]
       ELSE IF Cardinality(forward) = 1 /\ ~loop
       THEN [stack |-> st(CHOOSE p \in forward : TRUE), out |-> out]
       ELSE FoldLeft(Merge, [stack |-> <<>>, out |-> out], Reverse(Ascending(1, deepest)))

WalkBlock(out, s, b, back) ==
    LET w == FoldLeft(Exec, EnterBlock(out, s, b, back), [i \in DOMAIN prog[b] |-> <<b, i>>])
    IN [w.out EXCEPT !.exit = (b :> w.stack) @@ @]

\* Mutant: a loop header knows its first values alone.
ExtendNothing(out, back, s) == out

\* The phis of the loop headers take in what the edges back bring.
ExtendBackedges(out, back, s) ==
    LET Headers == {e[2] : e \in back} \ {s}
        Late(b, k) == {out.exit[e[1]] : e \in {f \in back : f[2] = b}}
        Extend(ph, b, k) ==
            [args |-> ph.args \union {FromTop(st, k) : st \in {x \in Late(b, k) : Len(x) >= k}},
             partial |-> ph.partial \/ \E st \in Late(b, k) : Len(st) < k]
    IN [out EXCEPT !.phis = [p \in DOMAIN @ |->
            IF p[2] \in Headers /\ ~IsFramePhi(p) THEN Extend(@[p], p[2], p[3]) ELSE @[p]]]

Calls(s) == {CalleeOf(c) : c \in Owned(s) \cap Callsubs} \ {0, s}

\* Callees first; on a cycle there is no such order.
Ready(s) == \A c \in Calls(s) \cap todo : s \in Closure({c}, [r \in Roots |-> Calls(r)])

WalkRoutine(s) ==
    /\ phase = "walk"
    /\ s \in todo
    /\ Ready(s)
    /\ LET dfs == Search(s)
           out == FoldLeft(LAMBDA o, b : WalkBlock(o, s, b, dfs.back), sim, Reverse(dfs.left))
       IN sim' = ExtendBackedges(out, dfs.back, s)
    /\ todo' = todo \ {s}
    /\ UNCHANGED <<program, phase, boundaries, effects, plan, ssa>>

\* Every routine is walked: the results recursion left open are completed, then the
\* frame reads before the writes they merge.
FillDeferred ==
    /\ phase = "walk"
    /\ todo = {}
    /\ LET Single(d, r) ==
               LET vs == Returned(sim, d.callee, r, d.j, d.n)
               IN IF d.callee \in Declared /\ Poisoned(r) THEN SameCell(sim.phis, vs)
                  ELSE CHOOSE v \in vs : TRUE
           Late(p) == UNION {{Single(d, r) : r \in d.rets} : d \in {x \in sim.deferred : x.phi = p}}
                          \union {IF Pending(sim, [writes |-> {l.write}]) = {} THEN sim.args[l.write][1]
                                  ELSE None : l \in {x \in sim.late : x.phi = p}}
       IN sim' = [sim EXCEPT !.phis = [p \in DOMAIN @ |->
                     [args |-> @[p].args \union (Late(p) \ {None}),
                      partial |-> @[p].partial \/ None \in Late(p)]]]
    /\ phase' = "bind"
    /\ UNCHANGED <<program, boundaries, effects, plan, todo, ssa>>

-----------------------------------------------------------------------------
(* Binding the cells a routine is entered with to what its calls pass.     *)

Sites(s) == {c \in Callsubs : CalleeOf(c) = s}

\* What call site c passes as cell p of routine s.
Passed(c, s, p) ==
    LET call == <<c, Len(prog[c])>>
        k    == arity[s][1] - p
    IN IF call \in DOMAIN sim.args /\ k \in DOMAIN sim.args[call] THEN sim.args[call][k] ELSE None

Hops == 16

Bind ==
    /\ phase = "bind"
    /\ LET Given(s, p) == {Passed(c, s, p) : c \in Sites(s)} \ {None}
           Home(s, p) == Phi(s, arity[s][1] - p)
           Bound(v) ==
               LET vs == Given(v[2], v[3]) IN
               IF vs = {} THEN None
               ELSE IF Cardinality(vs) = 1 THEN CHOOSE x \in vs : TRUE
               ELSE Home(v[2], v[3])
           hop(v) == LET f[n \in Nat] == IF n = 0 THEN v
                                         ELSE LET u == f[n - 1] IN IF IsParam(u) THEN Bound(u) ELSE u
                     IN f[Hops]
           Resolve(v) == IF IsParam(hop(v)) THEN None ELSE hop(v)
           cells  == UNION {{<<s, p>> : p \in 0..(arity[s][1] - 1)} : s \in {k \in Roots : Sites(k) # {}}}
           merged == {c \in cells : Cardinality(Given(c[1], c[2])) > 1}
           minted == [h \in {Home(c[1], c[2]) : c \in merged} |->
                         [args |-> Given(h[2], arity[h[2]][1] - h[3]), partial |-> FALSE]]
           all    == minted @@ sim.phis
       IN ssa' = [args |-> [at \in DOMAIN sim.args |->
                               [k \in DOMAIN sim.args[at] |-> Resolve(sim.args[at][k])]],
                  phis |-> [h \in DOMAIN all |->
                               [args |-> {Resolve(v) : v \in all[h].args},
                                partial |-> all[h].partial]],
                  unresolved |-> sim.unresolved]
    /\ phase' = "built"
    /\ UNCHANGED <<program, boundaries, effects, plan, todo, sim>>

\* The operands an operation is published with: the cells construction could tell.
Inputs(at) == IF at \in DOMAIN ssa.args THEN SelectSeq(ssa.args[at], LAMBDA v : v # None) ELSE <<>>

\* The values that may stand for v: its own name, or the leaves its phi merges.
Leaves(v) ==
    LET Args(S) == UNION {ssa.phis[p].args : p \in {x \in S : IsPhi(x)}}
        found[n \in Nat] == IF n = 0 THEN {v} ELSE LET S == found[n - 1] IN S \union Args(S)
    IN {x \in found[Cardinality(DOMAIN ssa.phis) + 1] : x[1] = "var"}

-----------------------------------------------------------------------------

InitBuild ==
    /\ InitIdentify
    /\ owner = <<>>
    /\ arity = <<>>
    /\ divergent = {}
    /\ pairs = <<>>
    /\ heights = <<>>
    /\ unsafe = {}
    /\ summaries = <<>>
    /\ plan = <<>>
    /\ todo = {}
    /\ sim = <<>>
    /\ ssa = <<>>

Build ==
    \/ Refine /\ UNCHANGED <<claims, products>>
    \/ Partition /\ UNCHANGED products
    \/ Pair /\ UNCHANGED <<plan, walks>>
    \/ EntryHeights /\ UNCHANGED <<plan, walks>>
    \/ Effects /\ UNCHANGED <<plan, walks>>
    \/ PlanFrames /\ StartWalks
    \/ \E s \in todo : WalkRoutine(s)
    \/ FillDeferred
    \/ Bind

=============================================================================
