----------------------- MODULE PathPredicates_proofs -----------------------
(***************************************************************************)
(* The path predicates of every program: the fixpoint loses none that      *)
(* every path establishes, and a run finds true what the analysis says of  *)
(* the block it is in.                                                     *)
(***************************************************************************)
EXTENDS PathPredicates, BlockMachine_proofs

\* Some way into b is known.
HasWay(b) == b = 1 \/ Predecessors(b) \cap known # {}

\* Visiting b again would change nothing.
Rests(b) == IF b \in known THEN preds[b] = NewPreds(b) ELSE ~ HasWay(b)

AnalysisTypes ==
    /\ worklist \in Seq(Blocks)
    /\ known \subseteq Blocks
    /\ preds \in [All -> SUBSET Predicate]

ProgramFixed == prog \in Programs /\ succ = BlockGraph

FixpointInv ==
    /\ ProgramFixed
    /\ AnalysisTypes
    /\ 1 \in known
    /\ \A b \in known : HasWay(b)
    /\ \A b \in Blocks \ Held(worklist) : Rests(b)

KnownLosesNothing ==
    CarriesNothing => \A b \in known, p \in Provable : b \notin Missing(p) => p \in preds[b]

-----------------------------------------------------------------------------
(* What the analysis reads.                                                *)

LEMMA FixedProgram ==
    ASSUME ProgramFixed
    PROVE  /\ IsProgram(prog)
           /\ prog.blocks \in Seq(Block)
           /\ Graph
           /\ 1 \in All
BY ProgramsArePrograms, GraphFacts, FlowTypes DEF ProgramFixed

\* Every predicate the analysis can meet is a predicate.
LEMMA EdgeTypes ==
    ASSUME IsProgram(prog)
    PROVE  \A b \in All : \A s : EdgePredicates(b, s) \subseteq Predicate
<1> SUFFICES ASSUME NEW b \in All, NEW s PROVE EdgePredicates(b, s) \subseteq Predicate
    OBVIOUS
<1>1. /\ B(b) \in Block
      /\ B(b).cond \in Value
      /\ B(b).arms \in Seq(Nat) /\ B(b).consts \in Seq(Uint)
    BY FlowTypes DEF Block
<1>2. Len(B(b).arms) <= MaxInt + 1
    <2>1. b \in DOMAIN prog.blocks
        BY FlowTypes DEF All
    <2>2. Linked(B(b), prog.blocks)
        BY <2>1 DEF IsProgram, B
    <2> QED BY <2>2 DEF Linked
<1>3. \A taken \in BOOLEAN : DecomposeCond[<<B(b).cond, taken>>] \subseteq Predicate
    <2>1. \A taken \in BOOLEAN : <<B(b).cond, taken>> \in Outcomes
        BY <1>1 DEF Outcomes
    <2> QED BY <2>1, DecomposeSteps
<1>4. \A kind \in {"not_in_range", "neq_all"}, args \in SUBSET Uint :
          Pred(B(b).cond, kind, args) \in Predicate
    BY <1>1 DEF Pred, Predicate
<1>5. \A k \in Uint : Pred(B(b).cond, "eq", {k}) \in Predicate
    BY <1>1 DEF Pred, Predicate, Compared
<1>6. MultiWayEdge(b, s) \subseteq Predicate
    <2>1. 0 .. Len(B(b).arms) - 1 \subseteq Uint
        BY <1>1, <1>2, MaxIntIsPositive DEF Uint
    <2>2. \A i \in DOMAIN B(b).arms : i - 1 \in Uint
        BY <1>1, <1>2, MaxIntIsPositive DEF Uint
    <2>3. Candidates(b) \subseteq Uint
        BY <1>1 DEF Candidates
    <2>4. \A i \in DOMAIN B(b).consts : Candidate(b, i) \in Uint
        BY <1>1 DEF Candidate
    <2> QED BY <1>4, <1>5, <2>1, <2>2, <2>3, <2>4 DEF MultiWayEdge
<1>7. Polarity(b, s) \subseteq BOOLEAN
    BY DEF Polarity
<1> QED BY <1>3, <1>6, <1>7 DEF EdgePredicates

LEMMA SeedTypes ==
    ASSUME IsProgram(prog)
    PROVE  prog.entry \subseteq Predicate /\ \A b : Seeds(b) \subseteq Predicate
BY DEF IsProgram, Seeds

LEMMA NewPredsTypes ==
    ASSUME IsProgram(prog), Graph, AnalysisTypes, NEW b \in Blocks
    PROVE  NewPreds(b) \subseteq Predicate
<1>1. \A q \in Blocks : q \in All /\ preds[q] \subseteq Predicate
    BY DEF Graph, AnalysisTypes
<1>2. \A q \in Predecessors(b) : preds[q] \union EdgePredicates(q, b) \subseteq Predicate
    BY <1>1, EdgeTypes DEF Predecessors
<1>3. \A S \in Contributions(b) : S \subseteq Predicate
    BY <1>2, SeedTypes DEF Contributions
<1>4. Meet(Contributions(b)) \subseteq Predicate
    BY <1>3 DEF Meet
<1>5. Carried(b) \subseteq Predicate
    BY <1>1 DEF Carried
<1> QED BY <1>4, <1>5, SeedTypes DEF NewPreds

\* What a block contributes to, and when it has no way in.
LEMMA NoWayIn ==
    ASSUME NEW b
    PROVE  Contributions(b) = {} <=> ~ HasWay(b)
BY DEF Contributions, HasWay

LEMMA DependentsFacts ==
    ASSUME Graph, prog.blocks \in Seq(Block), NEW b \in Blocks
    PROVE  /\ Dependents(b) \in Seq(Blocks)
           /\ Successors(b) \subseteq Held(Dependents(b))
           /\ \A t \in Blocks : ReturnTarget(b, t) => t \in Held(Dependents(b))
<1> DEFINE S == Successors(b)
           R == {t \in Blocks : ReturnTarget(b, t)}
<1>1. S \subseteq Blocks /\ R \subseteq Blocks /\ Blocks \subseteq All
    BY DEF Graph
<1>2. Dependents(b) = InOrder(S) \o InOrder(R)
    BY DEF Dependents
<1> HIDE DEF S, R
<1>3. /\ InOrder(S) \in Seq(S \cap All) /\ Held(InOrder(S)) = S \cap All
      /\ InOrder(R) \in Seq(R \cap All) /\ Held(InOrder(R)) = R \cap All
    BY InOrderFacts
<1>4. S \cap All = S /\ R \cap All = R
    BY <1>1
<1>5. InOrder(S) \in Seq(Blocks) /\ InOrder(R) \in Seq(Blocks)
    <2>1. Seq(S) \subseteq Seq(Blocks) /\ Seq(R) \subseteq Seq(Blocks)
        BY <1>1
    <2> QED BY <1>3, <1>4, <2>1
<1>6. Dependents(b) \in Seq(Blocks) /\ Held(Dependents(b)) = S \union R
    BY <1>2, <1>3, <1>4, <1>5, HeldOfBoth
<1> QED BY <1>6 DEF S, R

-----------------------------------------------------------------------------
(* The fixpoint.                                                           *)

LEMMA FixpointInit == Init => FixpointInv
<1> SUFFICES ASSUME Init PROVE FixpointInv
    OBVIOUS
<1>1. ProgramFixed
    BY DEF Init, InitMachine, ProgramFixed
<1>2. IsProgram(prog) /\ prog.blocks \in Seq(Block) /\ Graph /\ 1 \in All
    BY <1>1, FixedProgram
<1>3. worklist \in Seq(Blocks) /\ Held(worklist) = Blocks
    <2>1. worklist = InOrder(Blocks) /\ Blocks \cap All = Blocks
        BY <1>2 DEF Init, Graph
    <2> QED BY <1>2, <2>1, InOrderFacts
<1>4. known = {1} /\ known \subseteq Blocks
    BY <1>2 DEF Init, Graph
<1>5. preds \in [All -> SUBSET Predicate]
    BY <1>2, SeedTypes DEF Init
<1>6. \A b \in known : HasWay(b)
    BY <1>4 DEF HasWay
<1> QED BY <1>1, <1>3, <1>4, <1>5, <1>6 DEF FixpointInv, AnalysisTypes

LEMMA SameEdge ==
    ASSUME prog' = prog, succ' = succ
    PROVE  \A b, s : EdgePredicates(b, s)' = EdgePredicates(b, s)
<1>1. \A b, s : Polarity(b, s)' = Polarity(b, s)
    BY SameText DEF Polarity
<1>2. \A b, s : Collapsed(b, s)' = Collapsed(b, s)
    BY SameText DEF Collapsed, Successors
<1>3. \A b, s : Candidates(b)' = Candidates(b) /\ Candidate(b, s)' = Candidate(b, s)
    BY SameText DEF Candidates, Candidate
<1>4. \A b, s : MultiWayEdge(b, s)' = MultiWayEdge(b, s)
    <2> TAKE b, s
    <2>1. B(b)' = B(b) /\ Collapsed(b, s)' = Collapsed(b, s)
        BY <1>2, SameText
    <2>2. Candidates(b)' = Candidates(b) /\ \A i : Candidate(b, i)' = Candidate(b, i)
        BY <1>3
    <2> QED BY <2>1, <2>2 DEF MultiWayEdge
<1> QED
    <2> TAKE b, s
    <2>1. /\ B(b)' = B(b) /\ MultiWayEdge(b, s)' = MultiWayEdge(b, s)
          /\ Polarity(b, s)' = Polarity(b, s)
        BY <1>1, <1>4, SameText
    <2> QED BY <2>1 DEF EdgePredicates

LEMMA ProgramStays ==
    ASSUME ProgramFixed, UNCHANGED program
    PROVE  ProgramFixed' /\ Blocks' = Blocks /\ All' = All
BY SameText, SameGraph DEF ProgramFixed, program, Blocks

\* What is carried over calls depends on the program.
LEMMA SameRooted ==
    ASSUME UNCHANGED program
    PROVE  \A v : Rooted(v)' = Rooted(v)
<1>1. prog' = prog /\ Blocks' = Blocks
    BY DEF program, Blocks
<1>2. \A b : B(b)' = B(b) /\ PhisOf(b)' = PhisOf(b)
    BY <1>1, SameText DEF PhisOf
<1>3. Phis' = Phis
    BY <1>1, <1>2 DEF Phis
<1>4. RootedPhis' = RootedPhis
    BY <1>1, <1>2, <1>3 DEF RootedPhis
<1> QED BY <1>4 DEF Rooted

\* What a block contributes to depends on the program and what is known of it.
LEMMA SameReading ==
    ASSUME UNCHANGED program, known' = known, preds' = preds
    PROVE  \A b : /\ HasWay(b)' = HasWay(b)
                  /\ NewPreds(b)' = NewPreds(b)
<1>1. prog' = prog /\ succ' = succ
    BY DEF program
<1>2. \A b : Predecessors(b)' = Predecessors(b) /\ Blocks' = Blocks
    BY <1>1 DEF Predecessors, Blocks, Successors
<1>3. \A b, s : EdgePredicates(b, s)' = EdgePredicates(b, s)
    BY <1>1, SameEdge
<1>4. \A b : Contributions(b)' = Contributions(b)
    BY <1>1, <1>2, <1>3 DEF Contributions
<1>5. \A b, c : ReturnTarget(c, b)' = ReturnTarget(c, b)
    BY <1>1, <1>2, SameText DEF ReturnTarget
<1>6. \A b : Carried(b)' = Carried(b)
    BY <1>2, <1>5, SameRooted DEF Carried
<1>7. \A b : NewPreds(b)' = NewPreds(b)
    BY <1>1, <1>4, <1>6, SameText DEF NewPreds
<1> QED BY <1>2, <1>7 DEF HasWay

\* What is computed for the top of the stack.
LEMMA TopFacts ==
    ASSUME FixpointInv, worklist # <<>>
    PROVE  /\ Top \in Blocks
           /\ Below \in Seq(Blocks)
           /\ Held(worklist) = Held(Below) \union {Top}
BY HeldOnTop DEF FixpointInv, AnalysisTypes, Top, Below

LEMMA DeferKeeps == FixpointInv /\ Defer => FixpointInv'
<1> SUFFICES ASSUME FixpointInv, Defer PROVE FixpointInv'
    OBVIOUS
<1> USE DEF FixpointInv
<1>1. worklist # <<>> /\ worklist' = Below
    BY DEF Defer, Analysing
<1>2. UNCHANGED program /\ known' = known /\ preds' = preds
    BY DEF Defer, machineVars
<1>3. ProgramFixed' /\ Blocks' = Blocks /\ All' = All
    BY <1>2, ProgramStays
<1>4. ~ HasWay(Top) /\ Top \notin known
    BY <1>1, NoWayIn DEF Defer
<1>5. \A b \in Blocks \ Held(Below) : Rests(b)
    BY <1>1, <1>4, TopFacts DEF Rests
<1>6. \A b : HasWay(b)' = HasWay(b) /\ Rests(b)' = Rests(b)
    BY <1>2, SameReading DEF Rests
<1> QED BY <1>1, <1>2, <1>3, <1>5, <1>6, TopFacts DEF AnalysisTypes

LEMMA SettledKeeps == FixpointInv /\ Settled => FixpointInv'
<1> SUFFICES ASSUME FixpointInv, Settled PROVE FixpointInv'
    OBVIOUS
<1> USE DEF FixpointInv
<1>1. worklist # <<>> /\ worklist' = Below
    BY DEF Settled, Analysing
<1>2. UNCHANGED program /\ known' = known /\ preds' = preds
    BY DEF Settled, machineVars
<1>3. ProgramFixed' /\ Blocks' = Blocks /\ All' = All
    BY <1>2, ProgramStays
<1>4. Top \in known /\ preds[Top] = NewPreds(Top)
    BY DEF Settled
<1>5. \A b \in Blocks \ Held(Below) : Rests(b)
    BY <1>1, <1>4, TopFacts DEF Rests
<1>6. \A b : HasWay(b)' = HasWay(b) /\ Rests(b)' = Rests(b)
    BY <1>2, SameReading DEF Rests
<1> QED BY <1>1, <1>2, <1>3, <1>5, <1>6, TopFacts DEF AnalysisTypes

\* What a block has is made of what its predecessors and the calls before it have.
LEMMA OneBlockChanged ==
    ASSUME UNCHANGED program, NEW t, known' = known \union {t},
           \A b : b # t => preds'[b] = preds[b]
    PROVE  /\ \A b : HasWay(b) => HasWay(b)'
           /\ \A b : t \notin Predecessors(b) =>
                  /\ HasWay(b)' = HasWay(b)
                  /\ t \notin Blocks \/ ~ ReturnTarget(t, b) => NewPreds(b)' = NewPreds(b)
<1>1. prog' = prog /\ succ' = succ
    BY DEF program
<1>2. \A b : Predecessors(b)' = Predecessors(b) /\ Blocks' = Blocks
    BY <1>1 DEF Predecessors, Blocks, Successors
<1>3. \A b, s : EdgePredicates(b, s)' = EdgePredicates(b, s)
    BY <1>1, SameEdge
<1>4. ASSUME NEW b, t \notin Predecessors(b)
      PROVE  Contributions(b)' = Contributions(b)
    <2>1. Predecessors(b) \cap known' = Predecessors(b) \cap known
        BY <1>4
    <2>2. \A q \in Predecessors(b) : preds'[q] = preds[q]
        BY <1>4
    <2> QED BY <1>1, <1>2, <1>3, <2>1, <2>2 DEF Contributions
<1>5. \A b, c : ReturnTarget(c, b)' = ReturnTarget(c, b)
    BY <1>1, <1>2, SameText DEF ReturnTarget
<1>6. ASSUME NEW b, t \notin Blocks \/ ~ ReturnTarget(t, b) PROVE Carried(b)' = Carried(b)
    <2> DEFINE K == {k \in Blocks : ReturnTarget(k, b)}
    <2>1. K' = K /\ t \notin K
        BY <1>2, <1>5, <1>6
    <2>2. \A c \in K : preds'[c] = preds[c]
        BY <2>1
    <2>3. Carried(b) = {p \in UNION {preds[c] : c \in K} :
                            Rooted(p.value) /\ \A w \in p.other : Rooted(w)}
        BY DEF Carried
    <2>4. Carried(b)' = {p \in UNION {preds'[c] : c \in K'} :
                            Rooted(p.value) /\ \A w \in p.other : Rooted(w)}
        BY SameRooted DEF Carried
    <2> HIDE DEF K
    <2> QED BY <2>1, <2>2, <2>3, <2>4
<1>7. ASSUME NEW b, t \notin Predecessors(b), t \notin Blocks \/ ~ ReturnTarget(t, b)
      PROVE  NewPreds(b)' = NewPreds(b)
    BY <1>1, <1>4, <1>6, <1>7, SameText DEF NewPreds
<1>8. \A b : HasWay(b) => HasWay(b)'
    BY <1>2 DEF HasWay
<1>9. \A b : t \notin Predecessors(b) => HasWay(b)' = HasWay(b)
    BY <1>2 DEF HasWay
<1> QED BY <1>7, <1>8, <1>9

LEMMA ChangeKeeps == FixpointInv /\ Change => FixpointInv'
<1> SUFFICES ASSUME FixpointInv, Change PROVE FixpointInv'
    OBVIOUS
<1> USE DEF FixpointInv
<1>1. /\ worklist # <<>>
      /\ worklist' = Below \o Dependents(Top)
      /\ known' = known \union {Top}
      /\ preds' = [preds EXCEPT ![Top] = NewPreds(Top)]
      /\ UNCHANGED program
    BY DEF Change, Analysing, machineVars
<1>2. ProgramFixed' /\ Blocks' = Blocks /\ All' = All
    BY <1>1, ProgramStays
<1>3. IsProgram(prog) /\ prog.blocks \in Seq(Block) /\ Graph
    BY FixedProgram
<1>4. Top \in Blocks /\ Below \in Seq(Blocks) /\ Held(worklist) = Held(Below) \union {Top}
    BY <1>1, TopFacts
<1>5. HasWay(Top)
    BY NoWayIn DEF Change
<1> DEFINE t == Top
           deps == Dependents(t)
<1>6. /\ deps \in Seq(Blocks)
      /\ \A s \in Blocks : t \in Predecessors(s) \/ ReturnTarget(t, s) => s \in Held(deps)
    BY <1>3, <1>4, DependentsFacts DEF Predecessors
<1>7. worklist' \in Seq(Blocks) /\ Held(worklist') = Held(Below) \union Held(deps)
    BY <1>1, <1>4, <1>6, HeldOfBoth
<1> HIDE DEF t, deps
<1>8. t \in Blocks /\ t \in All /\ t = Top
    BY <1>3, <1>4 DEF t, Graph
<1>9. AnalysisTypes'
    <2>1. NewPreds(t) \subseteq Predicate
        BY <1>3, <1>8, NewPredsTypes
    <2> QED BY <1>1, <1>2, <1>7, <1>8, <2>1 DEF AnalysisTypes
<1>10. \A b : b # t => preds'[b] = preds[b]
    BY <1>1, <1>8 DEF AnalysisTypes
<1>11. /\ \A b : HasWay(b) => HasWay(b)'
       /\ \A b : t \notin Predecessors(b) =>
              /\ HasWay(b)' = HasWay(b)
              /\ t \notin Blocks \/ ~ ReturnTarget(t, b) => NewPreds(b)' = NewPreds(b)
    BY <1>1, <1>8, <1>10, OneBlockChanged
<1>12. 1 \in known' /\ \A b \in known' : HasWay(b)'
    BY <1>1, <1>5, <1>8, <1>11
<1>13. ASSUME NEW b \in Blocks, b \notin Held(worklist') PROVE Rests(b)'
    <2>1. t \notin Predecessors(b) /\ ~ ReturnTarget(t, b)
        BY <1>6, <1>7, <1>13
    <2>2. HasWay(b)' = HasWay(b) /\ NewPreds(b)' = NewPreds(b)
        BY <1>11, <2>1
    <2>3. CASE b = t
        <3>1. preds'[b] = NewPreds(t) /\ b \in known'
            BY <1>1, <1>8, <2>3 DEF AnalysisTypes
        <3> QED BY <2>2, <2>3, <3>1 DEF Rests
    <2>4. CASE b # t
        <3>1. b \in Blocks \ Held(worklist)
            BY <1>4, <1>7, <1>8, <1>13, <2>4
        <3>2. Rests(b) /\ preds'[b] = preds[b] /\ (b \in known' <=> b \in known)
            BY <1>1, <1>8, <1>10, <2>4, <3>1
        <3> QED BY <2>2, <3>2 DEF Rests
    <2> QED BY <2>3, <2>4
<1> QED BY <1>2, <1>9, <1>12, <1>13

\* The machine leaves the analysis and the program alone.
LEMMA MachineKeepsAnalysis ==
    ASSUME Start \/ Execute
    PROVE  UNCHANGED <<program, analysisVars>>
BY DEF Start, Execute, Begin, Run, Step, Call, Return, Halt, Enter

LEMMA FixpointStep == FixpointInv /\ [Next]_vars => FixpointInv'
<1> SUFFICES ASSUME FixpointInv, [Next]_vars PROVE FixpointInv'
    OBVIOUS
<1>1. ASSUME UNCHANGED <<program, analysisVars>> PROVE FixpointInv'
    <2>1. UNCHANGED program /\ worklist' = worklist /\ known' = known /\ preds' = preds
        BY <1>1 DEF analysisVars
    <2>2. ProgramFixed' /\ Blocks' = Blocks /\ All' = All
        BY <2>1, ProgramStays DEF FixpointInv
    <2>3. \A b : HasWay(b)' = HasWay(b) /\ Rests(b)' = Rests(b)
        BY <2>1, SameReading DEF Rests
    <2> QED BY <2>1, <2>2, <2>3 DEF FixpointInv, AnalysisTypes
<1>2. CASE Compute
    BY <1>2, DeferKeeps, SettledKeeps, ChangeKeeps DEF Compute
<1>3. CASE Start \/ Execute
    BY <1>1, <1>3, MachineKeepsAnalysis
<1>4. CASE UNCHANGED vars
    BY <1>1, <1>4 DEF vars, machineVars
<1> QED BY <1>2, <1>3, <1>4 DEF Next

\* The fixpoint's invariant: what is not queued is settled.
THEOREM FixpointInductive == Spec => []FixpointInv
BY FixpointInit, FixpointStep, PTL DEF Spec

-----------------------------------------------------------------------------
(* No predicate is lost.                                                   *)

\* Where p is not missing, it is seeded, or every way in brings it.
LEMMA MissingFacts ==
    ASSUME IsProgram(prog), Graph, CarriesNothing, NEW p
    PROVE  \A b \in Blocks \ Missing(p) :
               \/ p \in Seeds(b)
               \/ /\ b = 1 => p \in prog.entry
                  /\ \A q \in Predecessors(b) :
                         q \notin Missing(p) \/ p \in EdgePredicates(q, b)
<1> DEFINE D == SUBSET Blocks
           more(L) == {b \in Blocks \ L :
                          /\ p \notin Seeds(b)
                          /\ \A c \in Blocks :
                                 ReturnTarget(c, b) /\ Rooted(p.value)
                                    /\ (\A w \in p.other : Rooted(w)) => c \in L
                          /\ \/ b = 1 /\ p \notin prog.entry
                             \/ \E q \in Predecessors(b) :
                                    q \in L /\ p \notin EdgePredicates(q, b)}
           step(L) == more(L) \union L
           G == [L \in D |-> step(L)]
           F(f) == [n \in Nat |-> IF n = 0 THEN {} ELSE step(f[n - 1])]
           lost == CHOOSE f : f = F(f)
           N == Cardinality(Blocks)
<1>1. PICK f \in [Nat -> D] : f[0] = {} /\ \A n \in Nat : f[n + 1] = G[f[n]]
    <2>1. G \in [D -> D]
        <3>1. \A L \in D : step(L) \in D
            OBVIOUS
        <3> HIDE DEF step
        <3> QED BY <3>1
    <2>2. {} \in D
        OBVIOUS
    <2> HIDE DEF D, G
    <2>3. \E f \in [Nat -> D] : Iterates(f, {}, G)
        BY <2>1, <2>2, IterationExists
    <2> QED BY <2>3 DEF Iterates
<1>2. f = F(f)
    <2> HIDE DEF more
    <2>1. ASSUME NEW n \in Nat PROVE f[n] = F(f)[n]
        <3>1. CASE n = 0
            BY <1>1, <3>1
        <3>2. CASE n # 0
            <4>1. n - 1 \in Nat /\ (n - 1) + 1 = n
                BY <3>2
            <4>2. f[n] = G[f[n - 1]] /\ f[n - 1] \in D
                <5> HIDE DEF G, D
                <5> QED BY <1>1, <4>1
            <4> HIDE DEF step
            <4> QED BY <3>2, <4>2
        <3> QED BY <3>1, <3>2
    <2> HIDE DEF step
    <2> QED BY <1>1, <2>1
<1>3. lost = F(lost)
    <2> HIDE DEF F
    <2> QED BY <1>2
<1>4. Missing(p) = lost[N]
    BY DEF Missing
<1> HIDE DEF lost
<1>5. lost[0] = {} /\ \A n \in Nat : lost[n + 1] = step(lost[n])
    <2>1. \A n \in Nat : n + 1 \in Nat /\ n + 1 # 0 /\ (n + 1) - 1 = n
        OBVIOUS
    <2> HIDE DEF step
    <2> QED BY <1>3, <2>1
<1> DEFINE T == {n \in Nat : lost[n] \subseteq Blocks}
<1>6. \A n \in Nat : n \in T
    <2>1. 0 \in T
        BY <1>5
    <2>2. ASSUME NEW n \in Nat, n \in T PROVE n + 1 \in T
        <3>1. step(lost[n]) \subseteq Blocks
            BY <2>2
        <3>2. lost[n + 1] \subseteq Blocks /\ n + 1 \in Nat
            <4> HIDE DEF step
            <4> QED BY <1>5, <3>1
        <3> QED BY <3>2
    <2> HIDE DEF T
    <2> QED BY <2>1, <2>2, NumberInduction
<1>7. lost \in [Nat -> SUBSET Blocks]
    <2>1. \A n \in Nat : lost[n] \in SUBSET Blocks
        BY <1>6
    <2>2. lost = [n \in Nat |-> lost[n]]
        <3> DEFINE val(n) == IF n = 0 THEN {} ELSE step(lost[n - 1])
        <3>1. lost = [n \in Nat |-> val(n)]
            <4> HIDE DEF step
            <4> QED BY <1>3
        <3> HIDE DEF val
        <3> QED BY <3>1
    <2> QED BY <2>1, <2>2
<1>8. N \in Nat /\ IsFiniteSet(Blocks)
    <2>1. IsFiniteSet(Blocks)
        BY FlowTypes, BlocksAreFinite, FS_Subset DEF Graph
    <2> QED BY <2>1, FS_CardinalityType
<1>9. lost[N + 1] = lost[N]
    <2>1. \A n \in Nat : lost[n] \subseteq lost[n + 1]
        <3> HIDE DEF more
        <3> QED BY <1>5
    <2>2. \A n \in Nat : lost[n + 1] = lost[n] => lost[(n + 1) + 1] = lost[n + 1]
        <3> HIDE DEF step
        <3> QED BY <1>5
    <2>3. N \in Nat /\ IsFiniteSet(Blocks) /\ Cardinality(Blocks) <= N
        BY <1>8
    <2> HIDE DEF N
    <2> QED BY <1>7, <2>1, <2>2, <2>3, ChainSettles
<1>10. more(Missing(p)) \subseteq Missing(p)
    <2>1. step(lost[N]) = lost[N]
        <3> HIDE DEF step, N
        <3> QED BY <1>5, <1>8, <1>9
    <2> HIDE DEF more, N
    <2> QED BY <1>4, <2>1
<1>11. \A b, c \in Blocks : ~ ReturnTarget(c, b)
    BY DEF CarriesNothing
<1> HIDE DEF N
<1> QED BY <1>10, <1>11

\* Each block that is known has what is not missing there.
LEMMA LosesNothingInit == Init /\ FixpointInv => KnownLosesNothing
<1> SUFFICES ASSUME Init, FixpointInv, CarriesNothing, NEW p, 1 \notin Missing(p)
             PROVE  p \in preds[1]
    BY DEF Init, KnownLosesNothing
<1>1. IsProgram(prog) /\ Graph /\ 1 \in All
    BY FixedProgram DEF FixpointInv
<1>2. 1 \in Blocks \ Missing(p)
    BY <1>1 DEF Graph
<1>3. p \in Seeds(1) \/ p \in prog.entry
    BY <1>1, <1>2, MissingFacts
<1> QED BY <1>1, <1>3 DEF Init

LEMMA NewPredsLoseNothing ==
    ASSUME FixpointInv, KnownLosesNothing, CarriesNothing,
           NEW b \in Blocks, HasWay(b), NEW p \in Provable, b \notin Missing(p)
    PROVE  p \in NewPreds(b)
<1>1. IsProgram(prog) /\ Graph
    BY FixedProgram DEF FixpointInv
<1>2. CASE p \in Seeds(b)
    BY <1>2 DEF NewPreds
<1>3. CASE p \notin Seeds(b)
    <2>1. /\ b = 1 => p \in prog.entry
          /\ \A q \in Predecessors(b) : q \notin Missing(p) \/ p \in EdgePredicates(q, b)
        BY <1>1, <1>3, MissingFacts
    <2>2. \A q \in Predecessors(b) \cap known : p \in preds[q] \union EdgePredicates(q, b)
        BY <2>1 DEF KnownLosesNothing
    <2>3. \A S \in Contributions(b) : p \in S
        BY <2>1, <2>2 DEF Contributions
    <2>4. Contributions(b) # {}
        BY NoWayIn
    <2>5. p \in Meet(Contributions(b))
        BY <2>3, <2>4 DEF Meet
    <2> QED BY <2>5 DEF NewPreds
<1> QED BY <1>2, <1>3

LEMMA SameMissing ==
    ASSUME UNCHANGED program
    PROVE  /\ CarriesNothing' = CarriesNothing
           /\ Provable' = Provable
           /\ \A p : Missing(p)' = Missing(p)
<1>1. prog' = prog /\ succ' = succ
    BY DEF program
<1>2. \A b : Predecessors(b)' = Predecessors(b) /\ Blocks' = Blocks
    BY <1>1 DEF Predecessors, Blocks, Successors
<1>3. \A b, s : EdgePredicates(b, s)' = EdgePredicates(b, s)
    BY <1>1, SameEdge
<1>4. \A b, c : ReturnTarget(c, b)' = ReturnTarget(c, b)
    BY <1>1, <1>2, SameText DEF ReturnTarget
<1>5. \A b : Seeds(b)' = Seeds(b)
    BY <1>1, SameText
<1>6. \A p : Missing(p)' = Missing(p)
    <2> TAKE p
    <2> DEFINE more(L) == {b \in Blocks \ L :
                              /\ p \notin Seeds(b)
                              /\ \A c \in Blocks :
                                     ReturnTarget(c, b) /\ Rooted(p.value)
                                        /\ (\A w \in p.other : Rooted(w)) => c \in L
                              /\ \/ b = 1 /\ p \notin prog.entry
                                 \/ \E q \in Predecessors(b) :
                                        q \in L /\ p \notin EdgePredicates(q, b)}
               F(f) == [n \in Nat |-> IF n = 0 THEN {} ELSE more(f[n - 1]) \union f[n - 1]]
               lost == CHOOSE f : f = F(f)
    <2>1. \A L : more(L)' = more(L)
        BY <1>1, <1>2, <1>3, <1>4, <1>5, SameRooted
    <2>2. Missing(p) = lost[Cardinality(Blocks)]
        BY DEF Missing
    <2>3. Missing(p)' = lost'[Cardinality(Blocks)']
        BY DEF Missing
    <2> HIDE DEF more
    <2>4. \A f : F(f)' = F(f)
        BY <2>1
    <2>5. lost' = lost
        BY <2>4
    <2> QED BY <1>2, <2>2, <2>3, <2>5
<1> QED BY <1>1, <1>2, <1>3, <1>4, <1>6 DEF CarriesNothing, Provable

LEMMA LosesNothingStep ==
    FixpointInv /\ KnownLosesNothing /\ [Next]_vars => KnownLosesNothing'
<1> SUFFICES ASSUME FixpointInv, KnownLosesNothing, [Next]_vars PROVE KnownLosesNothing'
    OBVIOUS
<1>1. ASSUME UNCHANGED program, known' = known, preds' = preds PROVE KnownLosesNothing'
    BY <1>1, SameMissing DEF KnownLosesNothing
<1>2. CASE Defer \/ Settled
    BY <1>1, <1>2 DEF Defer, Settled, machineVars
<1>3. CASE Change
    <2>1. /\ known' = known \union {Top}
          /\ preds' = [preds EXCEPT ![Top] = NewPreds(Top)]
          /\ UNCHANGED program
          /\ worklist # <<>> /\ Contributions(Top) # {}
        BY <1>3 DEF Change, Analysing, machineVars
    <2>2. Top \in Blocks /\ HasWay(Top)
        BY <2>1, TopFacts, NoWayIn
    <2>3. SUFFICES ASSUME CarriesNothing, NEW b \in known', NEW p \in Provable, b \notin Missing(p)
                   PROVE  p \in preds'[b]
        BY <2>1, SameMissing DEF KnownLosesNothing
    <2>4. CASE b = Top
        <3>1. p \in NewPreds(Top)
            BY <2>2, <2>3, <2>4, NewPredsLoseNothing
        <3>2. Top \in All
            BY <2>2, FixedProgram DEF FixpointInv, Graph
        <3> QED BY <2>1, <2>4, <3>1, <3>2 DEF FixpointInv, AnalysisTypes
    <2>5. CASE b # Top
        <3>1. b \in known /\ b \in All
            BY <2>1, <2>5, FixedProgram DEF FixpointInv, AnalysisTypes, Graph
        <3>2. p \in preds[b]
            BY <2>3, <3>1 DEF KnownLosesNothing
        <3> QED BY <2>1, <2>5, <3>1, <3>2 DEF FixpointInv, AnalysisTypes
    <2> QED BY <2>4, <2>5
<1>4. CASE Start \/ Execute
    BY <1>1, <1>4, MachineKeepsAnalysis DEF analysisVars
<1>5. CASE UNCHANGED vars
    BY <1>1, <1>5 DEF vars, machineVars, analysisVars
<1> QED BY <1>2, <1>3, <1>4, <1>5 DEF Next, Compute

\* When the worklist is empty every block is known, and at rest.
LEMMA AtTheEnd ==
    ASSUME FixpointInv, worklist = <<>>
    PROVE  known = Blocks /\ \A b \in Blocks : preds[b] = NewPreds(b)
<1>1. Graph
    BY FixedProgram DEF FixpointInv
<1>2. \A b \in Blocks : Rests(b)
    BY DEF FixpointInv, Held
<1>3. ASSUME NEW b \in known, NEW s \in Successors(b) PROVE s \in known
    <2>1. b \in Predecessors(s) \cap known /\ s \in Blocks
        BY <1>1, <1>3 DEF FixpointInv, AnalysisTypes, Graph, Predecessors
    <2>2. HasWay(s)
        BY <2>1 DEF HasWay
    <2> QED BY <1>2, <2>1, <2>2 DEF Rests
<1>4. Blocks \subseteq known
    <2>1. 1 \in known /\ \A b \in known \cap Blocks : Successors(b) \subseteq known
        BY <1>3 DEF FixpointInv
    <2> QED BY <1>1, <2>1 DEF Graph
<1>5. known = Blocks
    BY <1>4 DEF FixpointInv, AnalysisTypes
<1> QED BY <1>2, <1>5 DEF Rests

\* A predicate established on every path to a block is found there.
THEOREM NoneLost == Spec => []NoPathPredicateLost
<1>1. Init => KnownLosesNothing
    BY FixpointInit, LosesNothingInit
<1>2. FixpointInv /\ KnownLosesNothing => NoPathPredicateLost
    BY AtTheEnd DEF KnownLosesNothing, NoPathPredicateLost, Analysed
<1> QED BY <1>1, <1>2, FixpointInductive, LosesNothingStep, PTL DEF Spec

-----------------------------------------------------------------------------
(* The machine runs the program that was analysed.                         *)

\* The machine keeps to the program: it is in a reachable block, and every frame is that of
\* a call whose routine the run is still in.
THEOREM MachineInductive == Spec => []MachineInv
<1>1. Init => MachineInv
    BY MachineInit DEF Init
<1>2. MachineInv /\ [Next]_vars => MachineInv'
    <2> SUFFICES ASSUME MachineInv, [Next]_vars PROVE MachineInv'
        OBVIOUS
    <2>1. Compute \/ UNCHANGED vars => UNCHANGED machineVars
        BY DEF Compute, Defer, Settled, Change, vars
    <2>2. Start \/ Execute => Begin \/ Run
        BY DEF Start, Execute
    <2> QED BY <2>1, <2>2, MachineStep DEF Next
<1> QED BY <1>1, <1>2, PTL DEF Spec

\* The state of the analysis and of the run keeps its types.
THEOREM TypeCorrect == Spec => []TypeOK
<1>1. MachineInv /\ FixpointInv => TypeOK
    <2> SUFFICES ASSUME MachineInv, FixpointInv PROVE TypeOK
        OBVIOUS
    <2>1. \A i \in DOMAIN frames : frames[i] \in Frame
        BY DEF MachineInv
    <2>2. \A i \in DOMAIN frames : frames[i].cont \subseteq All
        BY <2>1 DEF Frame
    <2> QED BY <2>2 DEF MachineInv, FixpointInv, AnalysisTypes, TypeOK, MachineOK
<1> QED BY <1>1, MachineInductive, FixpointInductive, PTL

-----------------------------------------------------------------------------
(* Runs find the predicates true, in programs whose routines do not call   *)
(* themselves.                                                             *)

\* What the caller of the analysis vouches for is about immutable fields, or about
\* leaves every path to the block has defined.
SeedsAreDefined ==
    /\ \A p \in prog.entry : Mentions(p) \subseteq Fixed
    /\ \A b \in Blocks : \A p \in Seeds(b) : \A l \in Mentions(p) \ Fixed : b \notin Undefined(l)

\* No definition of l has been on the way.
Unseen(l) ==
    /\ l \notin Defined
    /\ \A p \in preds[at] : l \notin Mentions(p)
    /\ \A i \in DOMAIN frames : \A p \in preds[Site(frames[i])] : l \notin Mentions(p)

\* Nothing is known of l before the block that defines it.
Fresh(l) == \A d \in Definitions(l) : \A p \in preds[d] \ Seeds(d) : l \notin Mentions(p)

\* What the routine called by the i-th frame has defined.
InnerOwn(i) == IF i = Len(frames) THEN own ELSE frames[i + 1].own

\* What the routines in progress have defined since the i-th call, and before it.
Since(i)  == UNION {InnerOwn(j) : j \in i..Len(frames)}
Before(i) == UNION {frames[j].own : j \in 1..i}

\* A routine has defined leaves of its own.
OwnInRoutine ==
    \A i \in DOMAIN frames : \A l \in InnerOwn(i) :
        Definitions(l) \subseteq Routine(Arms(Site(frames[i])))

\* Every return from a routine that has defined l knows p.
Returned(p, l) ==
    \A d \in Definitions(l) : \A r \in Blocks \cap Routine({d}) :
        B(r).op = "retsub" => p \in preds[r]

\* What is known of a leaf that no routine in progress has defined is known wherever one
\* returns that has: the leaf has been left by a call.
LeftByCalls ==
    /\ \A p \in preds[at] : \A l \in Mentions(p) \ Fixed : l \in Defined \/ Returned(p, l)
    /\ \A i \in DOMAIN frames : \A p \in preds[Site(frames[i])] : \A l \in Mentions(p) \ Fixed :
           l \in Before(i) \/ Returned(p, l)

\* What a caller knew is still true, unless a leaf it is about has been defined since.
CallersRight ==
    \A i \in DOMAIN frames : \A p \in preds[Site(frames[i])] :
        Holds(p, env) \/ Mentions(p) \cap Since(i) # {}

RunFacts ==
    /\ worklist = <<>>
    /\ \A l \in Leaves \ Fixed : Unseen(l) \/ Fresh(l)
    /\ OwnInRoutine
    /\ LeftByCalls
    /\ CallersRight
    /\ PredicatesHold

RunInv == RunsInScope /\ SeedsAreDefined /\ (mode = "run" => RunFacts)

LEMMA SameSeeds ==
    ASSUME UNCHANGED program
    PROVE  SeedsAreDefined' = SeedsAreDefined
<1>1. prog' = prog /\ Blocks' = Blocks
    BY DEF program, Blocks
<1>2. \A b : Seeds(b)' = Seeds(b)
    BY <1>1, SameText
<1>3. \A l : Undefined(l)' = Undefined(l)
    BY SameScope
<1> QED BY <1>1, <1>2, <1>3 DEF SeedsAreDefined

-----------------------------------------------------------------------------
(* An edge that is taken.                                                  *)

\* What an edge says is about what the operation at its start tests.
LEMMA EdgeMentions ==
    ASSUME IsProgram(prog), NEW b \in All, NEW s, NEW p \in EdgePredicates(b, s)
    PROVE  Mentions(p) \subseteq Tests(b)
<1>1. B(b).cond \in Value
    BY FlowTypes DEF Block
<1>2. B(b).op \in Testing /\ Tests(b) = Computing(B(b).cond)
    BY DEF EdgePredicates, Tests, Testing, Conditional, MultiWay
<1>3. ASSUME NEW taken \in BOOLEAN, p \in DecomposeCond[<<B(b).cond, taken>>]
      PROVE  Mentions(p) \subseteq Computing(B(b).cond)
    BY <1>1, <1>3, DecomposeMentions
<1>4. Polarity(b, s) \subseteq BOOLEAN
    BY DEF Polarity
<1>5. CASE B(b).op = "assert"
    <2>1. B(b).op \notin Conditional \union MultiWay
        BY <1>5 DEF Conditional, MultiWay
    <2>2. p \in DecomposeCond[<<B(b).cond, TRUE>>]
        BY <1>5, <2>1, Zenon DEF EdgePredicates
    <2>3. TRUE \in BOOLEAN
        OBVIOUS
    <2> QED BY <1>2, <1>3, <2>2, <2>3, Zenon
<1>6. CASE B(b).op \in Conditional
    <2>1. B(b).op \notin MultiWay /\ B(b).op # "assert"
        BY <1>6 DEF Conditional, MultiWay
    <2>2. \E taken \in Polarity(b, s) : p \in DecomposeCond[<<B(b).cond, taken>>]
        BY <1>6, <2>1, Zenon DEF EdgePredicates
    <2> QED BY <1>2, <1>3, <1>4, <2>2, Zenon
<1>7. CASE B(b).op \in MultiWay
    <2>1. p \in MultiWayEdge(b, s)
        BY <1>7 DEF EdgePredicates, MultiWay, Conditional
    <2>2. p.value = B(b).cond /\ p.other = {}
        BY <2>1 DEF MultiWayEdge, Pred
    <2> QED BY <1>2, <2>2 DEF Mentions
<1> QED BY <1>2, <1>5, <1>6, <1>7 DEF Testing

\* A branch on a condition goes where the label of the edge says.
LEMMA ConditionalHolds ==
    ASSUME IsProgram(prog), env \in [Leaves -> Nat], NEW a \in All, NEW b \in Taken(a),
           B(a).op \in Conditional
    PROVE  \A p \in EdgePredicates(a, b) : Holds(p, env)
<1> DEFINE S == Polarity(a, b)
           nonzero == Val(B(a).cond) # 0
<1>1. S \subseteq BOOLEAN /\ IsFiniteSet(S)
    <2>1. S \subseteq BOOLEAN
        BY DEF Polarity
    <2>2. IsFiniteSet({FALSE} \union {TRUE})
        BY FS_Singleton, FS_AddElement
    <2>3. S \in SUBSET ({FALSE} \union {TRUE})
        BY <2>1
    <2> HIDE DEF S
    <2> QED BY <2>1, <2>2, <2>3, FS_Subset
<1>2. /\ B(a).op = "bnz" => b \in IF nonzero THEN Arms(a) ELSE Following(a)
      /\ B(a).op = "bz" => b \in IF nonzero THEN Following(a) ELSE Arms(a)
    <2>1. CASE B(a).op = "bnz"
        BY <2>1 DEF Taken, MultiWay
    <2>2. CASE B(a).op = "bz"
        BY <2>2 DEF Taken, MultiWay
    <2> QED BY <2>1, <2>2, Zenon DEF Conditional
<1>3. nonzero \in S
    <2>1. B(a).op \in {"bnz", "bz"}
        BY DEF Conditional
    <2>2. CASE B(a).op = "bnz" /\ nonzero
        <3>1. TRUE \in S
            <4>1. b \in Arms(a)
                BY <1>2, <2>2, Zenon
            <4>2. (B(a).op = "bnz") \in S
                BY <4>1, Zenon DEF Polarity
            <4>3. (B(a).op = "bnz") = TRUE
                BY <2>2
            <4> QED BY <4>2, <4>3, Zenon
        <3>2. nonzero = TRUE
            BY <2>2
        <3> QED BY <3>1, <3>2, Zenon
    <2>3. CASE B(a).op = "bnz" /\ ~ nonzero
        <3>1. FALSE \in S
            <4>1. b \in Following(a)
                BY <1>2, <2>3, Zenon
            <4>2. (B(a).op = "bz") \in S
                BY <4>1, Zenon DEF Polarity
            <4>3. (B(a).op = "bz") = FALSE
                BY <2>3
            <4> QED BY <4>2, <4>3, Zenon
        <3>2. nonzero = FALSE
            BY <2>3
        <3> QED BY <3>1, <3>2, Zenon
    <2>4. CASE B(a).op = "bz" /\ ~ nonzero
        <3>1. FALSE \in S
            <4>1. b \in Arms(a)
                BY <1>2, <2>4, Zenon
            <4>2. (B(a).op = "bnz") \in S
                BY <4>1, Zenon DEF Polarity
            <4>3. (B(a).op = "bnz") = FALSE
                BY <2>4
            <4> QED BY <4>2, <4>3, Zenon
        <3>2. nonzero = FALSE
            BY <2>4
        <3> QED BY <3>1, <3>2, Zenon
    <2>5. CASE B(a).op = "bz" /\ nonzero
        <3>1. TRUE \in S
            <4>1. b \in Following(a)
                BY <1>2, <2>5, Zenon
            <4>2. (B(a).op = "bz") \in S
                BY <4>1, Zenon DEF Polarity
            <4>3. (B(a).op = "bz") = TRUE
                BY <2>5
            <4> QED BY <4>2, <4>3, Zenon
        <3>2. nonzero = TRUE
            BY <2>5
        <3> QED BY <3>1, <3>2, Zenon
    <2> QED BY <2>1, <2>2, <2>3, <2>4, <2>5
<1> SUFFICES ASSUME NEW p \in EdgePredicates(a, b) PROVE Holds(p, env)
    OBVIOUS
<1>4. /\ Cardinality(S) = 1
      /\ \E taken \in S : p \in DecomposeCond[<<B(a).cond, taken>>]
    <2>1. B(a).op \notin MultiWay /\ B(a).op # "assert"
        BY DEF Conditional, MultiWay
    <2>2. EdgePredicates(a, b) =
              IF Cardinality(S) # 1 THEN {}
              ELSE UNION {DecomposeCond[<<B(a).cond, taken>>] : taken \in S}
        BY <2>1, Zenon DEF EdgePredicates
    <2> HIDE DEF S
    <2>3. /\ Cardinality(S) = 1
          /\ p \in UNION {DecomposeCond[<<B(a).cond, taken>>] : taken \in S}
        BY <2>2, ZenonT(30)
    <2> QED BY <2>3, ZenonT(30)
<1>5. PICK taken \in S : p \in DecomposeCond[<<B(a).cond, taken>>]
    BY <1>4
<1>6. taken = nonzero
    <2>1. ~ (Cardinality(S) > 1)
        BY <1>4
    <2> HIDE DEF S, nonzero
    <2> QED BY <1>1, <1>3, <1>5, <2>1, AtMostOne, Zenon
<1>7. B(a).cond \in Value /\ taken \in BOOLEAN
    BY <1>1, FlowTypes DEF Block
<1>8. Eval(env)[B(a).cond] # 0 <=> taken
    BY <1>6, Zenon DEF Val
<1> QED BY <1>5, <1>7, <1>8, DecomposeSound, Zenon

\* So does a switch or a match.
LEMMA MultiWayHolds ==
    ASSUME IsProgram(prog), env \in [Leaves -> Nat], NEW a \in All, NEW b \in Taken(a),
           B(a).op \in MultiWay
    PROVE  \A p \in EdgePredicates(a, b) : Holds(p, env)
<1> DEFINE arms == B(a).arms
           consts == B(a).consts
           key == B(a).cond
           n == Val(key)
           arm == {i \in DOMAIN arms : arms[i] = b}
           M == Matching(a)
<1>1. /\ arms \in Seq(Nat) /\ consts \in Seq(Uint) /\ key \in Value
      /\ B(a).op = "match" => Len(consts) = Len(arms)
    <2>1. Linked(B(a), prog.blocks)
        BY DEF IsProgram, B, All
    <2> QED BY <2>1, FlowTypes DEF Block, Linked
<1>2. n \in Nat
    BY <1>1, EvalSteps DEF Val
<1> SUFFICES ASSUME NEW p \in EdgePredicates(a, b) PROVE Holds(p, env)
    OBVIOUS
<1>3. p \in MultiWayEdge(a, b)
    BY DEF EdgePredicates, MultiWay, Conditional
<1>4. ~ Collapsed(a, b)
    BY <1>3 DEF MultiWayEdge
<1>5. M \subseteq DOMAIN arms /\ M \subseteq Nat
    BY <1>1 DEF Matching
<1>6. M # {} => MinOf(M) \in M
    <2> SUFFICES ASSUME M # {} PROVE MinOf(M) \in M
        OBVIOUS
    <2> HIDE DEF M
    <2>1. \E x \in M : \A y \in M : x <= y
        BY <1>5, LeastNumber
    <2> QED BY <2>1 DEF MinOf
<1>7. b \in IF M = {} THEN Following(a) ELSE {arms[MinOf(M)]}
    BY DEF Taken, MultiWay, Conditional
<1>8. \A i \in DOMAIN arms : arms[i] = b <=> i \in arm
    OBVIOUS
<1>9. arm # {} => M # {}
    BY <1>4, <1>7 DEF Collapsed, Arms
<1>10. M # {} => MinOf(M) \in arm
    BY <1>5, <1>6, <1>7
<1>11. \A i, j \in arm : i = j
    <2>1. IsFiniteSet(arm)
        <3>1. DOMAIN arms = 1..Len(arms) /\ Len(arms) \in Int
            BY <1>1
        <3>2. arm \in SUBSET (1..Len(arms))
            BY <3>1
        <3>3. IsFiniteSet(1..Len(arms))
            <4>1. 1 \in Int
                OBVIOUS
            <4> HIDE DEF arms
            <4> QED BY <3>1, <4>1, FS_Interval
        <3> HIDE DEF arm, arms
        <3> QED BY <3>2, <3>3, FS_Subset
    <2>2. ~ (Cardinality(arm) > 1)
        BY <1>4 DEF Collapsed
    <2> HIDE DEF arm
    <2> QED BY <2>1, <2>2, AtMostOne
<1>12. \A kind, args : /\ Pred(key, kind, args).value = key
                       /\ Pred(key, kind, args).kind = kind
                       /\ Pred(key, kind, args).args = args
                       /\ Pred(key, kind, args).other = {}
    BY DEF Pred
<1>13. \A kind, args : Admits(kind, n, args) => Holds(Pred(key, kind, args), env)
    <2> TAKE kind, args
    <2> HAVE Admits(kind, n, args)
    <2> DEFINE q == Pred(key, kind, args)
    <2>1. q.value = key /\ q.kind = kind /\ q.args = args /\ q.other = {}
        BY <1>12
    <2> HIDE DEF q
    <2>2. args = q.args \union {Eval(env)[w] : w \in q.other}
        BY <2>1
    <2>3. Admits(q.kind, Eval(env)[q.value], args)
        BY <2>1 DEF Val
    <2>4. Holds(q, env)
        BY <2>2, <2>3, HoldsSteps
    <2> QED BY <2>4 DEF q
<1>14. CASE B(a).op = "switch"
    <2>1. M = {i \in DOMAIN arms : n = i - 1}
        BY <1>14 DEF Matching
    <2>2. p \in IF arm = {} THEN {Pred(key, "not_in_range", 0 .. Len(arms) - 1)}
                ELSE {Pred(key, "eq", {i - 1}) : i \in arm}
        BY <1>3, <1>4, <1>14 DEF MultiWayEdge
    <2>3. CASE arm = {}
        <3>1. M = {}
            BY <1>10, <2>3
        <3>2. n \notin 0 .. Len(arms) - 1
            <4> SUFFICES ASSUME n \in 0 .. Len(arms) - 1 PROVE FALSE
                OBVIOUS
            <4>1. n + 1 \in DOMAIN arms /\ n = (n + 1) - 1
                BY <1>1, <1>2
            <4> HIDE DEF n, arms, M
            <4> QED BY <2>1, <3>1, <4>1
        <3>3. Admits("not_in_range", n, 0 .. Len(arms) - 1)
            BY <3>2 DEF Admits
        <3> QED BY <1>13, <2>2, <2>3, <3>3
    <2>4. CASE arm # {}
        <3>1. PICK i \in arm : p = Pred(key, "eq", {i - 1})
            BY <2>2, <2>4
        <3>2. i \in M
            BY <1>6, <1>9, <1>10, <1>11, <3>1
        <3>3. n = i - 1
            BY <2>1, <3>2
        <3>4. Admits("eq", n, {i - 1})
            BY <3>3 DEF Admits
        <3> QED BY <1>13, <3>1, <3>4
    <2> QED BY <2>3, <2>4
<1>15. CASE B(a).op = "match"
    <2> DEFINE K == Len(consts)
    <2>1. M = {i \in DOMAIN arms : i \in DOMAIN consts /\ consts[K + 1 - i] = n}
        BY <1>15 DEF Matching
    <2>2. p \in IF arm = {} THEN {Pred(key, "neq_all", S) : S \in {Candidates(a)} \ {{}}}
                ELSE {Pred(key, "eq", {Candidate(a, i)}) : i \in arm \cap DOMAIN consts}
        BY <1>3, <1>4, <1>15 DEF MultiWayEdge
    <2>3. CASE arm = {}
        <3>1. M = {}
            BY <1>10, <2>3
        <3>2. n \notin Candidates(a)
            <4> SUFFICES ASSUME NEW j \in DOMAIN consts, n = consts[j] PROVE FALSE
                BY DEF Candidates
            <4> DEFINE i == K + 1 - j
            <4>1. i \in DOMAIN consts /\ i \in DOMAIN arms /\ K + 1 - i = j
                <5>1. DOMAIN consts = 1..K /\ DOMAIN arms = 1..K /\ K \in Nat
                    BY <1>1, <1>15
                <5>2. j \in 1..K
                    BY <5>1
                <5> HIDE DEF K
                <5>3. i \in 1..K /\ K + 1 - i = j
                    BY <5>1, <5>2
                <5> QED BY <5>1, <5>3
            <4>2. i \in M
                <5> HIDE DEF i, arms, consts, M, n, K
                <5> QED BY <2>1, <4>1
            <4> QED BY <3>1, <4>2
        <3>3. Admits("neq_all", n, Candidates(a))
            BY <3>2 DEF Admits
        <3> QED BY <1>13, <2>2, <2>3, <3>3
    <2>4. CASE arm # {}
        <3>1. PICK i \in arm : p = Pred(key, "eq", {Candidate(a, i)})
            BY <2>2, <2>4
        <3>2. i \in M
            BY <1>6, <1>9, <1>10, <1>11, <3>1
        <3>3. n = Candidate(a, i)
            BY <2>1, <3>2 DEF Candidate
        <3>4. Admits("eq", n, {Candidate(a, i)})
            BY <3>3 DEF Admits
        <3> QED BY <1>13, <3>1, <3>4
    <2> QED BY <2>3, <2>4
<1> QED BY <1>14, <1>15 DEF MultiWay

\* What an edge says is true when it is taken.
LEMMA EdgeHolds ==
    ASSUME IsProgram(prog), env \in [Leaves -> Nat], NEW a \in All, NEW b \in Taken(a)
    PROVE  \A p \in EdgePredicates(a, b) : Holds(p, env)
<1>1. CASE B(a).op = "assert"
    <2>1. B(a).op \notin Conditional \union MultiWay /\ B(a).op \notin {"next", "b", "bnz", "bz"}
        BY <1>1 DEF Conditional, MultiWay
    <2>2. Val(B(a).cond) # 0
        BY <1>1, <2>1 DEF Taken
    <2>3. B(a).cond \in Value /\ TRUE \in BOOLEAN
        BY FlowTypes DEF Block
    <2>4. EdgePredicates(a, b) = DecomposeCond[<<B(a).cond, TRUE>>]
        BY <1>1, <2>1, Zenon DEF EdgePredicates
    <2>5. Eval(env)[B(a).cond] # 0 <=> TRUE
        BY <2>2 DEF Val
    <2> QED BY <2>3, <2>4, <2>5, DecomposeSound, Zenon
<1>2. CASE B(a).op \in Conditional
    BY <1>2, ConditionalHolds
<1>3. CASE B(a).op \in MultiWay
    BY <1>3, MultiWayHolds
<1>4. CASE B(a).op \notin {"assert"} \union Conditional \union MultiWay
    <2>1. EdgePredicates(a, b) = {}
        BY <1>4, Zenon DEF EdgePredicates
    <2> QED BY <2>1
<1> QED BY <1>1, <1>2, <1>3, <1>4

-----------------------------------------------------------------------------
(* What a block has is what its ways in bring.                             *)

LEMMA WhatArrives ==
    ASSUME FixpointInv, worklist = <<>>, NEW b \in Blocks, NEW p \in preds[b] \ Seeds(b)
    PROVE  \/ \A q \in Blocks : b \in Successors(q) => p \in preds[q] \union EdgePredicates(q, b)
           \/ p \in Carried(b)
<1>1. known = Blocks /\ preds[b] = NewPreds(b)
    BY AtTheEnd
<1>2. p \in Meet(Contributions(b)) \/ p \in Carried(b)
    BY <1>1 DEF NewPreds
<1>3. CASE p \in Meet(Contributions(b))
    <2> SUFFICES ASSUME NEW q \in Blocks, b \in Successors(q)
                 PROVE  p \in preds[q] \union EdgePredicates(q, b)
        OBVIOUS
    <2>1. q \in Predecessors(b) \cap known
        BY <1>1 DEF Predecessors
    <2>2. preds[q] \union EdgePredicates(q, b) \in Contributions(b)
        BY <2>1 DEF Contributions
    <2> QED BY <1>3, <2>2 DEF Meet
<1> QED BY <1>2, <1>3

\* At the entry, execution starts with no more than entry_seeds.
LEMMA WhatStarts ==
    ASSUME FixpointInv, worklist = <<>>, NEW p \in preds[1] \ Seeds(1)
    PROVE  p \in prog.entry
<1>1. Graph /\ 1 \in Blocks /\ prog.blocks \in Seq(Block)
    BY FixedProgram DEF FixpointInv, Graph
<1>2. preds[1] = NewPreds(1)
    BY <1>1, AtTheEnd
<1>3. prog.entry \in Contributions(1)
    BY DEF Contributions
<1>4. Carried(1) = {}
    <2>1. \A c \in Blocks : 1 \notin Following(c)
        BY <1>1 DEF Graph, Following, All
    <2>2. \A c \in Blocks : ~ ReturnTarget(c, 1)
        BY <2>1 DEF ReturnTarget
    <2> QED BY <2>2 DEF Carried
<1> QED BY <1>2, <1>3, <1>4 DEF NewPreds, Meet

\* What is carried over a call the caller had.
LEMMA WhatIsCarried ==
    ASSUME NEW b \in Blocks, NEW p \in Carried(b)
    PROVE  \E c \in Blocks : ReturnTarget(c, b) /\ p \in preds[c]
BY DEF Carried

LEMMA NoTest ==
    ASSUME NEW a, NEW b, B(a).op \in {"callsub", "retsub"}
    PROVE  EdgePredicates(a, b) = {}
<1>1. B(a).op \notin {"assert"} \union Conditional \union MultiWay
    BY DEF Conditional, MultiWay
<1> QED BY <1>1, Zenon DEF EdgePredicates

\* What control passes to block b with: what the edge says is true, and a block returned
\* to is where the last call in progress continues.
LEMMA WhatPasses ==
    ASSUME Running, NEW b \in Blocks, NEW e, NEW d, Passes(b, e, d)
    PROVE  /\ b \in Successors(at)
           /\ \A p \in EdgePredicates(at, b) : Holds(p, env)
           /\ \A c \in Blocks : ReturnTarget(c, b) =>
                  /\ B(at).op = "retsub"
                  /\ Len(frames) \in DOMAIN frames
                  /\ Site(frames[Len(frames)]) = c
<1>1. IsProgram(prog) /\ Graph /\ at \in Blocks /\ at \in All /\ env \in [Leaves -> Nat]
    BY PassFacts, EvalIsUint
<1>2. Leads(b)
    BY DEF Passes
<1>3. \A p \in EdgePredicates(at, b) : Holds(p, env)
    <2>1. CASE B(at).op \in {"callsub", "retsub"}
        BY <2>1, NoTest
    <2>2. CASE B(at).op \notin {"callsub", "retsub"}
        BY <1>1, <1>2, <2>2, EdgeHolds DEF Leads
    <2> QED BY <2>1, <2>2
<1>4. ASSUME NEW c \in Blocks, ReturnTarget(c, b)
      PROVE  /\ B(at).op = "retsub" /\ Len(frames) \in DOMAIN frames
             /\ Site(frames[Len(frames)]) = c
    <2>1. b \in Following(c) /\ B(at).op = "retsub"
        BY <1>1, <1>2, <1>4 DEF ReturnTarget, Predecessors, Leads
    <2> DEFINE x == Site(frames[Len(frames)])
    <2>2. frames # <<>> /\ b \in Following(x)
        BY <1>2, <2>1 DEF Leads
    <2>3. Len(frames) \in DOMAIN frames
        <3>1. frames \in Seq(Frame)
            BY DEF Running, MachineInv
        <3> QED BY <2>2, <3>1
    <2>4. x \in All /\ c \in All
        BY <1>1, <2>3, OlderFrames DEF Graph
    <2> HIDE DEF x
    <2>5. b = c + 1 /\ b = x + 1 /\ c \in Int /\ x \in Int
        BY <2>1, <2>2, <2>4 DEF Following, All
    <2> QED BY <2>1, <2>3, <2>5 DEF x
<1> QED BY <1>2, <1>3, <1>4 DEF Leads

-----------------------------------------------------------------------------
(* What the routines in progress have defined.                             *)

\* A routine is within what its entries are in and its steps keep.
LEMMA RoutineWithin ==
    ASSUME IsProgram(prog), NEW S \in SUBSET All, NEW D, S \subseteq D,
           \A b \in D \cap All : Flow(b) \subseteq D
    PROVE  Routine(S) \subseteq D
<1> DEFINE next == [b \in All |-> Flow(b)]
<1>1. next \in [All -> SUBSET All] /\ prog.blocks \in Seq(Block)
    BY FlowTypes
<1>2. Routine(S) = Closure(S, next) /\ \A b \in All : next[b] = Flow(b)
    BY DEF Routine
<1> HIDE DEF next
<1>3. \A b \in D \cap All : next[b] \subseteq D
    BY <1>2
<1> QED BY <1>1, <1>2, <1>3, ClosureFacts

\* A routine holds what follows any block of it, and is within its call.
LEMMA WithinRoutine ==
    ASSUME IsProgram(prog), NEW c \in All
    PROVE  /\ Routine(Arms(c)) \subseteq During(c)
           /\ \A d \in Routine(Arms(c)) : Routine({d}) \subseteq Routine(Arms(c))
<1> DEFINE R == Routine(Arms(c))
<1>1. Arms(c) \in SUBSET All
    BY FlowTypes
<1>2. R \subseteq All /\ \A b \in R : Flow(b) \subseteq R
    BY <1>1, RoutineFacts
<1>3. R \subseteq During(c)
    BY <1>1, DuringFacts, RoutineWithin
<1> HIDE DEF R
<1>4. ASSUME NEW d \in R PROVE Routine({d}) \subseteq R
    BY <1>2, <1>4, RoutineWithin
<1> QED BY <1>3, <1>4 DEF R

\* The routine the run is in has defined nothing its callers have.
LEMMA OwnApart ==
    ASSUME Running, OwnInRoutine, NEW i \in DOMAIN frames, NEW l \in own
    PROVE  l \notin frames[i].own
<1> SUFFICES ASSUME l \in frames[i].own PROVE FALSE
    OBVIOUS
<1> DEFINE n == Len(frames)
           c == Site(frames[i])
           x == Site(frames[n])
<1>1. /\ IsProgram(prog) /\ Graph /\ SingleAssignment /\ CallsDoNotRecur
      /\ frames \in Seq(Frame) /\ n \in DOMAIN frames
    BY MachineGraph DEF Running, MachineInv, Scoped
<1>2. /\ c \in Blocks /\ c \in All /\ B(c).op = "callsub"
      /\ l \in Leaves \ Fixed /\ Follows(c, frames[i].own)
      /\ \A j \in DOMAIN frames : i < j => Site(frames[j]) \in During(c)
    BY OlderFrames
<1>3. x \in All /\ B(x).op = "callsub" /\ Definitions(l) \subseteq Routine(Arms(x))
    <2>1. InnerOwn(n) = own
        BY DEF InnerOwn
    <2> QED BY <1>1, <2>1, OlderFrames DEF OwnInRoutine
<1> HIDE DEF c, x
<1>4. PICK d \in Definitions(l) : c \in Routine({d})
    BY <1>2 DEF Follows
<1>5. Routine(Arms(x)) \subseteq During(c)
    <2>1. CASE i = n
        <3>1. x = c
            BY <2>1 DEF c, x
        <3> QED BY <1>1, <1>2, <3>1, WithinRoutine
    <2>2. CASE i # n
        <3>1. x \in During(c)
            <4>1. i < n
                BY <1>1, <2>2
            <4> QED BY <1>1, <1>2, <4>1 DEF x
        <3>2. /\ Arms(x) \subseteq During(c) /\ Arms(x) \in SUBSET All
              /\ \A b \in During(c) : Flow(b) \subseteq During(c)
            BY <1>1, <1>2, <1>3, <3>1, DuringFacts, FlowTypes
        <3> QED BY <1>1, <3>2, RoutineWithin
    <2> QED BY <2>1, <2>2
<1>6. c \in During(c)
    BY <1>1, <1>2, <1>3, <1>4, <1>5, DuringFacts
<1> QED BY <1>1, <1>2, <1>6 DEF CallsDoNotRecur

\* How a step, a call or a return changes the calls in progress.
Moves ==
    \/ frames' = frames /\ own' = own \union Defines(at')
    \/ /\ \E f \in Frame : f.own = own /\ Site(f) = at /\ frames' = Append(frames, f)
       /\ own' = Defines(at')
    \/ /\ B(at).op = "retsub" /\ frames # <<>>
       /\ frames' = SubSeq(frames, 1, Len(frames) - 1)
       /\ own' = frames[Len(frames)].own \union Defines(at')

LEMMA RunMoves ==
    ASSUME Running, Step \/ Call \/ Return
    PROVE  Moves
<1>1. CASE Step
    BY <1>1 DEF Step, Enter, Moves
<1>2. CASE Call
    <2> DEFINE f == [cont |-> Following(at), own |-> own, env |-> env]
    <2>1. frames' = Append(frames, f) /\ f.own = own /\ f.cont = Following(at)
        BY <1>2 DEF Call
    <2>2. at \in All
        BY MachineGraph DEF Running, MachineInv, Graph
    <2>3. f \in Frame
        BY DEF Frame, Running, MachineInv, Following
    <2> HIDE DEF f
    <2>4. Site(f) = at
        BY <2>1, <2>2, SiteFacts
    <2>5. own' = Defines(at')
        BY <1>2 DEF Call, Enter
    <2> QED BY <2>1, <2>3, <2>4, <2>5 DEF Moves
<1>3. CASE Return
    BY <1>3 DEF Return, Enter, Moves
<1> QED BY <1>1, <1>2, <1>3

\* A leaf of the routine that is left.
Dropped(l) == B(at).op = "retsub" /\ l \in own

\* What stays of the calls in progress, and which is new.
LEMMA MoveFacts ==
    ASSUME Running, Moves
    PROVE  /\ \A i \in DOMAIN frames' :
                  \/ /\ i \in DOMAIN frames /\ frames'[i] = frames[i] /\ Before(i)' = Before(i)
                     /\ \A l \in Since(i) : l \in Since(i)' \/ Dropped(l)
                  \/ /\ i \notin DOMAIN frames /\ Site(frames'[i]) = at
                     /\ Before(i)' = Defined
           /\ \A i \in DOMAIN frames' : Defines(at') \subseteq Since(i)'
           /\ \A i \in DOMAIN frames' : \A l \in InnerOwn(i)' :
                  \/ /\ i \in DOMAIN frames /\ frames'[i] = frames[i] /\ l \in InnerOwn(i)
                  \/ /\ i = Len(frames') /\ l \in Defines(at')
           /\ \A i \in DOMAIN frames : Before(i) \subseteq Defined'
           /\ \A l \in Defined : l \in Defined' \/ Dropped(l)
<1>0. frames \in Seq(Frame)
    BY DEF Running, MachineInv
<1> PICK n : n = Len(frames)
    OBVIOUS
<1> PICK m : m = Len(frames')
    OBVIOUS
<1> PICK D : D = Defines(at')
    OBVIOUS
<1>1. frames \in Seq(Frame) /\ n \in Nat /\ DOMAIN frames = 1..n
    BY <1>0
<1>2. /\ \A i : Since(i) = UNION {InnerOwn(j) : j \in i..n}
      /\ \A i : Since(i)' = UNION {InnerOwn(j)' : j \in i..m}
      /\ \A i : Before(i) = UNION {frames[j].own : j \in 1..i}
      /\ \A i : Before(i)' = UNION {frames'[j].own : j \in 1..i}
      /\ \A i : InnerOwn(i) = IF i = n THEN own ELSE frames[i + 1].own
      /\ \A i : InnerOwn(i)' = IF i = m THEN own' ELSE frames'[i + 1].own
      /\ Defined = own \union UNION {frames[i].own : i \in DOMAIN frames}
      /\ Defined' = own' \union UNION {frames'[i].own : i \in DOMAIN frames'}
    BY DEF Since, Before, InnerOwn, Defined
<1>3. CASE frames' = frames /\ own' = own \union D
    <2>1. m = n /\ DOMAIN frames' = 1..n /\ \A i : frames'[i] = frames[i]
        BY <1>1, <1>3
    <2>2. \A i : InnerOwn(i)' = IF i = n THEN own \union D ELSE frames[i + 1].own
        BY <1>2, <1>3, <2>1
    <2>3. \A i \in 1..n : n \in i..n /\ D \subseteq Since(i)' /\ Since(i) \subseteq Since(i)'
        <3> TAKE i \in 1..n
        <3>1. n \in i..n
            BY <1>1
        <3>2. \A j \in i..n : InnerOwn(j) \subseteq InnerOwn(j)'
            BY <1>2, <2>2
        <3>3. InnerOwn(n)' = own \union D
            BY <2>2
        <3> QED BY <1>2, <2>1, <3>1, <3>2, <3>3
    <2>4. \A i : Before(i)' = Before(i)
        BY <1>2, <2>1
    <2>5. \A i : \A l \in InnerOwn(i)' : l \in InnerOwn(i) \/ (i = n /\ l \in D)
        BY <1>2, <2>2
    <2>6. \A i \in 1..n : Before(i) \subseteq Defined'
        BY <1>1, <1>2, <2>1
    <2>7. Defined \subseteq Defined'
        BY <1>2, <1>3
    <2> QED BY <1>1, <2>1, <2>3, <2>4, <2>5, <2>6, <2>7
<1>4. CASE /\ \E f \in Frame : f.own = own /\ Site(f) = at /\ frames' = Append(frames, f)
           /\ own' = D
    <2>1. PICK f \in Frame : f.own = own /\ Site(f) = at /\ frames' = Append(frames, f)
        BY <1>4
    <2>2. /\ m = n + 1 /\ DOMAIN frames' = 1 .. n + 1
          /\ frames'[n + 1] = f /\ \A i \in 1..n : frames'[i] = frames[i]
        BY <1>1, <2>1
    <2>3. \A i \in 1..n : InnerOwn(i)' = InnerOwn(i)
        BY <1>1, <1>2, <2>1, <2>2
    <2>4. InnerOwn(n + 1)' = D
        BY <1>2, <1>4, <2>2
    <2>5. \A i \in 1 .. n + 1 : D \subseteq Since(i)'
        <3> TAKE i \in 1 .. n + 1
        <3>1. n + 1 \in i .. m
            BY <1>1, <2>2
        <3> QED BY <1>2, <2>4, <3>1
    <2>6. \A i \in 1..n : Since(i) \subseteq Since(i)'
        <3> TAKE i \in 1..n
        <3>1. \A j \in i..n : j \in i .. m /\ j \in 1..n
            BY <1>1, <2>2
        <3> QED BY <1>2, <2>3, <3>1
    <2>7. \A i \in 1..n : Before(i)' = Before(i)
        <3> TAKE i \in 1..n
        <3>1. \A j \in 1..i : j \in 1..n
            BY <1>1
        <3>2. {frames'[j].own : j \in 1..i} = {frames[j].own : j \in 1..i}
            BY <2>2, <3>1
        <3> QED BY <1>2, <3>2
    <2>8. Before(n + 1)' = Defined
        <3>0. /\ Before(n + 1)' = UNION {frames'[j].own : j \in 1 .. n + 1}
              /\ Defined = own \union UNION {frames[i].own : i \in 1..n}
            BY <1>1, <1>2
        <3>1. \A j \in 1 .. n + 1 : frames'[j].own = IF j = n + 1 THEN own ELSE frames[j].own
            BY <1>1, <2>1, <2>2
        <3>2. n + 1 \in 1 .. n + 1 /\ \A j \in 1 .. n + 1 : j = n + 1 \/ j \in 1..n
            BY <1>1
        <3>3. \A j \in 1..n : j \in 1 .. n + 1 /\ j # n + 1
            BY <1>1
        <3>4. ASSUME NEW l \in Before(n + 1)' PROVE l \in Defined
            <4>1. PICK j \in 1 .. n + 1 : l \in frames'[j].own
                BY <3>0, <3>4
            <4> QED BY <3>0, <3>1, <3>2, <4>1
        <3>5. ASSUME NEW l \in own PROVE l \in Before(n + 1)'
            <4>1. l \in frames'[n + 1].own
                BY <3>1, <3>2, <3>5
            <4> QED BY <3>0, <3>2, <4>1
        <3>6. ASSUME NEW j \in 1..n, NEW l \in frames[j].own PROVE l \in Before(n + 1)'
            <4>1. l \in frames'[j].own /\ j \in 1 .. n + 1
                BY <3>1, <3>3, <3>6
            <4> QED BY <3>0, <4>1
        <3> QED BY <3>0, <3>4, <3>5, <3>6
    <2>9. Defined \subseteq Defined'
        <3>1. Before(n + 1)' \subseteq Defined'
            BY <1>2, <2>2
        <3> QED BY <2>8, <3>1
    <2>10. \A i \in 1..n : Before(i) \subseteq Defined
        BY <1>1, <1>2
    <2>11. \A i \in 1 .. n + 1 : i \in 1..n \/ i = n + 1
        BY <1>1
    <2> QED BY <1>1, <2>1, <2>2, <2>3, <2>4, <2>5, <2>6, <2>7, <2>8, <2>9, <2>10, <2>11
<1>5. CASE /\ B(at).op = "retsub" /\ frames # <<>>
           /\ frames' = SubSeq(frames, 1, n - 1)
           /\ own' = frames[n].own \union D
    <2>1. /\ n \in 1..n /\ n - 1 \in Nat /\ m = n - 1 /\ DOMAIN frames' = 1 .. n - 1
          /\ \A i \in 1 .. n - 1 : frames'[i] = frames[i] /\ i \in 1..n
        BY <1>1, <1>5
    <2>2. \A i \in 1 .. n - 1 :
              InnerOwn(i)' = IF i = n - 1 THEN InnerOwn(i) \union D ELSE InnerOwn(i)
        <3> TAKE i \in 1 .. n - 1
        <3>0. i # n
            BY <1>1
        <3>1. InnerOwn(i) = frames[i + 1].own
            BY <1>2, <3>0
        <3>2. CASE i = n - 1
            BY <1>1, <1>2, <1>5, <2>1, <3>1, <3>2
        <3>3. CASE i # n - 1
            BY <1>1, <1>2, <2>1, <3>1, <3>3
        <3> QED BY <3>2, <3>3
    <2>3. \A i \in 1 .. n - 1 : D \subseteq Since(i)'
        <3> TAKE i \in 1 .. n - 1
        <3>1. n - 1 \in i .. m /\ n - 1 \in 1 .. n - 1
            BY <1>1, <2>1
        <3>2. D \subseteq InnerOwn(n - 1)'
            BY <2>2, <3>1
        <3> QED BY <1>2, <3>1, <3>2
    <2>4. ASSUME NEW i \in 1 .. n - 1, NEW l \in Since(i) PROVE l \in Since(i)' \/ l \in own
        <3>1. PICK j \in i..n : l \in InnerOwn(j)
            BY <1>2, <2>4
        <3>2. CASE j = n
            BY <1>2, <3>1, <3>2
        <3>3. CASE j # n
            <4>1. j \in i..m /\ j \in 1 .. n - 1
                BY <1>1, <2>1, <3>3
            <4>2. l \in InnerOwn(j)'
                BY <2>2, <3>1, <4>1
            <4> QED BY <1>2, <4>1, <4>2
        <3> QED BY <3>2, <3>3
    <2>5. \A i \in 1 .. n - 1 : Before(i)' = Before(i)
        <3> TAKE i \in 1 .. n - 1
        <3>1. \A j \in 1..i : j \in 1 .. n - 1
            BY <1>1
        <3>2. {frames'[j].own : j \in 1..i} = {frames[j].own : j \in 1..i}
            BY <2>1, <3>1
        <3> QED BY <1>2, <3>2
    <2>6. \A j \in 1..n : frames[j].own \subseteq Defined'
        <3> TAKE j \in 1..n
        <3>1. CASE j = n
            BY <1>2, <1>5, <3>1
        <3>2. CASE j # n
            <4>1. j \in 1 .. n - 1
                BY <1>1, <3>2
            <4> QED BY <1>2, <2>1, <4>1
        <3> QED BY <3>1, <3>2
    <2>7. \A i \in 1..n : Before(i) \subseteq Defined'
        <3> TAKE i \in 1..n
        <3>1. \A j \in 1..i : j \in 1..n
            BY <1>1
        <3> QED BY <1>2, <2>6, <3>1
    <2>8. \A l \in Defined : l \in Defined' \/ l \in own
        BY <1>1, <1>2, <2>6
    <2>9. \A l \in own : Dropped(l)
        BY <1>5 DEF Dropped
    <2>10. \A i \in 1 .. n - 1 : \A l \in Since(i) : l \in Since(i)' \/ Dropped(l)
        BY <2>4, <2>9
    <2>11. \A i \in 1 .. n - 1 : \A l \in InnerOwn(i)' :
               l \in InnerOwn(i) \/ (i = m /\ l \in D)
        BY <2>1, <2>2
    <2>12. \A l \in Defined : l \in Defined' \/ Dropped(l)
        BY <2>8, <2>9
    <2> QED BY <1>1, <2>1, <2>3, <2>5, <2>7, <2>10, <2>11, <2>12
<1> QED BY <1>3, <1>4, <1>5 DEF Moves

RunState == Running /\ FixpointInv /\ SeedsAreDefined /\ RunFacts

\* What a caller knew of a leaf the routine has defined, the routine knows as it returns.
LEMMA ReturningKnows ==
    ASSUME RunState, B(at).op = "retsub", NEW i \in DOMAIN frames,
           NEW p \in preds[Site(frames[i])], NEW l \in Mentions(p) \cap own
    PROVE  Holds(p, env)
<1>1. /\ Running /\ at \in Blocks /\ OwnInRoutine /\ LeftByCalls /\ PredicatesHold
      /\ frames \in Seq(Frame)
    BY DEF RunState, RunFacts, Running, MachineInv
<1>2. l \in Leaves \ Fixed /\ \E d \in Definitions(l) : at \in Routine({d})
    BY <1>1 DEF Running, CallsInv, OwnFollow, Follows
<1>3. l \notin Before(i)
    <2>1. \A j \in 1..i : j \in DOMAIN frames
        BY <1>1
    <2> QED BY <1>1, <2>1, OwnApart DEF Before
<1>4. Returned(p, l)
    BY <1>1, <1>2, <1>3 DEF LeftByCalls
<1>5. p \in preds[at]
    BY <1>1, <1>2, <1>4 DEF Returned
<1> QED BY <1>1, <1>5 DEF PredicatesHold, Running

\* What is known of l at b is fresh, or l has no definition yet.
LEMMA FreshOnArrival ==
    ASSUME RunState, NEW b \in Blocks, NEW e, NEW d, Passes(b, e, d), NEW l \in Leaves \ Fixed
    PROVE  \/ Fresh(l)
           \/ /\ Unseen(l) /\ l \notin Defines(b)
              /\ \A p \in preds[b] : l \notin Mentions(p)
<1> SUFFICES ASSUME ~ Fresh(l)
             PROVE  /\ Unseen(l) /\ l \notin Defines(b)
                    /\ \A p \in preds[b] : l \notin Mentions(p)
    OBVIOUS
<1>1. /\ IsProgram(prog) /\ Graph /\ at \in Blocks /\ at \in All
      /\ Running /\ SingleAssignment /\ FixpointInv /\ worklist = <<>>
    BY PassFacts DEF RunState, RunFacts, Running, Scoped
<1>2. Unseen(l)
    BY DEF RunState, RunFacts
<1>3. b \in Successors(at)
    BY <1>1, WhatPasses
<1>4. l \notin Tests(at)
    <2>1. l \notin own
        BY <1>2 DEF Unseen, Defined
    <2>2. l \notin Reads(at)
        BY <1>1, <2>1, ReadsAreOwn DEF Running, CallsInv
    <2> QED BY <2>2 DEF Reads
<1>5. \A p \in preds[at] \union EdgePredicates(at, b) : l \notin Mentions(p)
    BY <1>1, <1>2, <1>4, EdgeMentions DEF Unseen
<1>6. \A p \in preds[b] \ Seeds(b) : l \notin Mentions(p)
    <2> TAKE p \in preds[b] \ Seeds(b)
    <2>1. p \in preds[at] \union EdgePredicates(at, b) \/ p \in Carried(b)
        BY <1>1, <1>3, WhatArrives
    <2>2. CASE p \in Carried(b)
        <3>1. PICK c \in Blocks : ReturnTarget(c, b) /\ p \in preds[c]
            BY <2>2, WhatIsCarried
        <3>2. Len(frames) \in DOMAIN frames /\ Site(frames[Len(frames)]) = c
            BY <1>1, <3>1, WhatPasses
        <3> QED BY <1>2, <3>1, <3>2 DEF Unseen
    <2> QED BY <1>5, <2>1, <2>2
<1>7. b \notin Definitions(l)
    <2> SUFFICES ASSUME b \in Definitions(l) PROVE Fresh(l)
        OBVIOUS
    <2>1. \A x \in Definitions(l) : x = b
        BY <1>1, OneDefinition
    <2> QED BY <1>6, <2>1 DEF Fresh
<1>8. b \in Undefined(l)
    <2>1. d \subseteq Defined /\ \A x \in (Leaves \ Fixed) \ d : b \in Undefined(x) \union Definitions(x)
        BY DEF Passes, Brings
    <2>2. l \notin d
        BY <1>2, <2>1 DEF Unseen
    <2> QED BY <1>7, <2>1, <2>2
<1>9. \A p \in Seeds(b) : l \notin Mentions(p)
    BY <1>8 DEF RunState, SeedsAreDefined
<1> QED BY <1>2, <1>6, <1>7, <1>9 DEF Definitions

\* What is known at b of the values it is entered with is true.
LEMMA TrueOnArrival ==
    ASSUME RunState, NEW b \in Blocks, NEW e, NEW d, Passes(b, e, d)
    PROVE  \A p \in preds[b] : Holds(p, env')
<1>1. /\ IsProgram(prog) /\ Graph /\ at \in Blocks /\ at \in All /\ b \in All
      /\ \A l \in Leaves \ Defines(b) : env'[l] = env[l]
      /\ \A p \in Seeds(b) : Holds(p, env')
      /\ Running /\ FixpointInv /\ worklist = <<>> /\ PredicatesHold /\ CallersRight
    BY PassFacts DEF RunState, RunFacts
<1>2. env \in [Leaves -> Nat] /\ env' \in [Leaves -> Nat]
    BY <1>1, PassFacts, EvalIsUint
<1>3. ASSUME NEW p \in Predicate, Holds(p, env), \A l \in Mentions(p) : l \notin Defines(b)
      PROVE  Holds(p, env')
    <2>1. \A l \in Mentions(p) : env[l] = env'[l]
        BY <1>1, <1>3 DEF Mentions
    <2> QED BY <1>2, <1>3, <2>1, HoldsAgrees
<1>4. Defines(b) \subseteq Leaves \ Fixed
    BY <1>1, DefinesFacts
<1> SUFFICES ASSUME NEW p \in preds[b], p \notin Seeds(b) PROVE Holds(p, env')
    BY <1>1
<1>5. \A q \in Blocks : preds[q] \subseteq Predicate
    BY <1>1 DEF FixpointInv, AnalysisTypes, Graph
<1>6. \A l \in Mentions(p) : l \notin Defines(b)
    <2> SUFFICES ASSUME NEW l \in Mentions(p), l \in Defines(b) PROVE FALSE
        OBVIOUS
    <2>1. l \in Leaves \ Fixed /\ b \in Definitions(l)
        BY <1>4 DEF Definitions
    <2>2. Fresh(l)
        BY <2>1, FreshOnArrival
    <2> QED BY <2>1, <2>2 DEF Fresh
<1>7. CASE p \in Carried(b)
    <2>1. PICK c \in Blocks : ReturnTarget(c, b) /\ p \in preds[c]
        BY <1>7, WhatIsCarried
    <2>2. /\ B(at).op = "retsub" /\ Len(frames) \in DOMAIN frames
          /\ p \in preds[Site(frames[Len(frames)])]
        BY <1>1, <2>1, WhatPasses
    <2>3. Since(Len(frames)) \subseteq own
        <3>1. \A j \in Len(frames) .. Len(frames) : j = Len(frames)
            BY <2>2
        <3> QED BY <3>1 DEF Since, InnerOwn
    <2>4. Holds(p, env) \/ Mentions(p) \cap own # {}
        BY <1>1, <2>2, <2>3 DEF CallersRight
    <2>5. Holds(p, env)
        BY <2>2, <2>4, ReturningKnows
    <2> QED BY <1>3, <1>5, <1>6, <2>5
<1>8. CASE p \notin Carried(b)
    <2>1. p \in preds[at] \union EdgePredicates(at, b)
        BY <1>1, <1>8, WhatArrives, WhatPasses
    <2>2. \A q \in preds[at] : Holds(q, env)
        BY <1>1 DEF Running, PredicatesHold
    <2>3. Holds(p, env)
        BY <1>1, <2>1, <2>2, WhatPasses
    <2> QED BY <1>3, <1>5, <1>6, <2>3
<1> QED BY <1>7, <1>8

\* What is known at b of a leaf is known by the routines in progress, or at every return
\* that has defined it.
LEMMA LeftOnArrival ==
    ASSUME RunState, Moves, NEW b \in Blocks, NEW e, NEW d, Passes(b, e, d),
           NEW p \in preds[b], NEW l \in Mentions(p) \ Fixed
    PROVE  l \in Defined' \/ Returned(p, l)
<1>1. /\ IsProgram(prog) /\ Graph /\ at \in Blocks /\ at \in All /\ Running /\ FixpointInv
      /\ worklist = <<>> /\ SingleAssignment /\ LeftByCalls
      /\ own' = d \union Defines(b) /\ frames \in Seq(Frame)
    BY PassFacts DEF RunState, RunFacts, Running, Scoped, MachineInv
<1>2. l \in Leaves \ Fixed
    BY DEF Mentions
<1>3. l \in Defined => l \in Defined' \/ Dropped(l)
    BY <1>1, MoveFacts
<1>4. CASE p \in Seeds(b)
    <2>1. b \notin Undefined(l)
        BY <1>4 DEF RunState, SeedsAreDefined
    <2>2. l \in d \/ b \in Definitions(l)
        BY <1>2, <2>1 DEF Passes, Brings
    <2> QED BY <1>1, <2>2 DEF Definitions, Defined
<1>5. CASE p \in Carried(b)
    <2>1. PICK c \in Blocks : ReturnTarget(c, b) /\ p \in preds[c]
        BY <1>5, WhatIsCarried
    <2>2. Len(frames) \in DOMAIN frames /\ Site(frames[Len(frames)]) = c
        BY <1>1, <2>1, WhatPasses
    <2>3. l \in Before(Len(frames)) \/ Returned(p, l)
        BY <1>1, <2>1, <2>2 DEF LeftByCalls
    <2> QED BY <1>1, <2>2, <2>3, MoveFacts
<1>6. CASE p \notin Seeds(b) /\ p \notin Carried(b)
    <2>1. \A q \in Blocks : b \in Successors(q) => p \in preds[q] \union EdgePredicates(q, b)
        BY <1>1, <1>6, WhatArrives
    <2>2. p \in preds[at] \union EdgePredicates(at, b)
        BY <1>1, <2>1, WhatPasses
    <2>3. l \in Defined \/ Returned(p, l)
        <3>1. CASE p \in preds[at]
            BY <1>1, <3>1 DEF LeftByCalls
        <3>2. CASE p \in EdgePredicates(at, b)
            <4>1. l \in Reads(at)
                BY <1>1, <3>2, EdgeMentions DEF Reads
            <4>2. l \in own
                BY <1>1, <1>2, <4>1, ReadsAreOwn DEF Running, CallsInv
            <4> QED BY <4>2 DEF Defined
        <3> QED BY <2>2, <3>1, <3>2
    <2>4. ASSUME Dropped(l) PROVE Returned(p, l)
        <3> DEFINE c == Site(frames[Len(frames)])
        <3>1. B(at).op = "retsub" /\ l \in own /\ frames # <<>> /\ b \in Following(c)
            BY <2>4 DEF Dropped, Passes, Leads
        <3>2. Len(frames) \in DOMAIN frames
            BY <1>1, <3>1
        <3>3. c \in Blocks /\ c \in All /\ B(c).op = "callsub"
            BY <1>1, <3>2, OlderFrames
        <3>4. Definitions(l) \subseteq Routine(Arms(c))
            BY <3>1, <3>2 DEF InnerOwn, RunState, RunFacts, OwnInRoutine
        <3> HIDE DEF c
        <3>5. ASSUME NEW x \in Definitions(l), NEW r \in Blocks \cap Routine({x}),
                     B(r).op = "retsub"
              PROVE  p \in preds[r]
            <4>1. r \in Routine(Arms(c))
                BY <1>1, <3>3, <3>4, <3>5, WithinRoutine
            <4>2. b \in Successors(r)
                BY <1>1, <3>1, <3>3, <3>5, <4>1, ReturnFacts
            <4> QED BY <2>1, <3>5, <4>2, NoTest
        <3> QED BY <3>5 DEF Returned
    <2> QED BY <1>3, <2>3, <2>4
<1> QED BY <1>4, <1>5, <1>6

-----------------------------------------------------------------------------
(* The run.                                                                *)

LEMMA PassKeepsFacts ==
    ASSUME RunState, Moves, MachineInv', UNCHANGED analysisVars,
           NEW b \in Blocks, NEW e, NEW d, Passes(b, e, d)
    PROVE  SeedsAreDefined' /\ RunFacts'
<1>1. /\ IsProgram(prog) /\ Graph /\ at \in Blocks /\ Running /\ RunFacts /\ SingleAssignment
      /\ at' = b /\ own' = d \union Defines(b) /\ UNCHANGED program
      /\ \A l \in Leaves \ Defines(b) : env'[l] = env[l]
      /\ Defined' \subseteq Defined \union Defines(b)
      /\ frames \in Seq(Frame)
    BY PassFacts DEF RunState, Running, Scoped, MachineInv
<1>2. worklist' = worklist /\ preds' = preds /\ prog' = prog /\ Blocks' = Blocks
    BY <1>1 DEF analysisVars, program, Blocks
<1>3. \A l : Undefined(l)' = Undefined(l) /\ Definitions(l)' = Definitions(l)
    BY <1>1, SameScope
<1>4. /\ \A f : Site(f)' = Site(f)
      /\ \A S : Routine(S)' = Routine(S)
      /\ \A x : B(x)' = B(x) /\ Arms(x)' = Arms(x) /\ Defines(x)' = Defines(x)
      /\ \A x : Seeds(x)' = Seeds(x)
    BY <1>1, <1>2, SameSite, SameText
<1>5. \A q, l : Returned(q, l)' = Returned(q, l)
    BY <1>2, <1>3, <1>4 DEF Returned
<1>6. Defines(b) = Defines(at')
    BY <1>1
<1>7. /\ \A i \in DOMAIN frames' :
             Site(frames'[i]) \in Blocks
             /\ Site(frames'[i]) \in {at} \union {Site(frames[j]) : j \in DOMAIN frames}
      /\ \A x \in Blocks : preds[x] \subseteq Predicate
    BY <1>1 DEF Passes, FramesAt, FrameAt, RunState, FixpointInv, AnalysisTypes, Graph
<1>8. SeedsAreDefined'
    BY <1>1, SameSeeds DEF RunState
<1>9. \A l \in Leaves \ Fixed : Unseen(l)' \/ Fresh(l)'
    <2> TAKE l \in Leaves \ Fixed
    <2>1. CASE Fresh(l)
        BY <1>2, <1>3, <1>4, <2>1 DEF Fresh
    <2>2. CASE ~ Fresh(l)
        <3>1. /\ Unseen(l) /\ l \notin Defines(b)
              /\ \A p \in preds[b] : l \notin Mentions(p)
            BY <2>2, FreshOnArrival
        <3>2. \A i \in DOMAIN frames' : \A p \in preds[Site(frames'[i])] : l \notin Mentions(p)
            BY <1>7, <3>1 DEF Unseen
        <3> QED BY <1>1, <1>2, <1>4, <3>1, <3>2 DEF Unseen
    <2> QED BY <2>1, <2>2
<1>10. OwnInRoutine'
    <2> SUFFICES ASSUME NEW i \in DOMAIN frames', NEW l \in InnerOwn(i)'
                 PROVE  Definitions(l) \subseteq Routine(Arms(Site(frames'[i])))
        BY <1>3, <1>4 DEF OwnInRoutine
    <2>1. CASE i \in DOMAIN frames /\ frames'[i] = frames[i] /\ l \in InnerOwn(i)
        BY <1>1, <2>1 DEF RunFacts, OwnInRoutine
    <2>2. CASE i = Len(frames') /\ l \in Defines(at')
        <3>1. b \in Definitions(l) /\ l \in Leaves \ Fixed
            BY <1>1, <2>2, DefinesFacts DEF Definitions, Graph
        <3>2. \A x \in Definitions(l) : x = b
            BY <1>1, <3>1, OneDefinition
        <3>3. Inner(i)' = b
            BY <1>1, <2>2 DEF Inner
        <3>4. b \in Routine(Arms(Site(frames'[i])))
            BY <1>4, <3>3 DEF MachineInv
        <3> QED BY <3>2, <3>4
    <2> QED BY <1>1, <2>1, <2>2, MoveFacts
<1>11. LeftByCalls'
    <2>1. ASSUME NEW p \in preds[b], NEW l \in Mentions(p) \ Fixed
          PROVE  l \in Defined' \/ Returned(p, l)
        BY <1>1, <2>1, LeftOnArrival
    <2>2. ASSUME NEW i \in DOMAIN frames', NEW p \in preds[Site(frames'[i])],
                 NEW l \in Mentions(p) \ Fixed
          PROVE  l \in Before(i)' \/ Returned(p, l)
        <3>1. CASE i \in DOMAIN frames /\ frames'[i] = frames[i] /\ Before(i)' = Before(i)
            BY <1>1, <2>2, <3>1 DEF RunFacts, LeftByCalls
        <3>2. CASE Site(frames'[i]) = at /\ Before(i)' = Defined
            BY <1>1, <2>2, <3>2 DEF RunFacts, LeftByCalls
        <3> QED BY <1>1, <3>1, <3>2, MoveFacts
    <2> QED BY <1>1, <1>2, <1>4, <1>5, <2>1, <2>2 DEF LeftByCalls
<1>12. CallersRight'
    <2> SUFFICES ASSUME NEW i \in DOMAIN frames', NEW p \in preds[Site(frames'[i])],
                        Mentions(p) \cap Since(i)' = {}
                 PROVE  Holds(p, env')
        BY <1>2, <1>4 DEF CallersRight
    <2>1. p \in Predicate
        BY <1>7
    <2>2. Mentions(p) \cap Defines(b) = {}
        BY <1>1, <1>6, MoveFacts
    <2>3. Holds(p, env)
        <3>1. CASE /\ i \in DOMAIN frames /\ frames'[i] = frames[i]
                   /\ \A l \in Since(i) : l \in Since(i)' \/ Dropped(l)
            <4>1. CASE Holds(p, env)
                BY <4>1
            <4>2. CASE Mentions(p) \cap Since(i) # {}
                <5>1. \E l \in Mentions(p) : Dropped(l)
                    BY <3>1, <4>2
                <5> QED BY <3>1, <5>1, ReturningKnows DEF Dropped
            <4> QED BY <1>1, <3>1, <4>1, <4>2 DEF RunFacts, CallersRight
        <3>2. CASE Site(frames'[i]) = at
            BY <1>1, <3>2 DEF RunFacts, Running, PredicatesHold
        <3> QED BY <1>1, <3>1, <3>2, MoveFacts
    <2>4. \A l \in Mentions(p) : env[l] = env'[l]
        BY <1>1, <2>2 DEF Mentions
    <2>5. env \in [Leaves -> Nat] /\ env' \in [Leaves -> Nat]
        BY <1>1, PassFacts, EvalIsUint
    <2> QED BY <2>1, <2>3, <2>4, <2>5, HoldsAgrees
<1>13. PredicatesHold'
    BY <1>1, <1>2, TrueOnArrival DEF PredicatesHold
<1> QED BY <1>1, <1>2, <1>8, <1>9, <1>10, <1>11, <1>12, <1>13 DEF RunFacts

LEMMA RunBegins ==
    ASSUME MachineInv, FixpointInv, Scoped, SeedsAreDefined, Start
    PROVE  SeedsAreDefined' /\ RunFacts'
<1>1. IsProgram(prog) /\ Graph /\ 1 \in All /\ 1 \in Blocks
    BY FixedProgram DEF FixpointInv, Graph
<1>2. worklist = <<>> /\ frames' = <<>> /\ UNCHANGED analysisVars
    BY DEF Start, Begin, MachineInv
<1>3. PICK e \in [Leaves -> Uint] : Enter(1, e, {}) /\ \A p \in prog.entry : Holds(p, e)
    BY <1>1, BeginFacts DEF Start
<1>4. /\ at' = 1 /\ mode' = "run" /\ own' = Defines(1) /\ UNCHANGED program
      /\ env' \in [Leaves -> Uint] /\ \A l \in Leaves \ B(1).defs : env'[l] = e[l]
      /\ \A p \in Seeds(1) : Holds(p, env')
    <2>1. {} \in SUBSET Leaves
        OBVIOUS
    <2>2. {} \union Defines(1) = Defines(1)
        OBVIOUS
    <2>3. e \in [Leaves -> Uint] /\ Enter(1, e, {})
        BY <1>3
    <2>4. /\ at' = 1 /\ mode' = "run" /\ own' = {} \union Defines(1) /\ UNCHANGED program
          /\ env' \in [Leaves -> Uint] /\ \A l \in Leaves \ B(1).defs : env'[l] = e[l]
          /\ \A p \in Seeds(1) : Holds(p, env')
        BY <1>1, <2>1, <2>3, EnterFacts, SMTT(30)
    <2> QED BY <2>2, <2>4
<1>5. worklist' = worklist /\ preds' = preds /\ prog' = prog
    BY <1>2, <1>4 DEF analysisVars, program
<1>6. \A l : Undefined(l)' = Undefined(l) /\ Definitions(l)' = Definitions(l)
    BY <1>4, SameScope
<1>7. Defines(1) \subseteq Leaves \ Fixed
    BY <1>1, DefinesFacts
<1>8. \A p \in preds[1] \ Seeds(1) : p \in prog.entry /\ Mentions(p) \subseteq Fixed
    BY <1>2, WhatStarts DEF SeedsAreDefined
<1>9. SeedsAreDefined'
    BY <1>4, SameSeeds
<1>10. OwnInRoutine' /\ CallersRight'
    BY <1>2 DEF OwnInRoutine, CallersRight
<1>11. \A l \in Leaves \ Fixed : Unseen(l)' \/ Fresh(l)'
    <2> TAKE l \in Leaves \ Fixed
    <2>1. CASE 1 \in Definitions(l)
        <3>1. \A d \in Definitions(l) : d = 1
            BY <1>1, <2>1, OneDefinition DEF Scoped
        <3>2. \A x : Seeds(x)' = Seeds(x)
            BY <1>5, SameText
        <3> QED BY <1>5, <1>6, <1>8, <3>1, <3>2 DEF Fresh
    <2>2. CASE 1 \notin Definitions(l)
        <3>1. 1 \in Undefined(l)
            BY <1>1, <2>2, UndefinedFacts DEF Entries
        <3>2. \A p \in preds[1] : l \notin Mentions(p)
            BY <1>1, <1>8, <3>1 DEF SeedsAreDefined
        <3>3. l \notin Defined'
            BY <1>1, <1>2, <1>4, <2>2 DEF Defined, Definitions
        <3> QED BY <1>2, <1>4, <1>5, <3>2, <3>3 DEF Unseen
    <2> QED BY <2>1, <2>2
<1>12. PredicatesHold'
    <2> SUFFICES ASSUME NEW p \in preds[1], p \notin Seeds(1) PROVE Holds(p, env')
        BY <1>4, <1>5 DEF PredicatesHold
    <2>1. p \in Predicate
        BY <1>1 DEF FixpointInv, AnalysisTypes
    <2>2. \A l \in Mentions(p) : e[l] = env'[l]
        BY <1>4, <1>7, <1>8 DEF Mentions, Defines
    <2>3. e \in [Leaves -> Nat] /\ env' \in [Leaves -> Nat]
        BY <1>4, EvalIsUint
    <2> QED BY <1>3, <1>8, <2>1, <2>2, <2>3, HoldsAgrees
<1>13. LeftByCalls'
    <2>1. ASSUME NEW p \in preds[1], NEW l \in Mentions(p) \ Fixed PROVE l \in Defined'
        <3>1. p \in Seeds(1) /\ l \in Leaves \ Fixed
            BY <1>8, <2>1 DEF Mentions
        <3>2. 1 \notin Undefined(l)
            BY <1>1, <2>1, <3>1 DEF SeedsAreDefined
        <3>3. 1 \in Definitions(l)
            BY <1>1, <3>2, UndefinedFacts DEF Entries
        <3> QED BY <1>4, <3>3 DEF Defined, Definitions
    <2> QED BY <1>2, <1>4, <1>5, <2>1 DEF LeftByCalls
<1> QED BY <1>2, <1>5, <1>9, <1>10, <1>11, <1>12, <1>13 DEF RunFacts

LEMMA RunInvStep == MachineInv /\ FixpointInv /\ RunInv /\ [Next]_vars => RunInv'
<1> SUFFICES ASSUME MachineInv, FixpointInv, RunInv, [Next]_vars PROVE RunInv'
    OBVIOUS
<1>1. RunsInScope'
    <2>1. Compute \/ UNCHANGED vars => UNCHANGED machineVars
        BY DEF Compute, Defer, Settled, Change, vars
    <2>2. Start \/ Execute => Begin \/ Run
        BY DEF Start, Execute
    <2> QED BY <2>1, <2>2, ScopeStep DEF Next, RunInv
<1>2. CASE Compute
    <2>1. mode = "analyse" /\ UNCHANGED machineVars
        BY <1>2 DEF Compute, Defer, Settled, Change, Analysing
    <2>2. mode' = mode /\ SeedsAreDefined'
        BY <2>1, SameSeeds DEF machineVars, runVars, RunInv
    <2> QED BY <1>1, <2>1, <2>2 DEF RunInv
<1>3. CASE Start
    BY <1>1, <1>3, RunBegins DEF RunInv, RunsInScope
<1>4. CASE Execute /\ Halt
    <2>1. mode' = "halted" /\ SeedsAreDefined'
        BY <1>4, SameSeeds DEF Halt, RunInv
    <2> QED BY <1>1, <2>1 DEF RunInv
<1>5. CASE Execute /\ (Step \/ Call \/ Return)
    <2>1. mode = "run" /\ UNCHANGED analysisVars
        BY <1>5 DEF Execute, Step, Call, Return
    <2>2. RunState
        BY <2>1 DEF RunState, Running, RunInv, RunsInScope
    <2>3. PICK b \in Blocks : \E e, d : Passes(b, e, d)
        BY <1>5, <2>2, RunPasses DEF RunState
    <2>4. Moves
        BY <1>5, <2>2, RunMoves DEF RunState
    <2>5. MachineInv'
        BY <1>5, MachineStep DEF Execute, Run
    <2>6. SeedsAreDefined' /\ RunFacts'
        BY <2>1, <2>2, <2>3, <2>4, <2>5, PassKeepsFacts
    <2> QED BY <1>1, <2>6 DEF RunInv
<1>6. CASE UNCHANGED vars
    <2>1. /\ prog' = prog /\ mode' = mode /\ at' = at /\ env' = env /\ own' = own /\ frames' = frames
          /\ worklist' = worklist /\ preds' = preds /\ UNCHANGED program
        BY <1>6 DEF vars, machineVars, runVars, analysisVars, program
    <2>2. \A l : Undefined(l)' = Undefined(l) /\ Definitions(l)' = Definitions(l)
        BY <2>1, SameScope
    <2>3. /\ \A f : Site(f)' = Site(f)
          /\ \A S : Routine(S)' = Routine(S)
          /\ \A x : B(x)' = B(x) /\ Arms(x)' = Arms(x) /\ Blocks' = Blocks
        BY <2>1, SameSite, SameText DEF Blocks, program
    <2>4. \A l : Unseen(l)' = Unseen(l) /\ Fresh(l)' = Fresh(l)
        <3>1. \A x : Seeds(x)' = Seeds(x)
            BY <2>1, SameText
        <3>2. Defined' = Defined
            BY <2>1 DEF Defined
        <3> QED BY <2>1, <2>2, <2>3, <3>1, <3>2 DEF Unseen, Fresh
    <2>5. \A i : InnerOwn(i)' = InnerOwn(i)
        BY <2>1 DEF InnerOwn
    <2>6. OwnInRoutine' = OwnInRoutine
        BY <2>1, <2>2, <2>3, <2>5 DEF OwnInRoutine
    <2>7. LeftByCalls' = LeftByCalls
        <3>1. Defined' = Defined /\ \A i : Before(i)' = Before(i)
            BY <2>1 DEF Defined, Before
        <3>2. \A p, l : Returned(p, l)' = Returned(p, l)
            BY <2>1, <2>2, <2>3 DEF Returned
        <3> QED BY <2>1, <2>2, <2>3, <3>1, <3>2 DEF LeftByCalls
    <2>8. CallersRight' = CallersRight
        <3>1. \A i : Since(i)' = Since(i)
            BY <2>1, <2>5 DEF Since
        <3> QED BY <2>1, <2>3, <3>1 DEF CallersRight
    <2>9. PredicatesHold' = PredicatesHold
        BY <2>1 DEF PredicatesHold
    <2>10. SeedsAreDefined'
        BY <2>1, SameSeeds DEF RunInv
    <2> QED BY <1>1, <2>1, <2>4, <2>6, <2>7, <2>8, <2>9, <2>10 DEF RunInv, RunFacts
<1> QED BY <1>2, <1>3, <1>4, <1>5, <1>6 DEF Next, Execute, Run

\* The invariant of the run: calls nest, what a caller keeps is as it left it, a leaf that
\* is not yet defined on the way is one nothing is known of, and the predicates hold.
THEOREM RunInductive == Spec /\ CallsDoNotRecur /\ SeedsAreDefined => []RunInv
<1>1. Init /\ CallsDoNotRecur /\ SeedsAreDefined => RunInv
    BY DEF Init, InitMachine, RunInv, RunsInScope, Scoped
<1> QED BY <1>1, RunInvStep, MachineInductive, FixpointInductive, PTL DEF Spec

\* Where no routine calls itself and the seeds are about what is defined, every predicate
\* the analysis gives a block is true whenever a run is there.
THEOREM Sound == Spec /\ CallsDoNotRecur /\ SeedsAreDefined => []PredicatesHold
<1>1. RunInv => PredicatesHold
    BY DEF RunInv, RunFacts, PredicatesHold
<1> QED BY <1>1, RunInductive, PTL

\* There no run takes an edge edge_is_feasible rules out.
THEOREM EdgesTakenAreFeasible ==
    Spec /\ CallsDoNotRecur /\ SeedsAreDefined => TakenEdgesAreFeasible
<1> DEFINE Feasible == mode = "run" /\ mode' = "run" =>
                           ~ PredicatesContradict(preds[at] \union EdgePredicates(at, at'))
<1>1. MachineInv /\ FixpointInv /\ RunInv /\ [Next]_vars => [Feasible]_vars
    <2> SUFFICES ASSUME MachineInv, FixpointInv, RunInv, Next, mode = "run", mode' = "run"
                 PROVE  ~ PredicatesContradict(preds[at] \union EdgePredicates(at, at'))
        OBVIOUS
    <2>1. Step \/ Call \/ Return
        BY DEF Next, Compute, Defer, Settled, Change, Analysing, Start, Begin, Execute, Run, Halt
    <2>2. Running
        BY DEF Running, RunInv, RunsInScope
    <2>3. PICK b \in Blocks : \E e, d : Passes(b, e, d)
        BY <2>1, <2>2, RunPasses
    <2>4. /\ IsProgram(prog) /\ Graph /\ at \in All /\ at' = b
          /\ env \in [Leaves -> Uint] /\ env \in [Leaves -> Nat]
          /\ \A p \in EdgePredicates(at, b) : Holds(p, env)
        BY <2>2, <2>3, PassFacts, WhatPasses, EvalIsUint
    <2>5. preds[at] \subseteq Predicate /\ EdgePredicates(at, b) \subseteq Predicate
        BY <2>4, EdgeTypes DEF FixpointInv, AnalysisTypes
    <2>6. \A p \in preds[at] : Holds(p, env)
        BY DEF RunInv, RunFacts, PredicatesHold
    <2> DEFINE P == preds[at] \union EdgePredicates(at, b)
    <2>7. P \in SUBSET Predicate /\ \A p \in P : Holds(p, env)
        BY <2>4, <2>5, <2>6
    <2> HIDE DEF P
    <2>8. ~ PredicatesContradict(P)
        BY <2>4, <2>7, NoContradiction
    <2> QED BY <2>4, <2>8 DEF P
<1> QED BY <1>1, RunInductive, MachineInductive, FixpointInductive, PTL DEF Spec, TakenEdgesAreFeasible

=============================================================================
