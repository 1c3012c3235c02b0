----------------------- MODULE AnalysisContext_proofs -----------------------
(***************************************************************************)
(* What the cache of analysis/context.py promises for every set of queries, *)
(* every owner and any number of revisions, programs and answers.           *)
(***************************************************************************)
EXTENDS AnalysisContext, NumberLemmas, SequenceTheorems, FiniteSetTheorems, TLAPS

\* The programs, whatever histories and revisions they have.
Shape(H, R) == [passes : H, profile : DerivedProfile \cup {Canonical},
                readOnly : BOOLEAN, revision : R]

ProgramsAreRecords ==
    /\ \E H, R : programs \in Seq(Shape(H, R))
    /\ Self \in 1 .. Len(programs)

\* What a view of a profile is, and what a seed is.
ViewsAreFinished ==
    \A o \in 1 .. Len(programs) :
        programs[o].readOnly =>
            programs[o].passes
                = FinishView(BaseSnapshot(COMMON_FACT_DOMAINS), programs[o].profile)

SeedsArePrivate ==
    \A s \in seed :
        /\ s.program \in 1 .. Len(programs)
        /\ s.program # Self
        /\ ~programs[s.program].readOnly
        /\ programs[s.program].passes = BaseSnapshot(COMMON_FACT_DOMAINS)

CacheInv == ProgramsAreRecords /\ ViewsAreFinished /\ SeedsArePrivate

-----------------------------------------------------------------------------
LEMMA SeqGrows ==
    ASSUME NEW A, NEW B, A \subseteq B, NEW s \in Seq(A)
    PROVE  s \in Seq(B)
OBVIOUS

(* Building one more program keeps the shape, and all programs before it. *)
LEMMA OneMore ==
    ASSUME ProgramsAreRecords,
           NEW H, NEW R, NEW p \in Shape(H, R),
           programs' = Append(programs, p)
    PROVE  /\ ProgramsAreRecords'
           /\ Len(programs) \in Nat
           /\ Len(programs') = Len(programs) + 1
           /\ programs'[Len(programs) + 1] = p
           /\ \A o \in 1 .. Len(programs) : programs'[o] = programs[o]
<1>1. PICK H0, R0 : programs \in Seq(Shape(H0, R0))
    BY DEF ProgramsAreRecords
<1> DEFINE S == Shape(H0 \cup H, R0 \cup R)
<1>2. programs \in Seq(S) /\ p \in S
    <2>1. Shape(H0, R0) \subseteq S /\ Shape(H, R) \subseteq S
        BY DEF Shape
    <2> HIDE DEF S
    <2> QED BY <1>1, <2>1, SeqGrows
<1>3. Self \in 1 .. Len(programs)
    BY DEF ProgramsAreRecords
<1>4. /\ programs' \in Seq(S)
      /\ Len(programs) \in Nat
      /\ Len(programs') = Len(programs) + 1
      /\ programs'[Len(programs) + 1] = p
      /\ \A o \in 1 .. Len(programs) : programs'[o] = programs[o]
    <2> HIDE DEF S
    <2> QED BY <1>2
<1>5. ProgramsAreRecords'
    BY <1>3, <1>4 DEF ProgramsAreRecords, Self
<1> QED BY <1>4, <1>5

(* Changing one program keeps the shape, and all the others. *)
LEMMA OneChanged ==
    ASSUME ProgramsAreRecords,
           NEW k \in 1 .. Len(programs),
           NEW H, NEW R, NEW p \in Shape(H, R),
           programs' = [programs EXCEPT ![k] = p]
    PROVE  /\ ProgramsAreRecords'
           /\ Len(programs') = Len(programs)
           /\ programs'[k] = p
           /\ \A o \in 1 .. Len(programs) : o # k => programs'[o] = programs[o]
<1>1. PICK H0, R0 : programs \in Seq(Shape(H0, R0))
    BY DEF ProgramsAreRecords
<1> DEFINE S == Shape(H0 \cup H, R0 \cup R)
<1>2. programs \in Seq(S) /\ p \in S
    <2>1. Shape(H0, R0) \subseteq S /\ Shape(H, R) \subseteq S
        BY DEF Shape
    <2> HIDE DEF S
    <2> QED BY <1>1, <2>1, SeqGrows
<1>3. Self \in 1 .. Len(programs)
    BY DEF ProgramsAreRecords
<1>4. /\ programs' \in Seq(S)
      /\ Len(programs') = Len(programs)
      /\ programs'[k] = p
      /\ \A o \in 1 .. Len(programs) : o # k => programs'[o] = programs[o]
    <2> HIDE DEF S
    <2> QED BY <1>2
<1>5. ProgramsAreRecords'
    BY <1>3, <1>4 DEF ProgramsAreRecords
<1> QED BY <1>4, <1>5

(* A program of the sequence has the four fields of a record. *)
LEMMA ProgramHasFields ==
    ASSUME ProgramsAreRecords, NEW o \in 1 .. Len(programs)
    PROVE  \E H, R : programs[o] \in Shape(H, R)
BY DEF ProgramsAreRecords

-----------------------------------------------------------------------------
LEMMA InitEstablishes == Init => CacheInv
<1> SUFFICES ASSUME Init PROVE CacheInv
    OBVIOUS
<1> DEFINE p == IF owner = Canonical THEN Private(<<>>)
                ELSE View(BaseSnapshot(COMMON_FACT_DOMAINS), owner)
<1>1. programs = <<p>> /\ seed = {} /\ owner \in DerivedProfile \cup {Canonical}
    BY ConstantsAssumption DEF Init
<1>2. p \in Shape({p.passes}, {p.revision})
    BY <1>1 DEF Shape, Private, View
<1>3. p.readOnly => p.passes = FinishView(BaseSnapshot(COMMON_FACT_DOMAINS), p.profile)
    BY DEF Private, View
<1> HIDE DEF p
<1>4. programs \in Seq(Shape({p.passes}, {p.revision})) /\ Len(programs) = 1 /\ programs[1] = p
    BY <1>1, <1>2
<1>5. ProgramsAreRecords
    BY <1>4 DEF ProgramsAreRecords, Self
<1>6. ViewsAreFinished /\ SeedsArePrivate
    BY <1>1, <1>3, <1>4 DEF ViewsAreFinished, SeedsArePrivate
<1> QED BY <1>5, <1>6 DEF CacheInv

(* Steps that build, change and plant nothing. *)
LEMMA NoProgramTouched ==
    ASSUME CacheInv, UNCHANGED <<programs, seed>>
    PROVE  CacheInv' /\ ViewsKept
BY DEF CacheInv, ProgramsAreRecords, ViewsAreFinished, SeedsArePrivate, ViewsKept

LEMMA BuildCommonFactsPreserves ==
    ASSUME CacheInv, NEW asked, BuildCommonFacts(asked)
    PROVE  CacheInv' /\ ViewsKept
<1> DEFINE p == Private(BaseSnapshot(COMMON_FACT_DOMAINS))
<1>1. /\ programs' = Append(programs, p)
      /\ seed' = {[revision |-> revision, program |-> Len(programs) + 1]}
    BY DEF BuildCommonFacts
<1>2. p \in Shape({p.passes}, {p.revision})
    BY DEF Shape, Private
<1>3. ~p.readOnly /\ p.passes = BaseSnapshot(COMMON_FACT_DOMAINS)
    BY DEF Private
<1> HIDE DEF p
<1>4. /\ ProgramsAreRecords'
      /\ Len(programs) \in Nat
      /\ Len(programs') = Len(programs) + 1
      /\ programs'[Len(programs) + 1] = p
      /\ \A o \in 1 .. Len(programs) : programs'[o] = programs[o]
    BY <1>1, <1>2, OneMore DEF CacheInv
<1>5. ViewsAreFinished'
    BY <1>3, <1>4 DEF CacheInv, ViewsAreFinished
<1>6. Len(programs) # 0
    BY DEF CacheInv, ProgramsAreRecords, Self
<1>7. SeedsArePrivate'
    BY <1>1, <1>3, <1>4, <1>6 DEF SeedsArePrivate, Self
<1>8. ViewsKept
    BY <1>4 DEF ViewsKept
<1> QED BY <1>4, <1>5, <1>7, <1>8 DEF CacheInv

LEMMA BuildFactsPreserves ==
    ASSUME CacheInv, NEW asked, BuildFacts(asked)
    PROVE  CacheInv' /\ ViewsKept
<1> DEFINE p == Private(BaseSnapshot(asked))
<1>1. programs' = Append(programs, p) /\ seed' = seed
    BY DEF BuildFacts
<1>2. p \in Shape({p.passes}, {p.revision}) /\ ~p.readOnly
    BY DEF Shape, Private
<1> HIDE DEF p
<1>3. /\ ProgramsAreRecords'
      /\ Len(programs) \in Nat
      /\ Len(programs') = Len(programs) + 1
      /\ programs'[Len(programs) + 1] = p
      /\ \A o \in 1 .. Len(programs) : programs'[o] = programs[o]
    BY <1>1, <1>2, OneMore DEF CacheInv
<1>4. ViewsAreFinished'
    BY <1>2, <1>3 DEF CacheInv, ViewsAreFinished
<1>5. SeedsArePrivate'
    BY <1>1, <1>3 DEF CacheInv, SeedsArePrivate
<1>6. ViewsKept
    BY <1>3 DEF ViewsKept
<1> QED BY <1>3, <1>4, <1>5, <1>6 DEF CacheInv

(* The seed is a common snapshot nobody else holds: what it becomes is what a
   view of the profile is when it is built from nothing. *)
LEMMA FinishSeedPreserves ==
    ASSUME CacheInv, NEW profile \in DerivedProfile, FinishSeed(profile)
    PROVE  CacheInv' /\ ViewsKept
<1>1. PICK s \in seed :
          /\ programs' = [programs EXCEPT ![s.program]
                             = View(programs[s.program].passes, profile)]
          /\ seed' = {}
    BY DEF FinishSeed, Seeds
<1>2. /\ s.program \in 1 .. Len(programs)
      /\ programs[s.program].passes = BaseSnapshot(COMMON_FACT_DOMAINS)
      /\ ~programs[s.program].readOnly
    BY DEF CacheInv, SeedsArePrivate
<1> DEFINE p == View(BaseSnapshot(COMMON_FACT_DOMAINS), profile)
<1>3. programs' = [programs EXCEPT ![s.program] = p]
    BY <1>1, <1>2
<1>4. /\ p \in Shape({p.passes}, {p.revision})
      /\ p.passes = FinishView(BaseSnapshot(COMMON_FACT_DOMAINS), p.profile)
    BY DEF Shape, View
<1> HIDE DEF p
<1>5. /\ ProgramsAreRecords'
      /\ Len(programs') = Len(programs)
      /\ programs'[s.program] = p
      /\ \A o \in 1 .. Len(programs) : o # s.program => programs'[o] = programs[o]
    BY <1>2, <1>3, <1>4, OneChanged DEF CacheInv
<1>6. ViewsAreFinished'
    BY <1>4, <1>5 DEF CacheInv, ViewsAreFinished
<1>7. SeedsArePrivate'
    BY <1>1 DEF SeedsArePrivate
<1>8. ViewsKept
    BY <1>2, <1>5 DEF ViewsKept
<1> QED BY <1>5, <1>6, <1>7, <1>8 DEF CacheInv

LEMMA BuildViewPreserves ==
    ASSUME CacheInv, NEW profile \in DerivedProfile, BuildView(profile)
    PROVE  CacheInv' /\ ViewsKept
<1> DEFINE p == View(BaseSnapshot(COMMON_FACT_DOMAINS), profile)
<1>1. programs' = Append(programs, p) /\ seed' = {}
    BY DEF BuildView
<1>2. /\ p \in Shape({p.passes}, {p.revision})
      /\ p.passes = FinishView(BaseSnapshot(COMMON_FACT_DOMAINS), p.profile)
    BY DEF Shape, View
<1> HIDE DEF p
<1>3. /\ ProgramsAreRecords'
      /\ Len(programs) \in Nat
      /\ Len(programs') = Len(programs) + 1
      /\ programs'[Len(programs) + 1] = p
      /\ \A o \in 1 .. Len(programs) : programs'[o] = programs[o]
    BY <1>1, <1>2, OneMore DEF CacheInv
<1>4. ViewsAreFinished'
    BY <1>2, <1>3 DEF CacheInv, ViewsAreFinished
<1>5. SeedsArePrivate'
    BY <1>1 DEF SeedsArePrivate
<1>6. ViewsKept
    BY <1>3 DEF ViewsKept
<1> QED BY <1>3, <1>4, <1>5, <1>6 DEF CacheInv

(* A pass on self.prog changes the history of a program that is no view, and
   no seed: seeds are copies. *)
LEMMA AnnotatePreserves ==
    ASSUME CacheInv, NEW q, Annotate(q)
    PROVE  CacheInv' /\ ViewsKept
<1>1. /\ ~programs[Self].readOnly
      /\ programs' = [programs EXCEPT ![Self].passes = Run(programs[Self].passes, q)]
      /\ seed' = seed
    BY DEF Annotate
<1>2. Self \in 1 .. Len(programs)
    BY DEF CacheInv, ProgramsAreRecords
<1>3. PICK H, R : programs[Self] \in Shape(H, R)
    BY <1>2, ProgramHasFields DEF CacheInv
<1> DEFINE h == Run(programs[Self].passes, q)
<1> DEFINE p == [programs[Self] EXCEPT !.passes = h]
<1>4. programs' = [programs EXCEPT ![Self] = p]
    BY <1>1
<1>5. p \in Shape({h}, R) /\ ~p.readOnly
    <2> HIDE DEF h
    <2> QED BY <1>1, <1>3 DEF Shape
<1> HIDE DEF p
<1>6. /\ ProgramsAreRecords'
      /\ Len(programs') = Len(programs)
      /\ programs'[Self] = p
      /\ \A o \in 1 .. Len(programs) : o # Self => programs'[o] = programs[o]
    BY <1>2, <1>4, <1>5, OneChanged DEF CacheInv
<1>7. ViewsAreFinished'
    BY <1>5, <1>6 DEF CacheInv, ViewsAreFinished
<1>8. SeedsArePrivate'
    BY <1>1, <1>6 DEF CacheInv, SeedsArePrivate
<1>9. ViewsKept
    BY <1>1, <1>6 DEF ViewsKept
<1> QED BY <1>6, <1>7, <1>8, <1>9 DEF CacheInv

LEMMA StepPreserves == CacheInv /\ [Next]_vars => CacheInv' /\ ViewsKept
<1> SUFFICES ASSUME CacheInv, [Next]_vars PROVE CacheInv' /\ ViewsKept
    OBVIOUS
<1>1. CASE \E asked \in Queries : Facts(asked)
    <2> PICK asked \in Queries : Facts(asked)
        BY <1>1
    <2>1. CASE AnswerFromCache(asked)
        BY <2>1, NoProgramTouched DEF AnswerFromCache
    <2>2. CASE BuildCommonFacts(asked)
        BY <2>2, BuildCommonFactsPreserves
    <2>3. CASE BuildFacts(asked)
        BY <2>3, BuildFactsPreserves
    <2>4. CASE ReadOwnConstants(asked)
        BY <2>4, NoProgramTouched DEF ReadOwnConstants
    <2> QED BY <2>1, <2>2, <2>3, <2>4 DEF Facts
<1>2. CASE \E profile \in DerivedProfile : Derived(profile)
    BY <1>2, FinishSeedPreserves, BuildViewPreserves DEF Derived
<1>3. CASE \E q \in Annotations : Annotate(q)
    BY <1>3, AnnotatePreserves
<1>4. CASE UNCHANGED vars
    BY <1>4, NoProgramTouched DEF vars
<1> QED BY <1>1, <1>2, <1>3, <1>4 DEF Next

(* In every reachable state each view is what its profile makes of a common
   snapshot, and the seed is such a snapshot that nobody else holds. *)
THEOREM CacheInductive == Spec => []CacheInv
<1> QED BY InitEstablishes, StepPreserves, PTL DEF Spec

(* Views of one profile are equal programs, whatever was asked before. *)
THEOREM ViewsAlike == Spec => []ViewsDependOnProfileOnly
<1>1. CacheInv => ViewsDependOnProfileOnly
    BY DEF CacheInv, ViewsAreFinished, ViewsDependOnProfileOnly
<1> QED BY <1>1, CacheInductive, PTL

(* No step changes a view that was published. *)
THEOREM ViewsStay == Spec => ViewsNeverChange
<1>1. CacheInv /\ [Next]_vars => [ViewsKept]_vars
    BY StepPreserves
<1> QED BY <1>1, CacheInductive, PTL DEF Spec, ViewsNeverChange

-----------------------------------------------------------------------------
(* What is handed out is of the revision asked at and covers the question. *)
LEMMA GiveIsCurrent ==
    ASSUME AnswersAreCurrent,
           NEW asked, NEW answer, Covers(answer, asked), Give(asked, answer)
    PROVE  AnswersAreCurrent'
BY DEF AnswersAreCurrent, Covers, Give

LEMMA FactsAreCurrent ==
    ASSUME AnswersAreCurrent, NEW asked, Facts(asked)
    PROVE  AnswersAreCurrent'
<1>1. CASE AnswerFromCache(asked)
    BY <1>1, GiveIsCurrent DEF AnswerFromCache, Hits, Covering
<1>2. CASE BuildCommonFacts(asked)
    <2> DEFINE answer == Freeze(COMMON_FACT_DOMAINS, BaseSnapshot(COMMON_FACT_DOMAINS), TRUE)
    <2>1. Give(asked, answer)
        BY <1>2 DEF BuildCommonFacts
    <2>2. Covers(answer, asked)
        BY <1>2 DEF BuildCommonFacts, Common, Covers, Freeze
    <2> HIDE DEF answer
    <2> QED BY <2>1, <2>2, GiveIsCurrent
<1>3. CASE BuildFacts(asked)
    <2> DEFINE answer == Freeze(asked, BaseSnapshot(asked), TRUE)
    <2>1. Give(asked, answer)
        BY <1>3 DEF BuildFacts
    <2>2. Covers(answer, asked)
        BY DEF Covers, Freeze
    <2> HIDE DEF answer
    <2> QED BY <2>1, <2>2, GiveIsCurrent
<1>4. CASE ReadOwnConstants(asked)
    <2> DEFINE answer == Freeze(asked, programs[Self].passes, FALSE)
    <2>1. Give(asked, answer)
        BY <1>4 DEF ReadOwnConstants
    <2>2. Covers(answer, asked)
        BY DEF Covers, Freeze
    <2> HIDE DEF answer
    <2> QED BY <2>1, <2>2, GiveIsCurrent
<1> QED BY <1>1, <1>2, <1>3, <1>4 DEF Facts

(* Whatever was evicted, kept or found as a superset, an answer is of the
   revision it was asked at and covers the domains asked. *)
THEOREM AnswersStayCurrent == Spec => []AnswersAreCurrent
<1>1. Init => AnswersAreCurrent
    BY DEF Init, AnswersAreCurrent
<1>2. AnswersAreCurrent /\ [Next]_vars => AnswersAreCurrent'
    <2> SUFFICES ASSUME AnswersAreCurrent, [Next]_vars PROVE AnswersAreCurrent'
        OBVIOUS
    <2>1. CASE \E asked \in Queries : Facts(asked)
        BY <2>1, FactsAreCurrent
    <2>2. CASE given' = given
        BY <2>2 DEF AnswersAreCurrent
    <2>3. CASE \E profile \in DerivedProfile : Derived(profile)
        BY <2>2, <2>3 DEF Derived, FinishSeed, BuildView
    <2>4. CASE \E q \in Annotations : Annotate(q)
        BY <2>2, <2>4 DEF Annotate
    <2> QED BY <2>1, <2>2, <2>3, <2>4 DEF Next, vars
<1> QED BY <1>1, <1>2, PTL DEF Spec

-----------------------------------------------------------------------------
(***************************************************************************)
(* What the answers say: nothing that an assert or a rewrite has reached,  *)
(* and the same of constants whoever asks; and that no program is built    *)
(* for nothing.                                                            *)
(*                                                                         *)
(* The argument about answers.  Each history the context ever freezes      *)
(* begins with both constant passes, and no pass after them writes a       *)
(* constant (Settled).  So what it says of constants is what these two     *)
(* say.  All else it freezes is a snapshot, which has annotations only.    *)
(***************************************************************************)

ConstantPasses == <<"constants", "scratch_constants">>

\* What every history says of constants.
ConstantsSaid == Slice(ConstantPasses, {"const"})

Settled == {h \in Seq(Passes) : /\ Contains(h, "constants")
                                /\ Contains(h, "scratch_constants")
                                /\ Slice(h, {"const"}) = ConstantsSaid}

Snapshots == Settled \cap Seq(Annotations)

-----------------------------------------------------------------------------
(* Histories.                                                              *)

\* The steps of RunAll.
Runs(f, passes, list) ==
    f[0] = passes /\ \A n \in 1 .. Len(list) : f[n] = Run(f[n - 1], list[n])

Closed(H, B) == \A h \in H, p \in B : Run(h, p) \in H

LEMMA RunAllSteps ==
    ASSUME NEW B \in SUBSET Passes, NEW H, Closed(H, B), NEW passes \in H, NEW list \in Seq(B)
    PROVE  \E f \in [0 .. Len(list) -> H] :
               Runs(f, passes, list) /\ RunAll(passes, list) = f[Len(list)]
<1> DEFINE N == Len(list)
           G == [x \in (1 .. N) \X H |-> Run(x[2], list[x[1]])]
           F(f) == [n \in 0 .. N |-> IF n = 0 THEN passes ELSE Run(f[n - 1], list[n])]
<1>1. N \in Nat /\ \A n \in 1 .. N : list[n] \in B
    OBVIOUS
<1>2. G \in [(1 .. N) \X H -> H]
    <2> HIDE DEF N
    <2> QED BY <1>1 DEF Closed
<1>3. PICK f \in [0 .. N -> H] : StepByStep(f, passes, N, G)
    <2> HIDE DEF N, G
    <2> QED BY <1>1, <1>2, RecursionUpTo
<1>4. f[0] = passes /\ \A n \in 1 .. N : f[n] = Run(f[n - 1], list[n])
    <2>1. f[0] = passes /\ \A n \in 1 .. N : f[n] = G[<<n, f[n - 1]>>]
        BY <1>3 DEF StepByStep
    <2>2. \A n \in 1 .. N : <<n, f[n - 1]>> \in (1 .. N) \X H
        <3> HIDE DEF N
        <3> QED BY <1>1, <1>3
    <2> HIDE DEF N
    <2> QED BY <2>1, <2>2
<1>5. f = F(f)
    <2>1. \A n \in 0 .. N : f[n] = F(f)[n]
        <3> HIDE DEF N
        <3> QED BY <1>1, <1>4
    <2> HIDE DEF N
    <2> QED BY <1>3, <2>1
<1> DEFINE after == CHOOSE g : g = F(g)
<1>6. after = F(after)
    <2> HIDE DEF F
    <2> QED BY <1>5
<1>7. RunAll(passes, list) = after[N]
    BY DEF RunAll
<1> HIDE DEF N, after
<1>8. after[0] = passes /\ \A n \in 1 .. N : after[n] = Run(after[n - 1], list[n])
    BY <1>1, <1>6
<1> DEFINE T == {n \in Nat : n <= N => after[n] = f[n]}
<1>9. \A n \in Nat : n \in T
    <2>1. 0 \in T
        BY <1>4, <1>8
    <2>2. ASSUME NEW n \in Nat, n \in T PROVE n + 1 \in T
        <3> SUFFICES ASSUME n + 1 <= N PROVE after[n + 1] = f[n + 1]
            OBVIOUS
        <3>1. n + 1 \in 1 .. N /\ (n + 1) - 1 = n /\ n <= N
            BY <1>1
        <3> QED BY <1>4, <1>8, <2>2, <3>1
    <2> HIDE DEF T
    <2> QED BY <2>1, <2>2, NumberInduction
<1>10. after[N] = f[N]
    BY <1>1, <1>9
<1> QED BY <1>3, <1>4, <1>7, <1>10 DEF N, Runs

LEMMA RunAllKeeps ==
    ASSUME NEW B \in SUBSET Passes, NEW H, Closed(H, B), NEW passes \in H, NEW list \in Seq(B)
    PROVE  RunAll(passes, list) \in H
<1>1. PICK f \in [0 .. Len(list) -> H] : RunAll(passes, list) = f[Len(list)]
    BY RunAllSteps
<1>2. Len(list) \in 0 .. Len(list)
    OBVIOUS
<1> QED BY <1>1, <1>2

Partial(B) == [fields : SUBSET Fields, kept : Seq(B)]

LEMMA EffectType ==
    \A p \in Passes : Effect[p].reads \subseteq Fields /\ Effect[p].writes \subseteq Fields
BY DEF Passes, Annotations, Rewrites, Fields, Effect, Touches, PropagateConstants,
       PropagateScratchConstants, PropagateRanges, PropagateRangeArithmetic,
       PropagateByteLengths, PropagateBytemathRanges, PropagateAssertRanges, PropagateInputs,
       PropagateScratchValues, PropagateStackShuffles, CleanupUnusedSsavars

LEMMA KeepType ==
    ASSUME NEW B \in SUBSET Passes, NEW s \in Partial(B), NEW p \in B
    PROVE  Keep(s, p) \in Partial(B)
<1>1. s.kept \in Seq(B) /\ s.fields \subseteq Fields
    BY DEF Partial
<1>2. <<p>> \o s.kept \in Seq(B)
    BY <1>1
<1>3. s.fields \cup Effect[p].reads \subseteq Fields
    BY <1>1, EffectType
<1>4. [fields |-> s.fields \cup Effect[p].reads, kept |-> <<p>> \o s.kept] \in Partial(B)
    BY <1>2, <1>3 DEF Partial
<1> QED BY <1>4 DEF Keep

\* The steps of Slice, taken from the end of the history.
Slices(f, passes, fields) ==
    /\ f[0] = [fields |-> fields, kept |-> <<>>]
    /\ \A n \in 1 .. Len(passes) : f[n] = Keep(f[n - 1], passes[Len(passes) + 1 - n])

LEMMA SliceSteps ==
    ASSUME NEW B \in SUBSET Passes, NEW passes \in Seq(B), NEW fields \in SUBSET Fields
    PROVE  \E f \in [0 .. Len(passes) -> Partial(B)] :
               Slices(f, passes, fields) /\ Slice(passes, fields) = f[Len(passes)].kept
<1> DEFINE N == Len(passes)
           D == Partial(B)
           A == [fields |-> fields, kept |-> <<>>]
           G == [x \in (1 .. N) \X D |-> Keep(x[2], passes[N + 1 - x[1]])]
           F(f) == [n \in 0 .. N |->
                       IF n = 0 THEN A ELSE Keep(f[n - 1], passes[N + 1 - n])]
<1>1. N \in Nat /\ \A n \in 1 .. N : passes[N + 1 - n] \in B
    <2>1. N \in Nat /\ \A i \in 1 .. N : passes[i] \in B
        OBVIOUS
    <2> HIDE DEF N
    <2>2. \A n \in 1 .. N : N + 1 - n \in 1 .. N
        BY <2>1
    <2> QED BY <2>1, <2>2
<1>2. G \in [(1 .. N) \X D -> D]
    <2> HIDE DEF N, D
    <2>1. \A x \in (1 .. N) \X D : Keep(x[2], passes[N + 1 - x[1]]) \in D
        BY <1>1, KeepType DEF D
    <2> QED BY <2>1
<1>3. A \in D
    <2>1. <<>> \in Seq(B)
        OBVIOUS
    <2> QED BY <2>1 DEF Partial
<1>4. PICK f \in [0 .. N -> D] : StepByStep(f, A, N, G)
    <2> HIDE DEF N, G, D, A
    <2> QED BY <1>1, <1>2, <1>3, RecursionUpTo
<1> HIDE DEF A, D
<1>5. f[0] = A /\ \A n \in 1 .. N : f[n] = Keep(f[n - 1], passes[N + 1 - n])
    <2>1. f[0] = A /\ \A n \in 1 .. N : f[n] = G[<<n, f[n - 1]>>]
        BY <1>4 DEF StepByStep
    <2>2. \A n \in 1 .. N : <<n, f[n - 1]>> \in (1 .. N) \X D
        <3> HIDE DEF N
        <3> QED BY <1>1, <1>4
    <2> HIDE DEF N
    <2> QED BY <2>1, <2>2
<1>6. f = F(f)
    <2>1. \A n \in 0 .. N : f[n] = F(f)[n]
        <3> HIDE DEF N
        <3> QED BY <1>1, <1>5
    <2> HIDE DEF N
    <2> QED BY <1>4, <2>1
<1> DEFINE last == CHOOSE g : g = F(g)
<1>7. last = F(last)
    <2> HIDE DEF F
    <2> QED BY <1>6
<1>8. Slice(passes, fields) = last[N].kept
    BY DEF Slice, A
<1> HIDE DEF N, last
<1>9. last[0] = A /\ \A n \in 1 .. N : last[n] = Keep(last[n - 1], passes[N + 1 - n])
    BY <1>1, <1>7
<1> DEFINE T == {n \in Nat : n <= N => last[n] = f[n]}
<1>10. \A n \in Nat : n \in T
    <2>1. 0 \in T
        BY <1>5, <1>9
    <2>2. ASSUME NEW n \in Nat, n \in T PROVE n + 1 \in T
        <3> SUFFICES ASSUME n + 1 <= N PROVE last[n + 1] = f[n + 1]
            OBVIOUS
        <3>1. n + 1 \in 1 .. N /\ (n + 1) - 1 = n /\ n <= N
            BY <1>1
        <3> QED BY <1>5, <1>9, <2>2, <3>1
    <2> HIDE DEF T
    <2> QED BY <2>1, <2>2, NumberInduction
<1>11. last[N] = f[N]
    BY <1>1, <1>10
<1> QED BY <1>4, <1>5, <1>8, <1>11 DEF N, D, A, Slices

\* What is kept are passes of the history.
LEMMA SliceType ==
    ASSUME NEW B \in SUBSET Passes, NEW passes \in Seq(B), NEW fields \in SUBSET Fields
    PROVE  Slice(passes, fields) \in Seq(B)
<1>1. PICK f \in [0 .. Len(passes) -> Partial(B)] : Slice(passes, fields) = f[Len(passes)].kept
    BY SliceSteps
<1>2. Len(passes) \in 0 .. Len(passes)
    OBVIOUS
<1>3. f[Len(passes)] \in Partial(B)
    BY <1>1, <1>2
<1> QED BY <1>1, <1>3 DEF Partial

\* A last pass that writes none of the fields does not count.
LEMMA SliceAppend ==
    ASSUME NEW h \in Seq(Passes), NEW p \in Passes, NEW fields \in SUBSET Fields,
           Effect[p].writes \cap fields = {}
    PROVE  Slice(Append(h, p), fields) = Slice(h, fields)
<1> DEFINE g == Append(h, p)
           N == Len(h)
           A == [fields |-> fields, kept |-> <<>>]
<1>1. /\ g \in Seq(Passes) /\ Len(g) = N + 1 /\ N \in Nat
      /\ g[N + 1] = p /\ \A i \in 1 .. N : g[i] = h[i]
    OBVIOUS
<1> HIDE DEF g, N
<1>2. PICK e \in [0 .. N -> Partial(Passes)] :
          Slices(e, h, fields) /\ Slice(h, fields) = e[N].kept
    BY SliceSteps DEF N
<1>3. PICK f \in [0 .. N + 1 -> Partial(Passes)] :
          Slices(f, g, fields) /\ Slice(g, fields) = f[N + 1].kept
    BY <1>1, SliceSteps
<1>4. e[0] = A /\ \A n \in 1 .. N : e[n] = Keep(e[n - 1], h[N + 1 - n])
    BY <1>2 DEF Slices, N
<1>5. f[0] = A /\ \A n \in 1 .. N + 1 : f[n] = Keep(f[n - 1], g[(N + 1) + 1 - n])
    BY <1>1, <1>3 DEF Slices
<1>6. f[1] = A
    <2>1. f[1] = Keep(f[1 - 1], g[(N + 1) + 1 - 1]) /\ 1 - 1 = 0 /\ (N + 1) + 1 - 1 = N + 1
        BY <1>1, <1>5
    <2>2. f[1] = Keep(A, p)
        BY <1>1, <1>5, <2>1
    <2> QED BY <2>2 DEF Keep
<1> HIDE DEF A
<1> DEFINE T == {n \in Nat : n <= N => f[n + 1] = e[n]}
<1>7. \A n \in Nat : n \in T
    <2>1. 0 \in T
        BY <1>4, <1>6
    <2>2. ASSUME NEW n \in Nat, n \in T PROVE n + 1 \in T
        <3> SUFFICES ASSUME n + 1 <= N PROVE f[(n + 1) + 1] = e[n + 1]
            OBVIOUS
        <3>1. f[n + 1] = e[n]
            BY <1>1, <2>2
        <3>2. e[n + 1] = Keep(e[n], h[N + 1 - (n + 1)])
            <4>1. n + 1 \in 1 .. N /\ (n + 1) - 1 = n
                BY <1>1
            <4> QED BY <1>4, <4>1
        <3>3. f[n + 2] = Keep(f[n + 1], g[(N + 1) + 1 - (n + 2)])
            <4>1. n + 2 \in 1 .. N + 1 /\ (n + 2) - 1 = n + 1
                BY <1>1
            <4> QED BY <1>5, <4>1
        <3>4. (N + 1) + 1 - (n + 2) = N - n /\ N + 1 - (n + 1) = N - n /\ N - n \in 1 .. N
            BY <1>1
        <3>5. f[n + 2] = e[n + 1]
            BY <1>1, <3>1, <3>2, <3>3, <3>4
        <3> QED BY <3>5
    <2> HIDE DEF T
    <2> QED BY <2>1, <2>2, NumberInduction
<1>8. f[N + 1] = e[N]
    BY <1>1, <1>7
<1> QED BY <1>2, <1>3, <1>8 DEF g

-----------------------------------------------------------------------------
(* Settled histories.                                                      *)

LEMMA RunType ==
    ASSUME NEW B \in SUBSET Passes, {"constants", "ranges"} \subseteq B,
           NEW h \in Seq(B), NEW p \in B
    PROVE  Run(h, p) \in Seq(B)
<1>1. Missing(h, p) \in Seq(B)
    BY DEF Missing, Unless
<1> QED BY <1>1 DEF Run

LEMMA AnnotationsArePasses ==
    /\ Annotations \subseteq Passes
    /\ {"constants", "ranges"} \subseteq Annotations
BY DEF Annotations, Passes

\* No pass but the two constant passes writes a constant.
LEMMA ConstantWriters ==
    ASSUME NEW p \in Passes, p \notin {"constants", "scratch_constants"}
    PROVE  Effect[p].writes \cap {"const"} = {}
BY DEF Passes, Annotations, Rewrites, Effect, Touches, PropagateRanges, PropagateRangeArithmetic,
       PropagateByteLengths, PropagateBytemathRanges, PropagateAssertRanges, PropagateInputs,
       PropagateScratchValues, PropagateStackShuffles, CleanupUnusedSsavars

LEMMA SettledAppend ==
    ASSUME NEW h \in Settled, NEW p \in Passes, p \notin {"constants", "scratch_constants"}
    PROVE  Append(h, p) \in Settled
<1>1. h \in Seq(Passes) /\ Contains(h, "constants") /\ Contains(h, "scratch_constants")
      /\ Slice(h, {"const"}) = ConstantsSaid
    BY DEF Settled
<1>2. Append(h, p) \in Seq(Passes)
    BY <1>1
<1>3. Contains(Append(h, p), "constants") /\ Contains(Append(h, p), "scratch_constants")
    BY <1>1 DEF Contains
<1>4. Slice(Append(h, p), {"const"}) = Slice(h, {"const"})
    BY <1>1, ConstantWriters, SliceAppend DEF Fields
<1> QED BY <1>1, <1>2, <1>3, <1>4 DEF Settled

LEMMA SettledRun ==
    ASSUME NEW h \in Settled, NEW p \in Passes
    PROVE  Run(h, p) \in Settled
<1>1. h \in Seq(Passes) /\ Contains(h, "constants") /\ Contains(h, "scratch_constants")
    BY DEF Settled
<1>2. CASE p \in {"constants", "scratch_constants"}
    BY <1>1, <1>2 DEF Run, Once
<1>3. CASE p \notin {"constants", "scratch_constants"}
    <2>1. Missing(h, p) = <<>> \/ Missing(h, p) = <<"ranges">>
        BY <1>1 DEF Missing, Unless
    <2>2. h \o Missing(h, p) \in Settled
        <3>1. CASE Missing(h, p) = <<>>
            <4>1. h \o <<>> = h
                BY <1>1
            <4> QED BY <3>1, <4>1
        <3>2. CASE Missing(h, p) = <<"ranges">>
            <4>1. h \o <<"ranges">> = Append(h, "ranges")
                BY <1>1
            <4>2. Append(h, "ranges") \in Settled
                BY AnnotationsArePasses, SettledAppend
            <4> QED BY <3>2, <4>1, <4>2
        <3> QED BY <2>1, <3>1, <3>2
    <2>3. Append(h \o Missing(h, p), p) \in Settled
        BY <1>3, <2>2, SettledAppend
    <2> QED BY <2>3 DEF Run
<1> QED BY <1>2, <1>3

LEMMA SettledClosed ==
    /\ Closed(Settled, Passes)
    /\ Closed(Snapshots, Annotations)
    /\ Closed(Seq(Passes), Passes)
<1>1. \A h \in Settled, p \in Passes : Run(h, p) \in Settled
    BY SettledRun
<1>2. ASSUME NEW h \in Seq(Annotations), NEW p \in Annotations PROVE Run(h, p) \in Seq(Annotations)
    BY AnnotationsArePasses, RunType
<1>3. ASSUME NEW h \in Seq(Passes), NEW p \in Passes PROVE Run(h, p) \in Seq(Passes)
    <2>1. {"constants", "ranges"} \subseteq Passes
        BY AnnotationsArePasses
    <2> QED BY <2>1, RunType
<1> QED BY <1>1, <1>2, <1>3, AnnotationsArePasses DEF Closed, Snapshots

LEMMA ConstantPassesSettled == ConstantPasses \in Snapshots
<1>1. ConstantPasses \in Seq(Annotations) /\ ConstantPasses \in Seq(Passes)
    BY DEF ConstantPasses, Annotations, Passes
<1>2. Contains(ConstantPasses, "constants") /\ Contains(ConstantPasses, "scratch_constants")
    BY DEF Contains, ConstantPasses
<1> QED BY <1>1, <1>2 DEF Snapshots, Settled, ConstantsSaid

\* What runs the two constant passes first, and then annotations.
LEMMA SettledByStart ==
    ASSUME NEW list \in Seq(Annotations), Len(list) >= 2,
           list[1] = "constants", list[2] = "scratch_constants"
    PROVE  RunAll(<<>>, list) \in Snapshots
<1>1. <<>> \in Seq(Annotations) /\ Closed(Seq(Annotations), Annotations)
    BY AnnotationsArePasses, RunType DEF Closed
<1>2. PICK f \in [0 .. Len(list) -> Seq(Annotations)] :
          Runs(f, <<>>, list) /\ RunAll(<<>>, list) = f[Len(list)]
    BY <1>1, AnnotationsArePasses, RunAllSteps
<1> DEFINE N == Len(list)
<1>3. N \in Nat /\ N >= 2 /\ \A n \in 1 .. N : list[n] \in Annotations
    OBVIOUS
<1>4. f[0] = <<>> /\ \A n \in 1 .. N : f[n] = Run(f[n - 1], list[n])
    BY <1>2 DEF Runs
<1> HIDE DEF N
<1>5. f[1] = <<"constants">>
    <2>1. f[1] = Run(<<>>, "constants")
        BY <1>3, <1>4
    <2>2. ~Contains(<<>>, "constants") /\ Missing(<<>>, "constants") = <<>>
        BY DEF Contains, Missing, Needs
    <2>3. Append(<<>> \o <<>>, "constants") = <<"constants">>
        OBVIOUS
    <2> QED BY <2>1, <2>2, <2>3 DEF Run
<1>6. f[2] = ConstantPasses
    <2>1. f[2] = Run(<<"constants">>, "scratch_constants")
        <3>1. 2 \in 1 .. N /\ 2 - 1 = 1
            BY <1>3
        <3> QED BY <1>4, <1>5, <3>1
    <2>2. ~Contains(<<"constants">>, "scratch_constants") /\ Contains(<<"constants">>, "constants")
        BY DEF Contains
    <2>3. Missing(<<"constants">>, "scratch_constants") = <<>>
        BY <2>2 DEF Missing, Needs, Unless
    <2>4. Append(<<"constants">> \o <<>>, "scratch_constants") = ConstantPasses
        BY SMTT(30) DEF ConstantPasses
    <2> QED BY <2>1, <2>2, <2>3, <2>4 DEF Run
<1> DEFINE T == {n \in Nat : n + 2 <= N => f[n + 2] \in Snapshots}
<1>7. \A n \in Nat : n \in T
    <2>1. 0 \in T
        BY <1>6, ConstantPassesSettled
    <2>2. ASSUME NEW n \in Nat, n \in T PROVE n + 1 \in T
        <3> SUFFICES ASSUME (n + 1) + 2 <= N PROVE f[(n + 1) + 2] \in Snapshots
            OBVIOUS
        <3>1. n + 3 \in 1 .. N /\ (n + 3) - 1 = n + 2 /\ n + 2 <= N /\ (n + 1) + 2 = n + 3
            BY <1>3
        <3>2. f[n + 3] = Run(f[n + 2], list[n + 3]) /\ list[n + 3] \in Annotations
            BY <1>3, <1>4, <3>1
        <3>3. f[n + 2] \in Snapshots
            BY <2>2, <3>1
        <3> QED BY <3>1, <3>2, <3>3, SettledClosed DEF Closed
    <2> HIDE DEF T
    <2> QED BY <2>1, <2>2, NumberInduction
<1>8. N - 2 \in Nat /\ (N - 2) + 2 = N
    BY <1>3
<1>9. f[N] \in Snapshots
    BY <1>7, <1>8
<1> QED BY <1>2, <1>9 DEF N

LEMMA SnapshotSettled == \A domains : BaseSnapshot(domains) \in Snapshots
<1> TAKE domains
<1> DEFINE r == IF domains \cap {"ranges", "bigint_ranges"} = {} THEN <<>>
                ELSE <<"ranges", "range_arithmetic">>
           b == IF "byte_lengths" \in domains THEN <<"byte_lengths">> ELSE <<>>
           m == IF "bigint_ranges" \in domains THEN <<"bytemath_ranges">> ELSE <<>>
           list == <<"constants", "scratch_constants">> \o r \o b \o m
<1>1. r \in Seq(Annotations) /\ b \in Seq(Annotations) /\ m \in Seq(Annotations)
    <2>1. <<>> \in Seq(Annotations)
        OBVIOUS
    <2>2. <<"ranges", "range_arithmetic">> \in Seq(Annotations)
        BY DEF Annotations
    <2>3. <<"byte_lengths">> \in Seq(Annotations) /\ <<"bytemath_ranges">> \in Seq(Annotations)
        BY DEF Annotations
    <2> QED BY <2>1, <2>2, <2>3
<1>2. BaseSnapshot(domains) = RunAll(<<>>, list)
    BY DEF BaseSnapshot
<1> HIDE DEF r, b, m
<1>3. ConstantPasses \in Seq(Annotations) /\ Len(ConstantPasses) = 2
      /\ ConstantPasses[1] = "constants" /\ ConstantPasses[2] = "scratch_constants"
    BY DEF ConstantPasses, Annotations
<1>4. list = ConstantPasses \o r \o b \o m
    BY DEF ConstantPasses
<1> HIDE DEF list
<1>5. /\ list \in Seq(Annotations) /\ Len(list) >= 2
      /\ list[1] = "constants" /\ list[2] = "scratch_constants"
    BY <1>1, <1>3, <1>4
<1> QED BY <1>2, <1>5, SettledByStart

LEMMA ViewSettled ==
    ASSUME NEW h \in Settled, NEW profile
    PROVE  FinishView(h, profile) \in Settled
<1>1. <<"inputs", "scratch_values", "stack_shuffles", "range_arithmetic">> \in Seq(Passes)
    BY DEF Passes, Annotations, Rewrites
<1>2. NormalizeValueProgram(h) \in Settled
    BY <1>1, SettledClosed, RunAllKeeps DEF NormalizeValueProgram
<1> DEFINE a == IF profile = "value" THEN <<>> ELSE <<"assert_ranges">>
           c == IF profile = "presentation" THEN <<"cleanup">> ELSE <<>>
           b == <<"byte_lengths", "bytemath_ranges">>
<1>3. a \in Seq(Passes) /\ b \in Seq(Passes) /\ c \in Seq(Passes)
    <2>1. <<>> \in Seq(Passes) /\ b \in Seq(Passes)
        BY DEF Passes, Annotations, Rewrites
    <2>2. <<"assert_ranges">> \in Seq(Passes) /\ <<"cleanup">> \in Seq(Passes)
        BY DEF Passes, Annotations, Rewrites
    <2> QED BY <2>1, <2>2
<1>4. FinishView(h, profile) = RunAll(NormalizeValueProgram(h), a \o b \o c)
    BY DEF FinishView
<1> HIDE DEF a, b, c
<1>5. a \o b \o c \in Seq(Passes)
    BY <1>3
<1> QED BY <1>2, <1>4, <1>5, SettledClosed, RunAllKeeps

-----------------------------------------------------------------------------
(* The entries of the current revision.                                    *)

LEMMA ToSetFacts ==
    ASSUME NEW S
    PROVE  /\ ToSet(<<>>) = {}
           /\ \A s \in Seq(S) : ToSet(s) = {s[i] : i \in 1 .. Len(s)} /\ ToSet(s) \subseteq S
           /\ \A s \in Seq(S), x \in S : ToSet(Append(s, x)) = ToSet(s) \cup {x}
<1>1. ToSet(<<>>) = {}
    BY DEF ToSet
<1>2. \A s \in Seq(S) : ToSet(s) = {s[i] : i \in 1 .. Len(s)} /\ ToSet(s) \subseteq S
    BY DEF ToSet
<1>3. ASSUME NEW s \in Seq(S), NEW x \in S
      PROVE  ToSet(Append(s, x)) = ToSet(s) \cup {x}
    <2> DEFINE t == Append(s, x)
    <2>1. /\ Len(s) \in Nat /\ t \in Seq(S) /\ Len(t) = Len(s) + 1
          /\ t[Len(s) + 1] = x /\ \A i \in 1 .. Len(s) : t[i] = s[i]
        OBVIOUS
    <2> HIDE DEF t
    <2>2. 1 .. Len(s) + 1 = (1 .. Len(s)) \cup {Len(s) + 1}
        BY <2>1
    <2>3. ToSet(t) = {t[i] : i \in 1 .. Len(s) + 1} /\ ToSet(s) = {s[i] : i \in 1 .. Len(s)}
        BY <1>2, <2>1
    <2> QED BY <2>1, <2>2, <2>3 DEF t
<1> QED BY <1>1, <1>2, <1>3

LEMMA OfRevisionFacts ==
    ASSUME NEW S, NEW entries \in Seq(S)
    PROVE  /\ OfRevision(entries) \in Seq(S)
           /\ ToSet(OfRevision(entries)) = {c \in ToSet(entries) : c.revision = revision}
<1> DEFINE N == Len(entries)
           D == Seq(S)
           G == [x \in (1 .. N) \X D |->
                    IF entries[x[1]].revision = revision THEN Append(x[2], entries[x[1]])
                    ELSE x[2]]
           F(f) == [n \in 0 .. N |->
                       IF n = 0 THEN <<>>
                       ELSE IF entries[n].revision = revision THEN Append(f[n - 1], entries[n])
                       ELSE f[n - 1]]
           kept == CHOOSE g : g = F(g)
<1>1. N \in Nat /\ \A n \in 1 .. N : entries[n] \in S
    OBVIOUS
<1>2. G \in [(1 .. N) \X D -> D] /\ <<>> \in D
    <2> HIDE DEF N
    <2> QED BY <1>1
<1>3. PICK f \in [0 .. N -> D] : StepByStep(f, <<>>, N, G)
    <2> HIDE DEF N, G, D
    <2> QED BY <1>1, <1>2, RecursionUpTo
<1> HIDE DEF D
<1>4. /\ f[0] = <<>>
      /\ \A n \in 1 .. N :
             f[n] = IF entries[n].revision = revision THEN Append(f[n - 1], entries[n])
                    ELSE f[n - 1]
    <2>1. f[0] = <<>> /\ \A n \in 1 .. N : f[n] = G[<<n, f[n - 1]>>]
        BY <1>3 DEF StepByStep
    <2>2. \A n \in 1 .. N : <<n, f[n - 1]>> \in (1 .. N) \X D
        <3> HIDE DEF N
        <3> QED BY <1>1, <1>3
    <2> HIDE DEF N
    <2> QED BY <2>1, <2>2
<1>5. OfRevision(entries) = kept[N]
    BY DEF OfRevision
<1>6. kept = F(kept)
    <2>1. f = F(f)
        <3>1. ASSUME NEW n \in 0 .. N PROVE f[n] = F(f)[n]
            <4> HIDE DEF N
            <4>1. CASE n = 0
                BY <1>4, <4>1
            <4>2. CASE n \in 1 .. N
                BY <1>4, <4>2
            <4> QED BY <1>1, <4>1, <4>2
        <3> HIDE DEF N
        <3> QED BY <1>3, <3>1
    <2> HIDE DEF F
    <2> QED BY <2>1
<1> HIDE DEF N, kept
<1>7. /\ kept[0] = <<>>
      /\ \A n \in 1 .. N :
             kept[n] = IF entries[n].revision = revision THEN Append(kept[n - 1], entries[n])
                       ELSE kept[n - 1]
    <2>1. 0 \in 0 .. N /\ \A n \in 1 .. N : n \in 0 .. N /\ n # 0
        BY <1>1
    <2>2. \A n \in 0 .. N : kept[n] = F(kept)[n]
        BY <1>6
    <2>3. kept[0] = <<>>
        BY <2>1, <2>2
    <2> QED BY <2>1, <2>2, <2>3
<1> HIDE DEF F, G
<1> DEFINE first(n) == {c \in {entries[i] : i \in 1 .. n} : c.revision = revision}
           T == {n \in Nat : n <= N => kept[n] \in Seq(S) /\ ToSet(kept[n]) = first(n)}
<1>8. \A n \in Nat : n \in T
    <2>1. 0 \in T
        <3>1. first(0) = {} /\ <<>> \in Seq(S)
            OBVIOUS
        <3> HIDE DEF first
        <3> QED BY <1>7, <3>1, ToSetFacts
    <2>2. ASSUME NEW n \in Nat, n \in T PROVE n + 1 \in T
        <3> SUFFICES ASSUME n + 1 <= N
                     PROVE  kept[n + 1] \in Seq(S) /\ ToSet(kept[n + 1]) = first(n + 1)
            OBVIOUS
        <3>1. n + 1 \in 1 .. N /\ (n + 1) - 1 = n /\ n <= N
            BY <1>1
        <3>2. kept[n + 1] = IF entries[n + 1].revision = revision
                            THEN Append(kept[n], entries[n + 1]) ELSE kept[n]
            BY <1>7, <3>1
        <3>3. kept[n] \in Seq(S) /\ entries[n + 1] \in S /\ ToSet(kept[n]) = first(n)
            BY <1>1, <2>2, <3>1
        <3>4. {entries[i] : i \in 1 .. n + 1} = {entries[i] : i \in 1 .. n} \cup {entries[n + 1]}
            <4>1. 1 .. n + 1 = (1 .. n) \cup {n + 1}
                OBVIOUS
            <4> QED BY <4>1
        <3>5. ToSet(Append(kept[n], entries[n + 1])) = ToSet(kept[n]) \cup {entries[n + 1]}
            <4> HIDE DEF first
            <4> QED BY <3>3, ToSetFacts
        <3>6. CASE entries[n + 1].revision = revision
            <4>1. first(n + 1) = first(n) \cup {entries[n + 1]}
                BY <3>4, <3>6
            <4>2. Append(kept[n], entries[n + 1]) \in Seq(S)
                <5> HIDE DEF first
                <5> QED BY <3>3
            <4> HIDE DEF first
            <4> QED BY <3>2, <3>3, <3>5, <3>6, <4>1, <4>2
        <3>7. CASE entries[n + 1].revision # revision
            <4>1. first(n + 1) = first(n)
                BY <3>4, <3>7
            <4> HIDE DEF first
            <4> QED BY <3>2, <3>3, <3>7, <4>1
        <3> QED BY <3>6, <3>7
    <2> HIDE DEF T
    <2> QED BY <2>1, <2>2, NumberInduction
<1>9. kept[N] \in Seq(S) /\ ToSet(kept[N]) = first(N)
    <2> HIDE DEF first
    <2> QED BY <1>1, <1>8
<1>10. ToSet(entries) = {entries[i] : i \in 1 .. N}
    BY ToSetFacts DEF N
<1> QED BY <1>5, <1>9, <1>10

-----------------------------------------------------------------------------
(* The invariant.                                                          *)

\* Facts that were frozen from a snapshot, or tell of constants alone.
Truth == {c \in ValueFacts :
             /\ c.passes \in Settled
             /\ c.domains # {}
             /\ c.passes \in Seq(Annotations) \/ c.domains = {"constants"}}

Answer(B, R) == [asked : Queries, revision : R, answer : B]

Entry(R, O) == [revision : R, profile : DerivedProfile, program : O]

Seed(R, O) == [revision : R, program : O]

AnswerInv ==
    /\ owner \in Owners
    /\ programs \in Seq(Program) /\ Len(programs) \in 1 .. MaxPrograms
    /\ revision \in Nat
    /\ cache \in Seq(Truth)
    /\ derived \subseteq Entry(0 .. revision, 2 .. Len(programs))
    /\ seed \subseteq Seed(0 .. revision, 2 .. Len(programs))
    /\ seed = {} \/ \E s : seed = {s}
    /\ given \subseteq Answer(Truth, 0 .. revision)
    /\ owner # Canonical => programs[Self].readOnly

LEMMA TruthIsTyped == Truth \subseteq ValueFacts
BY DEF Truth

LEMMA SnapshotType ==
    ASSUME NEW domains
    PROVE  /\ BaseSnapshot(domains) \in Seq(Passes)
           /\ BaseSnapshot(domains) \in Settled
           /\ BaseSnapshot(domains) \in Seq(Annotations)
BY SnapshotSettled DEF Snapshots, Settled

LEMMA SnapshotTells ==
    ASSUME revision \in Nat, NEW domains \in SUBSET FactDomain, domains # {}
    PROVE  Freeze(domains, BaseSnapshot(domains), TRUE) \in Truth
BY SnapshotType DEF Truth, ValueFacts, Freeze

LEMMA CommonTells ==
    ASSUME revision \in Nat
    PROVE  Freeze(COMMON_FACT_DOMAINS, BaseSnapshot(COMMON_FACT_DOMAINS), TRUE) \in Truth
BY SnapshotTells DEF COMMON_FACT_DOMAINS, FactDomain

LEMMA ViewType ==
    ASSUME NEW profile
    PROVE  /\ FinishView(BaseSnapshot(COMMON_FACT_DOMAINS), profile) \in Settled
           /\ FinishView(BaseSnapshot(COMMON_FACT_DOMAINS), profile) \in Seq(Passes)
BY SnapshotType, ViewSettled DEF Settled

LEMMA NewProgramTypes ==
    ASSUME revision \in Nat, NEW h \in Seq(Passes), NEW profile \in DerivedProfile
    PROVE  /\ Private(h) \in Program
           /\ View(BaseSnapshot(COMMON_FACT_DOMAINS), profile) \in Program
BY ViewType DEF Private, View, Program

LEMMA QueryFacts ==
    ASSUME NEW asked \in Queries
    PROVE  asked \subseteq FactDomain /\ asked # {}
BY ConstantsAssumption

LEMMA AnswerInit == Init => AnswerInv
<1> SUFFICES ASSUME Init PROVE AnswerInv
    OBVIOUS
<1>1. owner \in Owners /\ revision = 0 /\ cache = <<>> /\ derived = {} /\ seed = {} /\ given = {}
    BY DEF Init
<1> DEFINE p == IF owner = Canonical THEN Private(<<>>)
                ELSE View(BaseSnapshot(COMMON_FACT_DOMAINS), owner)
<1>2. programs = <<p>>
    BY DEF Init
<1>3. p \in Program
    <2>1. <<>> \in Seq(Passes) /\ (owner = Canonical \/ owner \in DerivedProfile)
        BY <1>1, ConstantsAssumption
    <2>2. \E profile : profile \in DerivedProfile
        BY DEF DerivedProfile
    <2> QED BY <1>1, <2>1, <2>2, NewProgramTypes
<1>4. owner # Canonical => p.readOnly
    BY DEF View
<1> HIDE DEF p
<1>5. programs \in Seq(Program) /\ Len(programs) = 1 /\ programs[1] = p
    <2> HIDE DEF Program
    <2> QED BY <1>2, <1>3
<1>6. cache \in Seq(Truth)
    BY <1>1
<1>7. 1 \in 1 .. MaxPrograms
    BY ConstantsAssumption
<1> QED BY <1>1, <1>4, <1>5, <1>6, <1>7 DEF AnswerInv, Self

\* What is kept of the cache, and what is added.
LEMMA RememberType ==
    ASSUME AnswerInv, NEW a \in Truth, Remember(a)
    PROVE  cache' \in Seq(Truth)
<1>1. OfRevision(cache) \in Seq(Truth)
    BY OfRevisionFacts DEF AnswerInv
<1> QED BY <1>1 DEF Remember

LEMMA GiveType ==
    ASSUME AnswerInv, NEW asked \in Queries, NEW a \in Truth, Give(asked, a)
    PROVE  given' \subseteq Answer(Truth, 0 .. revision)
<1>1. [asked |-> asked, revision |-> revision, answer |-> a] \in Answer(Truth, 0 .. revision)
    BY DEF AnswerInv, Answer
<1> QED BY <1>1 DEF AnswerInv, Give

LEMMA SetDefaultType ==
    ASSUME AnswerInv, NEW a \in Truth, SetDefaultFacts(a)
    PROVE  cache' \in Seq(Truth)
<1>1. OfRevision(cache) \in Seq(Truth)
    BY OfRevisionFacts DEF AnswerInv
<1>2. Append(OfRevision(cache), a) \in Seq(Truth)
    BY <1>1
<1> QED BY <1>1, <1>2 DEF SetDefaultFacts

\* One more program leaves the indices of the others as they are.
LEMMA BuildType ==
    ASSUME AnswerInv, NEW p \in Program, Len(programs) < MaxPrograms,
           programs' = Append(programs, p)
    PROVE  /\ programs' \in Seq(Program) /\ Len(programs') \in 1 .. MaxPrograms
           /\ Len(programs') = Len(programs) + 1 /\ Len(programs) \in Nat
           /\ Len(programs) + 1 \in 2 .. Len(programs')
           /\ \A o \in 1 .. Len(programs) : programs'[o] = programs[o]
           /\ programs'[Len(programs) + 1] = p
           /\ programs'[Self] = programs[Self]
           /\ \A R : Entry(R, 2 .. Len(programs)) \subseteq Entry(R, 2 .. Len(programs'))
           /\ \A R : Seed(R, 2 .. Len(programs)) \subseteq Seed(R, 2 .. Len(programs'))
<1>1. programs \in Seq(Program) /\ Len(programs) \in 1 .. MaxPrograms /\ MaxPrograms \in Nat
    BY ConstantsAssumption DEF AnswerInv
<1>2. /\ programs' \in Seq(Program) /\ Len(programs') = Len(programs) + 1
      /\ \A o \in 1 .. Len(programs) : programs'[o] = programs[o]
      /\ programs'[Len(programs) + 1] = p /\ Len(programs) \in Nat
    <2> HIDE DEF Program
    <2> QED BY <1>1
<1>3. /\ Len(programs') \in 1 .. MaxPrograms /\ Len(programs) + 1 \in 2 .. Len(programs')
      /\ 1 \in 1 .. Len(programs) /\ 2 .. Len(programs) \subseteq 2 .. Len(programs')
    BY <1>1, <1>2
<1>4. /\ \A R : Entry(R, 2 .. Len(programs)) \subseteq Entry(R, 2 .. Len(programs'))
      /\ \A R : Seed(R, 2 .. Len(programs)) \subseteq Seed(R, 2 .. Len(programs'))
    BY <1>3 DEF Entry, Seed
<1> QED BY <1>2, <1>3, <1>4 DEF Self

LEMMA AnswerFromCacheKeeps ==
    ASSUME AnswerInv, NEW asked \in Queries, AnswerFromCache(asked)
    PROVE  AnswerInv'
<1>1. PICK i \in Hits(asked) : Give(asked, cache[i])
    BY DEF AnswerFromCache
<1>2. i \in 1 .. Len(cache)
    BY DEF Hits, Covering
<1>3. cache[i] \in Truth
    <2>1. cache \in Seq(Truth)
        BY DEF AnswerInv
    <2> HIDE DEF Truth
    <2> QED BY <1>2, <2>1
<1>4. given' \subseteq Answer(Truth, 0 .. revision)
    BY <1>1, <1>3, GiveType
<1> QED BY <1>4 DEF AnswerInv, AnswerFromCache

LEMMA BuildCommonFactsKeeps ==
    ASSUME AnswerInv, NEW asked \in Queries, BuildCommonFacts(asked)
    PROVE  AnswerInv'
<1> DEFINE snapshot == BaseSnapshot(COMMON_FACT_DOMAINS)
           answer   == Freeze(COMMON_FACT_DOMAINS, snapshot, TRUE)
<1>1. /\ Len(programs) < MaxPrograms
      /\ programs' = Append(programs, Private(snapshot))
      /\ seed' = {[revision |-> revision, program |-> Len(programs) + 1]}
      /\ Remember(answer) /\ Give(asked, answer)
      /\ UNCHANGED <<owner, revision, derived>>
    BY DEF BuildCommonFacts
<1>2. revision \in Nat
    BY DEF AnswerInv
<1>3. answer \in Truth /\ Private(snapshot) \in Program
    <2>1. \E profile : profile \in DerivedProfile
        BY DEF DerivedProfile
    <2> QED BY <1>2, <2>1, CommonTells, SnapshotType, NewProgramTypes
<1> HIDE DEF answer, snapshot
<1>4. cache' \in Seq(Truth) /\ given' \subseteq Answer(Truth, 0 .. revision)
    BY <1>1, <1>3, RememberType, GiveType
<1>5. /\ programs' \in Seq(Program) /\ Len(programs') \in 1 .. MaxPrograms
      /\ Len(programs) + 1 \in 2 .. Len(programs')
      /\ programs'[Self] = programs[Self]
      /\ derived \subseteq Entry(0 .. revision, 2 .. Len(programs'))
    BY <1>1, <1>3, BuildType DEF AnswerInv
<1>6. seed' \subseteq Seed(0 .. revision, 2 .. Len(programs')) /\ \E s : seed' = {s}
    <2> DEFINE s == [revision |-> revision, program |-> Len(programs) + 1]
    <2>1. seed' = {s} /\ s \in Seed(0 .. revision, 2 .. Len(programs'))
        BY <1>1, <1>2, <1>5 DEF Seed
    <2> HIDE DEF s
    <2> QED BY <2>1
<1> QED BY <1>1, <1>4, <1>5, <1>6 DEF AnswerInv

LEMMA BuildFactsKeeps ==
    ASSUME AnswerInv, NEW asked \in Queries, BuildFacts(asked)
    PROVE  AnswerInv'
<1> DEFINE snapshot == BaseSnapshot(asked)
           answer   == Freeze(asked, snapshot, TRUE)
<1>1. /\ Len(programs) < MaxPrograms
      /\ programs' = Append(programs, Private(snapshot))
      /\ Remember(answer) /\ Give(asked, answer)
      /\ UNCHANGED <<owner, revision, derived, seed>>
    BY DEF BuildFacts
<1>2. revision \in Nat
    BY DEF AnswerInv
<1>3. answer \in Truth /\ Private(snapshot) \in Program
    <2>1. \E profile : profile \in DerivedProfile
        BY DEF DerivedProfile
    <2> QED BY <1>2, <2>1, QueryFacts, SnapshotTells, SnapshotType, NewProgramTypes
<1> HIDE DEF answer, snapshot
<1>4. cache' \in Seq(Truth) /\ given' \subseteq Answer(Truth, 0 .. revision)
    BY <1>1, <1>3, RememberType, GiveType
<1>5. /\ programs' \in Seq(Program) /\ Len(programs') \in 1 .. MaxPrograms
      /\ programs'[Self] = programs[Self]
      /\ derived \subseteq Entry(0 .. revision, 2 .. Len(programs'))
      /\ seed \subseteq Seed(0 .. revision, 2 .. Len(programs'))
    BY <1>1, <1>3, BuildType DEF AnswerInv
<1> QED BY <1>1, <1>4, <1>5 DEF AnswerInv

\* A derived view answers from its own history: what it says of constants was said
\* before it was rewritten.
LEMMA ReadOwnConstantsKeeps ==
    ASSUME AnswerInv, CacheInv, NEW asked \in Queries, ReadOwnConstants(asked)
    PROVE  AnswerInv'
<1> DEFINE answer == Freeze(asked, programs[Self].passes, FALSE)
<1>1. /\ NormalizedConstants(asked) /\ Remember(answer) /\ Give(asked, answer)
      /\ UNCHANGED <<owner, programs, revision, derived, seed>>
    BY DEF ReadOwnConstants
<1>2. revision \in Nat /\ owner # Canonical /\ asked = {"constants"} /\ programs[Self].readOnly
    BY <1>1, QueryFacts DEF AnswerInv, NormalizedConstants
<1>3. programs[Self].passes \in Settled /\ programs[Self].passes \in Seq(Passes)
    <2>1. Self \in 1 .. Len(programs)
        BY DEF CacheInv, ProgramsAreRecords
    <2>2. programs[Self].passes
              = FinishView(BaseSnapshot(COMMON_FACT_DOMAINS), programs[Self].profile)
        BY <1>2, <2>1 DEF CacheInv, ViewsAreFinished
    <2> QED BY <2>2, ViewType
<1>4. answer \in Truth
    BY <1>2, <1>3 DEF Truth, ValueFacts, Freeze, FactDomain
<1> HIDE DEF answer
<1>5. cache' \in Seq(Truth) /\ given' \subseteq Answer(Truth, 0 .. revision)
    BY <1>1, <1>4, RememberType, GiveType
<1> QED BY <1>1, <1>5 DEF AnswerInv

LEMMA FinishSeedKeeps ==
    ASSUME AnswerInv, CacheInv, NEW profile \in DerivedProfile, FinishSeed(profile)
    PROVE  AnswerInv'
<1>1. PICK s \in seed :
          /\ programs' = [programs EXCEPT ![s.program]
                             = View(programs[s.program].passes, profile)]
          /\ Enlist(profile, s.program)
          /\ SetDefaultFacts(Freeze(COMMON_FACT_DOMAINS, programs[s.program].passes, TRUE))
          /\ seed' = {}
          /\ UNCHANGED <<owner, revision, given>>
    BY DEF FinishSeed, Seeds
<1>2. /\ s.program # Self /\ s.program \in 1 .. Len(programs)
      /\ programs[s.program].passes = BaseSnapshot(COMMON_FACT_DOMAINS)
    BY DEF CacheInv, SeedsArePrivate
<1>3. s.program \in 2 .. Len(programs) /\ revision \in Nat
    BY DEF AnswerInv, Seed
<1> DEFINE p == View(BaseSnapshot(COMMON_FACT_DOMAINS), profile)
<1>4. p \in Program
    <2>1. <<>> \in Seq(Passes)
        OBVIOUS
    <2> QED BY <1>3, <2>1, NewProgramTypes
<1>5. programs' = [programs EXCEPT ![s.program] = p]
    BY <1>1, <1>2
<1> HIDE DEF p
<1>6. programs' \in Seq(Program) /\ Len(programs') = Len(programs)
      /\ programs'[Self] = programs[Self]
    <2>1. programs \in Seq(Program) /\ Self \in 1 .. Len(programs)
        BY DEF AnswerInv, CacheInv, ProgramsAreRecords
    <2> HIDE DEF Program
    <2> QED BY <1>2, <1>4, <1>5, <2>1
<1>7. cache' \in Seq(Truth)
    <2>1. SetDefaultFacts(Freeze(COMMON_FACT_DOMAINS, BaseSnapshot(COMMON_FACT_DOMAINS), TRUE))
        BY <1>1, <1>2
    <2> QED BY <1>3, <2>1, CommonTells, SetDefaultType
<1>8. derived' \subseteq Entry(0 .. revision, 2 .. Len(programs))
    <2>1. [revision |-> revision, profile |-> profile, program |-> s.program]
              \in Entry(0 .. revision, 2 .. Len(programs))
        BY <1>3 DEF Entry
    <2> QED BY <1>1, <2>1 DEF Enlist, AnswerInv
<1> QED BY <1>1, <1>6, <1>7, <1>8 DEF AnswerInv

LEMMA BuildViewKeeps ==
    ASSUME AnswerInv, NEW profile \in DerivedProfile, BuildView(profile)
    PROVE  AnswerInv'
<1> DEFINE snapshot == BaseSnapshot(COMMON_FACT_DOMAINS)
<1>1. /\ Len(programs) < MaxPrograms
      /\ programs' = Append(programs, View(snapshot, profile))
      /\ Enlist(profile, Len(programs) + 1)
      /\ SetDefaultFacts(Freeze(COMMON_FACT_DOMAINS, snapshot, TRUE))
      /\ seed' = {}
      /\ UNCHANGED <<owner, revision, given>>
    BY DEF BuildView
<1>2. revision \in Nat
    BY DEF AnswerInv
<1>3. View(snapshot, profile) \in Program
    <2>1. <<>> \in Seq(Passes)
        OBVIOUS
    <2> QED BY <1>2, <2>1, NewProgramTypes
<1>4. cache' \in Seq(Truth)
    BY <1>1, <1>2, CommonTells, SetDefaultType
<1> HIDE DEF snapshot
<1>5. /\ programs' \in Seq(Program) /\ Len(programs') \in 1 .. MaxPrograms
      /\ Len(programs) + 1 \in 2 .. Len(programs')
      /\ programs'[Self] = programs[Self]
      /\ derived \subseteq Entry(0 .. revision, 2 .. Len(programs'))
    BY <1>1, <1>3, BuildType DEF AnswerInv
<1>6. derived' \subseteq Entry(0 .. revision, 2 .. Len(programs'))
    <2>1. [revision |-> revision, profile |-> profile, program |-> Len(programs) + 1]
              \in Entry(0 .. revision, 2 .. Len(programs'))
        BY <1>2, <1>5 DEF Entry
    <2> QED BY <1>1, <1>5, <2>1 DEF Enlist
<1> QED BY <1>1, <1>4, <1>5, <1>6 DEF AnswerInv

LEMMA AnnotateKeeps ==
    ASSUME AnswerInv, NEW p \in Annotations, Annotate(p)
    PROVE  AnswerInv' /\ revision <= revision'
<1> DEFINE before == programs[Self].passes
<1>1. /\ ~programs[Self].readOnly
      /\ programs' = [programs EXCEPT ![Self].passes = Run(before, p)]
      /\ UNCHANGED <<owner, cache, derived, seed, given>>
    BY DEF Annotate
<1>2. PICK changed \in BOOLEAN :
          revision' = revision + Len(Missing(before, p)) + (IF changed THEN 1 ELSE 0)
    BY DEF Annotate
<1>3. programs \in Seq(Program) /\ Self \in 1 .. Len(programs)
    BY DEF AnswerInv, Self
<1>4. programs[Self] \in Program
    <2> HIDE DEF Program
    <2> QED BY <1>3
<1>5. before \in Seq(Passes) /\ p \in Passes
    BY <1>4, AnnotationsArePasses DEF Program
<1>6. Run(before, p) \in Seq(Passes)
    BY <1>5, SettledClosed DEF Closed
<1>7. Len(Missing(before, p)) \in Nat
    BY DEF Missing, Unless
<1>8. revision' \in Nat /\ revision <= revision' /\ revision \in Nat
    BY <1>2, <1>7 DEF AnswerInv
<1> DEFINE h == Run(before, p)
           q == [programs[Self] EXCEPT !.passes = h]
<1>9. q \in Program
    <2> HIDE DEF h
    <2> QED BY <1>4, <1>6 DEF Program, h
<1>10. programs' = [programs EXCEPT ![Self] = q]
    BY <1>1
<1> HIDE DEF q, before
<1>11. programs' \in Seq(Program) /\ Len(programs') = Len(programs)
    <2> HIDE DEF Program
    <2> QED BY <1>3, <1>9, <1>10
<1>12. 0 .. revision \subseteq 0 .. revision'
    BY <1>8
<1>13. /\ derived' \subseteq Entry(0 .. revision', 2 .. Len(programs'))
       /\ seed' \subseteq Seed(0 .. revision', 2 .. Len(programs'))
       /\ given' \subseteq Answer(Truth, 0 .. revision')
    BY <1>1, <1>11, <1>12 DEF AnswerInv, Entry, Seed, Answer
<1>14. owner = Canonical
    BY <1>1 DEF AnswerInv
<1> QED BY <1>1, <1>8, <1>11, <1>13, <1>14 DEF AnswerInv

LEMMA AnswerStep == AnswerInv /\ CacheInv /\ [Next]_vars => AnswerInv'
<1> SUFFICES ASSUME AnswerInv, CacheInv, [Next]_vars PROVE AnswerInv'
    OBVIOUS
<1>1. CASE \E asked \in Queries : Facts(asked)
    <2> PICK asked \in Queries : Facts(asked)
        BY <1>1
    <2> QED BY AnswerFromCacheKeeps, BuildCommonFactsKeeps, BuildFactsKeeps,
               ReadOwnConstantsKeeps DEF Facts
<1>2. CASE \E profile \in DerivedProfile : Derived(profile)
    BY <1>2, FinishSeedKeeps, BuildViewKeeps DEF Derived
<1>3. CASE \E q \in Annotations : Annotate(q)
    BY <1>3, AnnotateKeeps
<1>4. CASE UNCHANGED vars
    BY <1>4 DEF vars, AnswerInv
<1> QED BY <1>1, <1>2, <1>3, <1>4 DEF Next

(* In every reachable state what was frozen begins with the constant passes, and is
   either a snapshot or tells of constants alone. *)
THEOREM AnswerInductive == Spec => []AnswerInv
<1> QED BY AnswerInit, AnswerStep, CacheInductive, PTL DEF Spec

(* Every variable of the context keeps its type: there is at most one seed, it and the
   views are programs other than self.prog, and nothing is of a later revision. *)
THEOREM ContextTypeCorrect == Spec => []TypeOK
<1>1. AnswerInv => TypeOK
    <2> SUFFICES ASSUME AnswerInv PROVE TypeOK
        OBVIOUS
    <2>1. cache \in Seq(ValueFacts)
        <3>1. cache \in Seq(Truth)
            BY DEF AnswerInv
        <3> HIDE DEF Truth, ValueFacts
        <3> QED BY <3>1, TruthIsTyped, SeqGrows
    <2>2. Cardinality(seed) <= 1
        <3>1. CASE seed = {}
            BY <3>1, FS_EmptySet
        <3>2. CASE \E s : seed = {s}
            <4> PICK s : seed = {s}
                BY <3>2
            <4>1. Cardinality({s}) = 1
                BY FS_Singleton
            <4> QED BY <4>1
        <3> QED BY <3>1, <3>2 DEF AnswerInv
    <2>3. given \subseteq Answer(ValueFacts, 0 .. revision)
        BY TruthIsTyped DEF AnswerInv, Answer
    <2> QED BY <2>1, <2>2, <2>3 DEF AnswerInv, TypeOK, Entry, Seed, Answer
<1> QED BY <1>1, AnswerInductive, PTL

(* Nothing an answer reports was reached by an assert or an identity rewrite, although
   derived views answer from their own history and the snapshots of answers go on to become
   views. *)
THEOREM AnswersUnconditional == Spec => []FactsAreUnconditional
<1>1. AnswerInv => FactsAreUnconditional
    <2> SUFFICES ASSUME AnswerInv, NEW g \in given
                 PROVE  ({"assert_ranges"} \cup Rewrites)
                            \cap ToSet(Said(g.answer, g.answer.domains)) = {}
        BY DEF FactsAreUnconditional
    <2> DEFINE c == g.answer
    <2>1. c \in Truth
        BY DEF AnswerInv, Answer
    <2> HIDE DEF c
    <2>2. c.passes \in Settled /\ c.domains # {} /\ c.domains \subseteq FactDomain
          /\ (c.passes \in Seq(Annotations) \/ c.domains = {"constants"})
        BY <2>1 DEF Truth, ValueFacts
    <2>3. Said(c, c.domains) \in Seq(Annotations)
        <3>1. CASE c.passes \in Seq(Annotations)
            <4>1. Reported(c.domains) \subseteq Fields
                BY DEF Reported, Fields
            <4> QED BY <3>1, <4>1, AnnotationsArePasses, SliceType DEF Said
        <3>2. CASE c.domains = {"constants"}
            <4>1. Reported(c.domains) = {"const"}
                BY <3>2 DEF Reported
            <4>2. Said(c, c.domains) = ConstantsSaid
                BY <2>2, <4>1 DEF Said, Settled
            <4>3. ConstantPasses \in Seq(Annotations) /\ {"const"} \subseteq Fields
                BY ConstantPassesSettled DEF Snapshots, Fields
            <4> QED BY <4>2, <4>3, AnnotationsArePasses, SliceType DEF ConstantsSaid
        <3> QED BY <2>2, <3>1, <3>2
    <2>4. ToSet(Said(c, c.domains)) \subseteq Annotations
        BY <2>3, ToSetFacts
    <2>5. ({"assert_ranges"} \cup Rewrites) \cap Annotations = {}
        BY DEF Annotations, Rewrites
    <2> QED BY <2>4, <2>5 DEF c
<1> QED BY <1>1, AnswerInductive, PTL

(* What answers say of constants is the same whoever asked, whatever with and when. *)
THEOREM ConstantsAlike == Spec => []ConstantsAgree
<1>1. AnswerInv => ConstantsAgree
    <2> SUFFICES ASSUME AnswerInv, NEW g \in given
                 PROVE  Said(g.answer, {"constants"}) = ConstantsSaid
        BY DEF ConstantsAgree
    <2>1. g.answer \in Truth
        BY DEF AnswerInv, Answer
    <2>2. Reported({"constants"}) = {"const"}
        BY DEF Reported
    <2> QED BY <2>1, <2>2 DEF Truth, Settled, Said
<1> QED BY <1>1, AnswerInductive, PTL

-----------------------------------------------------------------------------
(* The programs of a revision, counted.                                    *)

Built   == {o \in 2 .. Len(programs) : programs[o].revision = revision}
Views   == {v \in derived : v.revision = revision}
Kept(S) == {c \in S : c.revision = revision /\ ~Common(c.domains) /\ c.aliases}

CountInv ==
    /\ \A o \in 2 .. Len(programs) : programs[o].revision <= revision
    /\ \A s \in seed : programs[s.program].revision = s.revision
    /\ \A c \in ToSet(cache) : c.revision <= revision
    /\ IsFiniteSet(derived)
    /\ Seeds # {} => \E c \in ToSet(cache) : /\ c.revision = revision
                                             /\ c.domains = COMMON_FACT_DOMAINS
    /\ Cardinality(Built)
           = Cardinality(Views) + Cardinality(Seeds) + Cardinality(Kept(ToSet(cache)))

LEMMA CountsAreFinite ==
    ASSUME AnswerInv, IsFiniteSet(derived)
    PROVE  /\ IsFiniteSet(Built) /\ IsFiniteSet(Views) /\ IsFiniteSet(Kept(ToSet(cache)))
           /\ Cardinality(Built) \in Nat /\ Cardinality(Views) \in Nat
           /\ Cardinality(Kept(ToSet(cache))) \in Nat
<1>1. Len(programs) \in Nat /\ cache \in Seq(Truth)
    BY DEF AnswerInv
<1>2. IsFiniteSet(2 .. Len(programs))
    BY <1>1, FS_Interval
<1>3. IsFiniteSet(Built)
    BY <1>2, FS_Subset DEF Built
<1>4. IsFiniteSet(Views)
    BY FS_Subset DEF Views
<1>5. IsFiniteSet(ToSet(cache))
    <2> HIDE DEF Truth
    <2>1. Len(cache) \in Nat /\ ToSet(cache) = {cache[i] : i \in 1 .. Len(cache)}
        BY <1>1, ToSetFacts
    <2> DEFINE f == [i \in 1 .. Len(cache) |-> cache[i]]
    <2>2. f \in Surjection(1 .. Len(cache), ToSet(cache))
        BY <2>1 DEF Surjection
    <2> HIDE DEF f
    <2>3. IsFiniteSet(1 .. Len(cache))
        BY <2>1, FS_Interval
    <2> QED BY <2>2, <2>3, FS_Surjection
<1>6. IsFiniteSet(Kept(ToSet(cache)))
    <2>1. Kept(ToSet(cache)) \subseteq ToSet(cache)
        BY DEF Kept
    <2> QED BY <1>5, <2>1, FS_Subset
<1> QED BY <1>3, <1>4, <1>6, FS_CardinalityType

LEMMA RememberSet ==
    ASSUME AnswerInv, NEW a \in Truth, Remember(a)
    PROVE  ToSet(cache') = {c \in ToSet(cache) : c.revision = revision} \cup {a}
<1>1. /\ OfRevision(cache) \in Seq(Truth)
      /\ ToSet(OfRevision(cache)) = {c \in ToSet(cache) : c.revision = revision}
    BY OfRevisionFacts DEF AnswerInv
<1>2. ToSet(Append(OfRevision(cache), a)) = ToSet(OfRevision(cache)) \cup {a}
    BY <1>1, ToSetFacts
<1> QED BY <1>1, <1>2 DEF Remember

LEMMA SetDefaultSet ==
    ASSUME AnswerInv, NEW a \in Truth, SetDefaultFacts(a)
    PROVE  \/ ToSet(cache') = {c \in ToSet(cache) : c.revision = revision}
           \/ ToSet(cache') = {c \in ToSet(cache) : c.revision = revision} \cup {a}
<1>1. /\ OfRevision(cache) \in Seq(Truth)
      /\ ToSet(OfRevision(cache)) = {c \in ToSet(cache) : c.revision = revision}
    BY OfRevisionFacts DEF AnswerInv
<1>2. ToSet(Append(OfRevision(cache), a)) = ToSet(OfRevision(cache)) \cup {a}
    BY <1>1, ToSetFacts
<1>3. cache' = OfRevision(cache) \/ cache' = Append(OfRevision(cache), a)
    BY DEF SetDefaultFacts
<1> QED BY <1>1, <1>2, <1>3

\* Where nothing is hit, nothing that covers the question is cached.
LEMMA NothingCovers ==
    ASSUME AnswerInv, NEW asked, Hits(asked) = {}, NEW c \in ToSet(cache)
    PROVE  ~Covers(c, asked)
<1> SUFFICES ASSUME Covers(c, asked) PROVE FALSE
    OBVIOUS
<1>1. PICK i \in 1 .. Len(cache) : c = cache[i]
    <2>1. cache \in Seq(Truth)
        BY DEF AnswerInv
    <2> QED BY <2>1, ToSetFacts
<1>2. Covering(asked) \subseteq Nat /\ Covering(asked) # {}
    BY <1>1 DEF Covering
<1>3. \E k \in Covering(asked) : \A j \in Covering(asked) : k <= j
    BY <1>2, LeastNumber
<1> QED BY <1>3 DEF Hits

\* A set with one element more.
LEMMA OneElementMore ==
    ASSUME NEW S, IsFiniteSet(S), NEW x, x \notin S
    PROVE  Cardinality(S \cup {x}) = Cardinality(S) + 1 /\ IsFiniteSet(S \cup {x})
BY FS_AddElement

LEMMA CountInit == Init => CountInv
<1> SUFFICES ASSUME Init PROVE CountInv
    OBVIOUS
<1>1. revision = 0 /\ cache = <<>> /\ derived = {} /\ seed = {} /\ Len(programs) = 1
    BY DEF Init
<1>2. Built = {} /\ Views = {} /\ Seeds = {} /\ ToSet(cache) = {} /\ Kept(ToSet(cache)) = {}
    BY <1>1, ToSetFacts DEF Built, Views, Seeds, Kept
<1>3. Cardinality({}) = 0 /\ IsFiniteSet({})
    BY FS_EmptySet
<1>4. 2 .. Len(programs) = {}
    BY <1>1
<1>5. Cardinality(Built)
          = Cardinality(Views) + Cardinality(Seeds) + Cardinality(Kept(ToSet(cache)))
    BY <1>2, <1>3
<1>6. IsFiniteSet(derived)
    BY <1>1, <1>3
<1> QED BY <1>1, <1>2, <1>4, <1>5, <1>6 DEF CountInv

LEMMA CommonIsCommon == Common(COMMON_FACT_DOMAINS)
BY DEF Common, NormalizedConstants, COMMON_FACT_DOMAINS

\* The context asks of entries what it asked before: whose program it is stays.
LEMMA KeptAfter ==
    ASSUME UNCHANGED <<owner, revision>>
    PROVE  Kept(ToSet(cache))' = Kept(ToSet(cache'))
BY DEF Kept, Common, NormalizedConstants

LEMMA KeptSame ==
    ASSUME NEW a, NEW S,
           \/ S = {c \in ToSet(cache) : c.revision = revision}
           \/ S = {c \in ToSet(cache) : c.revision = revision} \cup {a},
           Common(a.domains) \/ ~a.aliases
    PROVE  Kept(S) = Kept(ToSet(cache))
BY DEF Kept

LEMMA BuildCommonFactsCounts ==
    ASSUME AnswerInv, CountInv, NEW asked \in Queries, BuildCommonFacts(asked)
    PROVE  CountInv'
<1> DEFINE snapshot == BaseSnapshot(COMMON_FACT_DOMAINS)
           answer   == Freeze(COMMON_FACT_DOMAINS, snapshot, TRUE)
           now      == {c \in ToSet(cache) : c.revision = revision}
           s        == [revision |-> revision, program |-> Len(programs) + 1]
           p        == Private(snapshot)
<1>1. /\ Hits(asked) = {} /\ Common(asked)
      /\ Len(programs) < MaxPrograms
      /\ programs' = Append(programs, p)
      /\ seed' = {s}
      /\ Remember(answer) /\ Give(asked, answer)
      /\ UNCHANGED <<owner, revision, derived>>
    BY DEF BuildCommonFacts
<1>2. revision \in Nat
    BY DEF AnswerInv
<1>3. answer \in Truth /\ p \in Program
    <2>1. \E profile : profile \in DerivedProfile
        BY DEF DerivedProfile
    <2> QED BY <1>2, <2>1, CommonTells, SnapshotType, NewProgramTypes
<1>4. /\ answer.revision = revision /\ answer.domains = COMMON_FACT_DOMAINS
      /\ p.revision = revision /\ s.revision = revision /\ s.program = Len(programs) + 1
    BY DEF Freeze, Private
<1> HIDE DEF answer, snapshot, p, s
<1>5. ToSet(cache') = now \cup {answer}
    BY <1>1, <1>3, RememberSet
<1>6. Seeds = {}
    <2> SUFFICES ASSUME Seeds # {} PROVE FALSE
        OBVIOUS
    <2>1. PICK c \in ToSet(cache) : c.revision = revision /\ c.domains = COMMON_FACT_DOMAINS
        BY DEF CountInv
    <2>2. Covers(c, asked)
        BY <1>1, <2>1 DEF Covers, Common
    <2> QED BY <1>1, <2>2, NothingCovers
<1>7. Seeds' = {s}
    BY <1>1, <1>4 DEF Seeds
<1>8. /\ Len(programs') = Len(programs) + 1 /\ Len(programs) \in Nat
      /\ \A o \in 1 .. Len(programs) : programs'[o] = programs[o]
      /\ programs'[Len(programs) + 1] = p
      /\ Len(programs) \in 1 .. MaxPrograms
    BY <1>1, <1>3, BuildType DEF AnswerInv
<1>9. Built' = Built \cup {Len(programs) + 1} /\ Len(programs) + 1 \notin Built
    BY <1>1, <1>4, <1>8 DEF Built
<1>10. Views' = Views /\ Kept(ToSet(cache))' = Kept(ToSet(cache))
    BY <1>1, <1>4, <1>5, KeptAfter, KeptSame, CommonIsCommon DEF Views
<1>11. Cardinality(Built')
           = Cardinality(Views') + Cardinality(Seeds') + Cardinality(Kept(ToSet(cache))')
    <2>1. Cardinality(Built') = Cardinality(Built) + 1
        BY <1>9, CountsAreFinite, OneElementMore DEF CountInv
    <2>2. Cardinality(Seeds) = 0 /\ Cardinality(Seeds') = 1
        BY <1>6, <1>7, FS_EmptySet, FS_Singleton
    <2>3. /\ Cardinality(Built) \in Nat /\ Cardinality(Views) \in Nat
          /\ Cardinality(Kept(ToSet(cache))) \in Nat
        BY CountsAreFinite DEF CountInv
    <2>4. Cardinality(Built)
              = Cardinality(Views) + Cardinality(Seeds) + Cardinality(Kept(ToSet(cache)))
        BY DEF CountInv
    <2> QED BY <1>10, <2>1, <2>2, <2>3, <2>4
<1>12. \A o \in 2 .. Len(programs') : programs'[o].revision <= revision'
    BY <1>1, <1>2, <1>4, <1>8 DEF CountInv
<1>13. \A t \in seed' : programs'[t.program].revision = t.revision
    BY <1>1, <1>4, <1>8
<1>14. \A c \in ToSet(cache') : c.revision <= revision'
    BY <1>1, <1>2, <1>4, <1>5
<1>15. \E c \in ToSet(cache') : c.revision = revision' /\ c.domains = COMMON_FACT_DOMAINS
    BY <1>1, <1>4, <1>5
<1> QED BY <1>1, <1>11, <1>12, <1>13, <1>14, <1>15 DEF CountInv

LEMMA BuildFactsCounts ==
    ASSUME AnswerInv, CountInv, NEW asked \in Queries, BuildFacts(asked)
    PROVE  CountInv'
<1> DEFINE snapshot == BaseSnapshot(asked)
           answer   == Freeze(asked, snapshot, TRUE)
           now      == {c \in ToSet(cache) : c.revision = revision}
           p        == Private(snapshot)
<1>1. /\ Hits(asked) = {} /\ ~Common(asked)
      /\ Len(programs) < MaxPrograms
      /\ programs' = Append(programs, p)
      /\ Remember(answer) /\ Give(asked, answer)
      /\ UNCHANGED <<owner, revision, derived, seed>>
    BY DEF BuildFacts
<1>2. revision \in Nat
    BY DEF AnswerInv
<1>3. answer \in Truth /\ p \in Program
    <2>1. \E profile : profile \in DerivedProfile
        BY DEF DerivedProfile
    <2> QED BY <1>2, <2>1, QueryFacts, SnapshotTells, SnapshotType, NewProgramTypes
<1>4. /\ answer.revision = revision /\ answer.domains = asked /\ answer.aliases
      /\ p.revision = revision
    BY DEF Freeze, Private
<1> HIDE DEF answer, snapshot, p
<1>5. ToSet(cache') = now \cup {answer}
    BY <1>1, <1>3, RememberSet
<1>6. answer \notin ToSet(cache)
    BY <1>1, <1>4, NothingCovers DEF Covers
<1>7. /\ Len(programs') = Len(programs) + 1 /\ Len(programs) \in Nat
      /\ \A o \in 1 .. Len(programs) : programs'[o] = programs[o]
      /\ programs'[Len(programs) + 1] = p
      /\ Len(programs) \in 1 .. MaxPrograms
    BY <1>1, <1>3, BuildType DEF AnswerInv
<1>8. Built' = Built \cup {Len(programs) + 1} /\ Len(programs) + 1 \notin Built
    BY <1>1, <1>4, <1>7 DEF Built
<1>9. Views' = Views /\ Seeds' = Seeds
    BY <1>1 DEF Views, Seeds
<1>10. /\ Kept(ToSet(cache))' = Kept(ToSet(cache)) \cup {answer}
       /\ answer \notin Kept(ToSet(cache))
    <2>1. Kept(ToSet(cache)) \subseteq ToSet(cache)
        BY DEF Kept
    <2>2. Kept(ToSet(cache')) = Kept(ToSet(cache)) \cup {answer}
        BY <1>1, <1>4, <1>5 DEF Kept
    <2> QED BY <1>1, <1>6, <2>1, <2>2, KeptAfter
<1>11. Cardinality(Built')
           = Cardinality(Views') + Cardinality(Seeds') + Cardinality(Kept(ToSet(cache))')
    <2>1. Cardinality(Built') = Cardinality(Built) + 1
        BY <1>8, CountsAreFinite, OneElementMore DEF CountInv
    <2>2. Cardinality(Kept(ToSet(cache))') = Cardinality(Kept(ToSet(cache))) + 1
        BY <1>10, CountsAreFinite, OneElementMore DEF CountInv
    <2>3. /\ Cardinality(Built) \in Nat /\ Cardinality(Views) \in Nat
          /\ Cardinality(Kept(ToSet(cache))) \in Nat
        BY CountsAreFinite DEF CountInv
    <2>4. Cardinality(Built)
              = Cardinality(Views) + Cardinality(Seeds) + Cardinality(Kept(ToSet(cache)))
        BY DEF CountInv
    <2>5. Cardinality(Seeds) \in Nat
        <3>1. IsFiniteSet(seed)
            <4>1. seed = {} \/ \E s : seed = {s}
                BY DEF AnswerInv
            <4> QED BY <4>1, FS_EmptySet, FS_Singleton, ZenonT(30)
        <3>2. IsFiniteSet(Seeds)
            BY <3>1, FS_Subset DEF Seeds
        <3> QED BY <3>2, FS_CardinalityType
    <2> QED BY <1>9, <2>1, <2>2, <2>3, <2>4, <2>5
<1>12. \A o \in 2 .. Len(programs') : programs'[o].revision <= revision'
    BY <1>1, <1>2, <1>4, <1>7 DEF CountInv
<1>13. \A t \in seed' : programs'[t.program].revision = t.revision
    <2>1. \A t \in seed : t.program \in 1 .. Len(programs)
        BY DEF AnswerInv, Seed
    <2> QED BY <1>1, <1>7, <2>1 DEF CountInv
<1>14. \A c \in ToSet(cache') : c.revision <= revision'
    BY <1>1, <1>2, <1>4, <1>5
<1>15. Seeds' # {} =>
           \E c \in ToSet(cache') : c.revision = revision' /\ c.domains = COMMON_FACT_DOMAINS
    BY <1>1, <1>5, <1>9 DEF CountInv
<1> QED BY <1>1, <1>11, <1>12, <1>13, <1>14, <1>15 DEF CountInv

LEMMA SeedCounted ==
    ASSUME AnswerInv
    PROVE  Cardinality(Seeds) \in Nat
<1>1. IsFiniteSet(seed)
    <2>1. seed = {} \/ \E s : seed = {s}
        BY DEF AnswerInv
    <2> QED BY <2>1, FS_EmptySet, FS_Singleton, ZenonT(30)
<1>2. IsFiniteSet(Seeds)
    BY <1>1, FS_Subset DEF Seeds
<1> QED BY <1>2, FS_CardinalityType

LEMMA ReadOwnConstantsCounts ==
    ASSUME AnswerInv, CacheInv, CountInv, NEW asked \in Queries, ReadOwnConstants(asked)
    PROVE  CountInv'
<1> DEFINE answer == Freeze(asked, programs[Self].passes, FALSE)
<1>1. /\ NormalizedConstants(asked) /\ Remember(answer)
      /\ UNCHANGED <<owner, programs, revision, derived, seed>>
    BY DEF ReadOwnConstants
<1>2. revision \in Nat /\ owner # Canonical /\ asked = {"constants"} /\ programs[Self].readOnly
    BY <1>1, QueryFacts DEF AnswerInv, NormalizedConstants
<1>3. answer \in Truth
    <2>1. Self \in 1 .. Len(programs)
        BY DEF CacheInv, ProgramsAreRecords
    <2>2. programs[Self].passes
              = FinishView(BaseSnapshot(COMMON_FACT_DOMAINS), programs[Self].profile)
        BY <1>2, <2>1 DEF CacheInv, ViewsAreFinished
    <2>3. programs[Self].passes \in Settled /\ programs[Self].passes \in Seq(Passes)
        BY <2>2, ViewType
    <2> QED BY <1>2, <2>3 DEF Truth, ValueFacts, Freeze, FactDomain
<1>4. ~answer.aliases /\ answer.revision = revision
    BY DEF Freeze
<1> HIDE DEF answer
<1>5. ToSet(cache') = {c \in ToSet(cache) : c.revision = revision} \cup {answer}
    BY <1>1, <1>3, RememberSet
<1>6. Kept(ToSet(cache))' = Kept(ToSet(cache))
    BY <1>1, <1>4, <1>5, KeptAfter, KeptSame
<1>7. Built' = Built /\ Views' = Views /\ Seeds' = Seeds
    BY <1>1 DEF Built, Views, Seeds
<1>8. \A c \in ToSet(cache') : c.revision <= revision'
    BY <1>1, <1>2, <1>4, <1>5
<1>9. Seeds' # {} =>
          \E c \in ToSet(cache') : c.revision = revision' /\ c.domains = COMMON_FACT_DOMAINS
    BY <1>1, <1>5, <1>7 DEF CountInv
<1> QED BY <1>1, <1>6, <1>7, <1>8, <1>9 DEF CountInv

LEMMA NothingCounted ==
    ASSUME CountInv, UNCHANGED <<owner, programs, revision, cache, derived, seed>>
    PROVE  CountInv'
<1>1. Built' = Built /\ Views' = Views /\ Seeds' = Seeds
    BY DEF Built, Views, Seeds
<1>2. Kept(ToSet(cache))' = Kept(ToSet(cache))
    BY KeptAfter
<1> QED BY <1>1, <1>2 DEF CountInv

\* What a view adds to the cache is common.
LEMMA ViewFactsCount ==
    ASSUME AnswerInv, CountInv, UNCHANGED <<owner, revision>>,
           SetDefaultFacts(Freeze(COMMON_FACT_DOMAINS, BaseSnapshot(COMMON_FACT_DOMAINS), TRUE))
    PROVE  /\ Kept(ToSet(cache))' = Kept(ToSet(cache))
           /\ \A c \in ToSet(cache') : c.revision <= revision'
<1> DEFINE a == Freeze(COMMON_FACT_DOMAINS, BaseSnapshot(COMMON_FACT_DOMAINS), TRUE)
           now == {c \in ToSet(cache) : c.revision = revision}
<1>1. revision \in Nat
    BY DEF AnswerInv
<1>2. a \in Truth
    BY <1>1, CommonTells
<1>3. a.domains = COMMON_FACT_DOMAINS /\ a.revision = revision
    BY DEF Freeze
<1> HIDE DEF a
<1>4. ToSet(cache') = now \/ ToSet(cache') = now \cup {a}
    BY <1>2, SetDefaultSet DEF a
<1>5. Kept(ToSet(cache))' = Kept(ToSet(cache))
    BY <1>3, <1>4, CommonIsCommon, KeptAfter, KeptSame
<1> QED BY <1>1, <1>3, <1>4, <1>5

\* A seed becomes a view: one less, one more.
LEMMA FinishSeedCounts ==
    ASSUME AnswerInv, CacheInv, CountInv, NEW profile \in DerivedProfile, FinishSeed(profile)
    PROVE  CountInv'
<1>1. PICK s \in seed :
          /\ s.revision = revision
          /\ ~HasView(profile)
          /\ programs' = [programs EXCEPT ![s.program]
                             = View(programs[s.program].passes, profile)]
          /\ Enlist(profile, s.program)
          /\ SetDefaultFacts(Freeze(COMMON_FACT_DOMAINS, programs[s.program].passes, TRUE))
          /\ seed' = {}
          /\ UNCHANGED <<owner, revision, given>>
    BY DEF FinishSeed, Seeds
<1>2. programs[s.program].passes = BaseSnapshot(COMMON_FACT_DOMAINS)
    BY DEF CacheInv, SeedsArePrivate
<1>3. s.program \in 2 .. Len(programs) /\ revision \in Nat
    BY DEF AnswerInv, Seed
<1> DEFINE p == View(BaseSnapshot(COMMON_FACT_DOMAINS), profile)
           v == [revision |-> revision, profile |-> profile, program |-> s.program]
<1>4. p.revision = revision /\ v.revision = revision /\ v.profile = profile
    BY DEF View
<1>5. programs' = [programs EXCEPT ![s.program] = p]
    BY <1>1, <1>2
<1>6. derived' = Views \cup {v}
    BY <1>1 DEF Enlist, Views
<1> HIDE DEF p, v
<1>7. programs \in Seq(Program) /\ p \in Program
    <2>1. <<>> \in Seq(Passes)
        OBVIOUS
    <2> QED BY <1>3, <2>1, NewProgramTypes DEF AnswerInv, p
<1>8. /\ Len(programs') = Len(programs) /\ programs'[s.program] = p
      /\ \A o \in 1 .. Len(programs) : o # s.program => programs'[o] = programs[o]
    <2> HIDE DEF Program
    <2> QED BY <1>3, <1>5, <1>7
<1>9. Built' = Built
    <2>1. programs[s.program].revision = revision
        BY <1>1 DEF CountInv
    <2>2. \A o \in 2 .. Len(programs) : programs'[o].revision = programs[o].revision
        BY <1>4, <1>8, <2>1
    <2> QED BY <1>1, <1>8, <2>2 DEF Built
<1>10. Views' = Views \cup {v} /\ v \notin Views
    <2>1. v \notin derived
        BY <1>1, <1>4 DEF HasView
    <2> QED BY <1>1, <1>4, <1>6, <2>1 DEF Views
<1>11. Seeds = {s} /\ Seeds' = {}
    BY <1>1 DEF AnswerInv, Seeds
<1>12. /\ Kept(ToSet(cache))' = Kept(ToSet(cache))
       /\ \A c \in ToSet(cache') : c.revision <= revision'
    BY <1>1, <1>2, ViewFactsCount
<1>13. IsFiniteSet(Views) /\ IsFiniteSet(Views')
    BY <1>10, CountsAreFinite, OneElementMore DEF CountInv
<1>14. Cardinality(Built')
           = Cardinality(Views') + Cardinality(Seeds') + Cardinality(Kept(ToSet(cache))')
    <2>1. Cardinality(Views') = Cardinality(Views) + 1
        BY <1>10, <1>13, OneElementMore
    <2>2. Cardinality(Seeds) = 1 /\ Cardinality(Seeds') = 0
        BY <1>11, FS_EmptySet, FS_Singleton
    <2>3. /\ Cardinality(Built) \in Nat /\ Cardinality(Views) \in Nat
          /\ Cardinality(Kept(ToSet(cache))) \in Nat
        BY CountsAreFinite DEF CountInv
    <2>4. Cardinality(Built)
              = Cardinality(Views) + Cardinality(Seeds) + Cardinality(Kept(ToSet(cache)))
        BY DEF CountInv
    <2> QED BY <1>9, <1>12, <2>1, <2>2, <2>3, <2>4
<1>15. \A o \in 2 .. Len(programs') : programs'[o].revision <= revision'
    BY <1>1, <1>3, <1>4, <1>8 DEF CountInv
<1>16. IsFiniteSet(derived')
    BY <1>6, <1>10, <1>13
<1> QED BY <1>1, <1>11, <1>12, <1>14, <1>15, <1>16 DEF CountInv

LEMMA BuildViewCounts ==
    ASSUME AnswerInv, CountInv, NEW profile \in DerivedProfile, BuildView(profile)
    PROVE  CountInv'
<1> DEFINE snapshot == BaseSnapshot(COMMON_FACT_DOMAINS)
           p == View(snapshot, profile)
           v == [revision |-> revision, profile |-> profile, program |-> Len(programs) + 1]
<1>1. /\ ~HasView(profile) /\ Seeds = {} /\ seed' = {}
      /\ Len(programs) < MaxPrograms
      /\ programs' = Append(programs, p)
      /\ derived' = Views \cup {v}
      /\ SetDefaultFacts(Freeze(COMMON_FACT_DOMAINS, snapshot, TRUE))
      /\ UNCHANGED <<owner, revision, given>>
    BY DEF BuildView, Enlist, Views
<1>2. revision \in Nat
    BY DEF AnswerInv
<1>3. p \in Program
    <2>1. <<>> \in Seq(Passes)
        OBVIOUS
    <2> QED BY <1>2, <2>1, NewProgramTypes
<1>4. p.revision = revision /\ v.revision = revision /\ v.profile = profile
    BY DEF View
<1>5. /\ Kept(ToSet(cache))' = Kept(ToSet(cache))
      /\ \A c \in ToSet(cache') : c.revision <= revision'
    BY <1>1, ViewFactsCount
<1> HIDE DEF snapshot, p, v
<1>6. /\ Len(programs') = Len(programs) + 1 /\ Len(programs) \in Nat
      /\ \A o \in 1 .. Len(programs) : programs'[o] = programs[o]
      /\ programs'[Len(programs) + 1] = p
      /\ Len(programs) \in 1 .. MaxPrograms
    BY <1>1, <1>3, BuildType DEF AnswerInv
<1>7. Built' = Built \cup {Len(programs) + 1} /\ Len(programs) + 1 \notin Built
    BY <1>1, <1>4, <1>6 DEF Built
<1>8. Views' = Views \cup {v} /\ v \notin Views
    <2>1. v \notin derived
        BY <1>1, <1>4 DEF HasView
    <2> QED BY <1>1, <1>4, <2>1 DEF Views
<1>9. Seeds' = {}
    BY <1>1 DEF Seeds
<1>10. IsFiniteSet(Views) /\ IsFiniteSet(Views')
    BY <1>8, CountsAreFinite, OneElementMore DEF CountInv
<1>11. Cardinality(Built')
           = Cardinality(Views') + Cardinality(Seeds') + Cardinality(Kept(ToSet(cache))')
    <2>1. Cardinality(Views') = Cardinality(Views) + 1
        BY <1>8, <1>10, OneElementMore
    <2>2. Cardinality(Built') = Cardinality(Built) + 1
        BY <1>7, CountsAreFinite, OneElementMore DEF CountInv
    <2>3. Cardinality(Seeds) = 0 /\ Cardinality(Seeds') = 0
        BY <1>1, <1>9, FS_EmptySet
    <2>4. /\ Cardinality(Built) \in Nat /\ Cardinality(Views) \in Nat
          /\ Cardinality(Kept(ToSet(cache))) \in Nat
        BY CountsAreFinite DEF CountInv
    <2>5. Cardinality(Built)
              = Cardinality(Views) + Cardinality(Seeds) + Cardinality(Kept(ToSet(cache)))
        BY DEF CountInv
    <2> QED BY <1>5, <2>1, <2>2, <2>3, <2>4, <2>5
<1>12. \A o \in 2 .. Len(programs') : programs'[o].revision <= revision'
    BY <1>1, <1>2, <1>4, <1>6 DEF CountInv
<1>13. IsFiniteSet(derived')
    BY <1>1, <1>8, <1>10
<1> QED BY <1>1, <1>5, <1>9, <1>11, <1>12, <1>13 DEF CountInv

\* A new revision has no program but self.prog, and no view, seed or facts yet.
LEMMA AnnotateCounts ==
    ASSUME AnswerInv, CountInv, NEW q \in Annotations, Annotate(q)
    PROVE  CountInv'
<1>1. UNCHANGED <<owner, cache, derived, seed>>
    BY DEF Annotate
<1>2. revision \in Nat /\ revision' \in Nat /\ revision <= revision'
    BY AnnotateKeeps DEF AnswerInv
<1>3. /\ Len(programs') = Len(programs)
      /\ \A o \in 2 .. Len(programs) : programs'[o] = programs[o]
    <2>1. programs' = [programs EXCEPT ![Self].passes = Run(programs[Self].passes, q)]
        BY DEF Annotate
    <2>2. programs \in Seq(Program) /\ Self \in 1 .. Len(programs)
        BY DEF AnswerInv, Self
    <2>3. \A o \in 2 .. Len(programs) : o \in 1 .. Len(programs) /\ o # Self
        BY DEF Self
    <2>4. DOMAIN programs' = DOMAIN programs
        BY <2>1
    <2>5. programs' \in Seq(Program)
        BY AnnotateKeeps DEF AnswerInv
    <2> HIDE DEF Program
    <2>6. Len(programs') = Len(programs)
        BY <2>2, <2>4, <2>5, LenProperties
    <2> QED BY <2>1, <2>2, <2>3, <2>6
<1>4. \A o \in 2 .. Len(programs) : programs[o].revision \in Nat
    <2>1. programs \in Seq(Program)
        BY DEF AnswerInv
    <2>2. \A o \in 1 .. Len(programs) : programs[o] \in Program
        <3> HIDE DEF Program
        <3> QED BY <2>1
    <2> QED BY <2>2 DEF Program
<1>5. \A c \in ToSet(cache) : c.revision \in Nat
    <2>1. cache \in Seq(Truth)
        BY DEF AnswerInv
    <2>2. ToSet(cache) \subseteq Truth
        BY <2>1, ToSetFacts
    <2> QED BY <2>2 DEF Truth, ValueFacts
<1>6. \A v \in derived \cup seed : v.revision \in 0 .. revision
    BY DEF AnswerInv, Entry, Seed
<1>7. CASE revision' = revision
    <2>1. Built' = Built /\ Views' = Views /\ Seeds' = Seeds
        BY <1>1, <1>3, <1>7 DEF Built, Views, Seeds
    <2>2. Kept(ToSet(cache))' = Kept(ToSet(cache))
        BY <1>1, <1>7, KeptAfter
    <2>3. \A s \in seed : s.program \in 2 .. Len(programs)
        BY DEF AnswerInv, Seed
    <2> QED BY <1>1, <1>3, <1>7, <2>1, <2>2, <2>3 DEF CountInv
<1>8. CASE revision' # revision
    <2>1. revision < revision'
        BY <1>2, <1>8
    <2>2. Built' = {} /\ Views' = {} /\ Seeds' = {} /\ Kept(ToSet(cache))' = {}
        <3>1. \A o \in 2 .. Len(programs') : programs'[o].revision # revision'
            BY <1>2, <1>3, <1>4, <2>1 DEF CountInv
        <3>2. \A c \in ToSet(cache') : c.revision # revision'
            BY <1>1, <1>2, <1>5, <2>1 DEF CountInv
        <3>3. \A v \in derived' \cup seed' : v.revision # revision'
            BY <1>1, <1>2, <1>6, <2>1
        <3> QED BY <3>1, <3>2, <3>3 DEF Built, Views, Seeds, Kept
    <2>3. Cardinality(Built')
              = Cardinality(Views') + Cardinality(Seeds') + Cardinality(Kept(ToSet(cache))')
        BY <2>2, FS_EmptySet
    <2>4. \A o \in 2 .. Len(programs') : programs'[o].revision <= revision'
        BY <1>2, <1>3, <1>4 DEF CountInv
    <2>5. \A c \in ToSet(cache') : c.revision <= revision'
        BY <1>1, <1>2, <1>5 DEF CountInv
    <2>6. \A s \in seed' : programs'[s.program].revision = s.revision
        <3>1. \A s \in seed : s.program \in 2 .. Len(programs)
            BY DEF AnswerInv, Seed
        <3> QED BY <1>1, <1>3, <3>1 DEF CountInv
    <2> QED BY <1>1, <2>2, <2>3, <2>4, <2>5, <2>6 DEF CountInv
<1> QED BY <1>7, <1>8

LEMMA CountStep == AnswerInv /\ CacheInv /\ CountInv /\ [Next]_vars => CountInv'
<1> SUFFICES ASSUME AnswerInv, CacheInv, CountInv, [Next]_vars PROVE CountInv'
    OBVIOUS
<1>1. CASE \E asked \in Queries : Facts(asked)
    <2> PICK asked \in Queries : Facts(asked)
        BY <1>1
    <2>1. CASE AnswerFromCache(asked)
        BY <2>1, NothingCounted DEF AnswerFromCache
    <2> QED BY <2>1, BuildCommonFactsCounts, BuildFactsCounts, ReadOwnConstantsCounts DEF Facts
<1>2. CASE \E profile \in DerivedProfile : Derived(profile)
    BY <1>2, FinishSeedCounts, BuildViewCounts DEF Derived
<1>3. CASE \E q \in Annotations : Annotate(q)
    BY <1>3, AnnotateCounts
<1>4. CASE UNCHANGED vars
    BY <1>4, NothingCounted DEF vars
<1> QED BY <1>1, <1>2, <1>3, <1>4 DEF Next

(* The programs built at a revision are as many as the views, the seed and the facts of
   other domains that the cache has of it: none was built in vain, in any order of
   queries. *)
THEOREM ProgramsPayOff == Spec => []NoProgramIsWasted
<1>1. Spec => []CountInv
    BY CountInit, CountStep, AnswerInductive, CacheInductive, PTL DEF Spec
<1>2. CountInv => NoProgramIsWasted
    BY DEF CountInv, NoProgramIsWasted, Built, Views, Kept
<1> QED BY <1>1, <1>2, PTL

=============================================================================
