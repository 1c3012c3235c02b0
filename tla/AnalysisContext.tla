-------------------------- MODULE AnalysisContext --------------------------
(***************************************************************************)
(* analysis/context.py: the cache of value facts and derived views that     *)
(* every consumer of an SSA program shares, with the annotation passes of   *)
(* ssa/program.py that change a program and its revision.                   *)
(*                                                                          *)
(* A program is its history: the passes run on it since it was rebuilt from *)
(* the parsed graph.  Passes are functions of what they read, so programs   *)
(* of one history are equal, and what a history says of a field is the      *)
(* slice of it that can reach the field.                                    *)
(***************************************************************************)
EXTENDS Naturals, FiniteSets, Sequences, SequencesExt

CONSTANTS Owners,       \* what the program of the context may be
          Queries,      \* the sets of domains consumers ask for
          MaxRevision,  \* bounds: no pass is called at this revision or later,
          MaxPrograms,  \* so many programs, so many answers
          MaxAnswers

\* The derived profile of a program that has none.
Canonical == "canonical"

FactDomain == {"constants", "ranges", "byte_lengths", "bigint_ranges"}

DerivedProfile == {"value", "guarded", "presentation"}

ASSUME ConstantsAssumption ==
    /\ Owners \subseteq DerivedProfile \cup {Canonical}
    /\ Queries \subseteq (SUBSET FactDomain) \ {{}}
    /\ MaxRevision \in Nat /\ MaxPrograms \in Nat \ {0} /\ MaxAnswers \in Nat

COMMON_FACT_DOMAINS == {"constants", "ranges"}

-----------------------------------------------------------------------------
(***************************************************************************)
(* Passes: what each reads and writes of a program.  "operands" stands for  *)
(* the inputs of assignments and phis, and for what is derived from them.   *)
(***************************************************************************)
Annotations == {"constants", "scratch_constants", "ranges",
                "range_arithmetic", "byte_lengths", "bytemath_ranges"}

Rewrites == {"inputs", "scratch_values", "stack_shuffles", "cleanup"}

Passes == Annotations \cup Rewrites \cup {"assert_ranges"}

Fields == {"operands", "const", "range", "type"}

Touches(reads, writes) == [reads |-> reads, writes |-> writes]

PropagateConstants        == Touches({"operands", "const"}, {"const"})
PropagateScratchConstants == Touches({"operands", "const"}, {"const"})
PropagateRanges           == Touches({"operands", "range", "type"}, {"range", "type"})
PropagateRangeArithmetic  == Touches(Fields, {"range", "type"})
PropagateByteLengths      == Touches({"operands", "const", "type"}, {"type"})
PropagateBytemathRanges   == Touches(Fields, {"range", "type"})
PropagateAssertRanges     == Touches(Fields, {"range", "type"})
PropagateInputs           == Touches({"operands", "const"}, {"operands"})
PropagateScratchValues    == Touches({"operands", "const"}, {"operands"})
PropagateStackShuffles    == Touches({"operands"}, {"operands"})
CleanupUnusedSsavars      == Touches({"operands"}, {"operands"})

Effect == [constants         |-> PropagateConstants,
           scratch_constants |-> PropagateScratchConstants,
           ranges            |-> PropagateRanges,
           range_arithmetic  |-> PropagateRangeArithmetic,
           byte_lengths      |-> PropagateByteLengths,
           bytemath_ranges   |-> PropagateBytemathRanges,
           assert_ranges     |-> PropagateAssertRanges,
           inputs            |-> PropagateInputs,
           scratch_values    |-> PropagateScratchValues,
           stack_shuffles    |-> PropagateStackShuffles,
           cleanup           |-> CleanupUnusedSsavars]

Keep(s, p) == IF Effect[p].writes \cap s.fields = {} THEN s
              ELSE [fields |-> s.fields \cup Effect[p].reads,
                    kept   |-> <<p>> \o s.kept]

\* The passes of a history that can reach one of the fields, in their order, found
\* from the last pass backwards.
Slice(passes, fields) ==
    LET last[n \in 0 .. Len(passes)] ==
            IF n = 0 THEN [fields |-> fields, kept |-> <<>>]
            ELSE Keep(last[n - 1], passes[Len(passes) + 1 - n])
    IN last[Len(passes)].kept

\* propagate_* of SSAProgram: these return at once when they are done ...
Once == {"constants", "scratch_constants", "ranges"}

\* ... and these run others first, unless those are done.
Needs(p) ==
    CASE p \in {"scratch_constants", "byte_lengths"} -> {"constants"}
      [] p = "range_arithmetic"                      -> {"ranges"}
      [] p = "bytemath_ranges"                       -> {"constants", "ranges"}
      [] OTHER                                       -> {}

Unless(passes, q) == IF Contains(passes, q) THEN <<>> ELSE <<q>>

Missing(passes, p) ==
    (IF "constants" \in Needs(p) THEN Unless(passes, "constants") ELSE <<>>)
    \o (IF "ranges" \in Needs(p) THEN Unless(passes, "ranges") ELSE <<>>)

Run(passes, p) ==
    IF p \in Once /\ Contains(passes, p) THEN passes
    ELSE Append(passes \o Missing(passes, p), p)

RunAll(passes, list) ==
    LET after[n \in 0 .. Len(list)] ==
            IF n = 0 THEN passes ELSE Run(after[n - 1], list[n])
    IN after[Len(list)]

-----------------------------------------------------------------------------
(***************************************************************************)
(* The programs the context builds, each from a copy of the parsed graph.   *)
(***************************************************************************)
\* Mutant: scratch loads are resolved only for those who ask for ranges.
BaseSnapshotScratchWithRanges(domains) ==
    RunAll(<<>>,
           <<"constants">>
           \o (IF domains \cap {"ranges", "bigint_ranges"} = {} THEN <<>>
               ELSE <<"scratch_constants", "ranges", "range_arithmetic">>)
           \o (IF "byte_lengths" \in domains THEN <<"byte_lengths">> ELSE <<>>)
           \o (IF "bigint_ranges" \in domains THEN <<"bytemath_ranges">> ELSE <<>>))

BaseSnapshot(domains) ==
    RunAll(<<>>,
           <<"constants", "scratch_constants">>
           \o (IF domains \cap {"ranges", "bigint_ranges"} = {} THEN <<>>
               ELSE <<"ranges", "range_arithmetic">>)
           \o (IF "byte_lengths" \in domains THEN <<"byte_lengths">> ELSE <<>>)
           \o (IF "bigint_ranges" \in domains THEN <<"bytemath_ranges">> ELSE <<>>))

NormalizeValueProgram(passes) ==
    RunAll(passes, <<"inputs", "scratch_values", "stack_shuffles", "range_arithmetic">>)

\* The tail of _build_derived_program, after the facts were frozen.
FinishView(passes, profile) ==
    RunAll(NormalizeValueProgram(passes),
           (IF profile = "value" THEN <<>> ELSE <<"assert_ranges">>)
           \o <<"byte_lengths", "bytemath_ranges">>
           \o (IF profile = "presentation" THEN <<"cleanup">> ELSE <<>>))

VARIABLES owner,     \* "canonical", or the profile of the view that is self.prog
          programs,  \* self.prog, then every program built for it, in order
          revision,  \* self.prog._revision
          cache,     \* _cache: the ValueFacts kept, in insertion order
          derived,   \* _derived
          seed,      \* _value_seed: at most one program, with its revision
          given      \* the answers consumers got, with what they asked

vars == <<owner, programs, revision, cache, derived, seed, given>>

Self == 1

Program == [passes : Seq(Passes), profile : DerivedProfile \cup {Canonical},
            readOnly : BOOLEAN, revision : Nat]

\* ValueFacts: frozen when built; its key in _cache is its revision and domains.
ValueFacts == [revision : Nat, domains : SUBSET FactDomain,
               passes : Seq(Passes), aliases : BOOLEAN]

Freeze(domains, passes, aliases) ==
    [revision |-> revision, domains |-> domains, passes |-> passes, aliases |-> aliases]

Private(passes) == [passes |-> passes, profile |-> Canonical,
                    readOnly |-> FALSE, revision |-> revision]

View(passes, profile) == [passes |-> FinishView(passes, profile), profile |-> profile,
                          readOnly |-> TRUE, revision |-> revision]

\* The entries of the current revision, in their order.
OfRevision(entries) ==
    LET kept[n \in 0 .. Len(entries)] ==
            IF n = 0 THEN <<>>
            ELSE IF entries[n].revision = revision THEN Append(kept[n - 1], entries[n])
            ELSE kept[n - 1]
    IN kept[Len(entries)]

Init ==
    /\ owner \in Owners
    /\ revision = 0
    /\ programs = <<IF owner = Canonical THEN Private(<<>>)
                    ELSE View(BaseSnapshot(COMMON_FACT_DOMAINS), owner)>>
    /\ cache = <<>>
    /\ derived = {}
    /\ seed = {}
    /\ given = {}

-----------------------------------------------------------------------------
(***************************************************************************)
(* AnalysisContext.facts                                                    *)
(***************************************************************************)
\* Mutant: a superset answers whatever its revision.
CoversAtAnyRevision(c, asked) == asked \subseteq c.domains

Covers(c, asked) == c.revision = revision /\ asked \subseteq c.domains

Covering(asked) == {i \in 1 .. Len(cache) : Covers(cache[i], asked)}

\* Where the answer to a query is: at its own key, else at the first superset.
Hits(asked) ==
    LET exact == {i \in Covering(asked) : cache[i].domains = asked}
    IN IF exact # {} THEN exact
       ELSE {i \in Covering(asked) : \A j \in Covering(asked) : i <= j}

\* Mutant: a derived view answers with its own ranges too.
NormalizedCommonFacts(asked) == owner # Canonical /\ asked \subseteq COMMON_FACT_DOMAINS

\* A derived view answers a query for constants alone from its own values.
NormalizedConstants(asked) == owner # Canonical /\ asked \subseteq {"constants"}

Common(asked) == asked \subseteq COMMON_FACT_DOMAINS /\ ~NormalizedConstants(asked)

Give(asked, answer) ==
    /\ Cardinality(given) < MaxAnswers
    /\ given' = given \cup {[asked |-> asked, revision |-> revision, answer |-> answer]}

Remember(answer) == cache' = Append(OfRevision(cache), answer)

AnswerFromCache(asked) ==
    /\ \E i \in Hits(asked) : Give(asked, cache[i])
    /\ UNCHANGED <<owner, programs, revision, cache, derived, seed>>

\* Mutant: what is kept as the seed is the program of the context, not its copy.
BuildCommonFactsInPlace(asked) ==
    LET snapshot == BaseSnapshot(COMMON_FACT_DOMAINS)
        answer   == Freeze(COMMON_FACT_DOMAINS, snapshot, TRUE)
    IN /\ Hits(asked) = {}
       /\ Common(asked)
       /\ Len(programs) < MaxPrograms
       /\ programs' = Append(programs, Private(snapshot))
       /\ seed' = {[revision |-> revision, program |-> Self]}
       /\ Remember(answer)
       /\ Give(asked, answer)
       /\ UNCHANGED <<owner, revision, derived>>

\* Constants and ranges are built together, and their program is kept as seed.
BuildCommonFacts(asked) ==
    LET snapshot == BaseSnapshot(COMMON_FACT_DOMAINS)
        answer   == Freeze(COMMON_FACT_DOMAINS, snapshot, TRUE)
    IN /\ Hits(asked) = {}
       /\ Common(asked)
       /\ Len(programs) < MaxPrograms
       /\ programs' = Append(programs, Private(snapshot))
       /\ seed' = {[revision |-> revision, program |-> Len(programs) + 1]}
       /\ Remember(answer)
       /\ Give(asked, answer)
       /\ UNCHANGED <<owner, revision, derived>>

\* ValueFacts.build: any other set of domains, from a snapshot nobody keeps.
BuildFacts(asked) ==
    LET snapshot == BaseSnapshot(asked)
        answer   == Freeze(asked, snapshot, TRUE)
    IN /\ Hits(asked) = {}
       /\ ~Common(asked) /\ ~NormalizedConstants(asked)
       /\ Len(programs) < MaxPrograms
       /\ programs' = Append(programs, Private(snapshot))
       /\ Remember(answer)
       /\ Give(asked, answer)
       /\ UNCHANGED <<owner, revision, derived, seed>>

\* ValueFacts.build on a derived view.
ReadOwnConstants(asked) ==
    LET answer == Freeze(asked, programs[Self].passes, FALSE)
    IN /\ Hits(asked) = {}
       /\ NormalizedConstants(asked)
       /\ Remember(answer)
       /\ Give(asked, answer)
       /\ UNCHANGED <<owner, programs, revision, derived, seed>>

Facts(asked) == \/ AnswerFromCache(asked)
                \/ BuildCommonFacts(asked)
                \/ BuildFacts(asked)
                \/ ReadOwnConstants(asked)

-----------------------------------------------------------------------------
(***************************************************************************)
(* AnalysisContext.derived; a cached view is returned and changes nothing.  *)
(***************************************************************************)
HasView(profile) ==
    \/ owner = profile
    \/ \E v \in derived : v.revision = revision /\ v.profile = profile

\* The seed a view may start from; whatever its revision, it is gone afterwards.
Seeds == {s \in seed : s.revision = revision}

\* The facts frozen before the rewrites are cached, unless they already are.
SetDefaultFacts(answer) ==
    cache' = IF \E i \in 1 .. Len(cache) : /\ cache[i].revision = revision
                                           /\ cache[i].domains = answer.domains
             THEN OfRevision(cache)
             ELSE Append(OfRevision(cache), answer)

Enlist(profile, program) ==
    derived' = {v \in derived : v.revision = revision}
               \cup {[revision |-> revision, profile |-> profile, program |-> program]}

\* Mutant: the seed stays when a view has been made of it.
FinishSeedAndKeepIt(profile) ==
    \E s \in Seeds :
        /\ ~HasView(profile)
        /\ programs' = [programs EXCEPT ![s.program] = View(@.passes, profile)]
        /\ Enlist(profile, s.program)
        /\ SetDefaultFacts(Freeze(COMMON_FACT_DOMAINS, programs[s.program].passes, TRUE))
        /\ UNCHANGED <<owner, revision, seed, given>>

FinishSeed(profile) ==
    \E s \in Seeds :
        /\ ~HasView(profile)
        /\ programs' = [programs EXCEPT ![s.program] = View(@.passes, profile)]
        /\ Enlist(profile, s.program)
        /\ SetDefaultFacts(Freeze(COMMON_FACT_DOMAINS, programs[s.program].passes, TRUE))
        /\ seed' = {}
        /\ UNCHANGED <<owner, revision, given>>

\* Mutant: a view is built from nothing although there is a seed.
BuildViewDespiteSeed(profile) ==
    LET snapshot == BaseSnapshot(COMMON_FACT_DOMAINS)
    IN /\ ~HasView(profile)
       /\ Len(programs) < MaxPrograms
       /\ programs' = Append(programs, View(snapshot, profile))
       /\ Enlist(profile, Len(programs) + 1)
       /\ SetDefaultFacts(Freeze(COMMON_FACT_DOMAINS, snapshot, TRUE))
       /\ seed' = {}
       /\ UNCHANGED <<owner, revision, given>>

BuildView(profile) ==
    LET snapshot == BaseSnapshot(COMMON_FACT_DOMAINS)
    IN /\ ~HasView(profile)
       /\ Seeds = {}
       /\ Len(programs) < MaxPrograms
       /\ programs' = Append(programs, View(snapshot, profile))
       /\ Enlist(profile, Len(programs) + 1)
       /\ SetDefaultFacts(Freeze(COMMON_FACT_DOMAINS, snapshot, TRUE))
       /\ seed' = {}
       /\ UNCHANGED <<owner, revision, given>>

Derived(profile) == FinishSeed(profile) \/ BuildView(profile)

-----------------------------------------------------------------------------
(***************************************************************************)
(* The annotation passes of SSAProgram, called by a consumer.               *)
(***************************************************************************)
Done(program, p) == Contains(program.passes, p)

\* On self.prog, when it may be changed: passes that did something are counted.
Annotate(p) ==
    LET before == programs[Self].passes
    IN /\ ~programs[Self].readOnly
       /\ revision < MaxRevision
       /\ Run(before, p) # before
       /\ \E changed \in IF p \in Once THEN {TRUE} ELSE BOOLEAN :
             /\ changed \/ ~Done(programs[Self], p)
             /\ revision' = revision + Len(Missing(before, p)) + (IF changed THEN 1 ELSE 0)
       /\ programs' = [programs EXCEPT ![Self].passes = Run(before, p)]
       /\ UNCHANGED <<owner, cache, derived, seed, given>>

Next == \/ \E asked \in Queries : Facts(asked)
        \/ \E profile \in DerivedProfile : Derived(profile)
        \/ \E p \in Annotations : Annotate(p)

Spec == Init /\ [][Next]_vars

-----------------------------------------------------------------------------
TypeOK ==
    /\ owner \in Owners
    /\ programs \in Seq(Program) /\ Len(programs) \in 1 .. MaxPrograms
    /\ revision \in Nat
    /\ cache \in Seq(ValueFacts)
    /\ derived \subseteq [revision : 0 .. revision, profile : DerivedProfile,
                          program : 2 .. Len(programs)]
    /\ seed \subseteq [revision : 0 .. revision, program : 2 .. Len(programs)]
    /\ Cardinality(seed) <= 1
    /\ given \subseteq [asked : Queries, revision : 0 .. revision, answer : ValueFacts]

\* The field of a program each domain of an answer reports.
Reported(domains) ==
    (IF "constants" \in domains THEN {"const"} ELSE {})
    \cup (IF "ranges" \in domains THEN {"range"} ELSE {})
    \cup (IF domains \cap {"byte_lengths", "bigint_ranges"} = {} THEN {} ELSE {"type"})

Said(answer, domains) == Slice(answer.passes, Reported(domains))

(* An answer is about the program as it is when asked, and about everything
   that was asked: facts() of AnalysisContext, whatever revisions, evictions
   and supersets were before. *)
AnswersAreCurrent ==
    \A g \in given : /\ g.answer.revision = g.revision
                     /\ g.asked \subseteq g.answer.domains

(* "ValueFacts are unconditional unless range_at() is requested" and keep "the
   canonical, pre-rewrite semantics" (context.py:98-99, 327-329): nothing an
   answer reports was reached by an assert or by an identity rewrite, also when
   the program is a guarded view or its snapshot went on to become one. *)
FactsAreUnconditional ==
    \A g \in given :
        ({"assert_ranges"} \cup Rewrites)
            \cap ToSet(Said(g.answer, g.answer.domains)) = {}

(* Two views of one profile are the same program, whether they were finished
   from the seed of a facts query or built from nothing, before or after other
   views, queries and revisions (derived, _build_derived_program). *)
ViewsDependOnProfileOnly ==
    \A i, j \in 1 .. Len(programs) :
        programs[i].readOnly /\ programs[j].readOnly /\ programs[i].profile = programs[j].profile
            => programs[i].passes = programs[j].passes

(* What queries say of constants does not depend on the queries before, nor on
   whether a view reads its own constants or those of a fresh snapshot. *)
ConstantsAgree ==
    \A g, h \in given :
        "constants" \in g.asked \cap h.asked
            => Said(g.answer, {"constants"}) = Said(h.answer, {"constants"})

(* A program is built only when the cache keeps what it was built for: as a
   view, as the seed of the next view, or as the snapshot of facts that are not
   those of a view.  The construction of facts and views of one revision
   shares the least number of snapshots, in any order of queries. *)
NoProgramIsWasted ==
    Cardinality({o \in 2 .. Len(programs) : programs[o].revision = revision})
    = Cardinality({v \in derived : v.revision = revision})
      + Cardinality(Seeds)
      + Cardinality({c \in ToSet(cache) : /\ c.revision = revision
                                          /\ ~Common(c.domains)
                                          /\ c.aliases})

ViewsKept ==
    \A o \in 1 .. Len(programs) : programs[o].readOnly => programs'[o] = programs[o]

(* A view never changes once a consumer may hold it: what becomes of a seed, and
   what passes do to self.prog, never reaches a program that was published. *)
ViewsNeverChange == [][ViewsKept]_vars
=============================================================================
