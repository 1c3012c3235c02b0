------------------------ MODULE MCAnalysisContext ------------------------
(***************************************************************************)
(* Instances of AnalysisContext for TLC: the canonical program and every    *)
(* view as the program of the context.                                      *)
(***************************************************************************)
EXTENDS AnalysisContext

AllOwners == DerivedProfile \cup {Canonical}

\* What the callers of facts() ask: constants (the detectors), with ranges (the
\* path predicates), with byte lengths (the budget), one domain (the views of
\* viz/catalog.py) or everything (the default).
AskedQueries ==
    {{d} : d \in FactDomain}
    \cup {{"constants", "ranges"}, {"constants", "byte_lengths"}, FactDomain}
=============================================================================
