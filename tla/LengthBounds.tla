---------------------------- MODULE LengthBounds ----------------------------
(***************************************************************************)
(* Byte accesses against the lengths of their buffers: check_bounds        *)
(* (tealtools/dataflow/bounds.py) over the difference constraints of       *)
(* LengthRelations (dataflow/relational.py).  The ranges are those the     *)
(* asserts left (AssertRanges).  A run of the same blocks then performs    *)
(* the accesses, or panics.  The speculative tier is left out.             *)
(***************************************************************************)
EXTENDS AssertRanges, Integers

CONSTANT Tracked    \* what a program reads of known byte_length -> that length

ASSUME TrackedIsLowerBound ==
    \A v \in DOMAIN Tracked :
        /\ v \in Leaves /\ Makes[v].op = "read"
        /\ Tracked[v] \in Nat /\ \A n \in Readable[v] : Tracked[v] <= n

\* None of it is merged from others.
ASSUME TrackedAreNoPhis ==
    \A p \in Programs : \A b \in DOMAIN p.blocks : \A t \in p.blocks[b].phi :
        t[1] \notin DOMAIN Tracked

VARIABLE verdict    \* access -> [inBounds, provenOob], once checked

boundsVars == <<vars, verdict>>

-----------------------------------------------------------------------------
(* Difference constraints: from - to <= most.  The atoms are the integers, *)
(* the lengths of byte strings and zero.                                   *)

Diff(a, b, c) == [from |-> a, to |-> b, most |-> c]

Origin    == <<"0">>
Number(v) == <<"value", v>>
Length(v) == <<"length", v>>

\* a = b + k
Equal(a, b, k) == {Diff(a, b, k), Diff(b, a, -k)}

Within(a, r) == {Diff(a, Origin, r.hi), Diff(Origin, a, -r.lo)}

IsVar(v) == ~ IsInt(v) /\ v \notin Phis

\* _term: the atom and the offset that make v, unless v is a phi.
Terms(v) ==
    IF v \in Leaves /\ IsInt(v) THEN {[atom |-> Origin, offset |-> Constant(v)]}
    ELSE {[atom |-> Number(w), offset |-> 0] : w \in {v} \ Phis}

\* seed_range
RangeFacts(v) ==
    IF IsVar(v) /\ v \in DOMAIN range THEN Within(Number(v), range[v]) ELSE {}

BufferFactsExact(v) ==
    IF IsLiteral(v) THEN Equal(Length(v), Origin, Constant(v))
    ELSE IF v \in DOMAIN Tracked THEN Equal(Length(v), Origin, Tracked[v])
    ELSE {}

\* seed_buffer: exact for a literal only.
BufferFacts(v) ==
    IF IsLiteral(v) THEN Equal(Length(v), Origin, Constant(v))
    ELSE IF v \in DOMAIN Tracked THEN {Diff(Origin, Length(v), -Tracked[v])}
    ELSE {}

\* _seed_structural, _seed_slice_len: what the operation of v says of v.
StructuralFacts(v) ==
    LET in(i) == Makes[v].ins[i]
        imm   == Makes[v].imm
    IN  CASE Makes[v].op = "len" -> Equal(Number(v), Length(in(1)), 0)
          [] Makes[v].op = "+" ->
                 UNION {Equal(Number(v), Number(in(3 - i)), Constant(in(i))) :
                        i \in {j \in 1..2 : IsInt(in(j)) /\ IsVar(in(3 - j))}}
          [] Makes[v].op = "-" /\ IsInt(in(1)) /\ IsVar(in(2)) ->
                 Equal(Number(v), Number(in(2)), -Constant(in(1)))
          [] Makes[v].op = "-" /\ IsInt(in(2)) /\ IsVar(in(1)) ->
                 {Diff(Number(x), Origin, Constant(in(2))) : x \in {v, in(1)}}
          [] Makes[v].op = "extract3" ->
                 RangeFacts(in(1))
                     \union UNION {Equal(Length(v), t.atom, t.offset) : t \in Terms(in(1))}
          [] Makes[v].op = "substring3" /\ IsInt(in(2)) ->
                 RangeFacts(in(1))
                     \union UNION {Equal(Length(v), t.atom, t.offset - Constant(in(2))) :
                                   t \in Terms(in(1))}
          [] Makes[v].op = "extract" /\ imm[2] = 0 -> Equal(Length(v), Length(in(1)), -imm[1])
          [] Makes[v].op = "extract" /\ imm[2] # 0 -> Equal(Length(v), Origin, imm[2])
          [] Makes[v].op = "substring" -> Equal(Length(v), Origin, imm[2] - imm[1])
          [] OTHER -> {}

-----------------------------------------------------------------------------
(* The accesses.                                                           *)

\* Where v accesses its buffer.
Indices(v) == {Makes[v].ins[i] : i \in 1..(Len(Makes[v].ins) - 1)}

Sites == {v \in Made : Makes[v].op \in ByteOps}

\* _access, _fold: byte base + extra is the last one needed, from one; the base is at
\* most one value, the extra one number unless offset and width are both dynamic.
Access(v) ==
    LET in(i) == Makes[v].ins[i]
        imm   == Makes[v].imm
        To(n)       == [base |-> {}, extra |-> {n}, dynamic |-> FALSE]
        Beyond(w, n) == IF IsInt(w) THEN To(n + Constant(w))
                        ELSE [base |-> {w}, extra |-> {n}, dynamic |-> TRUE]
    IN  CASE Makes[v].op = "extract"        -> To(imm[1] + imm[2])
          [] Makes[v].op = "substring"      -> To(imm[2])
          [] Makes[v].op = "extract3" /\ IsInt(in(1)) -> Beyond(in(2), Constant(in(1)))
          [] Makes[v].op = "extract3" /\ IsInt(in(2)) -> Beyond(in(1), Constant(in(2)))
          [] Makes[v].op = "substring3"     -> Beyond(in(1), 0)
          [] Makes[v].op = "getbyte"        -> Beyond(in(1), 1)
          [] Makes[v].op = "setbyte"        -> Beyond(in(2), 1)
          [] Makes[v].op = "extract_uint16" -> Beyond(in(1), 2)
          [] OTHER                          -> [base |-> {}, extra |-> {}, dynamic |-> TRUE]

\* The facts that hold program-wide, as the code has it: "an SSA def dominates all its
\* uses".
GlobalFacts ==
    (UNION {StructuralFacts(v) : v \in Made})
        \union UNION {BufferFacts(Buffer(v)) \union UNION {RangeFacts(w) : w \in Access(v).base} :
                      v \in Sites}

CmpFactsAllStrict(op, a, b) ==
    CASE op \in {"<", "<="} -> {Diff(a.atom, b.atom, b.offset - a.offset - 1)}
      [] op \in {">", ">="} -> {Diff(b.atom, a.atom, a.offset - b.offset - 1)}
      [] op = "=="          -> Equal(a.atom, b.atom, b.offset - a.offset)
      [] OTHER              -> {}

\* _cmp_edges
CmpFacts(op, a, b) ==
    CASE op = "<"  -> {Diff(a.atom, b.atom, b.offset - a.offset - 1)}
      [] op = "<=" -> {Diff(a.atom, b.atom, b.offset - a.offset)}
      [] op = ">"  -> {Diff(b.atom, a.atom, a.offset - b.offset - 1)}
      [] op = ">=" -> {Diff(b.atom, a.atom, a.offset - b.offset)}
      [] op = "==" -> Equal(a.atom, b.atom, b.offset - a.offset)
      [] OTHER     -> {}

\* _decode: what the assert that ends block g proves.
AssertFacts(g) ==
    LET c == B(g).cond
        d == Def[c]
        Fixedly == {[atom |-> Origin, offset |-> d.k]}
        left  == IF Len(d.args) = 1 /\ d.constFirst THEN Fixedly ELSE Terms(d.args[1])
        right == IF Len(d.args) = 2 THEN Terms(d.args[2])
                 ELSE IF d.constFirst THEN Terms(d.args[1]) ELSE Fixedly
    IN  IF d.op \in CmpOps THEN UNION {CmpFacts(d.op, a, b) : a \in left, b \in right}
        ELSE {Diff(Origin, Number(w), -1) : w \in {c} \ Phis}

\* _graph_for
FactsAt(b) ==
    GlobalFacts \union
        UNION {AssertFacts(g) : g \in {k \in Blocks : B(k).op = "assert" /\ Dominates(k, b)}}

-----------------------------------------------------------------------------
(* What follows from a set of facts.                                       *)

\* DBM.shortest: the least bound the facts give source - x, for each x they bound, after
\* as many rounds as there are atoms, and whether it is final.
Shortest(facts, source) ==
    LET atoms == {source} \union {f.to : f \in facts}
        bound[n \in Nat] ==
            IF n = 0 THEN [x \in {source} |-> 0]
            ELSE LET d == bound[n - 1]
                     found == {[to |-> f.to, most |-> d[f.from] + f.most] :
                                   f \in {g \in facts : g.from \in DOMAIN d}}
                              \union {[to |-> x, most |-> d[x]] : x \in DOMAIN d}
                 IN [x \in {m.to : m \in found} |->
                        MinOf({m.most : m \in {l \in found : l.to = x}})]
        final == bound[Cardinality(atoms)]
    IN  [bound |-> final, consistent |-> bound[Cardinality(atoms) - 1] = final]

\* _entails: a - b <= c
Entails(facts, a, b, c) ==
    IF a = b THEN c >= 0
    ELSE LET s == Shortest(facts, a)
         IN s.consistent /\ b \in DOMAIN s.bound /\ s.bound[b] <= c

MaxUnfolding == 5

\* A slice that reaches to the end of its buffer.
ReachesEnd(v) == IsVar(v) /\ Makes[v].op = "extract" /\ Makes[v].imm[2] = 0

\* The length of slice v, from its operands, is n more than atom at least.
ProvesCut(facts, v, atom, n) ==
    LET in(i) == Makes[v].ins[i]
        imm   == Makes[v].imm
    IN  CASE Makes[v].op = "extract3" ->
                 \E t \in Terms(in(1)) : Entails(facts, atom, t.atom, t.offset - n)
          [] Makes[v].op = "substring3" ->
                 /\ atom = Origin
                 /\ \E t \in Terms(in(1)), s \in Terms(in(2)) :
                        Entails(facts, s.atom, t.atom, t.offset - s.offset - n)
          [] Makes[v].op = "extract" /\ imm[2] # 0 -> Entails(facts, atom, Origin, imm[2] - n)
          [] Makes[v].op = "substring" -> Entails(facts, atom, Origin, imm[2] - imm[1] - n)
          [] OTHER -> FALSE

\* _prove_len_ge: the length of a slice is unfolded, through slices that reach to the
\* end of their buffer.
ProvesLength(facts, buffer, atom, most) ==
    LET whole[k \in 0..MaxUnfolding] ==
            IF k = 0 THEN [of |-> buffer, most |-> most]
            ELSE LET w == whole[k - 1]
                 IN IF ReachesEnd(w.of)
                    THEN [of |-> Makes[w.of].ins[1], most |-> w.most + Makes[w.of].imm[1]]
                    ELSE w
    IN \E k \in 0..MaxUnfolding :
           LET v == whole[k].of
               n == whole[k].most
           IN  \/ Entails(facts, atom, Length(v), -n)
               \/ k < MaxUnfolding /\ IsVar(v) /\ ProvesCut(facts, v, atom, n)

\* The bytes an access needs: most beyond atom.
Needed(acc) ==
    LET bases == IF acc.base = {} THEN {[atom |-> Origin, offset |-> 0]}
                 ELSE UNION {Terms(w) : w \in acc.base}
    IN  {[atom |-> t.atom, most |-> n + t.offset] : t \in bases, n \in acc.extra}

\* verdict: the access needs no more, or more, than the length of its buffer.
Verdict(facts, v) ==
    LET acc     == Access(v)
        proved  == \E m \in Needed(acc) : ProvesLength(facts, Buffer(v), m.atom, m.most)
        s       == Shortest(facts, Length(Buffer(v)))
        beyond  == \E m \in Needed(acc) :
                       \E x \in {m.atom, Origin} \cap DOMAIN s.bound : s.bound[x] < m.most
    IN  IF Makes[v].op = "substring" /\ Makes[v].imm[1] > Makes[v].imm[2]
        THEN [inBounds |-> FALSE, provenOob |-> TRUE]
        ELSE [inBounds  |-> proved,
              provenOob |-> ~ proved /\ s.consistent /\ beyond /\ ~ acc.dynamic]

-----------------------------------------------------------------------------
BoundsInit == Init /\ verdict = <<>>

DefinedIn(v) == CHOOSE b \in Blocks : v \in B(b).defs

\* check_bounds, once no assert narrows any more.
CheckBounds ==
    /\ mode = "analyse"
    /\ todo = <<>>
    /\ ~ changed
    /\ verdict = <<>>
    /\ Sites # {}
    /\ verdict' = [v \in Sites |-> Verdict(FactsAt(DefinedIn(v)), v)]
    /\ UNCHANGED vars

Analyse == (Refine \/ AnotherRound) /\ UNCHANGED verdict

Continue == DOMAIN verdict = Sites /\ (Start \/ Execute) /\ UNCHANGED verdict

BoundsNext == Analyse \/ CheckBounds \/ Continue

BoundsSpec == BoundsInit /\ [][BoundsNext]_boundsVars

-----------------------------------------------------------------------------
BoundsTypeOK ==
    /\ TypeOK
    /\ DOMAIN verdict \subseteq Sites
    /\ \A v \in DOMAIN verdict : verdict[v] \in [inBounds : BOOLEAN, provenOob : BOOLEAN]

\* Values that bound others by having been made at all, or by their range.
Bounding ==
    {v \in Made : Makes[v].op = "-" /\ IsInt(Makes[v].ins[2])}
        \union {v \in Made : /\ Makes[v].op \in {"len", "+", "-"}
                             /\ \E s \in Sites : v \in Indices(s)}

\* They have been made, and the guards that narrowed them passed, where block b is
\* entered: no program-wide fact says more than what the run has been through.
FactsPrecede(b) ==
    \A v \in Bounding :
        /\ Dominates(DefinedIn(v), b)
        /\ \A g \in Blocks : B(g).op = "assert" /\ v \in Tests(g) => Dominates(g, b)

Overreads(v) == Window(Makes[v], env).to > env[Buffer(v)]

\* No run makes an access beyond the end of its buffer that check_bounds reports as in
\* bounds, whatever guards, slices of slices, loops and calls the bound was derived
\* through, where the operations the program-wide facts rest on come first ("in_bounds
\* is a proof", bounds.py:8-9).
InBoundsHolds ==
    mode = "run" =>
        \A v \in B(at).defs \cap Sites :
            verdict[v].inBounds /\ FactsPrecede(at) => ~ Overreads(v)

\* Every run that comes to an access reported as out of bounds panics there: no such
\* report rests on a length that may be an under-count, or on facts that contradict one
\* another ("proven_oob is a proof too, but only against an UNAMBIGUOUS length",
\* bounds.py:9-10).
ProvenOobHolds ==
    mode = "run" =>
        \A v \in B(at).defs \cap Sites :
            verdict[v].provenOob /\ FactsPrecede(at) => Fails(v, env)

\* What the code promises of every program: an access reported as in bounds is not made
\* beyond the end of its buffer, wherever the facts it rests on come from (bounds.py:8-9,
\* "STRUCTURAL facts are global because an SSA def dominates all its uses",
\* relational.py:10).
InBoundsIsAProof ==
    mode = "run" =>
        \A v \in B(at).defs \cap Sites : verdict[v].inBounds => ~ Overreads(v)

=============================================================================
