----------------------------- MODULE Operations -----------------------------
(***************************************************************************)
(* What makes the leaves of a program: operations that can fail, arithmetic *)
(* and those that cut or read byte strings, and whatever else a program    *)
(* takes in.  Of a byte string only its length is kept.                    *)
(*                                                                         *)
(* Makes gives the operation of each leaf; ins is top of stack first, imm  *)
(* the immediates.  A constant (int, bytes) has its value or its length as *)
(* immediate.  "read" takes in any of the values Readable.                 *)
(***************************************************************************)
EXTENDS BranchConditions

CONSTANT Makes      \* leaf -> [op, ins, imm]

Leaves == {v \in Value : Def[v].op = "leaf"}

Slices  == {"extract", "substring", "extract3", "substring3"}
ByteOps == Slices \union {"getbyte", "setbyte", "extract_uint16"}
Arith   == {"+", "-", "*", "/", "%"}

ASSUME MakesIsOperation ==
    Makes \in [Leaves -> [op : {"read", "int", "bytes", "len"} \union Arith \union ByteOps,
                          ins : Seq(Leaves), imm : Seq(Nat)]]

\* The operands of each operation.
ASSUME MakesHasOperands ==
    \A v \in Leaves :
        LET Takes(ins, imm) == Len(Makes[v].ins) = ins /\ Len(Makes[v].imm) = imm
        IN  CASE Makes[v].op \in {"int", "bytes"}         -> Takes(0, 1)
              [] Makes[v].op = "len"                      -> Takes(1, 0)
              [] Makes[v].op \in {"extract", "substring"} -> Takes(1, 2)
              [] Makes[v].op \in Arith \union {"getbyte", "extract_uint16"} -> Takes(2, 0)
              [] Makes[v].op \in {"extract3", "substring3", "setbyte"}      -> Takes(3, 0)
              [] OTHER                                    -> TRUE

ASSUME FixedAreRead == \A v \in Fixed : Makes[v].op \in {"read", "int", "bytes"}

IsInt(v)     == Makes[v].op = "int"
IsLiteral(v) == Makes[v].op = "bytes"
Constant(v)  == Makes[v].imm[1]
InputsOf(v)  == {Makes[v].ins[i] : i \in DOMAIN Makes[v].ins}

\* The leaves made of others in n operations.
Laid[n \in Nat] ==
    IF n = 0 THEN {}
    ELSE LET S == Laid[n - 1] IN {v \in Leaves : InputsOf(v) \subseteq S}

\* An operation takes what has been made before: values go round by way of phis only.
ASSUME LeavesAreMade == Leaves = Laid[Cardinality(Leaves)]

ASSUME ConstantsAreFixed ==
    \A v \in Leaves : IsInt(v) \/ IsLiteral(v) => v \in Fixed /\ Readable[v] = {Constant(v)}

\* The byte string the operation m works on: it was pushed first.
BufferOf(m) == m.ins[Len(m.ins)]

Buffer(v) == BufferOf(Makes[v])

\* The bytes the operation m needs, when leaf l is e[l]: from inclusive, to exclusive.
Window(m, e) ==
    LET in(i)       == e[m.ins[i]]
        Bytes(i, j) == [from |-> i, to |-> j]
    IN  CASE m.op = "extract" ->
                 Bytes(m.imm[1], IF m.imm[2] = 0 THEN e[BufferOf(m)] ELSE m.imm[1] + m.imm[2])
          [] m.op = "substring"      -> Bytes(m.imm[1], m.imm[2])
          [] m.op = "extract3"       -> Bytes(in(2), in(2) + in(1))
          [] m.op = "substring3"     -> Bytes(in(2), in(1))
          [] m.op = "getbyte"        -> Bytes(in(1), in(1) + 1)
          [] m.op = "setbyte"        -> Bytes(in(2), in(2) + 1)
          [] m.op = "extract_uint16" -> Bytes(in(1), in(1) + 2)

\* The operands of an arithmetic operation in source order.
Left(m, e)  == e[m.ins[2]]
Right(m, e) == e[m.ins[1]]

\* Operation m fails.
Fail(m, e) ==
    CASE m.op = "+" -> Left(m, e) + Right(m, e) > MaxInt
      [] m.op = "-" -> Left(m, e) < Right(m, e)
      [] m.op = "*" -> Left(m, e) * Right(m, e) > MaxInt
      [] m.op \in {"/", "%"} -> Right(m, e) = 0
      [] m.op \in ByteOps ->
             LET w == Window(m, e) IN ~ (w.from <= w.to /\ w.to <= e[BufferOf(m)])
      [] OTHER -> FALSE

\* What makes v fails: the program panics.
Fails(v, e) == Fail(Makes[v], e)

\* What operation m may make; "read" makes anything of its own, bytes of a string are any.
Outputs(m, e, own) ==
    CASE m.op = "+" -> {Left(m, e) + Right(m, e)}
      [] m.op = "-" -> {Left(m, e) - Right(m, e)}
      [] m.op = "*" -> {Left(m, e) * Right(m, e)}
      [] m.op = "/" -> {Left(m, e) \div Right(m, e)}
      [] m.op = "%" -> {Left(m, e) % Right(m, e)}
      [] m.op = "len"     -> {e[m.ins[1]]}
      [] m.op = "setbyte" -> {e[BufferOf(m)]}
      [] m.op \in Slices  -> LET w == Window(m, e) IN {w.to - w.from}
      [] OTHER -> own

Results(v, e) == Outputs(Makes[v], e, Readable[v])

=============================================================================
