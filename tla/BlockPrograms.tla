---------------------------- MODULE BlockPrograms ----------------------------
(* Shorthands for the values and the basic blocks of hand-written programs.  *)
EXTENDS Naturals, Sequences

Leaf == [op |-> "leaf", args |-> <<>>, k |-> 0, constFirst |-> FALSE]
Connect(op, args) == [Leaf EXCEPT !.op = op, !.args = args]
Compare(v, op, k) == [Leaf EXCEPT !.op = op, !.args = <<v>>, !.k = k]
CompareConst(k, op, v) == [Compare(v, op, k) EXCEPT !.constFirst = TRUE]

Ends(op, cond, arms) ==
    [op |-> op, cond |-> cond, arms |-> arms, consts |-> <<>>, defs |-> {}, uses |-> {},
     phi |-> {}]

Simple(op)              == Ends(op, "x", <<>>)
Jump(op, t)             == Ends(op, "x", <<t>>)
On(op, c, t)            == Ends(op, c, <<t>>)
Require(c)              == Ends("assert", c, <<>>)
Switch(c, arms)         == Ends("switch", c, arms)
Match(c, arms, consts)  == [Ends("match", c, arms) EXCEPT !.consts = consts]

Defining(S, b)  == [b EXCEPT !.defs = S]
Using(S, b)     == [b EXCEPT !.uses = S]
Merging(S, b)   == [b EXCEPT !.phi = S]

Code(blocks) == [blocks |-> blocks, entry |-> {}, seeds |-> <<>>]

=============================================================================
