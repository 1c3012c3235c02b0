----------------------------- MODULE MCAvmOnCfg -----------------------------
(* Programs for TLC: every short program over a small instruction set, and  *)
(* hand-made longer ones for the shapes short programs cannot have.         *)
EXTENDS AvmOnCfg

Op(cls)          == [cls |-> cls, name |-> "f", targets |-> {}]
LabelOf(x)       == [cls |-> "Label", name |-> x, targets |-> {}]
To(cls, targets) == [cls |-> cls, name |-> "f", targets |-> targets]

ShortOps ==
    {Op("Ordinary"), Op("Return"), Op("Assert"), Op("Retsub"), LabelOf("f"),
     To("Callsub", {"f"}), To("Bz", {"f"}), To("Bnz", {"f"}), To("B", {"f"}),
     LabelOf("g"), To("Switch", {"f", "g"})}

ShortPrograms == UNION {[1..n -> ShortOps] : n \in 1..4}

\* A loop nobody enters that calls a routine main also calls.
DeadLoopCalls ==
    <<To("Callsub", {"f"}), Op("Return"),
      LabelOf("g"), To("Callsub", {"f"}), To("B", {"g"}),
      LabelOf("f"), Op("Retsub")>>

\* A dead chain: the only call of f is behind the return of a call that never
\* happens.
DeadChain ==
    <<To("Callsub", {"f"}), Op("Err"),
      To("Callsub", {"g"}), Op("Return"),
      LabelOf("g"), To("Callsub", {"f"}), Op("Retsub"),
      LabelOf("f"), Op("Retsub")>>

\* Nested and recursive calls, a retsub reached only through a switch arm.
ArmReturns ==
    <<To("Callsub", {"f"}), Op("ItxnSubmit"), Op("Return"),
      LabelOf("f"), To("Switch", {"g"}), To("Callsub", {"f"}), Op("Err"),
      LabelOf("g"), Op("Retsub")>>

\* A routine that falls into the next one, and a call on the last line.
SharedTail ==
    <<To("Callsub", {"f"}), To("B", {"h"}),
      LabelOf("f"), To("Callsub", {"g"}), LabelOf("g"), To("Bnz", {"f"}),
      Op("Retsub"), LabelOf("h"), To("Callsub", {"g"})>>

\* Two definitions of one label, an unresolved target.
Duplicate ==
    <<To("Bz", {"g"}), To("Callsub", {"f"}), To("Match", {"f", "h"}),
      LabelOf("f"), Op("Assert"), Op("Retsub"), LabelOf("f"), Op("Return")>>

LongPrograms ==
    {DeadLoopCalls, DeadChain, ArmReturns, SharedTail, Duplicate}

AllPrograms == ShortPrograms \union LongPrograms

AllNames == {"f", "g", "h"}

=============================================================================
