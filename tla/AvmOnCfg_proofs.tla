--------------------------- MODULE AvmOnCfg_proofs ---------------------------
(***************************************************************************)
(* The graph of cfg/build.py covers every execution of every program.      *)
(*                                                                         *)
(* The argument.  While the gating loop runs, the last result of _reach is *)
(* closed under the returns still believed, and a return that was dropped  *)
(* has its callsub outside of it; each new walk stays inside the previous  *)
(* result, so a dropped return never becomes needed again.  An execution   *)
(* keeps its call chain nested in the predicted bodies, so the return a    *)
(* retsub takes is among those predicted, and its callsub is reachable     *)
(* because the execution went through it.                                  *)
(***************************************************************************)
EXTENDS AvmOnCfg, TLAPS, SequenceTheorems, NumberLemmas

\* The bodies of the callsub entries: what the walks hold is closed up to what
\* they still have to visit.
BodiesClosed ==
    /\ \A e \in Entries : e \in body[e] \union todo[e]
    /\ \A e \in Entries : \A l \in body[e] : AuxSucc(l) \subseteq body[e] \union todo[e]
    /\ phase # "bodies" => \A e \in Entries : todo[e] = {}

\* The believed returns against the last reachability result.
ReturnsGated ==
    phase # "bodies" =>
        /\ live \subseteq PredictedReturns
        /\ \A r \in PredictedReturns : r \notin live => r.call \notin reachable
        /\ 1 \in reachable
        /\ \A l \in reachable : Succ(l) \subseteq reachable

\* The walk in progress: it started at line 1, stays inside the previous result
\* and is closed up to its stack.
WalkInside ==
    phase = "reach" =>
        /\ 1 \in seen \union frontier
        /\ seen \union frontier \subseteq reachable
        /\ \A l \in seen : Succ(l) \subseteq seen \union frontier

BuiltMeansGated ==
    phase = "built" => \A r \in live : r.call \in reachable

AvmWaits ==
    phase # "built" => pc = 1 /\ frames = <<>> /\ how = "entry"

IInv ==
    /\ TypeOK
    /\ BodiesClosed
    /\ phase = "bodies" => reachable = Lines
    /\ ReturnsGated
    /\ WalkInside
    /\ BuiltMeansGated
    /\ AvmWaits
    /\ ExecutionIsReachable
    /\ FramesNestInBodies

-----------------------------------------------------------------------------
(* The text of the program.                                                *)

LEMMA TextFacts ==
    ASSUME TypeOK
    PROVE  /\ prog \in Seq(Instr)
           /\ Len(prog) \in Nat
           /\ 1 \in Lines
           /\ \A i \in Lines : prog[i] \in Instr
  BY ProgramsAreText DEF TypeOK, Lines

LEMMA SuccInLines ==
    /\ \A i : Nxt(i) \subseteq Lines
    /\ \A i : Targets(i) \subseteq Lines
    /\ \A i : AuxSucc(i) \subseteq Lines
    /\ \A i, t : Out(i, t) \subseteq Lines
    /\ \A i : StaticSucc(i) \subseteq Lines
    /\ Entries \subseteq Lines
<1>1. \A i : Nxt(i) \subseteq Lines
  BY DEF Nxt
<1>2. \A i : Targets(i) \subseteq Lines
  BY DEF Targets, Resolve, Definitions
<1>3. \A i : AuxSucc(i) \subseteq Lines
  BY <1>1, <1>2 DEF AuxSucc
<1>4. \A i, t : Out(i, t) \subseteq Lines
  BY <1>1, <1>2 DEF Out
<1>5. \A i : StaticSucc(i) \subseteq Lines
  BY <1>4 DEF StaticSucc
<1>6. Entries \subseteq Lines
  BY <1>2 DEF Entries
<1>7. QED
  BY <1>1, <1>2, <1>3, <1>4, <1>5, <1>6

LEMMA SuccStaysInLines ==
    ASSUME TypeOK
    PROVE  \A i : Succ(i) \subseteq Lines
  BY SuccInLines DEF Succ, TypeOK, Return

LEMMA PredictedAreReturns == PredictedReturns \subseteq Return
  BY DEF PredictedReturns

\* Nothing computed from the text alone changes in a step.
LEMMA SameText ==
    ASSUME UNCHANGED prog
    PROVE  /\ Lines' = Lines
           /\ \A i : (Cls(i))' = Cls(i)
           /\ \A i : (Nxt(i))' = Nxt(i)
           /\ \A i : (Targets(i))' = Targets(i)
           /\ \A i : (AuxSucc(i))' = AuxSucc(i)
           /\ \A i, t : (Out(i, t))' = Out(i, t)
           /\ \A i : (StaticSucc(i))' = StaticSucc(i)
           /\ Entries' = Entries
           /\ Return' = Return
<1>1. Lines' = Lines /\ \A i : (Cls(i))' = Cls(i)
  BY DEF Lines, Cls
<1>2. \A i : (Nxt(i))' = Nxt(i)
  BY <1>1 DEF Nxt
<1>3. \A i : (Targets(i))' = Targets(i)
  BY <1>1 DEF Targets, Resolve, Definitions
<1>4. \A i : (AuxSucc(i))' = AuxSucc(i)
  BY <1>1, <1>2, <1>3 DEF AuxSucc
<1>5. \A i, t : (Out(i, t))' = Out(i, t)
  BY <1>1, <1>2, <1>3 DEF Out
<1>6. \A i : (StaticSucc(i))' = StaticSucc(i)
  BY <1>5 DEF StaticSucc
<1>7. Entries' = Entries
  BY <1>1, <1>3 DEF Entries
<1>8. Return' = Return
  BY <1>1 DEF Return
<1>9. QED
  BY <1>1, <1>2, <1>3, <1>4, <1>5, <1>6, <1>7, <1>8

LEMMA SamePrediction ==
    ASSUME UNCHANGED <<prog, body>>
    PROVE  PredictedReturns' = PredictedReturns
  BY SameText DEF PredictedReturns

LEMMA SameSucc ==
    ASSUME UNCHANGED <<prog, live>>
    PROVE  \A i : (Succ(i))' = Succ(i)
  BY SameText DEF Succ

-----------------------------------------------------------------------------
(* The derivation preserves the invariant, one lemma per action.           *)

LEMMA InitEstablishes == Init => IInv
<1> SUFFICES ASSUME Init PROVE IInv
  OBVIOUS
<1> USE DEF Init, InitBuild, InitAvm
<1>1. 1 \in Lines
  BY ProgramsAreText DEF Lines
<1>2. TypeOK
  <2>1. body \in [Entries -> SUBSET Lines] /\ todo \in [Entries -> SUBSET Lines]
    BY SuccInLines
  <2>2. frames \in Seq(Lines)
    OBVIOUS
  <2>3. QED
    BY <1>1, <2>1, <2>2 DEF TypeOK
<1>3. BodiesClosed
  BY DEF BodiesClosed
<1>4. ReturnsGated /\ WalkInside /\ BuiltMeansGated /\ AvmWaits /\ ExecutionIsReachable
  BY DEF ReturnsGated, WalkInside, BuiltMeansGated, AvmWaits, ExecutionIsReachable
<1>5. FramesNestInBodies
  BY DEF FramesNestInBodies
<1>6. QED
  BY <1>2, <1>3, <1>4, <1>5 DEF IInv

\* While the graph is not built, steps that leave the machine alone keep its part.
LEMMA MachineWaits ==
    ASSUME IInv, UNCHANGED avmVars, phase # "built"
    PROVE  AvmWaits' /\ FramesNestInBodies'
  BY DEF IInv, AvmWaits, FramesNestInBodies, avmVars

LEMMA VisitBodyStep ==
    ASSUME IInv, UNCHANGED avmVars, NEW e \in DOMAIN todo, NEW l \in todo[e], VisitBody(e, l)
    PROVE  IInv'
<1> USE DEF VisitBody
<1>1. /\ TypeOK /\ BodiesClosed /\ phase = "bodies" /\ reachable = Lines
      /\ e \in Entries /\ l \in Lines
  BY DEF IInv, TypeOK
<1>2. Lines' = Lines /\ Entries' = Entries /\ Return' = Return
      /\ \A i : (AuxSucc(i))' = AuxSucc(i)
  BY SameText
<1>3. /\ body' \in [Entries -> SUBSET Lines]
      /\ todo' \in [Entries -> SUBSET Lines]
  BY <1>1, SuccInLines DEF TypeOK
<1>4. TypeOK'
  BY <1>1, <1>2, <1>3 DEF TypeOK, avmVars
<1>5. BodiesClosed'
  <2>1. \A d \in Entries : body[d] \union todo[d] \subseteq body'[d] \union todo'[d]
    BY <1>1 DEF TypeOK
  <2>2. AuxSucc(l) \subseteq body'[e] \union todo'[e]
    BY <1>1 DEF TypeOK
  <2>3. \A d \in Entries : \A k \in body'[d] : k \in body[d] \/ (d = e /\ k = l)
    BY <1>1 DEF TypeOK
  <2>4. \A d \in Entries : \A k \in body'[d] : AuxSucc(k) \subseteq body'[d] \union todo'[d]
    BY <1>1, <2>1, <2>2, <2>3 DEF BodiesClosed
  <2>5. QED
    BY <1>1, <1>2, <2>1, <2>4 DEF BodiesClosed
<1>6. (phase = "bodies" => reachable = Lines)' /\ ReturnsGated' /\ WalkInside'
      /\ BuiltMeansGated' /\ ExecutionIsReachable'
  BY <1>1, <1>2 DEF ReturnsGated, WalkInside, BuiltMeansGated, ExecutionIsReachable
<1>7. AvmWaits' /\ FramesNestInBodies'
  BY <1>1, MachineWaits
<1>8. QED
  BY <1>4, <1>5, <1>6, <1>7 DEF IInv

LEMMA PredictStep ==
    ASSUME IInv, UNCHANGED avmVars, Predict
    PROVE  IInv'
<1> USE DEF Predict, StartReach
<1>1. TypeOK /\ BodiesClosed /\ phase = "bodies" /\ reachable = Lines
  BY DEF IInv
<1>2. Lines' = Lines /\ Entries' = Entries /\ Return' = Return
      /\ \A i : (AuxSucc(i))' = AuxSucc(i)
  BY SameText
<1>3. PredictedReturns' = PredictedReturns
  BY SamePrediction
<1>4. 1 \in Lines
  BY <1>1, TextFacts
<1>5. TypeOK'
  BY <1>1, <1>2, <1>4, PredictedAreReturns DEF TypeOK, avmVars
<1>6. BodiesClosed'
  BY <1>1, <1>2 DEF BodiesClosed
<1>7. (\A i : Succ(i) \subseteq Lines)'
  BY <1>5, SuccStaysInLines, PTL
<1>8. ReturnsGated'
  BY <1>1, <1>2, <1>3, <1>4, <1>7 DEF ReturnsGated
<1>9. WalkInside'
  BY <1>1, <1>4 DEF WalkInside
<1>10. (phase = "bodies" => reachable = Lines)' /\ BuiltMeansGated' /\ ExecutionIsReachable'
  BY DEF BuiltMeansGated, ExecutionIsReachable
<1>11. AvmWaits' /\ FramesNestInBodies'
  BY <1>1, MachineWaits
<1>12. QED
  BY <1>5, <1>6, <1>8, <1>9, <1>10, <1>11 DEF IInv

LEMMA VisitReachStep ==
    ASSUME IInv, UNCHANGED avmVars, NEW l \in frontier, VisitReach(l)
    PROVE  IInv'
<1> USE DEF VisitReach
<1>1. TypeOK /\ BodiesClosed /\ ReturnsGated /\ WalkInside /\ phase = "reach" /\ l \in Lines
  BY DEF IInv, TypeOK
<1>2. Lines' = Lines /\ Entries' = Entries /\ Return' = Return
      /\ \A i : (AuxSucc(i))' = AuxSucc(i)
  BY SameText
<1>3. PredictedReturns' = PredictedReturns /\ \A i : (Succ(i))' = Succ(i)
  BY SamePrediction, SameSucc
<1>4. TypeOK'
  BY <1>1, <1>2, SuccStaysInLines DEF TypeOK, avmVars
<1>5. BodiesClosed'
  BY <1>1, <1>2 DEF BodiesClosed
<1>6. ReturnsGated'
  BY <1>1, <1>2, <1>3 DEF ReturnsGated
<1>7. WalkInside'
  <2>1. seen \union frontier \subseteq seen' \union frontier'
    OBVIOUS
  <2>2. Succ(l) \subseteq seen' \union frontier'
    OBVIOUS
  <2>3. seen' \union frontier' \subseteq reachable
    BY <1>1 DEF WalkInside, ReturnsGated
  <2>4. \A k \in seen' : Succ(k) \subseteq seen' \union frontier'
    BY <1>1, <2>1, <2>2 DEF WalkInside
  <2>5. QED
    BY <1>1, <1>3, <2>1, <2>3, <2>4 DEF WalkInside
<1>8. (phase = "bodies" => reachable = Lines)' /\ BuiltMeansGated' /\ ExecutionIsReachable'
  BY <1>1 DEF BuiltMeansGated, ExecutionIsReachable
<1>9. AvmWaits' /\ FramesNestInBodies'
  BY <1>1, MachineWaits
<1>10. QED
  BY <1>4, <1>5, <1>6, <1>7, <1>8, <1>9 DEF IInv

LEMMA EndReachStep ==
    ASSUME IInv, UNCHANGED avmVars, EndReach
    PROVE  IInv'
<1> USE DEF EndReach
<1>1. TypeOK /\ BodiesClosed /\ ReturnsGated /\ WalkInside /\ phase = "reach"
  BY DEF IInv
<1>2. Lines' = Lines /\ Entries' = Entries /\ Return' = Return
      /\ \A i : (AuxSucc(i))' = AuxSucc(i)
  BY SameText
<1>3. PredictedReturns' = PredictedReturns /\ \A i : (Succ(i))' = Succ(i)
  BY SamePrediction, SameSucc
<1>4. TypeOK'
  BY <1>1, <1>2 DEF TypeOK, avmVars
<1>5. BodiesClosed'
  BY <1>1, <1>2 DEF BodiesClosed
<1>6. ReturnsGated'
  BY <1>1, <1>3 DEF ReturnsGated, WalkInside
<1>7. (phase = "bodies" => reachable = Lines)' /\ WalkInside' /\ BuiltMeansGated'
      /\ ExecutionIsReachable'
  BY DEF WalkInside, BuiltMeansGated, ExecutionIsReachable
<1>8. AvmWaits' /\ FramesNestInBodies'
  BY <1>1, MachineWaits
<1>9. QED
  BY <1>4, <1>5, <1>6, <1>7, <1>8 DEF IInv

LEMMA DropReturnsStep ==
    ASSUME IInv, UNCHANGED avmVars, DropReturns
    PROVE  IInv'
<1> USE DEF DropReturns, StartReach
<1>1. TypeOK /\ BodiesClosed /\ ReturnsGated /\ phase = "gate"
  BY DEF IInv
<1>2. Lines' = Lines /\ Entries' = Entries /\ Return' = Return
      /\ (\A i : (AuxSucc(i))' = AuxSucc(i)) /\ \A i : (StaticSucc(i))' = StaticSucc(i)
  BY SameText
<1>3. PredictedReturns' = PredictedReturns
  BY SamePrediction
<1>4. live' \subseteq live
  BY DEF Gated
<1>5. TypeOK'
  BY <1>1, <1>2, <1>4, TextFacts DEF TypeOK, avmVars
<1>6. BodiesClosed'
  BY <1>1, <1>2 DEF BodiesClosed
<1>7. \A i : (Succ(i))' \subseteq Succ(i)
  BY <1>2, <1>4 DEF Succ
<1>8. ReturnsGated'
  \* A return that was dropped calls from outside the last result.
  <2>1. \A r \in PredictedReturns : r \notin live' => r.call \notin reachable
    BY <1>1 DEF ReturnsGated, Gated
  <2>2. QED
    BY <1>1, <1>3, <1>4, <1>7, <2>1 DEF ReturnsGated
<1>9. WalkInside'
  BY <1>1 DEF WalkInside, ReturnsGated
<1>10. (phase = "bodies" => reachable = Lines)' /\ BuiltMeansGated' /\ ExecutionIsReachable'
  BY DEF BuiltMeansGated, ExecutionIsReachable
<1>11. AvmWaits' /\ FramesNestInBodies'
  BY <1>1, MachineWaits
<1>12. QED
  BY <1>5, <1>6, <1>8, <1>9, <1>10, <1>11 DEF IInv

LEMMA PublishStep ==
    ASSUME IInv, UNCHANGED avmVars, Publish
    PROVE  IInv'
<1> USE DEF Publish
<1>1. TypeOK /\ BodiesClosed /\ ReturnsGated /\ phase = "gate" /\ AvmWaits
  BY DEF IInv
<1>2. Lines' = Lines /\ Entries' = Entries /\ Return' = Return
      /\ \A i : (AuxSucc(i))' = AuxSucc(i)
  BY SameText
<1>3. PredictedReturns' = PredictedReturns /\ \A i : (Succ(i))' = Succ(i)
  BY SamePrediction, SameSucc
<1>4. TypeOK'
  BY <1>1, <1>2 DEF TypeOK, avmVars
<1>5. BodiesClosed'
  BY <1>1, <1>2 DEF BodiesClosed
<1>6. ReturnsGated'
  BY <1>1, <1>3 DEF ReturnsGated
<1>7. BuiltMeansGated'
  BY DEF BuiltMeansGated, Gated
<1>8. ExecutionIsReachable'
  BY <1>1 DEF ExecutionIsReachable, AvmWaits, ReturnsGated, avmVars
<1>9. (phase = "bodies" => reachable = Lines)' /\ WalkInside'
  BY DEF WalkInside
<1>10. AvmWaits' /\ FramesNestInBodies'
  BY <1>1, MachineWaits
<1>11. QED
  BY <1>4, <1>5, <1>6, <1>7, <1>8, <1>9, <1>10 DEF IInv

-----------------------------------------------------------------------------
(* The machine.  A move that keeps the call chain goes to a line the walk   *)
(* inside the routine follows as well.                                      *)

\* The lines a move may go to: an edge of the graph, and, unless it is a call
\* or a return, a successor inside the routine.
LEMMA MoveIsAnEdge ==
    ASSUME IInv, phase = "built", NEW j \in Lines, NEW type \in SuccTypes,
           j \in Out(pc, type)
    PROVE  /\ [from |-> pc, to |-> j, type |-> type] \in Edges
           /\ j \in reachable
<1>1. pc \in reachable /\ pc \in Lines
  BY DEF IInv, ExecutionIsReachable, TypeOK
<1>2. j \in Succ(pc)
  BY DEF Succ, StaticSucc
<1>3. j \in reachable
  BY <1>1, <1>2 DEF IInv, ReturnsGated
<1>4. QED
  BY <1>1, <1>3 DEF Edges, Edge

\* The return a retsub takes was predicted, was not dropped, and is an edge.
LEMMA ReturnIsAnEdge ==
    ASSUME IInv, phase = "built", Cls(pc) = "Retsub", NEW j \in ReturnPoint
    PROVE  /\ [from |-> pc, to |-> j, type |-> "normal"] \in Edges
           /\ j \in reachable
<1> DEFINE r == [ret |-> pc, cont |-> j, call |-> Top]
<1>1. frames # <<>> /\ j \in Nxt(Top) /\ frames \in Seq(Lines)
  BY DEF ReturnPoint, IInv, TypeOK
<1>2. Len(frames) \in DOMAIN frames /\ Top \in Lines /\ pc \in Lines /\ j \in Lines
  BY <1>1, SuccInLines DEF Top, IInv, TypeOK
<1>3. pc \in reachable /\ Top \in reachable
  BY <1>2 DEF IInv, ExecutionIsReachable, Top
<1>4. Cls(Top) = "Callsub" /\ \E e \in Targets(Top) : pc \in body[e]
  BY <1>2 DEF IInv, FramesNestInBodies, Top
<1>5. r \in PredictedReturns
  BY <1>1, <1>2, <1>4 DEF PredictedReturns, Return
<1>6. r \in live
  BY <1>3, <1>5 DEF IInv, ReturnsGated
<1>7. j \in reachable
  BY <1>3, <1>6 DEF Succ, IInv, ReturnsGated
<1>8. [from |-> pc, to |-> j, type |-> "normal"] \in Edge
  BY <1>2 DEF Edge, SuccTypes
<1>9. QED
  BY <1>3, <1>6, <1>7, <1>8 DEF Edges

\* A published graph does not change under the machine.
LEMMA DerivationRests ==
    ASSUME IInv, UNCHANGED buildVars, phase = "built"
    PROVE  /\ phase' = "built"
           /\ Lines' = Lines /\ reachable' = reachable /\ body' = body
           /\ \A i : (Cls(i))' = Cls(i) /\ (Targets(i))' = Targets(i)
           /\ BodiesClosed' /\ ReturnsGated' /\ WalkInside' /\ BuiltMeansGated' /\ AvmWaits'
           /\ (phase = "bodies" => reachable = Lines)'
           /\ (pc \in Lines /\ frames \in Seq(Lines) /\ halted \in BOOLEAN
                 /\ how \in SuccTypes \union {"entry"})' => TypeOK'
<1> USE DEF buildVars
<1>1. Lines' = Lines /\ Entries' = Entries /\ Return' = Return
      /\ (\A i : (AuxSucc(i))' = AuxSucc(i))
      /\ \A i : (Cls(i))' = Cls(i) /\ (Targets(i))' = Targets(i)
  BY SameText
<1>2. PredictedReturns' = PredictedReturns /\ \A i : (Succ(i))' = Succ(i)
  BY SamePrediction, SameSucc
<1>3. BodiesClosed'
  BY <1>1 DEF IInv, BodiesClosed
<1>4. ReturnsGated' /\ BuiltMeansGated'
  BY <1>2 DEF IInv, ReturnsGated, BuiltMeansGated
<1>5. WalkInside' /\ AvmWaits' /\ (phase = "bodies" => reachable = Lines)'
  BY DEF WalkInside, AvmWaits
<1>6. (pc \in Lines /\ frames \in Seq(Lines) /\ halted \in BOOLEAN
         /\ how \in SuccTypes \union {"entry"})' => TypeOK'
  BY <1>1 DEF IInv, TypeOK
<1>7. QED
  BY <1>1, <1>3, <1>4, <1>5, <1>6

\* The innermost callee's body is closed under the moves inside a routine.
LEMMA StayInBody ==
    ASSUME IInv, phase = "built", NEW e \in Entries, NEW i \in body[e], NEW j \in AuxSucc(i)
    PROVE  j \in body[e]
  BY DEF IInv, BodiesClosed

LEMMA CalleesAreEntries ==
    ASSUME TypeOK, NEW c \in Lines, Cls(c) = "Callsub"
    PROVE  Targets(c) \subseteq Entries
  BY DEF Entries

LEMMA LocalMoveStep ==
    ASSUME IInv, phase = "built", UNCHANGED buildVars, UNCHANGED frames,
           NEW j, NEW type \in SuccTypes, j \in Out(pc, type), Cls(pc) # "Callsub",
           MoveTo(j, type)
    PROVE  IInv'
<1> USE DEF MoveTo
<1>1. j \in Lines
  BY SuccInLines
<1>2. j \in reachable
  BY <1>1, MoveIsAnEdge
<1>3. j \in AuxSucc(pc)
  BY DEF Out, Jumps, Falls, AuxSucc, AuxStop, Branches, Multi, Exits, SuccTypes
<1>4. TypeOK /\ ExecutionIsReachable /\ FramesNestInBodies
  BY DEF IInv
<1>5. TypeOK'
  BY <1>1, <1>4, DerivationRests DEF TypeOK
<1>6. ExecutionIsReachable'
  BY <1>2, <1>4, DerivationRests DEF ExecutionIsReachable
<1>7. FramesNestInBodies'
  <2> SUFFICES ASSUME NEW k \in DOMAIN frames
               PROVE  /\ Cls(frames[k]) = "Callsub"
                      /\ \E e \in Targets(frames[k]) :
                            (IF k = Len(frames) THEN j ELSE frames[k + 1]) \in body[e]
    BY DerivationRests DEF FramesNestInBodies
  <2>1. Cls(frames[k]) = "Callsub" /\ frames[k] \in Lines
    BY <1>4 DEF FramesNestInBodies, TypeOK
  <2>2. PICK e \in Targets(frames[k]) :
            (IF k = Len(frames) THEN pc ELSE frames[k + 1]) \in body[e]
    BY <1>4 DEF FramesNestInBodies
  <2>3. e \in Entries
    BY <1>4, <2>1, CalleesAreEntries
  <2>4. CASE k = Len(frames)
    BY <1>3, <2>1, <2>2, <2>3, <2>4, StayInBody
  <2>5. CASE k # Len(frames)
    BY <2>1, <2>2, <2>5
  <2>6. QED
    BY <2>4, <2>5
<1>8. QED
  BY <1>5, <1>6, <1>7, DerivationRests DEF IInv

LEMMA CallStep ==
    ASSUME IInv, phase = "built", UNCHANGED buildVars, Call
    PROVE  IInv'
<1>1. PICK j \in Targets(pc) : MoveTo(j, "normal")
  BY DEF Call
<1>2. Cls(pc) = "Callsub" /\ frames' = Append(frames, pc)
  BY DEF Call
<1>3. pc' = j /\ how' = "normal" /\ halted' = halted
  BY <1>1 DEF MoveTo
<1>4. TypeOK /\ ExecutionIsReachable /\ FramesNestInBodies /\ BodiesClosed
  BY DEF IInv
<1>5. j \in Lines /\ pc \in Lines /\ frames \in Seq(Lines) /\ pc \in reachable
  BY <1>4, SuccInLines DEF TypeOK, ExecutionIsReachable
<1>6. j \in Out(pc, "normal")
  <2>1. Targets(pc) \subseteq Out(pc, "normal")
    BY <1>2 DEF Out, Jumps
  <2>2. QED
    BY <1>1, <2>1
<1>7. j \in reachable
  BY <1>5, <1>6, MoveIsAnEdge DEF SuccTypes
<1>8. /\ Len(frames') = Len(frames) + 1
      /\ DOMAIN frames' = DOMAIN frames \union {Len(frames) + 1}
      /\ frames'[Len(frames) + 1] = pc
      /\ \A k \in DOMAIN frames : frames'[k] = frames[k]
      /\ DOMAIN frames = 1..Len(frames) /\ Len(frames) \in Nat
  BY <1>2, <1>5
<1>9. TypeOK'
  <2>1. frames' \in Seq(Lines)
    BY <1>2, <1>5
  <2>2. QED
    BY <1>3, <1>4, <1>5, <2>1, DerivationRests DEF TypeOK, SuccTypes
<1>10. ExecutionIsReachable'
  BY <1>3, <1>4, <1>5, <1>7, <1>8, DerivationRests DEF ExecutionIsReachable
<1>11. FramesNestInBodies'
  <2>1. j \in body[j]
    BY <1>1, <1>2, <1>4, <1>5, CalleesAreEntries DEF BodiesClosed, IInv
  <2>2. SUFFICES ASSUME NEW k \in DOMAIN frames'
                 PROVE  /\ Cls(frames'[k]) = "Callsub"
                        /\ \E e \in Targets(frames'[k]) :
                              (IF k = Len(frames') THEN j ELSE frames'[k + 1]) \in body[e]
    BY <1>3, DerivationRests DEF FramesNestInBodies
  <2>3. CASE k = Len(frames) + 1
    BY <1>1, <1>2, <1>8, <2>1, <2>3
  <2>4. CASE k \in DOMAIN frames
    <3>1. /\ Cls(frames[k]) = "Callsub"
          /\ \E e \in Targets(frames[k]) :
                (IF k = Len(frames) THEN pc ELSE frames[k + 1]) \in body[e]
      BY <1>4, <2>4 DEF FramesNestInBodies
    <3>2. k # Len(frames') /\ frames'[k] = frames[k]
      BY <1>8, <2>4
    <3>3. frames'[k + 1] = IF k = Len(frames) THEN pc ELSE frames[k + 1]
      BY <1>8, <2>4
    <3>4. QED
      BY <3>1, <3>2, <3>3
  <2>5. QED
    BY <1>8, <2>3, <2>4
<1>12. QED
  BY <1>9, <1>10, <1>11, DerivationRests DEF IInv

LEMMA RetsubStep ==
    ASSUME IInv, phase = "built", UNCHANGED buildVars, Retsub
    PROVE  IInv'
<1>1. PICK j \in ReturnPoint : MoveTo(j, "normal")
  BY DEF Retsub
<1>2. Cls(pc) = "Retsub" /\ frames' = Pop
  BY DEF Retsub
<1>3. pc' = j /\ how' = "normal" /\ halted' = halted
  BY <1>1 DEF MoveTo
<1>4. TypeOK /\ ExecutionIsReachable /\ FramesNestInBodies
  BY DEF IInv
<1>5. frames # <<>> /\ frames \in Seq(Lines) /\ j \in Nxt(Top)
  BY <1>4 DEF ReturnPoint, TypeOK
<1>6. j \in Lines /\ j \in reachable
  BY <1>2, <1>5, SuccInLines, ReturnIsAnEdge
<1>7. /\ Len(frames) \in Nat \ {0}
      /\ DOMAIN frames = 1..Len(frames)
      /\ frames' \in Seq(Lines)
      /\ Len(frames') = Len(frames) - 1
      /\ DOMAIN frames' = 1..(Len(frames) - 1)
      /\ \A k \in DOMAIN frames' : frames'[k] = frames[k]
  <2>1. Len(frames) \in Nat \ {0} /\ DOMAIN frames = 1..Len(frames)
        /\ \A k \in 1..Len(frames) : frames[k] \in Lines
    BY <1>5, EmptySeq, LenProperties
  <2>2. /\ Pop \in Seq(Lines)
        /\ Len(Pop) = Len(frames) - 1
        /\ \A k \in 1..(Len(frames) - 1) : Pop[k] = frames[k]
    BY <2>1, SubSeqProperties DEF Pop
  <2>3. DOMAIN Pop = 1..(Len(frames) - 1)
    BY <2>2, LenProperties
  <2>4. QED
    BY <1>2, <2>1, <2>2, <2>3
<1>8. TypeOK'
  BY <1>3, <1>4, <1>6, <1>7, DerivationRests DEF TypeOK, SuccTypes
<1>9. ExecutionIsReachable'
  BY <1>3, <1>4, <1>6, <1>7, DerivationRests DEF ExecutionIsReachable
<1>10. FramesNestInBodies'
  <2> SUFFICES ASSUME NEW k \in DOMAIN frames'
               PROVE  /\ Cls(frames[k]) = "Callsub"
                      /\ \E e \in Targets(frames[k]) :
                            (IF k = Len(frames') THEN j ELSE frames[k + 1]) \in body[e]
    BY <1>3, <1>7, DerivationRests DEF FramesNestInBodies
  <2>1. k \in DOMAIN frames /\ k # Len(frames) /\ k + 1 \in DOMAIN frames
    BY <1>7
  <2>2. Cls(frames[k]) = "Callsub" /\ frames[k] \in Lines
    BY <1>4, <2>1 DEF FramesNestInBodies, TypeOK
  <2>3. PICK e \in Targets(frames[k]) : frames[k + 1] \in body[e]
    BY <1>4, <2>1 DEF FramesNestInBodies
  <2>4. e \in Entries
    BY <1>4, <2>2, CalleesAreEntries
  <2>5. CASE k = Len(frames')
    \* The callsub returned to lies in the body of the callee below it, and the
    \* walk of that body continues at the line after it.
    <3>1. frames[k + 1] = Top
      BY <1>7, <2>5 DEF Top
    <3>2. Cls(Top) = "Callsub"
      BY <1>4, <2>1, <3>1 DEF FramesNestInBodies
    <3>3. j \in AuxSucc(Top)
      BY <1>5, <3>2 DEF AuxSucc, AuxStop, Branches, Multi, Exits
    <3>4. QED
      BY <2>2, <2>3, <2>4, <2>5, <3>1, <3>3, StayInBody
  <2>6. CASE k # Len(frames')
    BY <2>2, <2>3, <2>6
  <2>7. QED
    BY <2>5, <2>6
<1>11. QED
  BY <1>8, <1>9, <1>10, DerivationRests DEF IInv

LEMMA HaltStep ==
    ASSUME IInv, phase = "built", UNCHANGED buildVars, Halt
    PROVE  IInv'
<1> USE DEF Halt
<1>1. TypeOK /\ ExecutionIsReachable /\ FramesNestInBodies
  BY DEF IInv
<1>2. TypeOK'
  BY <1>1, DerivationRests DEF TypeOK
<1>3. ExecutionIsReachable'
  BY <1>1, DerivationRests DEF ExecutionIsReachable
<1>4. FramesNestInBodies'
  BY <1>1, DerivationRests DEF FramesNestInBodies
<1>5. QED
  BY <1>2, <1>3, <1>4, DerivationRests DEF IInv

\* The moves that are neither a call nor a return, each along its own edge.
LEMMA LocalMoves ==
    ASSUME Fall \/ AssertPasses \/ Jump \/ Dispatch \/ \E nonzero \in BOOLEAN : Branch(nonzero)
    PROVE  /\ UNCHANGED frames
           /\ Cls(pc) # "Callsub"
           /\ \E type \in SuccTypes : \E j \in Out(pc, type) : MoveTo(j, type)
<1> USE DEF Out, Jumps, Falls, SuccTypes, Branches, Multi
<1>1. CASE Fall
  BY <1>1 DEF Fall
<1>2. CASE AssertPasses
  BY <1>2 DEF AssertPasses
<1>3. CASE Jump
  BY <1>3 DEF Jump
<1>4. CASE Dispatch
  BY <1>4 DEF Dispatch
<1>5. CASE Branch(TRUE)
  BY <1>5 DEF Branch
<1>6. CASE Branch(FALSE)
  BY <1>6 DEF Branch
<1>7. QED
  BY <1>1, <1>2, <1>3, <1>4, <1>5, <1>6

LEMMA StepPreserves == IInv /\ [Next]_vars => IInv'
<1> SUFFICES ASSUME IInv, [Next]_vars PROVE IInv'
  OBVIOUS
<1>1. CASE UNCHANGED vars
  <2>1. UNCHANGED buildVars /\ UNCHANGED avmVars
    BY <1>1 DEF vars, buildVars, avmVars
  <2>2. Lines' = Lines /\ Entries' = Entries /\ Return' = Return
        /\ (\A i : (AuxSucc(i))' = AuxSucc(i)) /\ \A i : (Succ(i))' = Succ(i)
    BY <2>1, SameText, SameSucc DEF buildVars
  <2>3. PredictedReturns' = PredictedReturns /\ \A i : (Cls(i))' = Cls(i) /\ (Targets(i))' = Targets(i)
    BY <2>1, SameText, SamePrediction DEF buildVars
  <2>4. TypeOK'
    BY <2>1, <2>2 DEF IInv, TypeOK, buildVars, avmVars
  <2>5. BodiesClosed' /\ ReturnsGated' /\ (phase = "bodies" => reachable = Lines)'
    BY <2>1, <2>2, <2>3 DEF IInv, BodiesClosed, ReturnsGated, buildVars
  <2>6. WalkInside' /\ BuiltMeansGated' /\ AvmWaits' /\ ExecutionIsReachable'
    BY <2>1, <2>2 DEF IInv, WalkInside, BuiltMeansGated, AvmWaits, ExecutionIsReachable,
                      buildVars, avmVars
  <2>7. FramesNestInBodies'
    BY <2>1, <2>3 DEF IInv, FramesNestInBodies, buildVars, avmVars
  <2>8. QED
    BY <2>4, <2>5, <2>6, <2>7 DEF IInv
<1>2. CASE Build /\ UNCHANGED avmVars
  BY <1>2, VisitBodyStep, PredictStep, VisitReachStep, EndReachStep, DropReturnsStep, PublishStep
     DEF Build
<1>3. CASE Execute
  <2>1. phase = "built" /\ UNCHANGED buildVars
    BY <1>3 DEF Execute
  <2>2. CASE Call
    BY <2>1, <2>2, CallStep
  <2>3. CASE Retsub
    BY <2>1, <2>3, RetsubStep
  <2>4. CASE Halt
    BY <2>1, <2>4, HaltStep
  <2>5. CASE Fall \/ AssertPasses \/ Jump \/ Dispatch \/ \E nonzero \in BOOLEAN : Branch(nonzero)
    BY <2>1, <2>5, LocalMoves, LocalMoveStep
  <2>6. QED
    BY <1>3, <2>2, <2>3, <2>4, <2>5 DEF Execute
<1>4. QED
  BY <1>1, <1>2, <1>3 DEF Next

-----------------------------------------------------------------------------
\* The inductive invariant holds of every behaviour, for every set of programs
\* and every depth of the call stack.
THEOREM Inductive == Spec => []IInv
<1>1. Init => IInv
  BY InitEstablishes
<1>2. IInv /\ [Next]_vars => IInv'
  BY StepPreserves
<1>3. QED
  BY <1>1, <1>2, PTL DEF Spec

\* Type correctness of the derivation and of the machine beside it.
THEOREM TypeCorrect == Spec => []TypeOK
<1>1. IInv => TypeOK
  BY DEF IInv
<1>2. QED
  BY <1>1, Inductive, PTL

\* No line an execution stands on, and no call in progress, is pruned from the
\* graph of cfg/build.py, whatever the program and the depth of its calls.
THEOREM ExecutionStaysReachable == Spec => []ExecutionIsReachable
<1>1. IInv => ExecutionIsReachable
  BY DEF IInv
<1>2. QED
  BY <1>1, Inductive, PTL

\* The call chain of every execution is nested in the predicted bodies.
THEOREM CallChainNests == Spec => []FramesNestInBodies
<1>1. IInv => FramesNestInBodies
  BY DEF IInv
<1>2. QED
  BY <1>1, Inductive, PTL

-----------------------------------------------------------------------------
(* The graph implements the abstract walk.                                 *)

LEMMA SameEdges ==
    ASSUME UNCHANGED buildVars
    PROVE  Edges' = Edges
<1>1. Lines' = Lines /\ \A i, t : (Out(i, t))' = Out(i, t)
  BY SameText DEF buildVars
<1>2. QED
  BY <1>1 DEF Edges, Edge, buildVars

\* Every execution of every program moves along the published edges, and takes
\* the polarity of the edge: the derivation implements CfgWalk.
THEOREM GraphCoversExecution == Spec => CoversExecution
<1> DEFINE shown == IF phase = "built" THEN Edges ELSE {}
<1>1. Init => Walk!Init
  BY DEF Init, InitBuild, InitAvm, Walk!Init
<1>2. IInv /\ IInv' /\ [Next]_vars => [Walk!Next]_Walk!walkVars
  <2> SUFFICES ASSUME IInv, IInv', [Next]_vars
               PROVE  [Walk!Next]_<<shown, pc, how>>
    BY DEF Walk!walkVars
  <2>1. CASE UNCHANGED vars
    BY <2>1, SameEdges DEF vars, buildVars
  <2>2. CASE Build /\ UNCHANGED avmVars
    <3>1. phase # "built" /\ pc' = pc /\ how' = how
      BY <2>2 DEF Build, VisitBody, Predict, VisitReach, EndReach, DropReturns, Publish, avmVars
    <3>2. how = "entry"
      BY <3>1 DEF IInv, AvmWaits
    <3>3. CASE shown' = {}
      BY <3>1, <3>3
    <3>4. CASE shown' # {}
      BY <3>1, <3>2, <3>4 DEF Walk!Next, Walk!Publish
    <3>5. QED
      BY <3>3, <3>4
  <2>3. CASE Execute
    <3>1. phase = "built" /\ phase' = "built" /\ shown = Edges /\ shown' = Edges
      BY <2>3, SameEdges DEF Execute, buildVars
    <3>2. ASSUME NEW j, NEW type, MoveTo(j, type),
                 [from |-> pc, to |-> j, type |-> type] \in Edges
          PROVE  Walk!Move
      BY <3>1, <3>2 DEF Walk!Move, MoveTo
    <3>3. CASE Halt
      BY <3>1, <3>3 DEF Halt
    <3>4. CASE Call
      <4>1. PICK j \in Targets(pc) : MoveTo(j, "normal")
        BY <3>4 DEF Call
      <4>2. j \in Out(pc, "normal") /\ j \in Lines
        BY <3>4, SuccInLines DEF Call, Out, Jumps
      <4>3. [from |-> pc, to |-> j, type |-> "normal"] \in Edges
        BY <3>1, <4>2, MoveIsAnEdge DEF SuccTypes
      <4>4. QED
        BY <3>2, <4>1, <4>3 DEF Walk!Next
    <3>5. CASE Retsub
      <4>1. PICK j \in ReturnPoint : MoveTo(j, "normal")
        BY <3>5 DEF Retsub
      <4>2. [from |-> pc, to |-> j, type |-> "normal"] \in Edges
        BY <3>1, <3>5, ReturnIsAnEdge DEF Retsub
      <4>3. QED
        BY <3>2, <4>1, <4>2 DEF Walk!Next
    <3>6. CASE Fall \/ AssertPasses \/ Jump \/ Dispatch \/ \E nonzero \in BOOLEAN : Branch(nonzero)
      <4>1. PICK type \in SuccTypes : \E j \in Out(pc, type) : MoveTo(j, type)
        BY <3>6, LocalMoves
      <4>2. PICK j \in Out(pc, type) : MoveTo(j, type)
        BY <4>1
      <4>3. [from |-> pc, to |-> j, type |-> type] \in Edges
        BY <3>1, SuccInLines, MoveIsAnEdge
      <4>4. QED
        BY <3>2, <4>2, <4>3 DEF Walk!Next
    <3>7. QED
      BY <2>3, <3>3, <3>4, <3>5, <3>6 DEF Execute
  <2>4. QED
    BY <2>1, <2>2, <2>3 DEF Next
<1>3. QED
  BY <1>1, <1>2, Inductive, PTL DEF Spec, CoversExecution, Walk!Spec

-----------------------------------------------------------------------------
(* What the published edges and blocks look like.                          *)

\* A published return edge is a predicted return of a reachable callsub, and
\* every predicted return of a reachable callsub is published.
THEOREM ReturnsMatch == Spec => []ReturnsMatchReachableCalls
<1>1. IInv => ReturnsMatchReachableCalls
  <2> SUFFICES ASSUME IInv, phase = "built",
                      NEW p \in reachable, NEW s \in Lines, Cls(p) = "Retsub"
               PROVE  (\E e \in Edges : e.from = p /\ e.to = s)
                      <=> \E c \in reachable :
                             /\ Cls(c) = "Callsub"
                             /\ s \in Nxt(c)
                             /\ \E t \in Targets(c) : p \in body[t]
    BY DEF ReturnsMatchReachableCalls
  <2>1. p \in Lines /\ reachable \subseteq Lines
    BY DEF IInv, TypeOK
  <2>2. ASSUME NEW e \in Edges, e.from = p, e.to = s
        PROVE  \E c \in reachable :
                  /\ Cls(c) = "Callsub"
                  /\ s \in Nxt(c)
                  /\ \E t \in Targets(c) : p \in body[t]
    <3>1. e.to \notin Out(p, e.type)
      BY DEF Out, Jumps, Falls, Multi
    <3>2. PICK r \in live : r.ret = p /\ r.cont = s
      BY <2>2, <3>1 DEF Edges
    <3>3. r \in PredictedReturns /\ r.call \in reachable
      BY DEF IInv, ReturnsGated, BuiltMeansGated
    <3>4. QED
      BY <3>2, <3>3 DEF PredictedReturns
  <2>3. ASSUME NEW c \in reachable, Cls(c) = "Callsub", s \in Nxt(c),
               \E t \in Targets(c) : p \in body[t]
        PROVE  \E e \in Edges : e.from = p /\ e.to = s
    <3> DEFINE r == [ret |-> p, cont |-> s, call |-> c]
               e == [from |-> p, to |-> s, type |-> "normal"]
    <3>1. r \in PredictedReturns
      BY <2>1, <2>3 DEF PredictedReturns, Return
    <3>2. r \in live
      BY <3>1 DEF IInv, ReturnsGated
    <3>3. e \in Edge
      BY <2>1 DEF Edge, SuccTypes
    <3>4. e \in Edges
      BY <3>2, <3>3 DEF Edges
    <3>5. QED
      BY <3>4
  <2>4. QED
    BY <2>2, <2>3
<1>2. QED
  BY <1>1, Inductive, PTL

-----------------------------------------------------------------------------
(* Blocks.  A second inductive invariant: everything but line 1 is reached  *)
(* from something reached before it.                                        *)

ReachedFrom(S, T) == \A i \in S : i = 1 \/ \E p \in T : i \in Succ(p)

WalkJustified ==
    /\ phase = "reach" => ReachedFrom(seen \union frontier, seen)
    /\ phase \in {"gate", "built"} => ReachedFrom(reachable, reachable)

LEMMA JustifiedInvariant == Spec => []WalkJustified
<1>1. Init => WalkJustified
  BY DEF Init, InitBuild, WalkJustified
<1>2. WalkJustified /\ [Next]_vars => WalkJustified'
  <2> SUFFICES ASSUME WalkJustified, [Next]_vars PROVE WalkJustified'
    OBVIOUS
  <2> USE DEF WalkJustified, ReachedFrom
  <2>1. CASE UNCHANGED buildVars
    <3>1. \A i : (Succ(i))' = Succ(i)
      BY <2>1, SameSucc DEF buildVars
    <3>2. QED
      BY <2>1, <3>1 DEF buildVars
  <2>2. CASE \E e \in DOMAIN todo : \E l \in todo[e] : VisitBody(e, l)
    BY <2>2 DEF VisitBody
  <2>3. CASE Predict \/ DropReturns
    BY <2>3 DEF Predict, DropReturns, StartReach
  <2>4. CASE \E l \in frontier : VisitReach(l)
    <3>1. PICK l \in frontier : VisitReach(l)
      BY <2>4
    <3>2. \A i : (Succ(i))' = Succ(i)
      BY <3>1, SameSucc DEF VisitReach
    <3>3. \A i \in seen' \union frontier' : i \in seen \union frontier \/ i \in Succ(l)
      BY <3>1 DEF VisitReach
    <3>4. l \in seen' /\ seen \subseteq seen' /\ phase = "reach" /\ phase' = "reach"
      BY <3>1 DEF VisitReach
    <3>5. QED
      BY <3>2, <3>3, <3>4
  <2>5. CASE EndReach
    <3>1. \A i : (Succ(i))' = Succ(i)
      BY <2>5, SameSucc DEF EndReach
    <3>2. QED
      BY <2>5, <3>1 DEF EndReach
  <2>6. CASE Publish
    <3>1. \A i : (Succ(i))' = Succ(i)
      BY <2>6, SameSucc DEF Publish
    <3>2. QED
      BY <2>6, <3>1 DEF Publish
  <2>7. QED
    BY <2>1, <2>2, <2>3, <2>4, <2>5, <2>6 DEF Next, Build, Execute, vars, buildVars
<1>3. QED
  BY <1>1, <1>2, PTL DEF Spec

\* Control enters a line that starts no codeblock only from the line above, and
\* leaves a line that ends none only to the line below.
LEMMA InsideBlock ==
    ASSUME TypeOK, PredictedReturns \subseteq Return, live \subseteq PredictedReturns,
           NEW i \in Lines, ~ EndsCodeblock(i)
    PROVE  /\ i + 1 \in Lines
           /\ i + 1 \in Out(i, "normal")
           /\ \A p \in Lines : i + 1 \in Succ(p) => p = i
           /\ \A type, j : j \in Out(i, type) => j = i + 1
           /\ \A r \in live : r.ret # i
<1>1. i + 1 \in Lines /\ i # Len(prog) /\ Cls(i + 1) # "Label" /\ Cls(i) \notin EndsClasses
  BY TextFacts DEF EndsCodeblock, Lines
<1>2. Cls(i) \in {"Ordinary", "Label"}
  BY <1>1, TextFacts DEF Cls, Instr, Classes, EndsClasses, Exits
<1>3. i + 1 \in Out(i, "normal")
  BY <1>1, <1>2 DEF Out, Falls, Nxt
<1>4. \A type, j : j \in Out(i, type) => j = i + 1
  BY <1>2 DEF Out, Jumps, Nxt, Multi
<1>5. \A p : i + 1 \notin Targets(p)
  BY <1>1 DEF Targets, Resolve, Definitions
<1>6. \A p \in Lines : i + 1 \in Nxt(p) => p = i
  BY DEF Nxt, Lines
<1>7. \A r \in live : r.ret # i /\ r.cont # i + 1
  BY <1>2, <1>6 DEF PredictedReturns, Return
<1>8. \A p \in Lines : i + 1 \in Succ(p) => p = i
  BY <1>5, <1>6, <1>7 DEF Succ, StaticSucc, Out
<1>9. QED
  BY <1>1, <1>3, <1>4, <1>7, <1>8

\* Neighbours inside a codeblock are reached together.
LEMMA NeighboursTogether ==
    ASSUME IInv, WalkJustified, phase = "built", NEW i \in Lines, ~ EndsCodeblock(i)
    PROVE  i \in reachable <=> i + 1 \in reachable
<1>1. TypeOK /\ PredictedReturns \subseteq Return /\ live \subseteq PredictedReturns
  BY PredictedAreReturns DEF IInv, ReturnsGated
<1>2. i + 1 \in Out(i, "normal") /\ \A p \in Lines : i + 1 \in Succ(p) => p = i
  BY <1>1, InsideBlock
<1>3. i \in reachable => i + 1 \in reachable
  BY <1>2 DEF Succ, StaticSucc, SuccTypes, IInv, ReturnsGated
<1>4. i + 1 # 1
  BY DEF Lines
<1>5. i + 1 \in reachable => i \in reachable
  BY <1>1, <1>2, <1>4 DEF WalkJustified, ReachedFrom, TypeOK
<1>6. QED
  BY <1>3, <1>5

\* From one reachable line the whole codeblock is reachable.
LEMMA RowsWhollyReachable ==
    ASSUME IInv, WalkJustified, phase = "built", NEW b \in Rows
    PROVE  b.first .. b.last \subseteq reachable
<1>1. /\ b.line \in reachable /\ b.line \in Lines /\ b.first \in Lines /\ b.last \in Lines
      /\ b.first <= b.line /\ b.line <= b.last
      /\ \A k \in b.first .. b.last : EndsCodeblock(k) => k = b.last
  BY DEF Rows, IInv, TypeOK
<1>2. Len(prog) \in Nat
  BY TextFacts DEF IInv
<1>3. \A k \in b.first .. b.last : k # b.last => (k \in reachable <=> k + 1 \in reachable)
  BY <1>1, <1>2, NeighboursTogether DEF Lines
<1>4. \A k \in b.line .. b.last : k \in reachable
  <2> DEFINE T == {k \in b.line .. b.last : k \notin reachable}
  <2>1. SUFFICES ASSUME T # {} PROVE FALSE
    OBVIOUS
  <2>2. T \subseteq Nat
    BY <1>1 DEF Lines
  <2>3. PICK x \in T : \A y \in T : x <= y
    <3> HIDE DEF T
    <3>1. QED
      BY <2>1, <2>2, LeastNumber
  <2>4. x # b.line /\ x \in b.line .. b.last
    BY <1>1
  <2>5. x - 1 \in b.line .. b.last /\ x - 1 \notin T /\ x - 1 # b.last /\ x - 1 + 1 = x
    BY <1>1, <2>3, <2>4 DEF Lines
  <2>6. QED
    BY <1>1, <1>3, <2>5 DEF Lines
<1>5. \A k \in b.first .. b.line : k \in reachable
  <2> DEFINE T == {k \in b.first .. b.line : k \notin reachable}
  <2>1. SUFFICES ASSUME T # {} PROVE FALSE
    OBVIOUS
  <2>2. T \subseteq 0 .. Len(prog)
    BY <1>1, <1>2 DEF Lines
  <2>3. PICK x \in T : \A y \in T : y <= x
    <3> HIDE DEF T
    <3>1. QED
      BY <1>2, <2>1, <2>2, GreatestNumber
  <2>4. x # b.line /\ x \in b.first .. b.line
    BY <1>1
  <2>5. x + 1 \in b.first .. b.line /\ x + 1 \notin T /\ x # b.last
    BY <1>1, <2>3, <2>4 DEF Lines
  <2>6. QED
    BY <1>1, <1>3, <2>5 DEF Lines
<1>6. QED
  BY <1>1, <1>4, <1>5 DEF Lines

\* Every reachable line has a row: the codeblock around it.
LEMMA RowExists ==
    ASSUME TypeOK, NEW i \in reachable
    PROVE  \E b \in Rows : b.line = i
<1> DEFINE S == {k \in 1..i : StartsCodeblock(k)}
           E == {k \in i..Len(prog) : EndsCodeblock(k)}
<1>1. Len(prog) \in Nat /\ i \in Lines
  BY TextFacts DEF TypeOK
<1>2. PICK f \in S : \A y \in S : y <= f
  <2>1. S \subseteq 0 .. Len(prog) /\ 1 \in S
    BY <1>1 DEF StartsCodeblock, Lines
  <2>2. S # {}
    BY <2>1
  <2> HIDE DEF S
  <2>3. QED
    BY <1>1, <2>1, <2>2, GreatestNumber
<1>3. PICK l \in E : \A y \in E : l <= y
  <2>1. E \subseteq Nat /\ Len(prog) \in E
    BY <1>1 DEF EndsCodeblock, Lines
  <2>2. E # {}
    BY <2>1
  <2> HIDE DEF E
  <2>3. QED
    BY <2>1, <2>2, LeastNumber
<1>4. f \in 1..i /\ l \in i..Len(prog) /\ StartsCodeblock(f) /\ EndsCodeblock(l)
  OBVIOUS
<1>5. ASSUME NEW k \in f..l, EndsCodeblock(k), k # l
      PROVE  FALSE
  <2>1. CASE k >= i
    BY <1>1, <1>3, <1>4, <1>5, <2>1 DEF Lines
  <2>2. CASE k < i
    <3>1. k + 1 \in 1..i /\ k + 1 - 1 = k /\ k + 1 > f
      BY <1>1, <1>4, <2>2 DEF Lines
    <3>2. StartsCodeblock(k + 1)
      BY <1>5, <3>1 DEF StartsCodeblock
    <3>3. k + 1 <= f
      BY <1>2, <3>1, <3>2
    <3>4. QED
      BY <1>4, <3>1, <3>3
  <2>3. QED
    BY <1>1, <1>4, <2>1, <2>2 DEF Lines
<1> DEFINE b == [line |-> i, first |-> f, last |-> l]
<1>6. b \in [line : reachable, first : Lines, last : Lines] /\ f <= i /\ i <= l
  BY <1>1, <1>4 DEF Lines
<1>7. b \in Rows
  BY <1>4, <1>5, <1>6 DEF Rows
<1>8. QED
  BY <1>7

\* Where control enters a block: after the end of one, or at a label.
LEMMA EntersAtStart ==
    ASSUME TypeOK, live \subseteq PredictedReturns, NEW i \in Lines, EndsCodeblock(i),
           NEW j \in Succ(i)
    PROVE  StartsCodeblock(j)
<1>1. Len(prog) \in Nat /\ j \in Lines
  BY TextFacts, SuccStaysInLines
<1>2. CASE Cls(j) = "Label"
  BY <1>1, <1>2 DEF StartsCodeblock, EndsCodeblock, Lines
<1>3. CASE j = i + 1
  BY <1>1, <1>3 DEF StartsCodeblock, Lines
<1>4. CASE \E r \in live : r.cont = j
  <2>1. PICK c \in Lines : Cls(c) = "Callsub" /\ j \in Nxt(c)
    BY <1>4 DEF PredictedReturns, Return
  <2>2. EndsCodeblock(c)
    BY <2>1 DEF EndsCodeblock, EndsClasses
  <2>3. j - 1 = c
    BY <2>1 DEF Nxt, Lines
  <2>4. QED
    BY <2>2, <2>3 DEF StartsCodeblock
<1>5. j \in Targets(i) => Cls(j) = "Label"
  BY DEF Targets, Resolve, Definitions
<1>6. j \in Nxt(i) => j = i + 1
  BY DEF Nxt
<1>7. QED
  BY <1>2, <1>3, <1>4, <1>5, <1>6 DEF Succ, StaticSucc, Out

\* The blocks of _blocks_of are straight-line: entered at the first line, left at
\* the last, live or dead as a whole, for every program.
THEOREM BlocksStraight == Spec => []BlocksAreStraightLine
<1>1. IInv /\ WalkJustified => BlocksAreStraightLine
  <2> SUFFICES ASSUME IInv, WalkJustified, phase = "built"
               PROVE  /\ \A b \in Rows : b.first .. b.last \subseteq reachable
                      /\ \A e \in Edges : \E b \in Rows :
                            /\ b.line = e.from
                            /\ \/ e.to = e.from + 1 /\ e.to <= b.last
                               \/ e.from = b.last /\ StartsCodeblock(e.to)
    BY DEF BlocksAreStraightLine
  <2>1. \A b \in Rows : b.first .. b.last \subseteq reachable
    BY RowsWhollyReachable
  <2>2. TypeOK /\ PredictedReturns \subseteq Return /\ live \subseteq PredictedReturns
    BY PredictedAreReturns DEF IInv, ReturnsGated
  <2>3. ASSUME NEW e \in Edges
        PROVE  \E b \in Rows :
                 /\ b.line = e.from
                 /\ \/ e.to = e.from + 1 /\ e.to <= b.last
                    \/ e.from = b.last /\ StartsCodeblock(e.to)
    <3>1. e.from \in Lines /\ e.to \in Lines /\ e.from \in reachable /\ e.type \in SuccTypes
      BY DEF Edges, Edge
    <3>2. e.to \in Out(e.from, e.type) \/ \E r \in live : r.ret = e.from /\ r.cont = e.to
      BY DEF Edges
    <3>3. PICK b \in Rows : b.line = e.from
      BY <2>2, <3>1, RowExists
    <3>4. /\ b.first \in Lines /\ b.last \in Lines /\ b.first <= b.line /\ b.line <= b.last
          /\ EndsCodeblock(b.last)
          /\ \A k \in b.first .. b.last : EndsCodeblock(k) => k = b.last
      BY DEF Rows
    <3>5. CASE EndsCodeblock(e.from)
      <4>1. e.from = b.last
        BY <3>1, <3>3, <3>4, <3>5 DEF Lines
      <4>2. e.to \in Succ(e.from)
        BY <3>1, <3>2 DEF Succ, StaticSucc
      <4>3. StartsCodeblock(e.to)
        BY <2>2, <3>1, <3>5, <4>2, EntersAtStart
      <4>4. QED
        BY <3>3, <4>1, <4>3
    <3>6. CASE ~ EndsCodeblock(e.from)
      <4>1. e.to = e.from + 1
        BY <2>2, <3>1, <3>2, <3>6, InsideBlock
      <4>2. e.from # b.last
        BY <3>4, <3>6
      <4>3. e.to <= b.last
        BY <3>1, <3>3, <3>4, <4>1, <4>2 DEF Lines
      <4>4. QED
        BY <3>3, <4>1, <4>3
    <3>7. QED
      BY <3>5, <3>6
  <2>4. QED
    BY <2>1, <2>3
<1>2. QED
  BY <1>1, Inductive, JustifiedInvariant, PTL

=============================================================================
