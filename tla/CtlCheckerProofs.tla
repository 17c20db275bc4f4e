-------------------------- MODULE CtlCheckerProofs --------------------------
(***************************************************************************)
(* Proofs about CtlChecker: for every state graph and every formula, in    *)
(* whatever order hash tables and sets are walked, the calls leave exactly *)
(* the values that are needed, and the sets that are grown are the least   *)
(* fixpoints.                                                              *)
(***************************************************************************)
EXTENDS CtlParser, FiniteSetTheorems, WellFoundedInduction, SequenceTheorems, TLAPS

-----------------------------------------------------------------------------
(* CtlLogic: the least set that is grown backwards, reaching a state       *)
(* inside a set, and strongly connected components.                        *)

LEMMA EUSatType == ASSUME NEW G, NEW f1, NEW f2 PROVE EUSat(G, f1, f2) \subseteq G.states
BY DEF EUSat

LEMMA StartInEUSat ==
    ASSUME NEW G, NEW f1, NEW f2 \in SUBSET G.states
    PROVE  f2 \subseteq EUSat(G, f1, f2)
BY DEF EUSat, Closed

LEMMA PredInEUSat ==
    ASSUME NEW G, NEW f1, NEW f2, NEW s \in EUSat(G, f1, f2), Pred(G, s) \subseteq G.states
    PROVE  Pred(G, s) \cap f1 \subseteq EUSat(G, f1, f2)
BY DEF EUSat, Closed

LEMMA ClosedContainsEUSat ==
    ASSUME NEW G, NEW f1, NEW f2, NEW X \in SUBSET G.states, Closed(G, f1, f2, X)
    PROVE  EUSat(G, f1, f2) \subseteq X
BY DEF EUSat

-----------------------------------------------------------------------------
(* s reaches t inside B; the last step may lead out of B.                  *)
Reach(G, B, s, t) == s \in EUSat(G, B, {t})

Graph(G, B) ==
    /\ B \subseteq G.states
    /\ \A x \in G.edges : x[1] \in G.states /\ x[3] \in G.states

LEMMA SuccPred ==
    ASSUME NEW G, NEW s, NEW t
    PROVE  t \in Succ(G, s) <=> s \in Pred(G, t)
BY DEF Succ, Pred

LEMMA PredStates ==
    ASSUME NEW G, NEW B, Graph(G, B), NEW s
    PROVE  Pred(G, s) \subseteq G.states
BY DEF Graph, Pred

LEMMA ReachSelf ==
    ASSUME NEW G, NEW B, NEW s \in G.states
    PROVE  Reach(G, B, s, s)
BY StartInEUSat DEF Reach

LEMMA ReachStep ==
    ASSUME NEW G, NEW B, Graph(G, B), NEW p \in B, NEW s \in Succ(G, p), NEW t,
           Reach(G, B, s, t)
    PROVE  Reach(G, B, p, t)
<1>1. p \in Pred(G, s) \cap B BY SuccPred
<1>2. Pred(G, s) \subseteq G.states BY PredStates
<1> QED BY <1>1, <1>2, PredInEUSat DEF Reach

LEMMA ReachTrans ==
    ASSUME NEW G, NEW B, NEW a, NEW b, NEW c, Reach(G, B, a, b), Reach(G, B, b, c)
    PROVE  Reach(G, B, a, c)
<1>1. a \in G.states /\ \A X \in SUBSET G.states : Closed(G, B, {b}, X) => a \in X
      BY DEF Reach, EUSat
<1>2. \A X \in SUBSET G.states : Closed(G, B, {c}, X) => b \in X
      BY DEF Reach, EUSat
<1>3. ASSUME NEW X \in SUBSET G.states, Closed(G, B, {c}, X) PROVE a \in X
  <2>1. b \in X BY <1>2, <1>3
  <2>2. Closed(G, B, {b}, X) BY <1>3, <2>1 DEF Closed
  <2> QED BY <1>1, <2>2
<1> QED BY <1>1, <1>3 DEF Reach, EUSat

LEMMA ReachEdge ==
    ASSUME NEW G, NEW B, Graph(G, B), NEW p \in B, NEW s \in Succ(G, p)
    PROVE  Reach(G, B, p, s)
<1>1. s \in G.states BY DEF Graph, Succ
<1> QED BY <1>1, ReachSelf, ReachStep

(* What reaches t is in B, or is t.                                        *)
LEMMA ReachWithin ==
    ASSUME NEW G, NEW B, Graph(G, B), NEW s, NEW t \in G.states, Reach(G, B, s, t)
    PROVE  s \in B \cup {t}
<1>1. B \cup {t} \in SUBSET G.states BY DEF Graph
<1>2. Closed(G, B, {t}, B \cup {t}) BY DEF Closed
<1> QED BY <1>1, <1>2, ClosedContainsEUSat DEF Reach

LEMMA ReachMore ==
    ASSUME NEW G, NEW B, Graph(G, B), NEW A \in SUBSET B, NEW s, NEW t, Reach(G, A, s, t)
    PROVE  Reach(G, B, s, t)
<1>1. \A X : Closed(G, B, {t}, X) => Closed(G, A, {t}, X) BY DEF Closed
<1> QED BY <1>1 DEF Reach, EUSat

(* A way from a state into a set X, which holds the end of the way and not *)
(* its start, enters X.                                                    *)
LEMMA ReachEnters ==
    ASSUME NEW G, NEW B, Graph(G, B), NEW s, NEW t \in G.states, Reach(G, B, s, t),
           NEW X \in SUBSET G.states, t \in X, s \notin X
    PROVE  \E p \in B \ X, n \in X : n \in Succ(G, p)
<1>1. SUFFICES ASSUME \A p \in B \ X, n \in X : n \notin Succ(G, p) PROVE FALSE
      OBVIOUS
<1>2. Closed(G, B, {t}, X)
  <2> SUFFICES ASSUME NEW n \in X, NEW p \in Pred(G, n) \cap B PROVE p \in X
      BY DEF Closed
  <2>1. n \in Succ(G, p) BY SuccPred
  <2> QED BY <1>1, <2>1
<1> QED BY <1>2, ClosedContainsEUSat DEF Reach

-----------------------------------------------------------------------------
(* Strongly connected components.                                          *)
Scc(G, B, x) == {y \in B : Reach(G, B, y, x) /\ Reach(G, B, x, y)}
Looping(G, B, x) == Scc(G, B, x) # {x} \/ x \in Succ(G, x)

LEMMA SccSelf ==
    ASSUME NEW G, NEW B, Graph(G, B), NEW x \in B
    PROVE  x \in Scc(G, B, x)
<1>1. x \in G.states BY DEF Graph
<1> QED BY <1>1, ReachSelf DEF Scc

LEMMA SccSame ==
    ASSUME NEW G, NEW B, Graph(G, B), NEW x \in B, NEW y \in Scc(G, B, x)
    PROVE  Scc(G, B, y) = Scc(G, B, x)
<1>1. Reach(G, B, y, x) /\ Reach(G, B, x, y) BY DEF Scc
<1>2. ASSUME NEW z \in Scc(G, B, x) PROVE z \in Scc(G, B, y)
  <2>1. z \in B /\ Reach(G, B, z, x) /\ Reach(G, B, x, z) BY <1>2 DEF Scc
  <2>2. Reach(G, B, z, y) /\ Reach(G, B, y, z) BY <1>1, <2>1, ReachTrans
  <2> QED BY <2>1, <2>2 DEF Scc
<1>3. ASSUME NEW z \in Scc(G, B, y) PROVE z \in Scc(G, B, x)
  <2>1. z \in B /\ Reach(G, B, z, y) /\ Reach(G, B, y, z) BY <1>3 DEF Scc
  <2>2. Reach(G, B, z, x) /\ Reach(G, B, x, z) BY <1>1, <2>1, ReachTrans
  <2> QED BY <2>1, <2>2 DEF Scc
<1> QED BY <1>2, <1>3

(* In a set that a path may visit for ever every state reaches every other.*)
LEMMA RecurrentConnected ==
    ASSUME NEW G, NEW B, Graph(G, B), NEW C \in SUBSET B, Recurrent(G, C),
           NEW x \in C, NEW y \in C
    PROVE  Reach(G, B, x, y)
<1> DEFINE D == {c \in C : ~Reach(G, B, c, y)}
<1>1. y \notin D
  <2>1. y \in G.states BY DEF Graph
  <2> QED BY <2>1, ReachSelf
<1>2. D = {}
  <2> SUFFICES ASSUME D # {} PROVE FALSE OBVIOUS
  <2>1. D \in SUBSET C /\ D \notin {{}, C} BY <1>1
  <2>2. PICK s \in D : Succ(G, s) \cap (C \ D) # {} BY <2>1 DEF Recurrent
  <2>3. PICK t \in Succ(G, s) : t \in C \ D BY <2>2
  <2>4. Reach(G, B, t, y) /\ s \in B BY <2>3
  <2>5. Reach(G, B, s, y) BY <2>3, <2>4, ReachStep
  <2> QED BY <2>5
<1> QED BY <1>2

LEMMA SccRecurrent ==
    ASSUME NEW G, NEW B, Graph(G, B), NEW x \in B, Looping(G, B, x)
    PROVE  Recurrent(G, Scc(G, B, x))
<1> DEFINE C == Scc(G, B, x)
<1>1. x \in C BY SccSelf
<1>2. ASSUME NEW D \in SUBSET C, D \notin {{}, C}
      PROVE  \E s \in D : Succ(G, s) \cap (C \ D) # {}
  <2>1. PICK d \in D : TRUE BY <1>2
  <2>2. PICK c \in C \ D : TRUE BY <1>2
  <2>3. /\ d \in B /\ Reach(G, B, d, x) /\ Reach(G, B, x, d)
        /\ c \in B /\ Reach(G, B, c, x) /\ Reach(G, B, x, c)
        BY <1>2, <2>1, <2>2 DEF Scc
  <2>4. Reach(G, B, d, c) BY <2>3, ReachTrans
  <2> DEFINE X == {z \in G.states : Reach(G, B, z, c)} \ D
  <2>5. c \in G.states /\ c \in X
    <3>1. c \in G.states BY <2>3 DEF Graph
    <3> QED BY <2>2, <3>1, ReachSelf
  <2>6. PICK p \in B \ X, n \in X : n \in Succ(G, p)
    <3>1. X \in SUBSET G.states /\ d \notin X BY <2>1
    <3> HIDE DEF X
    <3> QED BY <2>4, <2>5, <3>1, ReachEnters
  <2>7. Reach(G, B, n, c) BY <2>6
  <2>8. Reach(G, B, p, c) /\ p \in G.states BY <2>6, <2>7, ReachStep DEF Graph
  <2>9. p \in D BY <2>6, <2>8
  <2>10. Reach(G, B, x, p) BY <1>2, <2>9 DEF Scc
  <2>11. Reach(G, B, x, n)
    <3>1. Reach(G, B, p, n) BY <2>6, ReachEdge
    <3> QED BY <2>10, <3>1, ReachTrans
  <2>12. Reach(G, B, n, x) BY <2>3, <2>7, ReachTrans
  <2>13. n \in B BY <2>3, <2>5, <2>7, ReachWithin
  <2>14. n \in C \ D BY <2>6, <2>11, <2>12, <2>13 DEF Scc
  <2> QED BY <2>6, <2>9, <2>14
<1>3. \E s \in C : Succ(G, s) \cap C # {}
  <2>1. CASE x \in Succ(G, x) BY <1>1, <2>1
  <2>2. CASE C # {x}
    <3>1. {x} \in SUBSET C /\ {x} \notin {{}, C} BY <1>1, <2>2
    <3>2. PICK s \in {x} : Succ(G, s) \cap (C \ {x}) # {} BY <1>2, <3>1
    <3> QED BY <1>1, <3>2
  <2> QED BY <2>1, <2>2 DEF Looping
<1> QED BY <1>1, <1>2, <1>3 DEF Recurrent

(* The components with a loop are the maximal sets a path may visit for    *)
(* ever.                                                                   *)
LEMMA SccsMaximal ==
    ASSUME NEW G, NEW B, Graph(G, B)
    PROVE  {Scc(G, B, x) : x \in {y \in B : Looping(G, B, y)}} =
              {C \in SUBSET B : Recurrent(G, C) /\ \A D \in SUBSET B :
                                     C \subseteq D /\ Recurrent(G, D) => C = D}
<1>1. ASSUME NEW x \in B, Looping(G, B, x), NEW D \in SUBSET B,
             Scc(G, B, x) \subseteq D, Recurrent(G, D)
      PROVE  Scc(G, B, x) = D
  <2>1. x \in D BY <1>1, SccSelf
  <2>2. \A y \in D : Reach(G, B, x, y) /\ Reach(G, B, y, x)
        BY <1>1, <2>1, RecurrentConnected
  <2> QED BY <1>1, <2>2 DEF Scc
<1>2. ASSUME NEW C \in SUBSET B, Recurrent(G, C),
             \A D \in SUBSET B : C \subseteq D /\ Recurrent(G, D) => C = D
      PROVE  \E x \in B : Looping(G, B, x) /\ C = Scc(G, B, x)
  <2>1. PICK x \in C : Succ(G, x) \cap C # {} BY <1>2 DEF Recurrent
  <2>2. \A y \in C : Reach(G, B, x, y) /\ Reach(G, B, y, x)
        BY <1>2, RecurrentConnected
  <2>3. x \in B /\ C \subseteq Scc(G, B, x) BY <1>2, <2>2 DEF Scc
  <2>4. Looping(G, B, x) BY <2>1, <2>3 DEF Looping
  <2>5. Scc(G, B, x) \in SUBSET B BY DEF Scc
  <2>6. Recurrent(G, Scc(G, B, x)) BY <2>3, <2>4, SccRecurrent
  <2> QED BY <1>2, <2>3, <2>4, <2>5, <2>6
<1>3. \A x \in B : Scc(G, B, x) \in SUBSET B BY DEF Scc
<1> QED BY <1>1, <1>2, <1>3, SccRecurrent

-----------------------------------------------------------------------------
(* The checker                                                             *)

Operation == (Leaf \cup Unary \cup Binary) \X Int

(* The set that the loop over T starts from.                               *)
Start == IF Op[1] = "EU" THEN stack[1] ELSE UNION {C \in comps : FairPath(C)}

(* What is known while a set is grown, and while components are looked     *)
(* for: a state that has left T has its predecessors in the set.           *)
Growing ==
    pc = "grow" =>
        /\ at <= Len(inst.prog) /\ Op[1] \in {"EU", "EG"}
        /\ Start \subseteq acc /\ work \subseteq acc
        /\ acc \subseteq EUSat(g, base, Start)
        /\ \A s \in acc \ work : Pred(g, s) \cap base \subseteq acc

Searching == pc \in {"dfs", "scc"} => at <= Len(inst.prog) /\ Op[1] = "EG"

Ended == pc = "done" => at = Len(inst.prog) + 1

IInv == TypeOK /\ Growing /\ Searching /\ Ended

-----------------------------------------------------------------------------
(* What the first n operations leave.                                      *)
LEMMA OfStep ==
    ASSUME NEW ops, NEW prog, NEW n \in Nat, n # 0
    PROVE  /\ IsFiniteSet(Of(ops, prog, n))
           /\ Cardinality(Of(ops, prog, n)) \in Nat
           /\ Cardinality(Of(ops, prog, n)) =
                 Cardinality(Of(ops, prog, n - 1)) + (IF prog[n][1] \in ops THEN 1 ELSE 0)
<1>1. \A m \in Nat : IsFiniteSet(Of(ops, prog, m)) /\ Cardinality(Of(ops, prog, m)) \in Nat
  <2> SUFFICES ASSUME NEW m \in Nat
               PROVE  IsFiniteSet(Of(ops, prog, m)) /\ Cardinality(Of(ops, prog, m)) \in Nat
      OBVIOUS
  <2>1. Of(ops, prog, m) \in SUBSET (1 .. m)  BY DEF Of
  <2>2. IsFiniteSet(1 .. m)                   BY FS_Interval
  <2> QED BY <2>1, <2>2, FS_Subset, FS_CardinalityType
<1>2. n - 1 \in Nat OBVIOUS
<1>3. n \notin Of(ops, prog, n - 1) BY DEF Of
<1>4. CASE prog[n][1] \in ops
  <2>1. Of(ops, prog, n) = Of(ops, prog, n - 1) \cup {n} BY <1>4 DEF Of
  <2>2. Cardinality(Of(ops, prog, n - 1) \cup {n}) = Cardinality(Of(ops, prog, n - 1)) + 1
        BY <1>1, <1>2, <1>3, FS_AddElement
  <2> QED BY <1>1, <1>4, <2>1, <2>2
<1>5. CASE prog[n][1] \notin ops
  <2>1. Of(ops, prog, n) = Of(ops, prog, n - 1) BY <1>5 DEF Of
  <2> QED BY <1>1, <1>2, <1>5, <2>1
<1> QED BY <1>4, <1>5

LEMMA HeightStep ==
    ASSUME NEW prog \in Seq(Operation), NEW n \in DOMAIN prog
    PROVE  /\ Height(prog, n) = Height(prog, n - 1) + 1 - Arguments(prog[n])
           /\ Height(prog, n - 1) \in Int
<1>1. n \in Nat /\ n # 0 /\ prog[n] \in Operation OBVIOUS
<1>2. prog[n][1] \in Leaf \cup Unary \cup Binary BY <1>1 DEF Operation
<1>3. Cardinality(Of(Leaf, prog, n)) = Cardinality(Of(Leaf, prog, n - 1))
                                          + (IF prog[n][1] \in Leaf THEN 1 ELSE 0)
      BY <1>1, OfStep
<1>4. Cardinality(Of(Binary, prog, n)) = Cardinality(Of(Binary, prog, n - 1))
                                          + (IF prog[n][1] \in Binary THEN 1 ELSE 0)
      BY <1>1, OfStep
<1>5. \A ops : Cardinality(Of(ops, prog, n - 1)) \in Nat
  <2> SUFFICES ASSUME NEW ops PROVE Cardinality(Of(ops, prog, n - 1)) \in Nat OBVIOUS
  <2>1. CASE n - 1 = 0
    <3>1. Of(ops, prog, n - 1) = {}                BY <2>1 DEF Of
    <3>2. Cardinality(Of(ops, prog, n - 1)) = 0    BY <3>1, FS_EmptySet
    <3> QED BY <3>2
  <2>2. CASE n - 1 # 0
    <3>1. n - 1 \in Nat BY <1>1
    <3> QED BY <2>2, <3>1, OfStep
  <2> QED BY <2>1, <2>2
<1>6. CASE prog[n][1] \in Leaf
  <2>1. prog[n][1] \notin Binary BY <1>6 DEF Leaf, Binary
  <2> QED BY <1>3, <1>4, <1>5, <1>6, <2>1 DEF Height, Arguments
<1>7. CASE prog[n][1] \in Unary
  <2>1. prog[n][1] \notin Binary /\ prog[n][1] \notin Leaf BY <1>7 DEF Leaf, Unary, Binary
  <2> QED BY <1>3, <1>4, <1>5, <1>7, <2>1 DEF Height, Arguments
<1>8. CASE prog[n][1] \in Binary
  <2>1. prog[n][1] \notin Unary /\ prog[n][1] \notin Leaf BY <1>8 DEF Leaf, Unary, Binary
  <2> QED BY <1>3, <1>4, <1>5, <1>8, <2>1 DEF Height, Arguments
<1>9. Height(prog, n - 1) \in Int BY <1>5 DEF Height
<1> QED BY <1>2, <1>6, <1>7, <1>8, <1>9

LEMMA HeightZero == ASSUME NEW prog PROVE Height(prog, 0) = 0
<1>1. \A ops : Of(ops, prog, 0) = {} BY DEF Of
<1> QED BY <1>1, FS_EmptySet DEF Height

(* A call takes n values from the stack and leaves one.                    *)
LEMMA ReturnType ==
    ASSUME NEW S, NEW seq \in Seq(S), NEW n \in Nat, n <= Len(seq), NEW v \in S
    PROVE  /\ <<v>> \o SubSeq(seq, n + 1, Len(seq)) \in Seq(S)
           /\ Len(<<v>> \o SubSeq(seq, n + 1, Len(seq))) = Len(seq) + 1 - n
<1> DEFINE rest == SubSeq(seq, n + 1, Len(seq))
<1>1. \A i \in n + 1 .. Len(seq) : seq[i] \in S OBVIOUS
<1>2. rest \in Seq(S) /\ Len(rest) = Len(seq) - n
  <2>1. n + 1 \in Int /\ Len(seq) \in Int OBVIOUS
  <2>2. /\ rest \in Seq(S)
        /\ Len(rest) = IF n + 1 <= Len(seq) THEN Len(seq) - (n + 1) + 1 ELSE 0
        BY <1>1, <2>1, SubSeqProperties
  <2> QED BY <2>1, <2>2
<1>3. <<v>> \in Seq(S) /\ Len(<<v>>) = 1 OBVIOUS
<1>4. <<v>> \o rest \in Seq(S) /\ Len(<<v>> \o rest) = Len(<<v>>) + Len(rest)
      BY <1>2, <1>3, ConcatProperties
<1> QED BY <1>2, <1>3, <1>4

-----------------------------------------------------------------------------
LEMMA InstanceType ==
    ASSUME NEW i \in Instances
    PROVE  /\ \A x \in i.graph.edges : x[1] \in i.graph.states /\ x[3] \in i.graph.states
           /\ i.prog \in Seq(Operation)
           /\ \A n \in DOMAIN i.prog : Height(i.prog, n - 1) >= Arguments(i.prog[n])
BY InstancesAssumption DEF StateGraph, PostOrder, Operation

LEMMA InitInv == Init => IInv
<1> SUFFICES ASSUME Init PROVE IInv OBVIOUS
<1> USE DEF Init
<1>1. TypeOK
  <2>1. inst.prog \in Seq(Operation) BY InstanceType
  <2>2. at \in 1 .. (Len(inst.prog) + 1) BY <2>1
  <2>3. Len(stack) = Height(inst.prog, at - 1) BY HeightZero
  <2> QED BY <2>2, <2>3 DEF TypeOK
<1>2. Growing /\ Searching /\ Ended BY DEF Growing, Searching, Ended
<1> QED BY <1>1, <1>2 DEF IInv

(* The arguments of the next operation are on the stack.                   *)
LEMMA ArgumentsThere ==
    ASSUME TypeOK, at <= Len(inst.prog)
    PROVE  /\ at \in DOMAIN inst.prog /\ Op \in Operation
           /\ Arguments(Op) \in Nat /\ Arguments(Op) <= Len(stack)
           /\ \A i \in 1 .. Arguments(Op) : stack[i] \in SUBSET States
           /\ Height(inst.prog, at) = Len(stack) + 1 - Arguments(Op)
<1>1. inst.prog \in Seq(Operation) BY InstanceType DEF TypeOK
<1>2. at \in DOMAIN inst.prog BY <1>1 DEF TypeOK
<1>3. Op \in Operation BY <1>1, <1>2 DEF Op
<1>4. Arguments(Op) \in Nat BY DEF Arguments
<1>5. Arguments(Op) <= Len(stack) BY <1>2, <1>4, InstanceType DEF TypeOK, Op
<1>6. \A i \in 1 .. Arguments(Op) : stack[i] \in SUBSET States
      BY <1>4, <1>5 DEF TypeOK
<1>7. Height(inst.prog, at) = Len(stack) + 1 - Arguments(Op)
  <2>1. Height(inst.prog, at) = Height(inst.prog, at - 1) + 1 - Arguments(inst.prog[at])
        BY <1>1, <1>2, HeightStep
  <2> QED BY <2>1 DEF TypeOK, Op
<1> QED BY <1>2, <1>3, <1>4, <1>5, <1>6, <1>7

(* An operation that leaves its value keeps the stack as it should be.     *)
LEMMA ReturnKeepsStack ==
    ASSUME TypeOK, at <= Len(inst.prog), NEW v \in SUBSET States,
           Return(Arguments(Op), v), at' = at + 1, inst' = inst
    PROVE  /\ at' \in 1 .. (Len(inst'.prog) + 1)
           /\ Len(stack') = Height(inst'.prog, at' - 1)
           /\ stack' \in Seq(SUBSET States)
<1>1. inst.prog \in Seq(Operation) /\ at \in Nat BY InstanceType DEF TypeOK
<1>2. at' \in 1 .. (Len(inst'.prog) + 1) BY <1>1 DEF TypeOK
<1>3. stack \in Seq(SUBSET States) BY DEF TypeOK
<1>4. Arguments(Op) \in Nat /\ Arguments(Op) <= Len(stack) BY ArgumentsThere
<1>5. stack' \in Seq(SUBSET States) /\ Len(stack') = Len(stack) + 1 - Arguments(Op)
      BY <1>3, <1>4, ReturnType DEF Return
<1>6. Height(inst.prog, at) = Len(stack) + 1 - Arguments(Op) BY ArgumentsThere
<1>7. at' - 1 = at BY <1>1
<1> QED BY <1>2, <1>5, <1>6, <1>7

(* The parts of TypeOK that the searches do not disturb.                   *)
LEMMA SearchType ==
    ASSUME TypeOK, inst' = inst, at' = at, stack' = stack
    PROVE  /\ inst' \in Instances /\ at' \in 1 .. (Len(inst'.prog) + 1)
           /\ Len(stack') = Height(inst'.prog, at' - 1)
           /\ stack' \in Seq(SUBSET States') /\ States' = States
BY DEF TypeOK, States, g

LEMMA PredType == ASSUME TypeOK, NEW s PROVE Pred(g, s) \subseteq States
BY InstanceType DEF TypeOK, Pred, g, States

-----------------------------------------------------------------------------
(* Type correctness, action by action.                                     *)
LEMMA ValueType == ASSUME TypeOK, at <= Len(inst.prog), Op[1] \notin {"EU", "EG"}
                   PROVE  Value \in SUBSET States
<1>1. Op[1] \in Leaf \cup Unary \cup Binary BY ArgumentsThere DEF Operation
<1>2. \A i \in 1 .. Arguments(Op) : stack[i] \in SUBSET States BY ArgumentsThere
<1>3. CASE Op[1] = "TRUE" BY <1>3 DEF Value
<1>4. CASE Op[1] = "VAR"  BY <1>4 DEF Value, AtomicGetStates
<1>5. CASE Op[1] = "NOT"  BY <1>5 DEF Value
<1>6. CASE Op[1] = "OR"
  <2>1. Arguments(Op) = 2 BY <1>6 DEF Arguments, Leaf, Unary
  <2> QED BY <1>2, <1>6, <2>1 DEF Value
<1>7. CASE Op[1] = "AND"
  <2>1. Arguments(Op) = 2 BY <1>7 DEF Arguments, Leaf, Unary
  <2> QED BY <1>2, <1>7, <2>1 DEF Value
<1>8. CASE Op[1] = "EX"
  <2>1. \A s \in stack[1] : Pred(g, s) \subseteq States BY PredType
  <2> QED BY <1>8, <2>1 DEF Value
<1> QED BY <1>1, <1>3, <1>4, <1>5, <1>6, <1>7, <1>8 DEF Leaf, Unary, Binary

LEMMA TypeStep == TypeOK /\ Growing /\ Searching /\ [Next]_vars => TypeOK'
<1> SUFFICES ASSUME TypeOK, Growing, Searching, [Next]_vars PROVE TypeOK' OBVIOUS
<1>1. CASE Eval
  <2>1. Value \in SUBSET States BY <1>1, ValueType DEF Eval
  <2>2. /\ at' \in 1 .. (Len(inst'.prog) + 1)
        /\ Len(stack') = Height(inst'.prog, at' - 1)
        /\ stack' \in Seq(SUBSET States)
        BY <1>1, <2>1, ReturnKeepsStack DEF Eval
  <2>3. States' = States BY <1>1 DEF Eval, States, g
  <2> QED BY <1>1, <2>2, <2>3 DEF Eval, TypeOK, search
<1>2. CASE CheckEU
  <2>1. Arguments(Op) = 2 BY <1>2 DEF CheckEU, Arguments, Leaf, Unary
  <2>2. stack[1] \in SUBSET States /\ stack[2] \in SUBSET States
        BY <1>2, <2>1, ArgumentsThere DEF CheckEU
  <2> QED BY <1>2, <2>2, SearchType DEF CheckEU, TypeOK, search
<1>3. CASE Grow
  <2>1. acc' \subseteq States /\ work' \subseteq States
        BY <1>3, PredType DEF Grow, TypeOK
  <2> QED BY <1>3, <2>1, SearchType DEF Grow, TypeOK, search
<1>4. CASE Grown
  <2>1. at <= Len(inst.prog) BY <1>4 DEF Grown, Growing
  <2>2. acc \in SUBSET States BY DEF TypeOK
  <2>3. /\ at' \in 1 .. (Len(inst'.prog) + 1)
        /\ Len(stack') = Height(inst'.prog, at' - 1)
        /\ stack' \in Seq(SUBSET States)
        BY <1>4, <2>1, <2>2, ReturnKeepsStack DEF Grown
  <2>4. States' = States BY <1>4 DEF Grown, States, g
  <2> QED BY <1>4, <2>3, <2>4 DEF Grown, TypeOK, search
<1>5. CASE CheckEG
  <2>1. Arguments(Op) = 1 BY <1>5 DEF CheckEG, Arguments, Leaf, Unary
  <2>2. stack[1] \in SUBSET States
        BY <1>5, <2>1, ArgumentsThere DEF CheckEG
  <2> QED BY <1>5, <2>2, SearchType DEF CheckEG, TypeOK
<1>6. CASE Root
  <2>1. \A s \in White : s \in States BY DEF White, TypeOK
  <2>2. path' \in Seq(States) BY <1>6, <2>1 DEF Root
  <2> QED BY <1>6, <2>2, SearchType DEF Root, TypeOK
<1>7. CASE Visit
  <2>1. PICK s \in White : path' = <<s>> \o path BY <1>7 DEF Visit
  <2>2. s \in States BY DEF White, TypeOK
  <2>3. path' \in Seq(States) BY <2>1, <2>2 DEF TypeOK
  <2> QED BY <1>7, <2>3, SearchType DEF Visit, TypeOK
<1>8. CASE Finish
  <2>1. path \in Seq(States) /\ path # <<>> BY <1>8 DEF Finish, TypeOK
  <2>2. path[1] \in States /\ Tail(path) \in Seq(States) BY <2>1
  <2>3. finish' \in Seq(States) BY <1>8, <2>2, AppendProperties DEF Finish, TypeOK
  <2> QED BY <1>8, <2>2, <2>3, SearchType DEF Finish, TypeOK
<1>9. CASE Searched
  BY <1>9, SearchType DEF Searched, TypeOK
<1>10. CASE TakeComponent
  <2>1. PICK i \in DOMAIN finish :
           LET C == SccHelp(left, finish[i])
           IN  /\ left' = left \ C
               /\ comps' = IF Cardinality(C) = 1 /\ ~HasSelfLoop(finish[i])
                           THEN comps ELSE comps \cup {C}
        BY <1>10 DEF TakeComponent
  <2>2. SccHelp(left, finish[i]) \subseteq States BY EUSatType DEF SccHelp, States
  <2>3. left' \subseteq States /\ comps' \subseteq SUBSET States
        BY <2>1, <2>2 DEF TypeOK
  <2> QED BY <1>10, <2>3, SearchType DEF TakeComponent, TypeOK
<1>11. CASE FairComponents
  <2>1. work' \subseteq States BY <1>11 DEF FairComponents, TypeOK
  <2> QED BY <1>11, <2>1, SearchType DEF FairComponents, TypeOK, search
<1>12. CASE Answer
  BY <1>12, SearchType DEF Answer, TypeOK, search
<1>13. CASE UNCHANGED vars
  BY <1>13, SearchType DEF vars, TypeOK, search
<1> QED BY <1>1, <1>2, <1>3, <1>4, <1>5, <1>6, <1>7, <1>8, <1>9, <1>10, <1>11, <1>12, <1>13
        DEF Next

-----------------------------------------------------------------------------
(* The set that is grown.                                                  *)
LEMMA GrowingStep == TypeOK /\ Growing /\ Searching /\ [Next]_vars => Growing'
<1> SUFFICES ASSUME TypeOK, Growing, Searching, [Next]_vars, pc' = "grow"
             PROVE  /\ at' <= Len(inst'.prog) /\ Op'[1] \in {"EU", "EG"}
                    /\ Start' \subseteq acc' /\ work' \subseteq acc'
                    /\ acc' \subseteq EUSat(g', base', Start')
                    /\ \A s \in acc' \ work' : Pred(g', s) \cap base' \subseteq acc'
    BY DEF Growing
<1>1. CASE CheckEU
  <2>1. Arguments(Op) = 2 BY <1>1 DEF CheckEU, Arguments, Leaf, Unary
  <2>2. stack[1] \in SUBSET g.states
        BY <1>1, <2>1, ArgumentsThere DEF CheckEU, States
  <2>3. g' = g /\ Op' = Op /\ Op[1] = "EU" /\ Start' = stack[1]
        BY <1>1 DEF CheckEU, g, Op, Start
  <2>4. at' <= Len(inst'.prog) BY <1>1 DEF CheckEU
  <2>5. stack[1] \subseteq EUSat(g, base', stack[1]) BY <2>2, StartInEUSat
  <2> QED BY <1>1, <2>3, <2>4, <2>5 DEF CheckEU
<1>2. CASE Grow
  <2>1. g' = g /\ Op' = Op /\ Start' = Start /\ base' = base /\ at' = at /\ inst' = inst
        BY <1>2 DEF Grow, g, Op, Start, search, FairPath, Enables
  <2>2. PICK s \in work : LET new == (Pred(g, s) \cap base) \ acc
                          IN  /\ acc' = acc \cup new
                              /\ work' = (work \cup new) \ {s}
        BY <1>2 DEF Grow
  <2>3. /\ at <= Len(inst.prog) /\ Op[1] \in {"EU", "EG"}
        /\ Start \subseteq acc /\ work \subseteq acc
        /\ acc \subseteq EUSat(g, base, Start)
        /\ \A t \in acc \ work : Pred(g, t) \cap base \subseteq acc
        BY <1>2 DEF Grow, Growing
  <2>4. Pred(g, s) \cap base \subseteq EUSat(g, base, Start)
    <3>1. s \in EUSat(g, base, Start) BY <2>2, <2>3
    <3>2. Pred(g, s) \subseteq g.states BY PredType DEF States
    <3> QED BY <3>1, <3>2, PredInEUSat
  <2>5. acc' \subseteq EUSat(g, base, Start) BY <2>2, <2>3, <2>4
  <2>6. \A t \in acc' \ work' : Pred(g, t) \cap base \subseteq acc'
    <3> SUFFICES ASSUME NEW t \in acc' \ work' PROVE Pred(g, t) \cap base \subseteq acc'
        OBVIOUS
    <3>1. CASE t = s BY <2>2, <3>1
    <3>2. CASE t # s
      <4>1. t \in acc \ work BY <2>2, <3>2
      <4> QED BY <2>2, <2>3, <4>1
    <3> QED BY <3>1, <3>2
  <2> QED BY <2>1, <2>2, <2>3, <2>5, <2>6
<1>3. CASE FairComponents
  <2>1. g' = g /\ Op' = Op /\ base' = base /\ at' = at /\ inst' = inst /\ comps' = comps
        BY <1>3 DEF FairComponents, g, Op, search
  <2>2. at <= Len(inst.prog) /\ Op[1] = "EG" BY <1>3 DEF FairComponents, Searching
  <2>3. Start' = UNION {C \in comps : FairPath(C)}
        BY <2>1, <2>2 DEF Start, FairPath, Enables
  <2>4. Start' \in SUBSET g.states BY <2>3 DEF TypeOK, States
  <2>5. Start' \subseteq EUSat(g, base, Start') BY <2>4, StartInEUSat
  <2>6. acc' = Start' /\ work' = Start' BY <1>3, <2>3 DEF FairComponents
  <2> QED BY <2>1, <2>2, <2>5, <2>6
<1>4. CASE UNCHANGED vars
  <2>1. /\ g' = g /\ Op' = Op /\ Start' = Start
        /\ UNCHANGED <<at, inst, base, acc, work, pc>>
        BY <1>4 DEF vars, g, Op, Start, search, FairPath, Enables
  <2> QED BY <2>1 DEF Growing
<1>5. CASE Eval           BY <1>5 DEF Eval
<1>6. CASE Grown          BY <1>6 DEF Grown
<1>7. CASE CheckEG        BY <1>7 DEF CheckEG
<1>8. CASE Root           BY <1>8 DEF Root
<1>9. CASE Visit          BY <1>9 DEF Visit
<1>10. CASE Finish        BY <1>10 DEF Finish
<1>11. CASE Searched      BY <1>11 DEF Searched
<1>12. CASE TakeComponent BY <1>12 DEF TakeComponent
<1>13. CASE Answer        BY <1>13 DEF Answer
<1> QED BY <1>1, <1>2, <1>3, <1>4, <1>5, <1>6, <1>7, <1>8, <1>9, <1>10, <1>11, <1>12, <1>13
        DEF Next

LEMMA ControlStep == TypeOK /\ Searching /\ Ended /\ [Next]_vars => Searching' /\ Ended'
<1> SUFFICES ASSUME TypeOK, Searching, Ended, [Next]_vars PROVE Searching' /\ Ended' OBVIOUS
<1> USE DEF Searching, Ended, Op
<1>1. CASE Eval           BY <1>1 DEF Eval
<1>2. CASE CheckEU        BY <1>2 DEF CheckEU
<1>3. CASE Grow           BY <1>3 DEF Grow
<1>4. CASE Grown          BY <1>4 DEF Grown
<1>5. CASE CheckEG        BY <1>5 DEF CheckEG
<1>6. CASE Root           BY <1>6 DEF Root
<1>7. CASE Visit          BY <1>7 DEF Visit
<1>8. CASE Finish         BY <1>8 DEF Finish
<1>9. CASE Searched       BY <1>9 DEF Searched
<1>10. CASE TakeComponent BY <1>10 DEF TakeComponent
<1>11. CASE FairComponents BY <1>11 DEF FairComponents
<1>12. CASE Answer
  <2>1. inst.prog \in Seq(Operation) BY InstanceType DEF TypeOK
  <2>2. Len(inst.prog) \in Nat BY <2>1
  <2>3. at \in 1 .. (Len(inst.prog) + 1) /\ at > Len(inst.prog) BY <1>12 DEF Answer, TypeOK
  <2>4. at = Len(inst.prog) + 1 BY <2>2, <2>3
  <2> QED BY <1>12, <2>4 DEF Answer
<1>13. CASE UNCHANGED vars BY <1>13 DEF vars
<1> QED BY <1>1, <1>2, <1>3, <1>4, <1>5, <1>6, <1>7, <1>8, <1>9, <1>10, <1>11, <1>12, <1>13
        DEF Next

LEMMA GrowExactFromInv == IInv => GrowExact
<1> SUFFICES ASSUME IInv, pc = "grow"
             PROVE  /\ acc \subseteq EUSat(g, base, Start)
                    /\ work = {} => acc = EUSat(g, base, Start)
    BY DEF GrowExact, Start
<1>1. /\ Start \subseteq acc /\ acc \subseteq EUSat(g, base, Start)
      /\ \A s \in acc \ work : Pred(g, s) \cap base \subseteq acc
      BY DEF IInv, Growing
<1>2. ASSUME work = {} PROVE EUSat(g, base, Start) \subseteq acc
  <2>1. Closed(g, base, Start, acc) BY <1>1, <1>2 DEF Closed
  <2>2. acc \in SUBSET g.states BY DEF IInv, TypeOK, States
  <2> QED BY <2>1, <2>2, ClosedContainsEUSat
<1> QED BY <1>1, <1>2

LEMMA InvStep == IInv /\ [Next]_vars => IInv'
BY TypeStep, GrowingStep, ControlStep DEF IInv

LEMMA Invariant == Spec => []IInv
<1>1. Init => IInv BY InitInv
<1>2. IInv /\ [Next]_vars => IInv' BY InvStep
<1> QED BY <1>1, <1>2, PTL DEF Spec

-----------------------------------------------------------------------------
(* For every state graph and formula: no operation of checkCTLRec lacks an *)
(* argument, and each leaves one value.                                    *)
THEOREM TypeCorrect == Spec => []TypeOK
<1>1. IInv => TypeOK BY DEF IInv
<1> QED BY <1>1, Invariant, PTL

(* For every state graph and formula, in whatever order T is walked:       *)
(* checkEU returns the least set that contains f2 and the predecessors in  *)
(* f1 of its states, and checkEG the same of the fair components.          *)
THEOREM FixpointsExact == Spec => []GrowExact
BY Invariant, GrowExactFromInv, PTL

-----------------------------------------------------------------------------
(* The two searches of stateSCC find the strongly connected components,    *)
(* for every state graph, every argument of EG and every order in which    *)
(* the successors are walked.                                              *)

(* When a state is finished, the firings that lead out of what is finished *)
(* lead to states that are being visited, and from these it was reached.   *)
Latest ==
    \A i \in DOMAIN finish : \A k \in 1 .. i : \A z \in Succ(g, finish[k]) \cap base :
        (\A l \in 1 .. i : z # finish[l]) => Reach(g, base, z, finish[i])

Distinct(seq) == \A i, j \in DOMAIN seq : seq[i] = seq[j] => i = j

FirstSearch ==
    pc = "dfs" =>
        /\ comps = {}
        /\ \A i \in DOMAIN path : path[i] \in base
        /\ \A i \in DOMAIN finish : finish[i] \in base
        /\ Distinct(path) /\ Distinct(finish)
        /\ \A i \in DOMAIN path, j \in DOMAIN finish : path[i] # finish[j]
        /\ \A k, j \in DOMAIN path : k <= j => Reach(g, base, path[j], path[k])
        /\ \A i \in DOMAIN finish : Succ(g, finish[i]) \cap White = {}
        /\ Latest

(* The components taken are whole, and are exactly those of the states     *)
(* taken.                                                                  *)
Taken ==
    /\ \A x \in left : Scc(g, base, x) \subseteq left
    /\ comps = {Scc(g, base, x) : x \in {y \in base \ left : Looping(g, base, y)}}

SecondSearch ==
    pc = "scc" =>
        /\ \A i \in DOMAIN finish : finish[i] \in base
        /\ \A x \in base : \E i \in DOMAIN finish : x = finish[i]
        /\ Distinct(finish) /\ Latest
        /\ left \subseteq base
        /\ Taken

SccInv == FirstSearch /\ SecondSearch

-----------------------------------------------------------------------------
LEMMA BaseGraph == TypeOK => Graph(g, base)
BY InstanceType DEF TypeOK, Graph, g, States

(* Sequences as the searches change them.                                  *)
LEMMA ConsProperties ==
    ASSUME NEW S, NEW seq \in Seq(S), NEW s \in S
    PROVE  /\ DOMAIN (<<s>> \o seq) = 1 .. Len(seq) + 1
           /\ (<<s>> \o seq)[1] = s
           /\ \A i \in DOMAIN (<<s>> \o seq) : i # 1 =>
                 i - 1 \in DOMAIN seq /\ (<<s>> \o seq)[i] = seq[i - 1]
<1> DEFINE t == <<s>> \o seq
<1>1. <<s>> \in Seq(S) /\ Len(<<s>>) = 1 /\ <<s>>[1] = s OBVIOUS
<1>2. /\ t \in Seq(S) /\ Len(t) = Len(seq) + 1
      /\ \A i \in 1 .. Len(seq) + 1 : t[i] = IF i <= 1 THEN <<s>>[i] ELSE seq[i - 1]
      BY <1>1, ConcatProperties
<1>3. DOMAIN t = 1 .. Len(seq) + 1 BY <1>2
<1>4. Len(seq) \in Nat /\ DOMAIN seq = 1 .. Len(seq) OBVIOUS
<1>5. t[1] = s BY <1>1, <1>2, <1>4
<1>6. ASSUME NEW i \in DOMAIN t, i # 1
      PROVE  i - 1 \in DOMAIN seq /\ t[i] = seq[i - 1]
  <2>1. i \in 1 .. Len(seq) + 1 BY <1>3
  <2>2. ~(i <= 1) /\ i - 1 \in 1 .. Len(seq) BY <1>4, <1>6, <2>1
  <2> QED BY <1>2, <1>4, <2>1, <2>2
<1> QED BY <1>3, <1>5, <1>6

LEMMA TailProperties ==
    ASSUME NEW S, NEW seq \in Seq(S), seq # <<>>
    PROVE  /\ 1 \in DOMAIN seq
           /\ \A i \in DOMAIN Tail(seq) : i + 1 \in DOMAIN seq /\ Tail(seq)[i] = seq[i + 1]
           /\ \A i \in DOMAIN seq : i # 1 => i - 1 \in DOMAIN Tail(seq)
<1>1. /\ Tail(seq) \in Seq(S) /\ Len(Tail(seq)) = Len(seq) - 1
      /\ \A i \in 1 .. Len(Tail(seq)) : Tail(seq)[i] = seq[i + 1]
      BY HeadTailProperties
<1>2. DOMAIN seq = 1 .. Len(seq) /\ Len(seq) \in Nat /\ Len(seq) # 0 OBVIOUS
<1>3. DOMAIN Tail(seq) = 1 .. Len(Tail(seq)) BY <1>1
<1> QED BY <1>1, <1>2, <1>3

LEMMA AppendDomain ==
    ASSUME NEW S, NEW seq \in Seq(S), NEW s \in S
    PROVE  /\ Len(seq) + 1 \in DOMAIN Append(seq, s)
           /\ Append(seq, s)[Len(seq) + 1] = s
           /\ \A i \in DOMAIN Append(seq, s) : i # Len(seq) + 1 =>
                 i \in DOMAIN seq /\ Append(seq, s)[i] = seq[i]
           /\ \A i \in DOMAIN seq : i \in DOMAIN Append(seq, s) /\ Append(seq, s)[i] = seq[i]
<1>1. /\ Append(seq, s) \in Seq(S) /\ Len(Append(seq, s)) = Len(seq) + 1
      /\ \A i \in 1 .. Len(seq) : Append(seq, s)[i] = seq[i]
      /\ Append(seq, s)[Len(seq) + 1] = s
      BY AppendProperties
<1>2. DOMAIN seq = 1 .. Len(seq) /\ Len(seq) \in Nat OBVIOUS
<1>3. DOMAIN Append(seq, s) = 1 .. Len(seq) + 1 BY <1>1
<1> QED BY <1>1, <1>2, <1>3

LEMMA WhiteElements ==
    \A s : s \in White <=> /\ s \in base
                           /\ \A i \in DOMAIN path : s # path[i]
                           /\ \A i \in DOMAIN finish : s # finish[i]
BY DEF White, Range1

-----------------------------------------------------------------------------
(* The first search                                                        *)
LEMMA CheckEGStep == TypeOK /\ CheckEG => FirstSearch'
<1> SUFFICES ASSUME TypeOK, CheckEG PROVE FirstSearch' OBVIOUS
<1>1. path' = <<>> /\ finish' = <<>> /\ comps' = {} BY DEF CheckEG
<1>2. DOMAIN path' = {} /\ DOMAIN finish' = {} BY <1>1
<1> QED BY <1>1, <1>2 DEF FirstSearch, Distinct, Latest

(* A white state is entered; the path leads to it.                         *)
LEMMA EnterStep ==
    ASSUME TypeOK, FirstSearch, pc = "dfs", NEW s \in White,
           path' = <<s>> \o path,
           \A j \in DOMAIN path : Reach(g, base, path[j], s),
           UNCHANGED <<inst, pc, base, finish, comps>>
    PROVE  FirstSearch'
<1>1. g' = g BY DEF g
<1>2. path \in Seq(States) /\ s \in States /\ finish \in Seq(States) BY DEF TypeOK, White
<1>3. /\ DOMAIN path' = 1 .. Len(path) + 1 /\ path'[1] = s
      /\ \A i \in DOMAIN path' : i # 1 => i - 1 \in DOMAIN path /\ path'[i] = path[i - 1]
      BY <1>2, ConsProperties
<1>4. /\ comps = {}
      /\ \A i \in DOMAIN path : path[i] \in base
      /\ \A i \in DOMAIN finish : finish[i] \in base
      /\ Distinct(path) /\ Distinct(finish)
      /\ \A i \in DOMAIN path, j \in DOMAIN finish : path[i] # finish[j]
      /\ \A k, j \in DOMAIN path : k <= j => Reach(g, base, path[j], path[k])
      /\ \A i \in DOMAIN finish : Succ(g, finish[i]) \cap White = {}
      /\ Latest
      BY DEF FirstSearch
<1>5. /\ s \in base /\ \A i \in DOMAIN path : s # path[i]
      /\ \A i \in DOMAIN finish : s # finish[i]
      BY WhiteElements
<1>6. \A i \in DOMAIN path' : path'[i] \in base BY <1>3, <1>4, <1>5
<1>7. DOMAIN path \subseteq Nat /\ DOMAIN path' \subseteq Nat BY <1>2, <1>3
<1>8. Distinct(path')
  <2> SUFFICES ASSUME NEW i \in DOMAIN path', NEW j \in DOMAIN path', path'[i] = path'[j]
               PROVE  i = j
      BY DEF Distinct
  <2>1. CASE i = 1 BY <1>3, <1>5, <2>1
  <2>2. CASE j = 1 BY <1>3, <1>5, <2>2
  <2>3. CASE i # 1 /\ j # 1
    <3>1. i - 1 \in DOMAIN path /\ j - 1 \in DOMAIN path /\ path[i - 1] = path[j - 1]
          BY <1>3, <2>3
    <3>2. i - 1 = j - 1 BY <1>4, <3>1 DEF Distinct
    <3> QED BY <1>7, <3>2
  <2> QED BY <2>1, <2>2, <2>3
<1>9. \A i \in DOMAIN path', j \in DOMAIN finish' : path'[i] # finish'[j]
      BY <1>3, <1>4, <1>5
<1>10. \A k, j \in DOMAIN path' : k <= j => Reach(g, base, path'[j], path'[k])
  <2> SUFFICES ASSUME NEW k \in DOMAIN path', NEW j \in DOMAIN path', k <= j
               PROVE  Reach(g, base, path'[j], path'[k])
      OBVIOUS
  <2>1. CASE j = 1
    <3>1. k = 1 BY <1>3, <1>7, <2>1
    <3>2. s \in g.states BY <1>2 DEF States
    <3> QED BY <1>3, <2>1, <3>1, <3>2, ReachSelf
  <2>2. CASE j # 1 /\ k = 1 BY <1>3, <2>2
  <2>3. CASE j # 1 /\ k # 1
    <3>1. k - 1 <= j - 1 BY <1>7
    <3> QED BY <1>3, <1>4, <2>3, <3>1
  <2> QED BY <2>1, <2>2, <2>3
<1>11. White' \subseteq White
  <2>1. \A i \in DOMAIN path : i + 1 \in DOMAIN path' /\ path'[i + 1] = path[i]
    <3> SUFFICES ASSUME NEW i \in DOMAIN path
                 PROVE  i + 1 \in DOMAIN path' /\ path'[i + 1] = path[i]
        OBVIOUS
    <3>1. i \in 1 .. Len(path) /\ Len(path) \in Nat BY <1>2
    <3>2. i + 1 \in DOMAIN path' /\ i + 1 # 1 /\ (i + 1) - 1 = i BY <1>3, <3>1
    <3> QED BY <1>3, <3>2
  <2> QED BY <2>1 DEF White, Range1
<1>12. \A i \in DOMAIN finish' : Succ(g', finish'[i]) \cap White' = {}
       BY <1>1, <1>4, <1>11
<1>13. Latest' BY <1>1, <1>4 DEF Latest
<1> QED BY <1>1, <1>4, <1>6, <1>8, <1>9, <1>10, <1>12, <1>13 DEF FirstSearch

LEMMA RootStep == TypeOK /\ FirstSearch /\ Root => FirstSearch'
<1> SUFFICES ASSUME TypeOK, FirstSearch, Root PROVE FirstSearch' OBVIOUS
<1>1. PICK s \in White : path' = <<s>> BY DEF Root
<1>2. path = <<>> BY DEF Root
<1>3. path' = <<s>> \o path BY <1>1, <1>2
<1>4. DOMAIN path = {} BY <1>2
<1> QED BY <1>3, <1>4, EnterStep DEF Root

LEMMA VisitStep == TypeOK /\ FirstSearch /\ Visit => FirstSearch'
<1> SUFFICES ASSUME TypeOK, FirstSearch, Visit PROVE FirstSearch' OBVIOUS
<1>1. PICK s \in Succ(g, path[1]) \cap White : path' = <<s>> \o path BY DEF Visit
<1>2. path \in Seq(States) /\ path # <<>> BY DEF Visit, TypeOK
<1>3. 1 \in DOMAIN path /\ \A j \in DOMAIN path : 1 <= j BY <1>2
<1>4. path[1] \in base BY <1>3 DEF FirstSearch, Visit
<1>5. Reach(g, base, path[1], s) BY <1>1, <1>4, BaseGraph, ReachEdge
<1>6. \A j \in DOMAIN path : Reach(g, base, path[j], path[1])
      BY <1>3 DEF FirstSearch, Visit
<1>7. \A j \in DOMAIN path : Reach(g, base, path[j], s) BY <1>5, <1>6, ReachTrans
<1> QED BY <1>1, <1>7, EnterStep DEF Visit

(* The innermost state has no white successor left: those that are not     *)
(* finished are on the path, so they reach it.                             *)
LEMMA FinishStep == TypeOK /\ FirstSearch /\ Finish => FirstSearch'
<1> SUFFICES ASSUME TypeOK, FirstSearch, Finish PROVE FirstSearch' OBVIOUS
<1> DEFINE u == path[1]
           n == Len(finish) + 1
<1>1. /\ pc = "dfs" /\ path # <<>> /\ Succ(g, u) \cap White = {}
      /\ finish' = Append(finish, u) /\ path' = Tail(path)
      /\ UNCHANGED <<inst, pc, base, comps>>
      BY DEF Finish
<1>2. g' = g BY <1>1 DEF g
<1>3. path \in Seq(States) /\ finish \in Seq(States) BY DEF TypeOK
<1>4. /\ 1 \in DOMAIN path
      /\ \A i \in DOMAIN path' : i + 1 \in DOMAIN path /\ path'[i] = path[i + 1]
      /\ \A i \in DOMAIN path : i # 1 => i - 1 \in DOMAIN path'
      BY <1>1, <1>3, TailProperties
<1>5. u \in States BY <1>3, <1>4
<1>6. /\ n \in DOMAIN finish' /\ finish'[n] = u
      /\ \A i \in DOMAIN finish' : i # n => i \in DOMAIN finish /\ finish'[i] = finish[i]
      /\ \A i \in DOMAIN finish : i \in DOMAIN finish' /\ finish'[i] = finish[i]
      BY <1>1, <1>3, <1>5, AppendDomain
<1>7. /\ comps = {}
      /\ \A i \in DOMAIN path : path[i] \in base
      /\ \A i \in DOMAIN finish : finish[i] \in base
      /\ Distinct(path) /\ Distinct(finish)
      /\ \A i \in DOMAIN path, j \in DOMAIN finish : path[i] # finish[j]
      /\ \A k, j \in DOMAIN path : k <= j => Reach(g, base, path[j], path[k])
      /\ \A i \in DOMAIN finish : Succ(g, finish[i]) \cap White = {}
      /\ Latest
      BY <1>1 DEF FirstSearch
<1>8. /\ DOMAIN path \subseteq Nat /\ DOMAIN finish = 1 .. Len(finish) /\ Len(finish) \in Nat
      /\ DOMAIN path' \subseteq Nat /\ \A i \in DOMAIN path' : i # 0
  <2>1. Tail(path) \in Seq(States) BY <1>1, <1>3
  <2> QED BY <1>1, <1>3, <2>1
<1> HIDE DEF n
<1>9. \A i \in DOMAIN path' : path'[i] \in base BY <1>4, <1>7
<1>10. \A i \in DOMAIN finish' : finish'[i] \in base BY <1>4, <1>6, <1>7
<1>11. Distinct(path')
  <2> SUFFICES ASSUME NEW i \in DOMAIN path', NEW j \in DOMAIN path', path'[i] = path'[j]
               PROVE  i = j
      BY DEF Distinct
  <2>1. i + 1 = j + 1 BY <1>4, <1>7 DEF Distinct
  <2> QED BY <1>8, <2>1
<1>12. Distinct(finish')
  <2> SUFFICES ASSUME NEW i \in DOMAIN finish', NEW j \in DOMAIN finish', finish'[i] = finish'[j]
               PROVE  i = j
      BY DEF Distinct
  <2>1. CASE i = n /\ j # n BY <1>4, <1>6, <1>7, <2>1
  <2>2. CASE i # n /\ j = n BY <1>4, <1>6, <1>7, <2>2
  <2>3. CASE i # n /\ j # n BY <1>6, <1>7, <2>3 DEF Distinct
  <2> QED BY <2>1, <2>2, <2>3
<1>13. \A i \in DOMAIN path', j \in DOMAIN finish' : path'[i] # finish'[j]
  <2> SUFFICES ASSUME NEW i \in DOMAIN path', NEW j \in DOMAIN finish'
               PROVE  path'[i] # finish'[j]
      OBVIOUS
  <2>1. i + 1 \in DOMAIN path /\ path'[i] = path[i + 1] /\ i + 1 # 1 BY <1>4, <1>8
  <2>2. CASE j = n BY <1>4, <1>6, <1>7, <2>1, <2>2 DEF Distinct
  <2>3. CASE j # n BY <1>6, <1>7, <2>1, <2>3
  <2> QED BY <2>2, <2>3
<1>14. \A k, j \in DOMAIN path' : k <= j => Reach(g, base, path'[j], path'[k])
  <2> SUFFICES ASSUME NEW k \in DOMAIN path', NEW j \in DOMAIN path', k <= j
               PROVE  Reach(g, base, path'[j], path'[k])
      OBVIOUS
  <2>1. k + 1 <= j + 1 BY <1>8
  <2> QED BY <1>4, <1>7, <2>1
<1>15. White' \subseteq White
  <2> SUFFICES ASSUME NEW s \in White', s \notin White PROVE FALSE OBVIOUS
  <2>1. /\ s \in base /\ \A i \in DOMAIN path' : s # path'[i]
        /\ \A i \in DOMAIN finish' : s # finish'[i]
        BY <1>1 DEF White, Range1
  <2>2. \A i \in DOMAIN finish : s # finish[i] BY <1>6, <2>1
  <2>3. PICK i \in DOMAIN path : s = path[i] BY <2>1, <2>2, WhiteElements
  <2>4. i # 1 BY <1>6, <2>1, <2>3
  <2>5. i - 1 \in DOMAIN path' /\ i = (i - 1) + 1 BY <1>4, <1>8, <2>4
  <2>6. path'[i - 1] = path[i] BY <1>4, <2>5
  <2> QED BY <2>1, <2>3, <2>5, <2>6
<1>16. \A i \in DOMAIN finish' : Succ(g, finish'[i]) \cap White' = {}
  <2> SUFFICES ASSUME NEW i \in DOMAIN finish' PROVE Succ(g, finish'[i]) \cap White = {}
      BY <1>15
  <2>1. CASE i = n BY <1>1, <1>6, <2>1
  <2>2. CASE i # n BY <1>6, <1>7, <2>2
  <2> QED BY <2>1, <2>2
<1>17. \A i \in DOMAIN finish' : \A k \in 1 .. i : \A z \in Succ(g, finish'[k]) \cap base :
          (\A l \in 1 .. i : z # finish'[l]) => Reach(g, base, z, finish'[i])
  <2> SUFFICES ASSUME NEW i \in DOMAIN finish', NEW k \in 1 .. i,
                      NEW z \in Succ(g, finish'[k]) \cap base,
                      \A l \in 1 .. i : z # finish'[l]
               PROVE  Reach(g, base, z, finish'[i])
      OBVIOUS
  <2>1. CASE i # n
    <3>1. i \in DOMAIN finish /\ finish'[i] = finish[i] BY <1>6, <2>1
    <3>2. \A l \in 1 .. i : l \in DOMAIN finish /\ finish'[l] = finish[l]
          BY <1>6, <1>8, <3>1
    <3> QED BY <1>7, <3>1, <3>2 DEF Latest
  <2>2. CASE i = n
    <3>1. \A l \in DOMAIN finish : l \in 1 .. i /\ finish'[l] = finish[l]
          BY <1>6, <1>8, <2>2 DEF n
    <3>2. \A l \in DOMAIN finish : z # finish[l] BY <3>1
    <3>3. k \in DOMAIN finish' BY <1>6, <1>8, <2>2, <3>1 DEF n
    <3>4. z \notin White
      <4>1. Succ(g, finish'[k]) \cap White = {}
        <5>1. CASE k = n BY <1>1, <1>6, <5>1
        <5>2. CASE k # n BY <1>6, <1>7, <3>3, <5>2
        <5> QED BY <5>1, <5>2
      <4> QED BY <4>1
    <3>5. PICK j \in DOMAIN path : z = path[j] BY <3>2, <3>4, WhiteElements
    <3>6. 1 <= j BY <1>3
    <3>7. Reach(g, base, path[j], path[1]) BY <1>4, <1>7, <3>6
    <3> QED BY <1>6, <2>2, <3>5, <3>7
  <2> QED BY <2>1, <2>2
<1> QED BY <1>1, <1>2, <1>9, <1>10, <1>11, <1>12, <1>13, <1>14, <1>16, <1>17
        DEF FirstSearch, Latest

(* All states are finished when the second search begins.                  *)
LEMMA SearchedStep == TypeOK /\ FirstSearch /\ Searched => SecondSearch'
<1> SUFFICES ASSUME TypeOK, FirstSearch, Searched PROVE SecondSearch' OBVIOUS
<1>1. g' = g /\ base' = base /\ finish' = finish /\ comps' = {} /\ left' = base
      BY DEF Searched, g, FirstSearch
<1>2. \A i \in DOMAIN finish : finish[i] \in base BY DEF FirstSearch, Searched
<1>3. Distinct(finish) /\ Latest BY DEF FirstSearch, Searched
<1>4. path = <<>> /\ White = {} BY DEF Searched
<1>5. DOMAIN path = {} BY <1>4
<1>6. \A x \in base : \E i \in DOMAIN finish : x = finish[i]
      BY <1>4, <1>5, WhiteElements
<1>7. Latest' BY <1>1, <1>3 DEF Latest
<1>8. \A x \in base : Scc(g, base, x) \subseteq base BY DEF Scc
<1>9. base \ base = {} OBVIOUS
<1>10. Taken' BY <1>1, <1>8, <1>9 DEF Taken
<1> QED BY <1>1, <1>2, <1>3, <1>6, <1>7, <1>10 DEF SecondSearch

-----------------------------------------------------------------------------
(* The second search                                                       *)
LEMMA Largest ==
    ASSUME NEW n \in Nat, NEW T \in SUBSET (1 .. n), T # {}
    PROVE  \E x \in T : \A y \in T : y <= x
<1> DEFINE R == StrictSubsetOrdering(Nat)
           F == FiniteSubsetsOf(Nat)
           U == {x .. n : x \in T}
<1>1. IsWellFoundedOn(R, F) BY FS_StrictSubsetOrderingWellFounded
<1>2. U \subseteq F
  <2> SUFFICES ASSUME NEW x \in T PROVE (x .. n) \in F OBVIOUS
  <2>1. (x .. n) \in SUBSET Nat OBVIOUS
  <2>2. IsFiniteSet(x .. n) BY FS_Interval
  <2> QED BY <2>1, <2>2 DEF FiniteSubsetsOf
<1>3. U # {} OBVIOUS
<1>4. PICK u \in U : \A v \in U : ~ (<<v, u>> \in R)
  <2> HIDE DEF R, F, U
  <2> QED BY <1>1, <1>2, <1>3, WFMin
<1>5. PICK x \in T : u = x .. n OBVIOUS
<1>6. ASSUME NEW y \in T, ~(y <= x) PROVE FALSE
  <2>1. (y .. n) \in U OBVIOUS
  <2>2. /\ (y .. n) \in SUBSET Nat /\ (x .. n) \in SUBSET Nat
        /\ (y .. n) \subseteq (x .. n) /\ (x .. n) # (y .. n)
    <3>1. x \in x .. n /\ x \notin y .. n BY <1>6
    <3>2. (y .. n) \subseteq (x .. n) BY <1>6
    <3> QED BY <3>1, <3>2
  <2>3. <<y .. n, u>> \in R BY <1>5, <2>2 DEF StrictSubsetOrdering
  <2> QED BY <1>4, <2>1, <2>3
<1> QED BY <1>6

(* The state r was finished last of those that are left.  A state that     *)
(* reaches r was finished before; if r had not been found from it, it was  *)
(* left over a firing to a state from which it had itself been found, so   *)
(* of its component and finished later: the last such state refutes this.  *)
LEMMA LastIsRoot ==
    ASSUME TypeOK, SecondSearch, pc = "scc",
           NEW m \in DOMAIN finish, finish[m] \in left,
           \A j \in DOMAIN finish : finish[j] \in left => j <= m,
           NEW x \in left, Reach(g, base, x, finish[m])
    PROVE  Reach(g, base, finish[m], x)
<1> DEFINE r == finish[m]
           T == {i \in DOMAIN finish : /\ finish[i] \in left /\ Reach(g, base, finish[i], r)
                                       /\ ~Reach(g, base, r, finish[i])}
<1> SUFFICES ASSUME ~Reach(g, base, r, x) PROVE FALSE OBVIOUS
<1>1. /\ \A i \in DOMAIN finish : finish[i] \in base
      /\ \A y \in base : \E i \in DOMAIN finish : y = finish[i]
      /\ Distinct(finish) /\ Latest /\ left \subseteq base
      /\ \A y \in left : Scc(g, base, y) \subseteq left
      BY DEF SecondSearch, Taken
<1>2. finish \in Seq(States) /\ DOMAIN finish = 1 .. Len(finish) /\ Len(finish) \in Nat
      BY DEF TypeOK
<1>3. Graph(g, base) BY BaseGraph
<1>4. r \in g.states /\ r \in base BY <1>1, <1>3 DEF Graph
<1>5. T # {}
  <2>1. PICK i \in DOMAIN finish : x = finish[i] BY <1>1
  <2> QED BY <2>1
<1>6. PICK i \in T : \A j \in T : j <= i
  <2>1. T \in SUBSET (1 .. Len(finish)) BY <1>2
  <2> HIDE DEF T
  <2> QED BY <1>2, <1>5, <2>1, Largest
<1> DEFINE u == finish[i]
           Y == {finish[l] : l \in 1 .. i}
           X == {z \in g.states : Reach(g, base, z, r)} \ {z \in Y : Reach(g, base, u, z)}
<1>7. i <= m /\ i # m /\ i \in DOMAIN finish /\ u \in left /\ u \in base /\ u \in g.states
  <2>1. Reach(g, base, r, r) BY <1>4, ReachSelf
  <2> QED BY <1>1, <1>3, <2>1 DEF Graph
<1>8. r \notin Y
  <2> SUFFICES ASSUME NEW l \in 1 .. i, finish[l] = r PROVE FALSE OBVIOUS
  <2>1. l \in DOMAIN finish /\ l # m BY <1>2, <1>7
  <2> QED BY <1>1, <2>1 DEF Distinct
<1>9. u \in Y /\ Reach(g, base, u, u)
  <2>1. i \in 1 .. i BY <1>2, <1>7
  <2>2. Reach(g, base, u, u) BY <1>7, ReachSelf
  <2> QED BY <2>1, <2>2
<1>10. PICK y \in base \ X, z \in X : z \in Succ(g, y)
  <2>1. r \in X
    <3>1. Reach(g, base, r, r) BY <1>4, ReachSelf
    <3> QED BY <1>4, <1>8, <3>1
  <2>2. X \in SUBSET g.states OBVIOUS
  <2>3. u \notin X BY <1>9
  <2>4. Reach(g, base, u, r) BY <1>6
  <2> HIDE DEF X, u
  <2> QED BY <1>3, <1>4, <2>1, <2>2, <2>3, <2>4, ReachEnters
<1>11. Reach(g, base, z, r) BY <1>10
<1>12. z \in base BY <1>3, <1>4, <1>11, ReachWithin
<1>13. Reach(g, base, y, r) /\ y \in g.states
       BY <1>3, <1>10, <1>11, ReachStep DEF Graph
<1>14. y \in Y /\ Reach(g, base, u, y) BY <1>10, <1>13
<1>15. Reach(g, base, u, z)
  <2>1. Reach(g, base, y, z) BY <1>3, <1>10, ReachEdge
  <2> QED BY <1>14, <2>1, ReachTrans
<1>16. z \notin Y BY <1>10, <1>15
<1>17. Reach(g, base, z, u)
  <2>1. PICK k \in 1 .. i : y = finish[k] BY <1>14
  <2>2. \A l \in 1 .. i : z # finish[l] BY <1>16
  <2>3. z \in Succ(g, finish[k]) \cap base BY <1>10, <1>12, <2>1
  <2> QED BY <1>1, <1>7, <2>2, <2>3 DEF Latest
<1>18. z \in left
  <2>1. z \in Scc(g, base, u) BY <1>12, <1>15, <1>17 DEF Scc
  <2> QED BY <1>1, <1>7, <2>1
<1>19. PICK j \in DOMAIN finish : z = finish[j] BY <1>1, <1>12
<1>20. ~(j <= i)
  <2>1. j \notin 1 .. i BY <1>16, <1>19
  <2> QED BY <1>2, <1>7, <1>19, <2>1
<1>21. Reach(g, base, r, z) BY <1>6, <1>11, <1>18, <1>19, <1>20
<1>22. Reach(g, base, r, u) BY <1>17, <1>21, ReachTrans
<1> QED BY <1>6, <1>22

(* Inside the states that are left the second search finds the component.  *)
LEMMA HelpFindsScc ==
    ASSUME TypeOK, SecondSearch, pc = "scc",
           NEW m \in DOMAIN finish, finish[m] \in left,
           \A j \in DOMAIN finish : finish[j] \in left => j <= m
    PROVE  SccHelp(left, finish[m]) = Scc(g, base, finish[m])
<1> DEFINE r == finish[m]
           X == SccHelp(left, r)
           Y == X \cup {z \in g.states : ~Reach(g, base, r, z)}
<1>1. /\ left \subseteq base /\ r \in base
      /\ \A y \in left : Scc(g, base, y) \subseteq left
      BY DEF SecondSearch, Taken
<1>2. Graph(g, base) /\ Graph(g, left) BY <1>1, BaseGraph DEF Graph
<1>3. r \in g.states BY <1>1, <1>2 DEF Graph
<1>4. ASSUME NEW x \in X PROVE x \in Scc(g, base, r)
  <2>1. Reach(g, left, x, r) BY DEF SccHelp, Reach
  <2>2. x \in left
    <3>1. x \in left \cup {r} BY <1>2, <1>3, <2>1, ReachWithin
    <3> QED BY <3>1
  <2>3. Reach(g, base, x, r) BY <1>1, <1>2, <2>1, ReachMore
  <2>4. Reach(g, base, r, x) BY <2>2, <2>3, LastIsRoot
  <2> QED BY <1>1, <2>2, <2>3, <2>4 DEF Scc
<1>5. ASSUME NEW x \in Scc(g, base, r), x \notin X PROVE FALSE
  <2>1. x \in base /\ Reach(g, base, x, r) /\ Reach(g, base, r, x) BY <1>5 DEF Scc
  <2>2. X \subseteq g.states BY EUSatType DEF SccHelp
  <2>3. r \in X
    <3>1. Reach(g, left, r, r) BY <1>3, ReachSelf
    <3> QED BY <3>1 DEF Reach, SccHelp
  <2>4. PICK p \in base \ Y, n \in Y : n \in Succ(g, p)
    <3>1. Y \in SUBSET g.states /\ r \in Y /\ x \notin Y BY <1>5, <2>1, <2>2, <2>3
    <3> HIDE DEF Y
    <3> QED BY <1>2, <1>3, <2>1, <3>1, ReachEnters
  <2>5. p \in g.states /\ Reach(g, base, r, p) BY <1>2, <2>4 DEF Graph
  <2>6. Reach(g, base, r, n)
    <3>1. Reach(g, base, p, n) BY <1>2, <2>4, ReachEdge
    <3> QED BY <2>5, <3>1, ReachTrans
  <2>7. Reach(g, left, n, r) BY <2>4, <2>6 DEF SccHelp, Reach
  <2>8. Reach(g, base, n, r) BY <1>1, <1>2, <2>7, ReachMore
  <2>9. Reach(g, base, p, r) BY <1>2, <2>4, <2>8, ReachStep
  <2>10. p \in left
    <3>1. p \in Scc(g, base, r) BY <2>4, <2>5, <2>9 DEF Scc
    <3> QED BY <1>1, <3>1
  <2>11. Reach(g, left, p, r) BY <1>2, <2>4, <2>7, <2>10, ReachStep
  <2> QED BY <2>4, <2>11 DEF Reach, SccHelp
<1> QED BY <1>4, <1>5

(* A component is taken as a whole.                                        *)
LEMMA TakeStep == TypeOK /\ SecondSearch /\ TakeComponent => SecondSearch'
<1> SUFFICES ASSUME TypeOK, SecondSearch, TakeComponent PROVE SecondSearch' OBVIOUS
<1>1. /\ pc = "scc"
      /\ UNCHANGED <<inst, pc, base, finish>>
      BY DEF TakeComponent
<1>2. g' = g BY <1>1 DEF g
<1>3. PICK m \in DOMAIN finish :
         /\ finish[m] \in left
         /\ \A j \in DOMAIN finish : finish[j] \in left => j <= m
         /\ LET C == SccHelp(left, finish[m])
            IN  /\ left' = left \ C
                /\ comps' = IF Cardinality(C) = 1 /\ ~HasSelfLoop(finish[m])
                            THEN comps ELSE comps \cup {C}
      BY DEF TakeComponent
<1> DEFINE r == finish[m]
           C == Scc(g, base, r)
<1>4. SccHelp(left, r) = C BY <1>1, <1>3, HelpFindsScc
<1>5. /\ \A i \in DOMAIN finish : finish[i] \in base
      /\ \A x \in base : \E i \in DOMAIN finish : x = finish[i]
      /\ Distinct(finish) /\ Latest /\ left \subseteq base
      /\ \A x \in left : Scc(g, base, x) \subseteq left
      /\ comps = {Scc(g, base, x) : x \in {y \in base \ left : Looping(g, base, y)}}
      BY <1>1 DEF SecondSearch, Taken
<1>6. Graph(g, base) BY BaseGraph
<1>7. \A x \in C : Scc(g, base, x) = C BY <1>5, <1>6, SccSame
<1>8. r \in C /\ C \subseteq left BY <1>3, <1>5, <1>6, SccSelf
<1>9. left' = left \ C BY <1>3, <1>4
<1>10. ASSUME NEW x \in left' PROVE Scc(g, base, x) \subseteq left'
  <2> SUFFICES ASSUME NEW y \in Scc(g, base, x), y \in C PROVE FALSE
      BY <1>5, <1>9, <1>10
  <2>1. x \in base BY <1>5, <1>9, <1>10
  <2>2. Scc(g, base, y) = Scc(g, base, x) BY <1>6, <2>1, SccSame
  <2>3. Scc(g, base, x) = C BY <1>7, <2>2
  <2>4. x \in C BY <1>6, <2>1, <2>3, SccSelf
  <2> QED BY <1>9, <1>10, <2>4
<1>11. \A x \in C : Looping(g, base, x) <=> ~(C = {r} /\ ~HasSelfLoop(r))
  <2> SUFFICES ASSUME NEW x \in C
               PROVE  Looping(g, base, x) <=> ~(C = {r} /\ ~HasSelfLoop(r))
      OBVIOUS
  <2>1. Scc(g, base, x) = C BY <1>7
  <2>2. CASE C = {r}
    <3>1. x = r BY <2>2
    <3> QED BY <2>1, <2>2, <3>1 DEF Looping, HasSelfLoop
  <2>3. CASE C # {r}
    <3>1. Scc(g, base, x) # {x} BY <1>8, <2>1, <2>3
    <3> QED BY <2>3, <3>1 DEF Looping
  <2> QED BY <2>2, <2>3
<1>12. Cardinality(C) = 1 <=> C = {r}
  <2>1. IsFiniteSet(g.states) BY InstancesAssumption DEF TypeOK, StateGraph, g
  <2>2. C \in SUBSET g.states BY <1>6 DEF Graph, Scc
  <2>3. IsFiniteSet(C) BY <2>1, <2>2, FS_Subset
  <2>4. Cardinality(C) = 1 <=> \E x : C = {x} BY <2>3, FS_Singleton
  <2>5. Cardinality({r}) = 1 BY FS_Singleton
  <2> QED BY <1>8, <2>4, <2>5
<1>13. base \ left' = (base \ left) \cup C BY <1>5, <1>8, <1>9
<1>14. comps' = {Scc(g, base, x) : x \in {y \in base \ left' : Looping(g, base, y)}}
  <2>1. CASE C = {r} /\ ~HasSelfLoop(r)
    <3>1. comps' = comps BY <1>3, <1>4, <1>12, <2>1
    <3>2. {y \in base \ left' : Looping(g, base, y)} = {y \in base \ left : Looping(g, base, y)}
          BY <1>11, <1>13, <2>1
    <3> QED BY <1>5, <3>1, <3>2
  <2>2. CASE ~(C = {r} /\ ~HasSelfLoop(r))
    <3>1. comps' = comps \cup {C} BY <1>3, <1>4, <1>12, <2>2
    <3>2. {y \in base \ left' : Looping(g, base, y)} =
             {y \in base \ left : Looping(g, base, y)} \cup C
          BY <1>11, <1>13, <2>2
    <3>3. {Scc(g, base, x) : x \in C} = {C} BY <1>7, <1>8
    <3> HIDE DEF C
    <3> QED BY <1>5, <3>1, <3>2, <3>3
  <2> QED BY <2>1, <2>2
<1>15. Taken' BY <1>1, <1>2, <1>10, <1>14 DEF Taken
<1>16. left' \subseteq base' BY <1>1, <1>5, <1>9
<1>17. Latest' BY <1>1, <1>2, <1>5 DEF Latest
<1> QED BY <1>1, <1>5, <1>15, <1>16, <1>17 DEF SecondSearch

-----------------------------------------------------------------------------
LEMMA SccStutter ==
    ASSUME SccInv, UNCHANGED <<inst, pc, base, path, finish, left, comps>>
    PROVE  SccInv'
<1>1. g' = g /\ White' = White BY DEF g, White, Range1
<1>2. FirstSearch' BY <1>1 DEF SccInv, FirstSearch, Latest
<1>3. SecondSearch' BY <1>1 DEF SccInv, SecondSearch, Latest, Taken
<1> QED BY <1>2, <1>3 DEF SccInv

LEMMA SccStep == TypeOK /\ SccInv /\ [Next]_vars => SccInv'
<1> SUFFICES ASSUME TypeOK, SccInv, [Next]_vars PROVE SccInv' OBVIOUS
<1>1. FirstSearch /\ SecondSearch BY DEF SccInv
<1>2. pc' # "dfs" => FirstSearch' BY DEF FirstSearch
<1>3. pc' # "scc" => SecondSearch' BY DEF SecondSearch
<1>4. CASE Eval
  BY <1>2, <1>3, <1>4 DEF Eval, SccInv
<1>5. CASE CheckEU
  BY <1>2, <1>3, <1>5 DEF CheckEU, SccInv
<1>6. CASE Grow
  BY <1>2, <1>3, <1>6 DEF Grow, SccInv
<1>7. CASE Grown
  BY <1>2, <1>3, <1>7 DEF Grown, SccInv
<1>8. CASE CheckEG
  BY <1>3, <1>8, CheckEGStep DEF CheckEG, SccInv
<1>9. CASE Root
  BY <1>1, <1>3, <1>9, RootStep DEF Root, SccInv
<1>10. CASE Visit
  BY <1>1, <1>3, <1>10, VisitStep DEF Visit, SccInv
<1>11. CASE Finish
  BY <1>1, <1>3, <1>11, FinishStep DEF Finish, SccInv
<1>12. CASE Searched
  BY <1>1, <1>2, <1>12, SearchedStep DEF Searched, SccInv
<1>13. CASE TakeComponent
  BY <1>1, <1>2, <1>13, TakeStep DEF TakeComponent, SccInv
<1>14. CASE FairComponents
  BY <1>2, <1>3, <1>14 DEF FairComponents, SccInv
<1>15. CASE Answer
  BY <1>2, <1>3, <1>15 DEF Answer, SccInv
<1>16. CASE UNCHANGED vars
  BY <1>16, SccStutter DEF vars, search
<1> QED BY <1>4, <1>5, <1>6, <1>7, <1>8, <1>9, <1>10, <1>11, <1>12, <1>13, <1>14, <1>15, <1>16
        DEF Next

LEMMA SccInvariant == Spec => [](TypeOK /\ SccInv)
<1>1. Init => SccInv BY DEF Init, SccInv, FirstSearch, SecondSearch
<1>2. TypeOK /\ SccInv /\ [Next]_vars => SccInv' BY SccStep
<1>3. Spec => []TypeOK BY TypeCorrect
<1> QED BY <1>1, <1>2, <1>3, PTL DEF Spec

(* For every state graph, every set of states and every order of the two   *)
(* searches: stateSCC returns the strongly connected components that have  *)
(* a loop, which are the maximal sets a path can stay in for ever.         *)
THEOREM ComponentsFound == Spec => []ComponentsExact
<1>1. TypeOK /\ SccInv => ComponentsExact
  <2> SUFFICES ASSUME TypeOK, SccInv, pc = "scc", left = {}
               PROVE  comps = {C \in SUBSET base :
                          Recurrent(g, C) /\ \A D \in SUBSET base :
                              C \subseteq D /\ Recurrent(g, D) => C = D}
      BY DEF ComponentsExact
  <2>1. comps = {Scc(g, base, x) : x \in {y \in base \ left : Looping(g, base, y)}}
        BY DEF SccInv, SecondSearch, Taken
  <2>2. base \ left = base OBVIOUS
  <2>3. Graph(g, base) BY BaseGraph
  <2> QED BY <2>1, <2>2, <2>3, SccsMaximal
<1> QED BY <1>1, SccInvariant, PTL

-----------------------------------------------------------------------------
(* Fair paths                                                              *)
Found ==
    pc = "grow" /\ Op[1] = "EG" =>
        comps = {Scc(g, base, x) : x \in {y \in base : Looping(g, base, y)}}

LEMMA FoundStep == TypeOK /\ SccInv /\ Found /\ [Next]_vars => Found'
<1> SUFFICES ASSUME TypeOK, SccInv, Found, [Next]_vars, pc' = "grow", Op'[1] = "EG"
             PROVE  comps' = {Scc(g', base', x) : x \in {y \in base' : Looping(g', base', y)}}
    BY DEF Found
<1>1. CASE Grow
  <2>1. UNCHANGED <<pc, base, comps>> /\ g' = g /\ Op' = Op
        BY <1>1 DEF Grow, search, g, Op
  <2> QED BY <2>1 DEF Found
<1>2. CASE FairComponents
  <2>1. /\ pc = "scc" /\ left = {} /\ base \ left = base
        /\ UNCHANGED <<base, comps>> /\ g' = g
        BY <1>2 DEF FairComponents, search, g
  <2> QED BY <2>1 DEF SccInv, SecondSearch, Taken
<1>3. CASE CheckEU
  <2>1. Op' = Op /\ Op[1] = "EU" BY <1>3 DEF CheckEU, Op
  <2> QED BY <2>1
<1>4. CASE UNCHANGED vars
  <2>1. UNCHANGED <<pc, base, comps>> /\ g' = g /\ Op' = Op
        BY <1>4 DEF vars, search, g, Op
  <2> QED BY <2>1 DEF Found
<1>5. CASE Eval          BY <1>5 DEF Eval
<1>6. CASE Grown         BY <1>6 DEF Grown
<1>7. CASE CheckEG       BY <1>7 DEF CheckEG
<1>8. CASE Root          BY <1>8 DEF Root
<1>9. CASE Visit         BY <1>9 DEF Visit
<1>10. CASE Finish       BY <1>10 DEF Finish
<1>11. CASE Searched     BY <1>11 DEF Searched
<1>12. CASE TakeComponent BY <1>12 DEF TakeComponent
<1>13. CASE Answer       BY <1>13 DEF Answer
<1> QED BY <1>1, <1>2, <1>3, <1>4, <1>5, <1>6, <1>7, <1>8, <1>9, <1>10, <1>11, <1>12, <1>13
        DEF Next

(* Every set a fair path can stay in is part of a fair component.          *)
LEMMA FairUnion ==
    ASSUME TypeOK, comps = {Scc(g, base, x) : x \in {y \in base : Looping(g, base, y)}}
    PROVE  UNION {C \in comps : FairPath(C)} =
              UNION {C \in SUBSET base : Recurrent(g, C) /\ FairlyIn(g, C)}
<1>1. Graph(g, base) BY BaseGraph
<1>2. ASSUME NEW C \in comps, FairPath(C)
      PROVE  C \in SUBSET base /\ Recurrent(g, C) /\ FairlyIn(g, C)
  <2>1. PICK r \in base : Looping(g, base, r) /\ C = Scc(g, base, r) OBVIOUS
  <2>2. C \in SUBSET base BY <2>1 DEF Scc
  <2>3. Recurrent(g, C) BY <1>1, <2>1, SccRecurrent
  <2>4. FairlyIn(g, C)
    <3> SUFFICES ASSUME NEW e \in {x[2] : x \in g.edges}
                 PROVE  \/ \E s \in C : ~Enables(g, s, e)
                        \/ \E x \in g.edges : x[1] \in C /\ x[2] = e /\ x[3] \in C
        BY DEF FairlyIn
    <3>1. \E s \in C : \/ ~Enables(g, s, e)
                       \/ \E x \in g.edges : x[1] = s /\ x[2] = e /\ x[3] \in C
          BY <1>2 DEF FairPath
    <3> QED BY <3>1
  <2> QED BY <2>2, <2>3, <2>4
<1>3. ASSUME NEW C \in SUBSET base, Recurrent(g, C), FairlyIn(g, C)
      PROVE  \E M \in comps : FairPath(M) /\ C \subseteq M
  <2>1. PICK x \in C : Succ(g, x) \cap C # {} BY <1>3 DEF Recurrent
  <2> DEFINE M == Scc(g, base, x)
  <2>2. \A y \in C : Reach(g, base, x, y) /\ Reach(g, base, y, x)
        BY <1>1, <1>3, RecurrentConnected
  <2>3. x \in base /\ C \subseteq M BY <1>3, <2>2 DEF Scc
  <2>4. Looping(g, base, x) BY <2>1, <2>3 DEF Looping
  <2>5. M \in comps BY <2>3, <2>4
  <2>6. FairPath(M)
    <3> SUFFICES ASSUME NEW e \in {y[2] : y \in g.edges}
                 PROVE  \E s \in M : \/ ~Enables(g, s, e)
                                     \/ \E y \in g.edges : y[1] = s /\ y[2] = e /\ y[3] \in M
        BY DEF FairPath
    <3>1. \/ \E s \in C : ~Enables(g, s, e)
          \/ \E y \in g.edges : y[1] \in C /\ y[2] = e /\ y[3] \in C
          BY <1>3 DEF FairlyIn
    <3> HIDE DEF M
    <3> QED BY <2>3, <3>1
  <2> QED BY <2>3, <2>5, <2>6
<1> QED BY <1>2, <1>3

(* For every state graph and formula: EG f holds after checkEG exactly in  *)
(* the states from which a fair path keeps f.                              *)
THEOREM FairPathsFound == Spec => []EGExact
<1>1. Init => Found BY DEF Init, Found
<1>2. TypeOK /\ SccInv /\ Found /\ [Next]_vars => Found' BY FoundStep
<1>3. TypeOK /\ GrowExact /\ Found => EGExact
  <2> SUFFICES ASSUME TypeOK, GrowExact, Found, pc = "grow", work = {}, Op[1] = "EG"
               PROVE  acc = EGSat(g, base)
      BY DEF EGExact
  <2>1. acc = EUSat(g, base, UNION {C \in comps : FairPath(C)}) BY DEF GrowExact
  <2>2. UNION {C \in comps : FairPath(C)} =
           UNION {C \in SUBSET base : Recurrent(g, C) /\ FairlyIn(g, C)}
        BY FairUnion DEF Found
  <2> QED BY <2>1, <2>2 DEF EGSat
<1> QED BY <1>1, <1>2, <1>3, SccInvariant, FixpointsExact, PTL DEF Spec

-----------------------------------------------------------------------------
(* Formulas: what the operations that the grammar leaves compute is what   *)
(* the operators mean.                                                     *)

LEMMA CountUp ==
    ASSUME NEW T, 0 \in T, \A n \in Nat : n \in T => n + 1 \in T
    PROVE  Nat \subseteq T
<1> DEFINE less == OpToRel(<, Nat)
<1> SUFFICES ASSUME Nat \ T # {} PROVE FALSE OBVIOUS
<1>1. PICK x \in Nat \ T : \A y \in Nat \ T : ~(<<y, x>> \in less)
  <2>1. IsWellFoundedOn(less, Nat) BY NatLessThanWellFounded
  <2>2. Nat \ T \subseteq Nat OBVIOUS
  <2> HIDE DEF less
  <2> QED BY <2>1, <2>2, WFMin
<1>2. x # 0 /\ x - 1 \in Nat OBVIOUS
<1>3. x - 1 \in T
  <2> SUFFICES ASSUME x - 1 \in Nat \ T PROVE FALSE BY <1>2
  <2>1. <<x - 1, x>> \in Nat \X Nat /\ <<x - 1, x>>[1] < <<x - 1, x>>[2] BY <1>2
  <2>2. <<x - 1, x>> \in less BY <2>1 DEF OpToRel
  <2> QED BY <1>1, <2>2
<1>4. x - 1 + 1 = x OBVIOUS
<1> QED BY <1>2, <1>3, <1>4

-----------------------------------------------------------------------------
(* The duals by which the grammar removes operators.                       *)
LEMMA WeakUntil ==
    ASSUME NEW G, Graph(G, {}), NEW P \in SUBSET G.states, NEW Q \in SUBSET G.states
    PROVE  G.states \ EUSat(G, G.states \ Q, (G.states \ P) \cap (G.states \ Q))
              = AWSat(G, P, Q)
<1> DEFINE S  == G.states
           f1 == S \ Q
           f2 == (S \ P) \cap (S \ Q)
           E  == EUSat(G, f1, f2)
<1>1. E \subseteq S /\ f2 \subseteq E
  <2>1. f2 \in SUBSET S OBVIOUS
  <2> QED BY <2>1, EUSatType, StartInEUSat
<1>2. ASSUME NEW t \in S \ E
      PROVE  t \in Q \/ (t \in P /\ Succ(G, t) \subseteq S \ E)
  <2> SUFFICES ASSUME t \notin Q PROVE t \in P /\ Succ(G, t) \subseteq S \ E OBVIOUS
  <2>1. t \in P BY <1>1, <1>2
  <2>2. ASSUME NEW u \in Succ(G, t), u \in E PROVE FALSE
    <3>1. Pred(G, u) \subseteq S BY PredStates
    <3>2. t \in Pred(G, u) BY SuccPred
    <3>3. Pred(G, u) \cap f1 \subseteq E BY <2>2, <3>1, PredInEUSat
    <3> QED BY <1>2, <3>2, <3>3
  <2>3. Succ(G, t) \subseteq S BY DEF Succ, Graph
  <2> QED BY <2>1, <2>2, <2>3
<1>3. ASSUME NEW s \in S \ E PROVE s \in AWSat(G, P, Q)
  <2>1. S \ E \in SUBSET S OBVIOUS
  <2> HIDE DEF E
  <2> QED BY <1>2, <1>3, <2>1 DEF AWSat
<1>4. ASSUME NEW s \in AWSat(G, P, Q) PROVE s \in S \ E
  <2>1. PICK X \in SUBSET S :
            /\ s \in X
            /\ \A t \in X : t \in Q \/ (t \in P /\ Succ(G, t) \subseteq X)
        BY DEF AWSat
  <2>2. Closed(G, f1, f2, S \ X)
    <3>1. f2 \subseteq S \ X BY <2>1
    <3>2. ASSUME NEW u \in S \ X, NEW t \in Pred(G, u) \cap f1 PROVE t \in S \ X
      <4>1. u \in Succ(G, t) BY SuccPred
      <4> QED BY <2>1, <3>2, <4>1
    <3> QED BY <3>1, <3>2 DEF Closed
  <2>3. E \subseteq S \ X
    <3>1. S \ X \in SUBSET G.states OBVIOUS
    <3> QED BY <2>2, <3>1, ClosedContainsEUSat
  <2>4. s \in S BY <2>1
  <2> QED BY <2>1, <2>3, <2>4
<1> QED BY <1>3, <1>4

LEMMA Always ==
    ASSUME NEW G, Graph(G, {}), NEW F \in SUBSET G.states
    PROVE  G.states \ EUSat(G, G.states, F) = AWSat(G, G.states \ F, {})
<1>1. /\ G.states \ {} = G.states
      /\ (G.states \ (G.states \ F)) \cap (G.states \ {}) = F
      OBVIOUS
<1>2. G.states \ EUSat(G, G.states \ {}, (G.states \ (G.states \ F)) \cap (G.states \ {}))
         = AWSat(G, G.states \ F, {})
  <2>1. G.states \ F \in SUBSET G.states /\ {} \in SUBSET G.states OBVIOUS
  <2> QED BY <2>1, WeakUntil
<1> QED BY <1>1, <1>2

LEMMA NextDual ==
    ASSUME NEW G, Graph(G, {}), NEW P \in SUBSET G.states
    PROVE  G.states \ EXSat(G, G.states \ P) = {s \in G.states : Succ(G, s) \subseteq P}
<1>1. \A s : Succ(G, s) \subseteq G.states BY DEF Succ, Graph
<1> QED BY <1>1 DEF EXSat

-----------------------------------------------------------------------------
(* What an operation makes of the last two values, a and b.                *)
Outcome(G, operation, a, b) ==
    CASE operation[1] = "TRUE" -> G.states
      [] operation[1] = "VAR"  -> {s \in G.states : G.code[operation[2]][s] \in {"1", "F"}}
      [] operation[1] = "NOT"  -> G.states \ a
      [] operation[1] = "OR"   -> b \cup a
      [] operation[1] = "AND"  -> b \cap a
      [] operation[1] = "EX"   -> EXSat(G, a)
      [] operation[1] = "EU"   -> EUSat(G, b, a)
      [] operation[1] = "EG"   -> EGSat(G, a)

Applied(G, operation, st) ==
    <<Outcome(G, operation, st[1], st[2])>> \o SubSeq(st, Arguments(operation) + 1, Len(st))

(* The operation leads from stack o of H to stack n.                       *)
Leads(H, G, operation, o, n) == H[n] = Applied(G, operation, H[o])

(* In H are the stacks after the operations of P; those from o on that are *)
(* the list p add the value v.                                             *)
Replay(G, P, H, o, p) ==
    /\ P \in Seq(Operation) /\ H \in [0 .. Len(P) -> Seq(SUBSET G.states)]
    /\ o \in Nat /\ o + Len(p) <= Len(P)
    /\ \A i \in 1 .. Len(p) : /\ P[o + i] = p[i]
                              /\ H[o + i] = Applied(G, P[o + i], H[o + i - 1])

Computes(G, p, v) ==
    /\ p \in Seq(Operation) /\ p # <<>>
    /\ v \in SUBSET G.states
    /\ \A P, H, o : Replay(G, P, H, o, p) => H[o + Len(p)] = <<v>> \o H[o]

LEMMA PopOne ==
    ASSUME NEW S, NEW st \in Seq(S), NEW v \in S
    PROVE  (<<v>> \o st)[1] = v /\ SubSeq(<<v>> \o st, 2, Len(<<v>> \o st)) = st
<1>1. <<v>> \o st # <<>> /\ Len(<<v>> \o st) = Len(st) + 1 OBVIOUS
<1> QED OBVIOUS

LEMMA PopTwo ==
    ASSUME NEW S, NEW st \in Seq(S), NEW v \in S, NEW w \in S
    PROVE  /\ (<<w>> \o (<<v>> \o st))[1] = w
           /\ (<<w>> \o (<<v>> \o st))[2] = v
           /\ SubSeq(<<w>> \o (<<v>> \o st), 3, Len(<<w>> \o (<<v>> \o st))) = st
OBVIOUS

LEMMA OutcomeType ==
    ASSUME NEW G, Graph(G, {}), NEW operation \in Operation,
           NEW a \in SUBSET G.states, NEW b \in SUBSET G.states
    PROVE  Outcome(G, operation, a, b) \in SUBSET G.states
<1>1. operation[1] \in Leaf \cup Unary \cup Binary BY DEF Operation
<1>2. /\ EUSat(G, b, a) \in SUBSET G.states /\ EXSat(G, a) \in SUBSET G.states
      /\ EGSat(G, a) \in SUBSET G.states
      BY EUSatType DEF EXSat, EGSat
<1> QED BY <1>1, <1>2 DEF Outcome, Leaf, Unary, Binary

(* The stacks before and after the operations of a part of P.              *)
LEMMA ReplayPart ==
    ASSUME NEW G, NEW P, NEW H, NEW o, NEW p \in Seq(Operation), NEW q \in Seq(Operation),
           Replay(G, P, H, o, p \o q)
    PROVE  /\ Replay(G, P, H, o, p) /\ Replay(G, P, H, o + Len(p), q)
           /\ o + Len(p \o q) = o + Len(p) + Len(q)
<1>1. /\ P \in Seq(Operation) /\ H \in [0 .. Len(P) -> Seq(SUBSET G.states)] /\ o \in Nat
      /\ o + Len(p \o q) <= Len(P)
      /\ \A i \in 1 .. Len(p \o q) : /\ P[o + i] = (p \o q)[i]
                                     /\ H[o + i] = Applied(G, P[o + i], H[o + i - 1])
      BY DEF Replay
<1>2. /\ Len(p) \in Nat /\ Len(q) \in Nat /\ Len(p \o q) = Len(p) + Len(q)
      /\ \A i \in 1 .. Len(p) : (p \o q)[i] = p[i]
      /\ \A i \in 1 .. Len(q) : (p \o q)[Len(p) + i] = q[i]
      OBVIOUS
<1>3. Replay(G, P, H, o, p)
  <2>1. ASSUME NEW i \in 1 .. Len(p) PROVE i \in 1 .. Len(p \o q) BY <1>2
  <2>2. o + Len(p) <= Len(P) BY <1>1, <1>2
  <2> QED BY <1>1, <1>2, <2>1, <2>2 DEF Replay
<1>4. Replay(G, P, H, o + Len(p), q)
  <2>1. ASSUME NEW i \in 1 .. Len(q)
        PROVE  /\ P[o + Len(p) + i] = q[i]
               /\ H[o + Len(p) + i] = Applied(G, P[o + Len(p) + i], H[o + Len(p) + i - 1])
    <3>1. Len(p) + i \in 1 .. Len(p \o q) BY <1>2
    <3>2. /\ o + (Len(p) + i) = o + Len(p) + i
          /\ o + (Len(p) + i) - 1 = o + Len(p) + i - 1
          BY <1>1, <1>2
    <3>3. /\ P[o + (Len(p) + i)] = (p \o q)[Len(p) + i]
          /\ H[o + (Len(p) + i)] = Applied(G, P[o + (Len(p) + i)], H[o + (Len(p) + i) - 1])
          BY <1>1, <3>1
    <3> QED BY <1>2, <3>2, <3>3
  <2>2. o + Len(p) \in Nat /\ o + Len(p) + Len(q) <= Len(P) BY <1>1, <1>2
  <2> QED BY <1>1, <2>1, <2>2 DEF Replay
<1>5. o + Len(p \o q) = o + Len(p) + Len(q) BY <1>1, <1>2
<1> QED BY <1>3, <1>4, <1>5

(* The last operation of a list.                                           *)
LEMMA ReplayOne ==
    ASSUME NEW G, NEW P, NEW H, NEW o, NEW operation, NEW last, last = <<operation>>,
           Replay(G, P, H, o, last)
    PROVE  Leads(H, G, operation, o, o + Len(last))
<1>1. 1 \in 1 .. Len(last) /\ Len(last) = 1 /\ last[1] = operation OBVIOUS
<1>2. P[o + 1] = last[1] /\ H[o + 1] = Applied(G, P[o + 1], H[o + 1 - 1])
      BY <1>1 DEF Replay
<1>3. o \in Nat BY DEF Replay
<1>4. o + 1 - 1 = o BY <1>3
<1> QED BY <1>1, <1>2, <1>4 DEF Leads

(* The stack before a list is one.                                         *)
LEMMA ReplayStack ==
    ASSUME NEW G, NEW P, NEW H, NEW o, NEW p \in Seq(Operation), Replay(G, P, H, o, p)
    PROVE  H[o] \in Seq(SUBSET G.states)
<1>1. /\ o \in Nat /\ Len(p) \in Nat /\ o + Len(p) <= Len(P) /\ Len(P) \in Nat
      /\ H \in [0 .. Len(P) -> Seq(SUBSET G.states)]
      BY DEF Replay
<1> QED BY <1>1

LEMMA LeafComputes ==
    ASSUME NEW G, Graph(G, {}), NEW operation \in Operation, operation[1] \in Leaf
    PROVE  Computes(G, <<operation>>, Outcome(G, operation, {}, {}))
<1> DEFINE v == Outcome(G, operation, {}, {})
<1>0. v = Outcome(G, operation, {}, {}) /\ \A a, b : Outcome(G, operation, a, b) = v
      BY DEF Outcome, Leaf
<1>1. v \in SUBSET G.states
  <2>1. {} \in SUBSET G.states OBVIOUS
  <2> QED BY <2>1, OutcomeType
<1> HIDE DEF v
<1>2. ASSUME NEW P, NEW H, NEW o, Replay(G, P, H, o, <<operation>>)
      PROVE  H[o + Len(<<operation>>)] = <<v>> \o H[o]
  <2>1. H[o + Len(<<operation>>)] = Applied(G, operation, H[o])
    <3>1. Leads(H, G, operation, o, o + Len(<<operation>>)) BY <1>2, ReplayOne
    <3> QED BY <3>1 DEF Leads
  <2>2. H[o] \in Seq(SUBSET G.states)
    <3>1. <<operation>> \in Seq(Operation) OBVIOUS
    <3> QED BY <1>2, <3>1, ReplayStack
  <2>3. SubSeq(H[o], 1, Len(H[o])) = H[o] BY <2>2
  <2>4. Arguments(operation) + 1 = 1 BY DEF Arguments
  <2>5. Outcome(G, operation, H[o][1], H[o][2]) = v BY <1>0
  <2> QED BY <2>1, <2>3, <2>4, <2>5 DEF Applied
<1> QED BY <1>1, <1>2, <1>0 DEF Computes

LEMMA UnaryComputes ==
    ASSUME NEW G, Graph(G, {}), NEW p, NEW v, Computes(G, p, v),
           NEW operation \in Operation, operation[1] \in Unary
    PROVE  Computes(G, Append(p, operation), Outcome(G, operation, v, {}))
<1> DEFINE w == Outcome(G, operation, v, {})
<1>1a. w = Outcome(G, operation, v, {}) /\ \A b : Outcome(G, operation, v, b) = w
      BY DEF Outcome, Unary
<1>1. p \in Seq(Operation) /\ v \in SUBSET G.states BY DEF Computes
<1>2. w \in SUBSET G.states
  <2>1. {} \in SUBSET G.states OBVIOUS
  <2> QED BY <1>1, <2>1, OutcomeType
<1> DEFINE last == <<operation>>
<1>2a. last = <<operation>> OBVIOUS
<1>3. Append(p, operation) = p \o last BY <1>1
<1>4. /\ last \in Seq(Operation) /\ Len(last) = 1 /\ last[1] = operation
      /\ p \o last \in Seq(Operation) /\ p \o last # <<>>
      BY <1>1
<1> HIDE DEF last, w
<1>5. ASSUME NEW P, NEW H, NEW o, Replay(G, P, H, o, p \o last)
      PROVE  H[o + Len(p \o last)] = <<w>> \o H[o]
  <2>1. /\ Replay(G, P, H, o, p) /\ Replay(G, P, H, o + Len(p), last)
        /\ o + Len(p \o last) = o + Len(p) + 1
    <3>1. p \in Seq(Operation) /\ last \in Seq(Operation) BY <1>1, <1>4
    <3>2. /\ Replay(G, P, H, o, p) /\ Replay(G, P, H, o + Len(p), last)
          /\ o + Len(p \o last) = o + Len(p) + Len(last)
          BY <1>5, <3>1, ReplayPart
    <3> QED BY <1>4, <3>2
  <2>2. H[o + Len(p)] = <<v>> \o H[o] BY <2>1 DEF Computes
  <2>3. H[o + Len(p) + 1] = Applied(G, operation, H[o + Len(p)])
    <3>1. Replay(G, P, H, o + Len(p), last) BY <2>1
    <3>2. Leads(H, G, operation, o + Len(p), o + Len(p) + Len(last)) BY <1>2a, <3>1, ReplayOne
    <3> QED BY <1>4, <3>2 DEF Leads
  <2>4. H[o] \in Seq(SUBSET G.states) BY <1>1, <2>1, ReplayStack
  <2>5. /\ (<<v>> \o H[o])[1] = v
        /\ SubSeq(<<v>> \o H[o], 2, Len(<<v>> \o H[o])) = H[o]
        BY <1>1, <2>4, PopOne
  <2>6. Arguments(operation) + 1 = 2 BY DEF Arguments, Leaf, Unary
  <2>7. Outcome(G, operation, v, (<<v>> \o H[o])[2]) = w BY <1>1a
  <2> QED BY <2>1, <2>2, <2>3, <2>5, <2>6, <2>7 DEF Applied
<1> QED BY <1>1a, <1>2, <1>3, <1>4, <1>5 DEF Computes

LEMMA BinaryComputes ==
    ASSUME NEW G, Graph(G, {}), NEW p, NEW v, Computes(G, p, v),
           NEW q, NEW u, Computes(G, q, u),
           NEW operation \in Operation, operation[1] \in Binary
    PROVE  Computes(G, p \o q \o <<operation>>, Outcome(G, operation, u, v))
<1> DEFINE w == Outcome(G, operation, u, v)
<1>1. /\ p \in Seq(Operation) /\ v \in SUBSET G.states
      /\ q \in Seq(Operation) /\ u \in SUBSET G.states
      BY DEF Computes
<1>2. w \in SUBSET G.states BY <1>1, OutcomeType
<1> DEFINE last == <<operation>>
<1>0. last = <<operation>> OBVIOUS
<1>3. /\ last \in Seq(Operation) /\ Len(last) = 1 /\ last[1] = operation
      /\ p \o q \in Seq(Operation)
      BY <1>1
<1>4. /\ p \o q \o last \in Seq(Operation) /\ p \o q \o last # <<>>
      BY <1>3
<1> HIDE DEF last
<1>5. ASSUME NEW P, NEW H, NEW o, Replay(G, P, H, o, p \o q \o last)
      PROVE  H[o + Len(p \o q \o last)] = <<w>> \o H[o]
  <2>1. /\ Replay(G, P, H, o, p \o q) /\ Replay(G, P, H, o + Len(p \o q), last)
        /\ o + Len(p \o q \o last) = o + Len(p \o q) + 1
    <3> DEFINE pq == p \o q
    <3>1. pq \in Seq(Operation) /\ last \in Seq(Operation) BY <1>3
    <3>2. /\ Replay(G, P, H, o, pq) /\ Replay(G, P, H, o + Len(pq), last)
          /\ o + Len(pq \o last) = o + Len(pq) + Len(last)
      <4>1. Replay(G, P, H, o, pq \o last) BY <1>5
      <4> HIDE DEF pq
      <4> QED BY <3>1, <4>1, ReplayPart
    <3> QED BY <1>3, <3>2
  <2>2. /\ Replay(G, P, H, o, p) /\ Replay(G, P, H, o + Len(p), q)
        /\ o + Len(p \o q) = o + Len(p) + Len(q)
        BY <1>1, <2>1, ReplayPart
  <2>3. H[o + Len(p)] = <<v>> \o H[o] BY <2>2 DEF Computes
  <2>4. H[o + Len(p) + Len(q)] = <<u>> \o H[o + Len(p)] BY <2>2 DEF Computes
  <2>5. H[o + Len(p \o q)] = <<u>> \o (<<v>> \o H[o]) BY <2>2, <2>3, <2>4
  <2>6. H[o + Len(p \o q) + 1] = Applied(G, operation, H[o + Len(p \o q)])
    <3>1. Replay(G, P, H, o + Len(p \o q), last) BY <2>1
    <3>2. Leads(H, G, operation, o + Len(p \o q), o + Len(p \o q) + Len(last)) BY <1>0, <3>1, ReplayOne
    <3> QED BY <1>3, <3>2 DEF Leads
  <2>7. H[o] \in Seq(SUBSET G.states) BY <1>1, <2>2, ReplayStack
  <2> DEFINE st == <<u>> \o (<<v>> \o H[o])
  <2>8. st[1] = u /\ st[2] = v /\ SubSeq(st, 3, Len(st)) = H[o] BY <1>1, <2>7, PopTwo
  <2>9. Arguments(operation) + 1 = 3 BY DEF Arguments, Leaf, Unary, Binary
  <2> QED BY <2>1, <2>5, <2>6, <2>8, <2>9 DEF Applied
<1> QED BY <1>0, <1>2, <1>4, <1>5 DEF Computes


-----------------------------------------------------------------------------
(* What newctlstmt makes computes what its operator means.                 *)
LEMMA TrueComputes ==
    ASSUME NEW G, Graph(G, {}) PROVE Computes(G, True, G.states)
<1> DEFINE operation == <<"TRUE", 0>>
<1>1. operation \in Operation /\ operation[1] \in Leaf BY DEF Operation, Leaf
<1>2. Outcome(G, operation, {}, {}) = G.states BY DEF Outcome
<1>3. True = <<operation>> BY DEF True
<1> HIDE DEF operation
<1>4. Computes(G, <<operation>>, Outcome(G, operation, {}, {})) BY <1>1, LeafComputes
<1> QED BY <1>2, <1>3, <1>4

LEMMA VarComputes ==
    ASSUME NEW G, Graph(G, {}), NEW s \in Int
    PROVE  Computes(G, Var(s), {t \in G.states : G.code[s][t] \in {"1", "F"}})
<1> DEFINE operation == <<"VAR", s>>
           v == {t \in G.states : G.code[s][t] \in {"1", "F"}}
<1>1. operation \in Operation /\ operation[1] \in Leaf BY DEF Operation, Leaf
<1>2. Outcome(G, operation, {}, {}) = v BY DEF Outcome
<1>3. Var(s) = <<operation>> BY DEF Var
<1> HIDE DEF operation
<1>4. Computes(G, <<operation>>, Outcome(G, operation, {}, {})) BY <1>1, LeafComputes
<1> QED BY <1>2, <1>3, <1>4

LEMMA NotComputes ==
    ASSUME NEW G, Graph(G, {}), NEW p, NEW P, Computes(G, p, P)
    PROVE  Computes(G, Not(p), G.states \ P)
<1> DEFINE operation == <<"NOT", 0>>
<1>1. operation \in Operation /\ operation[1] \in Unary BY DEF Operation, Unary
<1>2. Outcome(G, operation, P, {}) = G.states \ P BY DEF Outcome
<1>3. Not(p) = Append(p, operation) BY DEF Not
<1> HIDE DEF operation
<1>4. Computes(G, Append(p, operation), Outcome(G, operation, P, {})) BY <1>1, UnaryComputes
<1> QED BY <1>2, <1>3, <1>4

LEMMA EXComputes ==
    ASSUME NEW G, Graph(G, {}), NEW p, NEW P, Computes(G, p, P)
    PROVE  Computes(G, EX(p), EXSat(G, P))
<1> DEFINE operation == <<"EX", 0>>
<1>1. operation \in Operation /\ operation[1] \in Unary BY DEF Operation, Unary
<1>2. Outcome(G, operation, P, {}) = EXSat(G, P) BY DEF Outcome
<1>3. EX(p) = Append(p, operation) BY DEF EX
<1> HIDE DEF operation
<1>4. Computes(G, Append(p, operation), Outcome(G, operation, P, {})) BY <1>1, UnaryComputes
<1> QED BY <1>2, <1>3, <1>4

LEMMA EGComputes ==
    ASSUME NEW G, Graph(G, {}), NEW p, NEW P, Computes(G, p, P)
    PROVE  Computes(G, EG(p), EGSat(G, P))
<1> DEFINE operation == <<"EG", 0>>
<1>1. operation \in Operation /\ operation[1] \in Unary BY DEF Operation, Unary
<1>2. Outcome(G, operation, P, {}) = EGSat(G, P) BY DEF Outcome
<1>3. EG(p) = Append(p, operation) BY DEF EG
<1> HIDE DEF operation
<1>4. Computes(G, Append(p, operation), Outcome(G, operation, P, {})) BY <1>1, UnaryComputes
<1> QED BY <1>2, <1>3, <1>4

LEMMA OrComputes ==
    ASSUME NEW G, Graph(G, {}), NEW p, NEW P, Computes(G, p, P),
           NEW q, NEW Q, Computes(G, q, Q)
    PROVE  Computes(G, Or(p, q), P \cup Q)
<1> DEFINE operation == <<"OR", 0>>
<1>1. operation \in Operation /\ operation[1] \in Binary BY DEF Operation, Binary
<1>2. Outcome(G, operation, Q, P) = P \cup Q BY DEF Outcome
<1>3. Or(p, q) = p \o q \o <<operation>> BY DEF Or
<1> HIDE DEF operation
<1>4. Computes(G, p \o q \o <<operation>>, Outcome(G, operation, Q, P))
      BY <1>1, BinaryComputes
<1> QED BY <1>2, <1>3, <1>4

LEMMA AndComputes ==
    ASSUME NEW G, Graph(G, {}), NEW p, NEW P, Computes(G, p, P),
           NEW q, NEW Q, Computes(G, q, Q)
    PROVE  Computes(G, And(p, q), P \cap Q)
<1> DEFINE operation == <<"AND", 0>>
<1>1. operation \in Operation /\ operation[1] \in Binary BY DEF Operation, Binary
<1>2. Outcome(G, operation, Q, P) = P \cap Q BY DEF Outcome
<1>3. And(p, q) = p \o q \o <<operation>> BY DEF And
<1> HIDE DEF operation
<1>4. Computes(G, p \o q \o <<operation>>, Outcome(G, operation, Q, P))
      BY <1>1, BinaryComputes
<1> QED BY <1>2, <1>3, <1>4

LEMMA EUComputes ==
    ASSUME NEW G, Graph(G, {}), NEW p, NEW P, Computes(G, p, P),
           NEW q, NEW Q, Computes(G, q, Q)
    PROVE  Computes(G, EU(p, q), EUSat(G, P, Q))
<1> DEFINE operation == <<"EU", 0>>
<1>1. operation \in Operation /\ operation[1] \in Binary BY DEF Operation, Binary
<1>2. Outcome(G, operation, Q, P) = EUSat(G, P, Q) BY DEF Outcome
<1>3. EU(p, q) = p \o q \o <<operation>> BY DEF EU
<1> HIDE DEF operation
<1>4. Computes(G, p \o q \o <<operation>>, Outcome(G, operation, Q, P))
      BY <1>1, BinaryComputes
<1> QED BY <1>2, <1>3, <1>4

Reduction == (Leaf \cup Prefix \cup Infix) \X Int \X Int

LEMMA ReduceComputes ==
    ASSUME NEW G, Graph(G, {}), NEW r \in Reduction, NEW p, NEW P, NEW q, NEW Q,
           r[1] \notin Leaf => Computes(G, p, P),
           r[1] \in Infix => Computes(G, q, Q)
    PROVE  Computes(G, Reduce(r, p, q), Means(G, r, P, Q))
<1> DEFINE S == G.states
<1>0. /\ r[1] \in {"TRUE", "VAR", "NOT", "EX", "EG", "EF", "AX", "AF", "AG",
                   "OR", "AND", "EU", "AU"}
      /\ r[2] \in Int
      BY DEF Reduction, Leaf, Prefix, Infix, Unary, Binary
<1>1. CASE r[1] = "TRUE" BY <1>1, TrueComputes DEF Reduce, Means
<1>2. CASE r[1] = "VAR" BY <1>0, <1>2, VarComputes DEF Reduce, Means
<1>3. CASE r[1] \in Prefix
  <2>1. Computes(G, p, P) /\ P \in SUBSET S BY <1>3 DEF Computes, Leaf, Prefix, Unary
  <2>2. Computes(G, Not(p), S \ P) BY <2>1, NotComputes
  <2>3. CASE r[1] = "NOT" BY <2>2, <2>3 DEF Reduce, Means
  <2>4. CASE r[1] = "EX" BY <2>1, <2>4, EXComputes DEF Reduce, Means
  <2>5. CASE r[1] = "EG" BY <2>1, <2>5, EGComputes DEF Reduce, Means
  <2>6. CASE r[1] = "EF"
    <3>1. Computes(G, EU(True, p), EUSat(G, S, P)) BY <2>1, TrueComputes, EUComputes
    <3>2. EUSat(G, S, P) = S \ AWSat(G, S \ P, {})
      <4>1. S \ EUSat(G, S, P) = AWSat(G, S \ P, {}) BY <2>1, Always
      <4>2. EUSat(G, S, P) \subseteq S BY EUSatType
      <4> QED BY <4>1, <4>2
    <3> QED BY <2>6, <3>1, <3>2 DEF Reduce, Means
  <2>7. CASE r[1] = "AX"
    <3>1. Computes(G, Not(EX(Not(p))), S \ EXSat(G, S \ P)) BY <2>2, EXComputes, NotComputes
    <3>2. S \ EXSat(G, S \ P) = {s \in S : Succ(G, s) \subseteq P} BY <2>1, NextDual
    <3> QED BY <2>7, <3>1, <3>2 DEF Reduce, Means
  <2>8. CASE r[1] = "AF"
    <3>1. Computes(G, Not(EG(Not(p))), S \ EGSat(G, S \ P)) BY <2>2, EGComputes, NotComputes
    <3> QED BY <2>8, <3>1 DEF Reduce, Means
  <2>9. CASE r[1] = "AG"
    <3>1. Computes(G, Not(EU(True, Not(p))), S \ EUSat(G, S, S \ P))
          BY <2>2, TrueComputes, EUComputes, NotComputes
    <3>2. S \ EUSat(G, S, S \ P) = AWSat(G, S \ (S \ P), {}) /\ S \ (S \ P) = P
      <4>1. S \ P \in SUBSET S OBVIOUS
      <4>2. S \ EUSat(G, S, S \ P) = AWSat(G, S \ (S \ P), {}) BY <4>1, Always
      <4> QED BY <2>1, <4>2
    <3> QED BY <2>9, <3>1, <3>2 DEF Reduce, Means
  <2> QED BY <1>3, <2>3, <2>4, <2>5, <2>6, <2>7, <2>8, <2>9 DEF Prefix, Unary
<1>4. CASE r[1] \in Infix
  <2>1. /\ Computes(G, p, P) /\ P \in SUBSET S
        /\ Computes(G, q, Q) /\ Q \in SUBSET S
        BY <1>4 DEF Computes, Leaf, Infix, Binary
  <2>2. CASE r[1] = "OR" BY <2>1, <2>2, OrComputes DEF Reduce, Means
  <2>3. CASE r[1] = "AND" BY <2>1, <2>3, AndComputes DEF Reduce, Means
  <2>4. CASE r[1] = "EU" BY <2>1, <2>4, EUComputes DEF Reduce, Means
  <2>5. CASE r[1] = "AU"
    <3>1. Computes(G, Not(p), S \ P) /\ Computes(G, Not(q), S \ Q) BY <2>1, NotComputes
    <3>2. Computes(G, And(Not(p), Not(q)), (S \ P) \cap (S \ Q)) BY <3>1, AndComputes
    <3>3. Computes(G, Not(EU(Not(q), And(Not(p), Not(q)))), AWSat(G, P, Q))
      <4>1. Computes(G, Not(EU(Not(q), And(Not(p), Not(q)))),
                     S \ EUSat(G, S \ Q, (S \ P) \cap (S \ Q)))
            BY <3>1, <3>2, EUComputes, NotComputes
      <4>2. S \ EUSat(G, S \ Q, (S \ P) \cap (S \ Q)) = AWSat(G, P, Q) BY <2>1, WeakUntil
      <4> QED BY <4>1, <4>2
    <3>4. Computes(G, Not(EG(Not(q))), S \ EGSat(G, S \ Q)) BY <3>1, EGComputes, NotComputes
    <3>5. Computes(G, RewriteAU(p, q), AWSat(G, P, Q) \cap (S \ EGSat(G, S \ Q)))
          BY <3>3, <3>4, AndComputes DEF RewriteAU
    <3>6. AWSat(G, P, Q) \cap (S \ EGSat(G, S \ Q)) = AWSat(G, P, Q) \ EGSat(G, S \ Q)
      <4>1. AWSat(G, P, Q) \subseteq S BY <3>3 DEF Computes
      <4> QED BY <4>1
    <3> QED BY <2>5, <3>5, <3>6 DEF Reduce, Means
  <2> QED BY <1>4, <2>2, <2>3, <2>4, <2>5 DEF Infix, Binary
<1> QED BY <1>0, <1>1, <1>2, <1>3, <1>4 DEF Prefix, Infix, Unary, Binary


-----------------------------------------------------------------------------
(* The parser's reductions have their statements and their meanings.       *)
LEMMA ReductionType ==
    ASSUME NEW f, Formula(f)
    PROVE  /\ Len(f) \in Nat /\ DOMAIN f = 1 .. Len(f) /\ Len(f) \in DOMAIN f
           /\ \A k \in DOMAIN f : /\ k \in Nat /\ f[k] \in Reduction
                                  /\ f[k][1] \notin Leaf => f[k][2] \in 1 .. k - 1
                                  /\ f[k][1] \in Infix => f[k][3] \in 1 .. k - 1
<1>1. f \in Seq(Reduction) /\ f # <<>> BY DEF Formula, Reduction
<1>2. Len(f) \in Nat /\ DOMAIN f = 1 .. Len(f) /\ Len(f) \in DOMAIN f BY <1>1
<1>3. \A k \in DOMAIN f : k \in Nat /\ f[k] \in Reduction BY <1>1
<1>4. \A k \in DOMAIN f : /\ f[k][1] \notin Leaf => f[k][2] \in 1 .. k - 1
                          /\ f[k][1] \in Infix => f[k][3] \in 1 .. k - 1
      BY DEF Formula
<1> QED BY <1>2, <1>3, <1>4

(* An operator reads the arguments it has, and no other.                   *)
LEMMA ReduceReads ==
    ASSUME NEW r \in Reduction, NEW p, NEW q, NEW p1, NEW q1,
           r[1] \notin Leaf => p = p1, r[1] \in Infix => q = q1
    PROVE  Reduce(r, p, q) = Reduce(r, p1, q1)
<1>1. r[1] \in Leaf \cup Prefix \cup Infix BY DEF Reduction
<1>2. CASE r[1] \in Leaf BY <1>2 DEF Reduce, Leaf
<1>3. CASE r[1] \in Prefix BY <1>3 DEF Reduce, Leaf, Prefix, Unary
<1>4. CASE r[1] \in Infix BY <1>4 DEF Reduce, Leaf, Infix, Binary
<1> QED BY <1>1, <1>2, <1>3, <1>4

LEMMA MeansReads ==
    ASSUME NEW G, NEW r \in Reduction, NEW P, NEW Q, NEW P1, NEW Q1,
           r[1] \notin Leaf => P = P1, r[1] \in Infix => Q = Q1
    PROVE  Means(G, r, P, Q) = Means(G, r, P1, Q1)
<1>1. r[1] \in Leaf \cup Prefix \cup Infix BY DEF Reduction
<1>2. CASE r[1] \in Leaf BY <1>2 DEF Means, Leaf
<1>3. CASE r[1] \in Prefix BY <1>3 DEF Means, Leaf, Prefix, Unary
<1>4. CASE r[1] \in Infix BY <1>4 DEF Means, Leaf, Infix, Binary
<1> QED BY <1>1, <1>2, <1>3, <1>4

Statements(f, h)  == h = [k \in DOMAIN f |-> Reduce(f[k], h[f[k][2]], h[f[k][3]])]
Meanings(G, f, h) == h = [k \in DOMAIN f |-> Means(G, f[k], h[f[k][2]], h[f[k][3]])]

LEMMA StatementsExist == ASSUME NEW f, Formula(f) PROVE \E h : Statements(f, h)
<1> DEFINE D == DOMAIN f
           Upto(n, h) == /\ h = [k \in D |-> h[k]]
                         /\ \A k \in D : k <= n => h[k] = Reduce(f[k], h[f[k][2]], h[f[k][3]])
           T == {n \in Nat : \E h : Upto(n, h)}
<1>1. /\ Len(f) \in Nat /\ D = 1 .. Len(f)
      /\ \A k \in D : /\ k \in Nat /\ f[k] \in Reduction
                      /\ f[k][1] \notin Leaf => f[k][2] \in 1 .. k - 1
                      /\ f[k][1] \in Infix => f[k][3] \in 1 .. k - 1
      BY ReductionType
<1>2. 0 \in T
  <2>1. Upto(0, [k \in D |-> {}]) BY <1>1
  <2> QED BY <2>1
<1>3. ASSUME NEW n \in Nat, n \in T PROVE n + 1 \in T
  <2>1. PICK h : Upto(n, h) BY <1>3
  <2> DEFINE i == [k \in D |-> IF k = n + 1 THEN Reduce(f[k], h[f[k][2]], h[f[k][3]])
                                            ELSE h[k]]
  <2>2. ASSUME NEW k \in D, k <= n + 1
        PROVE  i[k] = Reduce(f[k], h[f[k][2]], h[f[k][3]])
    <3>1. CASE k = n + 1 BY <3>1
    <3>2. CASE k # n + 1
      <4>1. k <= n BY <1>1, <2>2, <3>2
      <4> QED BY <2>1, <3>2, <4>1
    <3> QED BY <3>1, <3>2
  <2>3. ASSUME NEW k \in D, k <= n + 1
        PROVE  Reduce(f[k], h[f[k][2]], h[f[k][3]]) = Reduce(f[k], i[f[k][2]], i[f[k][3]])
    <3>1. f[k][1] \notin Leaf => h[f[k][2]] = i[f[k][2]]
      <4> SUFFICES ASSUME f[k][1] \notin Leaf PROVE h[f[k][2]] = i[f[k][2]] OBVIOUS
      <4>1. f[k][2] \in D /\ f[k][2] # n + 1 BY <1>1, <2>3
      <4> QED BY <4>1
    <3>2. f[k][1] \in Infix => h[f[k][3]] = i[f[k][3]]
      <4> SUFFICES ASSUME f[k][1] \in Infix PROVE h[f[k][3]] = i[f[k][3]] OBVIOUS
      <4>1. f[k][3] \in D /\ f[k][3] # n + 1 BY <1>1, <2>3
      <4> QED BY <4>1
    <3>3. f[k] \in Reduction BY <1>1
    <3> HIDE DEF i
    <3> QED BY <3>1, <3>2, <3>3, ReduceReads
  <2>4. Upto(n + 1, i)
    <3>1. i = [k \in D |-> i[k]] OBVIOUS
    <3> HIDE DEF i
    <3> QED BY <2>2, <2>3, <3>1
  <2> HIDE DEF i, Upto
  <2> QED BY <2>4
<1>4. Len(f) \in T
  <2> HIDE DEF T
  <2> QED BY <1>1, <1>2, <1>3, CountUp
<1>5. PICK h : Upto(Len(f), h) BY <1>4
<1>6. \A k \in D : h[k] = Reduce(f[k], h[f[k][2]], h[f[k][3]]) BY <1>1, <1>5
<1> QED BY <1>5, <1>6 DEF Statements

LEMMA MeaningsExist == ASSUME NEW G, NEW f, Formula(f) PROVE \E h : Meanings(G, f, h)
<1> DEFINE D == DOMAIN f
           Upto(n, h) == /\ h = [k \in D |-> h[k]]
                         /\ \A k \in D : k <= n => h[k] = Means(G, f[k], h[f[k][2]], h[f[k][3]])
           T == {n \in Nat : \E h : Upto(n, h)}
<1>1. /\ Len(f) \in Nat /\ D = 1 .. Len(f)
      /\ \A k \in D : /\ k \in Nat /\ f[k] \in Reduction
                      /\ f[k][1] \notin Leaf => f[k][2] \in 1 .. k - 1
                      /\ f[k][1] \in Infix => f[k][3] \in 1 .. k - 1
      BY ReductionType
<1>2. 0 \in T
  <2>1. Upto(0, [k \in D |-> {}]) BY <1>1
  <2> QED BY <2>1
<1>3. ASSUME NEW n \in Nat, n \in T PROVE n + 1 \in T
  <2>1. PICK h : Upto(n, h) BY <1>3
  <2> DEFINE i == [k \in D |-> IF k = n + 1 THEN Means(G, f[k], h[f[k][2]], h[f[k][3]])
                                            ELSE h[k]]
  <2>2. ASSUME NEW k \in D, k <= n + 1
        PROVE  i[k] = Means(G, f[k], h[f[k][2]], h[f[k][3]])
    <3>1. CASE k = n + 1 BY <3>1
    <3>2. CASE k # n + 1
      <4>1. k <= n BY <1>1, <2>2, <3>2
      <4> QED BY <2>1, <3>2, <4>1
    <3> QED BY <3>1, <3>2
  <2>3. ASSUME NEW k \in D, k <= n + 1
        PROVE  Means(G, f[k], h[f[k][2]], h[f[k][3]]) = Means(G, f[k], i[f[k][2]], i[f[k][3]])
    <3>1. f[k][1] \notin Leaf => h[f[k][2]] = i[f[k][2]]
      <4> SUFFICES ASSUME f[k][1] \notin Leaf PROVE h[f[k][2]] = i[f[k][2]] OBVIOUS
      <4>1. f[k][2] \in D /\ f[k][2] # n + 1 BY <1>1, <2>3
      <4> QED BY <4>1
    <3>2. f[k][1] \in Infix => h[f[k][3]] = i[f[k][3]]
      <4> SUFFICES ASSUME f[k][1] \in Infix PROVE h[f[k][3]] = i[f[k][3]] OBVIOUS
      <4>1. f[k][3] \in D /\ f[k][3] # n + 1 BY <1>1, <2>3
      <4> QED BY <4>1
    <3>3. f[k] \in Reduction BY <1>1
    <3> HIDE DEF i
    <3> QED BY <3>1, <3>2, <3>3, MeansReads
  <2>4. Upto(n + 1, i)
    <3>1. i = [k \in D |-> i[k]] OBVIOUS
    <3> HIDE DEF i
    <3> QED BY <2>2, <2>3, <3>1
  <2> HIDE DEF i, Upto
  <2> QED BY <2>4
<1>4. Len(f) \in T
  <2> HIDE DEF T
  <2> QED BY <1>1, <1>2, <1>3, CountUp
<1>5. PICK h : Upto(Len(f), h) BY <1>4
<1>6. \A k \in D : h[k] = Means(G, f[k], h[f[k][2]], h[f[k][3]]) BY <1>1, <1>5
<1> QED BY <1>5, <1>6 DEF Meanings

(* What the parser makes of a formula computes what the formula means.     *)
LEMMA ParseComputes ==
    ASSUME NEW G, Graph(G, {}), NEW f, Formula(f)
    PROVE  Computes(G, Parse(f), Sat(G, f))
<1> DEFINE statement == CHOOSE h : Statements(f, h)
           sat == CHOOSE h : Meanings(G, f, h)
           T == {n \in Nat : \A k \in DOMAIN f : k <= n => Computes(G, statement[k], sat[k])}
<1>1. /\ Len(f) \in Nat /\ DOMAIN f = 1 .. Len(f) /\ Len(f) \in DOMAIN f
      /\ \A k \in DOMAIN f : /\ k \in Nat /\ f[k] \in Reduction
                             /\ f[k][1] \notin Leaf => f[k][2] \in 1 .. k - 1
                             /\ f[k][1] \in Infix => f[k][3] \in 1 .. k - 1
      BY ReductionType
<1>2. Parse(f) = statement[Len(f)] BY DEF Parse, Statements
<1>3. Sat(G, f) = sat[Len(f)] BY DEF Sat, Meanings
<1>4. Statements(f, statement) BY StatementsExist
<1>5. Meanings(G, f, sat)
  <2>1. \E h : Meanings(G, f, h) BY MeaningsExist
  <2> QED BY <2>1
<1>6. \A k \in DOMAIN f :
          /\ statement[k] = Reduce(f[k], statement[f[k][2]], statement[f[k][3]])
          /\ sat[k] = Means(G, f[k], sat[f[k][2]], sat[f[k][3]])
  <2> HIDE DEF statement, sat
  <2> QED BY <1>4, <1>5 DEF Statements, Meanings
<1> HIDE DEF statement, sat
<1>7. 0 \in T BY <1>1
<1>8. ASSUME NEW n \in Nat, n \in T PROVE n + 1 \in T
  <2> SUFFICES ASSUME NEW k \in DOMAIN f, k <= n + 1 PROVE Computes(G, statement[k], sat[k])
      OBVIOUS
  <2> DEFINE r == f[k]
             p == statement[f[k][2]]
             q == statement[f[k][3]]
             P == sat[f[k][2]]
             Q == sat[f[k][3]]
  <2>1. r \in Reduction BY <1>1
  <2>2. r[1] \notin Leaf => Computes(G, p, P)
    <3> SUFFICES ASSUME r[1] \notin Leaf PROVE Computes(G, p, P) OBVIOUS
    <3>1. f[k][2] \in DOMAIN f /\ f[k][2] <= n BY <1>1
    <3> QED BY <1>8, <3>1
  <2>3. r[1] \in Infix => Computes(G, q, Q)
    <3> SUFFICES ASSUME r[1] \in Infix PROVE Computes(G, q, Q) OBVIOUS
    <3>1. f[k][3] \in DOMAIN f /\ f[k][3] <= n BY <1>1
    <3> QED BY <1>8, <3>1
  <2>4. Computes(G, Reduce(r, p, q), Means(G, r, P, Q))
    <3> HIDE DEF r, p, q, P, Q
    <3> QED BY <2>1, <2>2, <2>3, ReduceComputes
  <2> QED BY <1>6, <2>4
<1>9. Len(f) \in T
  <2> HIDE DEF T
  <2> QED BY <1>1, <1>7, <1>8, CountUp
<1> QED BY <1>1, <1>2, <1>3, <1>9


-----------------------------------------------------------------------------
(* The stack is what the operations before the next one leave; and the     *)
(* argument of a loop stays on it until the loop has ended.                *)
Replayed ==
    \E H \in [0 .. Len(inst.prog) -> Seq(SUBSET States)] :
        /\ H[0] = <<>> /\ H[at - 1] = stack
        /\ \A n \in 1 .. at - 1 : Leads(H, g, inst.prog[n], n - 1, n)

Argued ==
    /\ pc = "grow" /\ Op[1] = "EU" => base = stack[2]
    /\ pc \in {"dfs", "scc", "grow"} /\ Op[1] = "EG" => base = stack[1]

LEMMA ValueOutcome ==
    ASSUME TypeOK, at <= Len(inst.prog), Op[1] \notin {"EU", "EG"}
    PROVE  Value = Outcome(g, Op, stack[1], stack[2])
<1>1. Op[1] \in Leaf \cup Unary \cup Binary BY ArgumentsThere DEF Operation
<1>2. CASE Op[1] = "EX"
  <2>1. \A s : Pred(g, s) \subseteq States BY PredType
  <2>2. UNION {Pred(g, s) : s \in stack[1]} = EXSat(g, stack[1])
    <3>1. ASSUME NEW s \in stack[1], NEW t \in Pred(g, s) PROVE t \in EXSat(g, stack[1])
      <4>1. s \in Succ(g, t) BY <3>1, SuccPred
      <4>2. t \in States BY <2>1
      <4> QED BY <4>1, <4>2 DEF EXSat, States
    <3>2. ASSUME NEW t \in EXSat(g, stack[1]) PROVE \E s \in stack[1] : t \in Pred(g, s)
      <4>1. PICK s \in stack[1] : s \in Succ(g, t) BY DEF EXSat
      <4> QED BY <4>1, SuccPred
    <3> QED BY <3>1, <3>2
  <2> QED BY <1>2, <2>2 DEF Value, Outcome
<1>3. CASE Op[1] # "EX"
  BY <1>1, <1>3 DEF Value, Outcome, AtomicGetStates, States, Leaf, Unary, Binary
<1> QED BY <1>2, <1>3

LEMMA ReplayedReturn ==
    ASSUME TypeOK, Replayed, at <= Len(inst.prog), inst' = inst, at' = at + 1,
           stack' \in Seq(SUBSET States),
           Return(Arguments(Op), Outcome(g, Op, stack[1], stack[2]))
    PROVE  Replayed'
<1> DEFINE N == Len(inst.prog)
<1>1. PICK H \in [0 .. N -> Seq(SUBSET States)] :
        /\ H[0] = <<>> /\ H[at - 1] = stack
        /\ \A n \in 1 .. at - 1 : Leads(H, g, inst.prog[n], n - 1, n)
      BY DEF Replayed
<1>2. N \in Nat /\ at \in 1 .. N
  <2>1. inst.prog \in Seq(Operation) BY InstanceType DEF TypeOK
  <2>2. N \in Nat BY <2>1
  <2> HIDE DEF N
  <2> QED BY <2>2 DEF TypeOK, N
<1> DEFINE I == [H EXCEPT ![at] = stack']
<1>3. /\ I \in [0 .. N -> Seq(SUBSET States)]
      /\ \A n \in 0 .. N : n # at => I[n] = H[n]
      /\ I[at] = stack'
      BY <1>2
<1> HIDE DEF I
<1>4. I[0] = <<>> /\ I[at' - 1] = stack'
  <2>1. 0 \in 0 .. N /\ 0 # at /\ at' - 1 = at BY <1>2
  <2> QED BY <1>1, <1>3, <2>1
<1>5. ASSUME NEW n \in 1 .. at' - 1 PROVE Leads(I, g, inst.prog[n], n - 1, n)
  <2>1. n \in 1 .. at /\ n - 1 \in 0 .. N /\ n - 1 # at /\ n \in 0 .. N BY <1>2
  <2>2. I[n - 1] = H[n - 1] BY <1>3, <2>1
  <2>3. CASE n = at
    <3>1. I[at - 1] = stack BY <1>1, <2>2, <2>3
    <3>2. stack' = Applied(g, Op, stack) BY DEF Return, Applied
    <3> QED BY <1>3, <2>3, <3>1, <3>2 DEF Leads, Op
  <2>4. CASE n # at
    <3>1. n \in 1 .. at - 1 BY <1>2, <2>1, <2>4
    <3>2. I[n] = H[n] BY <1>3, <2>1, <2>4
    <3>3. H[n] = Applied(g, inst.prog[n], H[n - 1]) BY <1>1, <3>1 DEF Leads
    <3> QED BY <2>2, <3>2, <3>3 DEF Leads
  <2> QED BY <2>3, <2>4
<1>6. g' = g /\ inst'.prog = inst.prog /\ States' = States BY DEF g, States
<1> QED BY <1>3, <1>4, <1>5, <1>6 DEF Replayed

LEMMA ReplayedStutter ==
    ASSUME Replayed, inst' = inst, at' = at, stack' = stack
    PROVE  Replayed'
<1>1. g' = g /\ States' = States BY DEF g, States
<1> QED BY <1>1 DEF Replayed


LEMMA ArguedStep == TypeOK /\ Searching /\ Argued /\ [Next]_vars => Argued'
<1> SUFFICES ASSUME TypeOK, Searching, Argued, [Next]_vars PROVE Argued' OBVIOUS
<1>1. CASE Eval          BY <1>1 DEF Eval, Argued
<1>2. CASE CheckEU       BY <1>2 DEF CheckEU, Argued, Op
<1>3. CASE Grow          BY <1>3 DEF Grow, Argued, Op
<1>4. CASE Grown         BY <1>4 DEF Grown, Argued
<1>5. CASE CheckEG       BY <1>5 DEF CheckEG, Argued, Op
<1>6. CASE Root          BY <1>6 DEF Root, Argued, Op
<1>7. CASE Visit         BY <1>7 DEF Visit, Argued, Op
<1>8. CASE Finish        BY <1>8 DEF Finish, Argued, Op
<1>9. CASE Searched      BY <1>9 DEF Searched, Argued, Op
<1>10. CASE TakeComponent BY <1>10 DEF TakeComponent, Argued, Op
<1>11. CASE FairComponents BY <1>11 DEF FairComponents, Searching, Argued, Op
<1>12. CASE Answer       BY <1>12 DEF Answer, Argued
<1>13. CASE UNCHANGED vars BY <1>13 DEF vars, Argued, Op
<1> QED BY <1>1, <1>2, <1>3, <1>4, <1>5, <1>6, <1>7, <1>8, <1>9, <1>10, <1>11, <1>12, <1>13
        DEF Next

LEMMA ReplayedStep ==
    IInv /\ TypeOK' /\ EGExact /\ Argued /\ Replayed /\ [Next]_vars => Replayed'
<1> SUFFICES ASSUME IInv, TypeOK', EGExact, Argued, Replayed, [Next]_vars PROVE Replayed'
    OBVIOUS
<1>0. TypeOK /\ Growing /\ GrowExact BY GrowExactFromInv DEF IInv
<1>1. ASSUME inst' = inst PROVE stack' \in Seq(SUBSET States) BY <1>1 DEF TypeOK, States, g
<1>2. CASE Eval
  <2>1. Value = Outcome(g, Op, stack[1], stack[2]) BY <1>0, <1>2, ValueOutcome DEF Eval
  <2> QED BY <1>0, <1>1, <1>2, <2>1, ReplayedReturn DEF Eval
<1>3. CASE Grown
  <2>1. at <= Len(inst.prog) /\ Op[1] \in {"EU", "EG"} BY <1>0, <1>3 DEF Grown, Growing
  <2>2. acc = Outcome(g, Op, stack[1], stack[2])
    <3>1. CASE Op[1] = "EU"
      <4>1. base = stack[2] BY <1>3, <3>1 DEF Grown, Argued
      <4>2. acc = EUSat(g, base, stack[1]) BY <1>0, <1>3, <3>1 DEF Grown, GrowExact
      <4> QED BY <3>1, <4>1, <4>2 DEF Outcome
    <3>2. CASE Op[1] = "EG"
      <4>1. base = stack[1] BY <1>3, <3>2 DEF Grown, Argued
      <4>2. acc = EGSat(g, base) BY <1>3, <3>2 DEF Grown, EGExact
      <4> QED BY <3>2, <4>1, <4>2 DEF Outcome
    <3> QED BY <2>1, <3>1, <3>2
  <2> QED BY <1>0, <1>1, <1>3, <2>1, <2>2, ReplayedReturn DEF Grown
<1>4. CASE inst' = inst /\ at' = at /\ stack' = stack BY <1>4, ReplayedStutter
<1>5. CASE CheckEU       BY <1>4, <1>5 DEF CheckEU
<1>6. CASE Grow          BY <1>4, <1>6 DEF Grow
<1>7. CASE CheckEG       BY <1>4, <1>7 DEF CheckEG
<1>8. CASE Root          BY <1>4, <1>8 DEF Root
<1>9. CASE Visit         BY <1>4, <1>9 DEF Visit
<1>10. CASE Finish       BY <1>4, <1>10 DEF Finish
<1>11. CASE Searched     BY <1>4, <1>11 DEF Searched
<1>12. CASE TakeComponent BY <1>4, <1>12 DEF TakeComponent
<1>13. CASE FairComponents BY <1>4, <1>13 DEF FairComponents
<1>14. CASE Answer       BY <1>4, <1>14 DEF Answer
<1>15. CASE UNCHANGED vars BY <1>4, <1>15 DEF vars
<1> QED BY <1>2, <1>3, <1>5, <1>6, <1>7, <1>8, <1>9, <1>10, <1>11, <1>12, <1>13, <1>14, <1>15
        DEF Next

LEMMA Verdict == TypeOK /\ Ended /\ Replayed => ResultExact
<1> SUFFICES ASSUME TypeOK, Ended, Replayed, pc = "done"
             PROVE  stack = <<Sat(g, inst.formula)>>
    BY DEF ResultExact
<1> DEFINE prog == inst.prog
           v    == Sat(g, inst.formula)
<1>1. Graph(g, {})
  <2>1. Graph(g, base) BY BaseGraph
  <2> QED BY <2>1 DEF Graph
<1>2. Computes(g, prog, v)
  <2>1. inst \in Instances BY DEF TypeOK
  <2>2. Formula(inst.formula) /\ prog = Parse(inst.formula) BY <2>1, FormulasAssumption
  <2> QED BY <1>1, <2>2, ParseComputes
<1>3. prog \in Seq(Operation) /\ at = Len(prog) + 1 BY InstanceType DEF TypeOK, Ended
<1>4. Len(prog) \in Nat /\ at - 1 = Len(prog) BY <1>3
<1>5. PICK H \in [0 .. Len(prog) -> Seq(SUBSET States)] :
        /\ H[0] = <<>> /\ H[at - 1] = stack
        /\ \A n \in 1 .. at - 1 : Leads(H, g, prog[n], n - 1, n)
      BY DEF Replayed
<1>6. Replay(g, prog, H, 0, prog)
  <2>1. H \in [0 .. Len(prog) -> Seq(SUBSET g.states)] BY <1>5 DEF States
  <2>2. 0 \in Nat /\ 0 + Len(prog) <= Len(prog) BY <1>4
  <2>3. ASSUME NEW i \in 1 .. Len(prog)
        PROVE  /\ prog[0 + i] = prog[i]
               /\ H[0 + i] = Applied(g, prog[0 + i], H[0 + i - 1])
    <3>1. 0 + i = i /\ i \in 1 .. at - 1 BY <1>4
    <3>2. H[i] = Applied(g, prog[i], H[i - 1]) BY <1>5, <3>1 DEF Leads
    <3> QED BY <3>1, <3>2
  <2> HIDE DEF prog
  <2> QED BY <1>3, <2>1, <2>2, <2>3 DEF Replay
<1>7. H[0 + Len(prog)] = <<v>> \o H[0] BY <1>2, <1>6 DEF Computes
<1>8. 0 + Len(prog) = at - 1 BY <1>4
<1>9. <<v>> \o <<>> = <<v>> OBVIOUS
<1>10. stack = <<v>>
  <2> HIDE DEF v
  <2> QED BY <1>5, <1>7, <1>8, <1>9
<1> QED BY <1>10

(* For every state graph and every formula, whatever order the sets are    *)
(* walked in: what checkCTL returns of the operations that the grammar     *)
(* left is the meaning of the formula that was written, in every state.    *)
THEOREM VerdictsExact == Spec => []ResultExact
<1>1. Init => Argued BY DEF Init, Argued
<1>2. Init => Replayed
  <2> SUFFICES ASSUME Init PROVE Replayed OBVIOUS
  <2>1. inst.prog \in Seq(Operation) BY InstanceType DEF Init
  <2>2. Len(inst.prog) \in Nat BY <2>1
  <2> DEFINE H == [n \in 0 .. Len(inst.prog) |-> <<>>]
  <2>3. /\ H \in [0 .. Len(inst.prog) -> Seq(SUBSET States)] /\ H[0] = <<>>
        /\ at - 1 = 0 /\ stack = <<>>
        BY <2>2 DEF Init
  <2> HIDE DEF H
  <2>4. 1 .. 0 = {} OBVIOUS
  <2> QED BY <2>3, <2>4 DEF Replayed
<1>3. TypeOK /\ Searching /\ Argued /\ [Next]_vars => Argued' BY ArguedStep
<1>4. IInv /\ TypeOK' /\ EGExact /\ Argued /\ Replayed /\ [Next]_vars => Replayed'
      BY ReplayedStep
<1>5. IInv => TypeOK /\ Searching /\ Ended BY DEF IInv
<1>6. TypeOK /\ Ended /\ Replayed => ResultExact BY Verdict
<1>7. Spec => []IInv BY Invariant
<1>8. Spec => []EGExact BY FairPathsFound
<1> QED BY <1>1, <1>2, <1>3, <1>4, <1>5, <1>6, <1>7, <1>8, PTL DEF Spec


-----------------------------------------------------------------------------
(* Programs: what the grammar leaves is the post-order of a formula.       *)

(* Started on no values, the operations of p leave h.                      *)
Runs(p, h) ==
    /\ p \in Seq(Operation)
    /\ \A n \in DOMAIN p : Height(p, n - 1) >= Arguments(p[n])
    /\ Height(p, Len(p)) = h

LEMMA HeightPrefix ==
    ASSUME NEW p \in Seq(Operation), NEW q \in Seq(Operation), NEW n \in 0 .. Len(p)
    PROVE  Height(p \o q, n) = Height(p, n)
<1>1. \A i \in 1 .. n : (p \o q)[i] = p[i] OBVIOUS
<1>2. \A ops : Of(ops, p \o q, n) = Of(ops, p, n) BY <1>1 DEF Of
<1> QED BY <1>2 DEF Height

LEMMA HeightType == ASSUME NEW p \in Seq(Operation) PROVE Height(p, Len(p)) \in Int
<1> DEFINE l == Len(p)
<1>1. CASE l = 0 BY <1>1, HeightZero
<1>2. CASE l # 0
  <2>1. l \in DOMAIN p BY <1>2
  <2>2. Arguments(p[l]) \in Int BY DEF Arguments
  <2>3. Height(p, l) = Height(p, l - 1) + 1 - Arguments(p[l]) /\ Height(p, l - 1) \in Int
        BY <2>1, HeightStep
  <2> QED BY <2>2, <2>3
<1> QED BY <1>1, <1>2

LEMMA HeightConcat ==
    ASSUME NEW p \in Seq(Operation), NEW q \in Seq(Operation), NEW m \in 0 .. Len(q)
    PROVE  Height(p \o q, Len(p) + m) = Height(p, Len(p)) + Height(q, m)
<1> DEFINE pq == p \o q
           l  == Len(p)
           T  == {n \in Nat : n <= Len(q) => Height(pq, l + n) = Height(p, l) + Height(q, n)}
<1>1. /\ pq \in Seq(Operation) /\ l \in Nat /\ Len(q) \in Nat /\ DOMAIN q = 1 .. Len(q)
      /\ DOMAIN pq = 1 .. l + Len(q)
      /\ \A i \in 1 .. Len(q) : pq[l + i] = q[i]
      OBVIOUS
<1>2. 0 \in T
  <2>1. Height(pq, l) = Height(p, l) /\ Height(q, 0) = 0 BY HeightPrefix, HeightZero
  <2>2. Height(p, l) \in Int BY HeightType
  <2>3. l + 0 = l BY <1>1
  <2> HIDE DEF l, pq
  <2> QED BY <2>1, <2>2, <2>3
<1>3. ASSUME NEW n \in Nat, n \in T PROVE n + 1 \in T
  <2> SUFFICES ASSUME n + 1 <= Len(q)
               PROVE  Height(pq, l + (n + 1)) = Height(p, l) + Height(q, n + 1)
      OBVIOUS
  <2> HIDE DEF pq, l
  <2>1. Height(pq, l + n) = Height(p, l) + Height(q, n) BY <1>1, <1>3
  <2>2. /\ n + 1 \in DOMAIN q /\ l + (n + 1) \in DOMAIN pq
        /\ n + 1 - 1 = n /\ l + (n + 1) - 1 = l + n
        /\ pq[l + (n + 1)] = q[n + 1]
        BY <1>1
  <2>3. Height(q, n + 1) = Height(q, n) + 1 - Arguments(q[n + 1]) /\ Height(q, n) \in Int
        BY <2>2, HeightStep
  <2>4. Height(pq, l + (n + 1)) = Height(pq, l + n) + 1 - Arguments(q[n + 1])
    <3>1. PICK j \in DOMAIN pq : j = l + (n + 1) /\ pq[j] = q[n + 1] BY <2>2
    <3>2. j - 1 = l + n
      <4>1. l \in Nat BY <1>1
      <4> QED BY <3>1, <4>1
    <3>3. Height(pq, j) = Height(pq, j - 1) + 1 - Arguments(pq[j]) BY <1>1, HeightStep
    <3>4. Height(pq, j) = Height(pq, l + (n + 1)) BY <3>1
    <3>5. Height(pq, j - 1) = Height(pq, l + n) BY <3>2
    <3> QED BY <3>1, <3>3, <3>4, <3>5
  <2>5. Arguments(q[n + 1]) \in Int BY DEF Arguments
  <2>6. Height(p, l) \in Int BY HeightType DEF l
  <2> QED BY <2>1, <2>3, <2>4, <2>5, <2>6
<1>4. m \in T
  <2> HIDE DEF T
  <2> QED BY <1>2, <1>3, CountUp
<1> QED BY <1>4

LEMMA RunsConcat ==
    ASSUME NEW p, NEW a \in Nat, Runs(p, a), NEW q, NEW b \in Nat, Runs(q, b)
    PROVE  Runs(p \o q, a + b)
<1>1. /\ p \in Seq(Operation) /\ q \in Seq(Operation)
      /\ Height(p, Len(p)) = a /\ Height(q, Len(q)) = b
      BY DEF Runs
<1> DEFINE pq == p \o q
           l  == Len(p)
<1>2. /\ pq \in Seq(Operation) /\ l \in Nat /\ Len(q) \in Nat /\ Len(pq) = l + Len(q)
      /\ \A i \in 1 .. l : pq[i] = p[i]
      /\ \A i \in 1 .. Len(q) : pq[l + i] = q[i]
      BY <1>1
<1>3. /\ \A n \in 0 .. l : Height(pq, n) = Height(p, n)
      /\ \A n \in 0 .. Len(q) : Height(pq, l + n) = a + Height(q, n)
  <2>1. \A n \in 0 .. l : Height(pq, n) = Height(p, n) BY <1>1, HeightPrefix
  <2>2. \A n \in 0 .. Len(q) : Height(pq, l + n) = Height(p, l) + Height(q, n)
        BY <1>1, HeightConcat
  <2> QED BY <1>1, <2>1, <2>2
<1> HIDE DEF pq, l
<1>4. ASSUME NEW n \in DOMAIN pq PROVE Height(pq, n - 1) >= Arguments(pq[n])
  <2>1. n \in 1 .. l + Len(q) BY <1>2
  <2>2. CASE n <= l
    <3>1. n \in 1 .. l /\ n - 1 \in 0 .. l BY <1>2, <2>1, <2>2
    <3>2. n \in DOMAIN p BY <1>1, <3>1 DEF l
    <3>3. Height(p, n - 1) >= Arguments(p[n]) BY <3>2 DEF Runs
    <3> QED BY <1>2, <1>3, <3>1, <3>3
  <2>3. CASE n > l
    <3> DEFINE i == n - l
    <3>1. i \in 1 .. Len(q) /\ i - 1 \in 0 .. Len(q) /\ n = l + i /\ n - 1 = l + (i - 1)
          BY <1>2, <2>1, <2>3
    <3> HIDE DEF i
    <3>2. i \in DOMAIN q BY <1>1, <3>1
    <3>3. Height(q, i - 1) >= Arguments(q[i]) BY <3>2 DEF Runs
    <3>4. Height(q, i - 1) \in Int BY <1>1, <3>2, HeightStep
    <3>5. Arguments(q[i]) \in Int BY DEF Arguments
    <3>6. Height(pq, n - 1) = a + Height(q, i - 1) /\ pq[n] = q[i] BY <1>2, <1>3, <3>1
    <3> QED BY <3>3, <3>4, <3>5, <3>6
  <2> QED BY <1>2, <2>1, <2>2, <2>3
<1>5. Height(pq, Len(pq)) = a + b
  <2>1. Len(q) \in 0 .. Len(q) BY <1>2
  <2> QED BY <1>1, <1>2, <1>3, <2>1
<1> QED BY <1>2, <1>4, <1>5 DEF Runs, pq

LEMMA RunsAppend ==
    ASSUME NEW p, NEW a \in Nat, Runs(p, a), NEW operation \in Operation,
           Arguments(operation) <= a
    PROVE  Runs(Append(p, operation), a + 1 - Arguments(operation))
<1> DEFINE last == <<operation>>
           po   == p \o last
           l    == Len(p)
<1>1. p \in Seq(Operation) /\ last \in Seq(Operation) /\ Height(p, l) = a BY DEF Runs
<1>2. /\ Append(p, operation) = po /\ po \in Seq(Operation) /\ l \in Nat
      /\ Len(po) = l + 1 /\ DOMAIN po = 1 .. l + 1 /\ DOMAIN p = 1 .. l
      /\ \A i \in 1 .. l : po[i] = p[i]
      /\ po[l + 1] = operation
      BY <1>1
<1>3. \A n \in 0 .. l : Height(po, n) = Height(p, n)
  <2> HIDE DEF last
  <2> QED BY <1>1, HeightPrefix
<1> HIDE DEF po, l
<1>4. Height(po, l) = a BY <1>1, <1>2, <1>3
<1>5. ASSUME NEW n \in DOMAIN po PROVE Height(po, n - 1) >= Arguments(po[n])
  <2>1. CASE n <= l
    <3>1. n \in DOMAIN p /\ n \in 1 .. l /\ n - 1 \in 0 .. l BY <1>2, <2>1
    <3>2. Height(p, n - 1) >= Arguments(p[n]) BY <3>1 DEF Runs
    <3> QED BY <1>2, <1>3, <3>1, <3>2
  <2>2. CASE n > l
    <3>1. n = l + 1 /\ n - 1 = l BY <1>2, <2>2
    <3>2. Arguments(operation) \in Int BY DEF Arguments
    <3> QED BY <1>2, <1>4, <3>1, <3>2
  <2> QED BY <1>2, <2>1, <2>2
<1>6. Height(po, Len(po)) = a + 1 - Arguments(operation)
  <2>1. l + 1 \in DOMAIN po /\ l + 1 - 1 = l BY <1>2
  <2>2. Height(po, l + 1) = Height(po, l) + 1 - Arguments(operation) BY <1>2, <2>1, HeightStep
  <2> QED BY <1>2, <1>4, <2>2
<1> QED BY <1>2, <1>5, <1>6 DEF Runs


-----------------------------------------------------------------------------
(* The operators of the grammar, each on arguments that leave one value.   *)
LEMMA LeafRuns == ASSUME NEW operation \in Operation, operation[1] \in Leaf
                  PROVE  Runs(<<operation>>, 1)
<1>1. Runs(<<>>, 0)
  <2>1. <<>> \in Seq(Operation) /\ DOMAIN <<>> = {} /\ Len(<<>>) = 0 OBVIOUS
  <2> QED BY <2>1, HeightZero DEF Runs
<1>2. Arguments(operation) = 0 BY DEF Arguments
<1> DEFINE none == <<>>
<1>3. Runs(Append(none, operation), 0 + 1 - Arguments(operation))
  <2>1. Runs(none, 0) /\ Arguments(operation) <= 0 /\ 0 \in Nat BY <1>1, <1>2
  <2> HIDE DEF none
  <2> QED BY <2>1, RunsAppend
<1>4. Append(none, operation) = <<operation>> OBVIOUS
<1>5. 0 + 1 - 0 = 1 OBVIOUS
<1> QED BY <1>2, <1>3, <1>4, <1>5

LEMMA UnaryRuns ==
    ASSUME NEW operation \in Operation, operation[1] \in Unary, NEW p, Runs(p, 1)
    PROVE  Runs(Append(p, operation), 1)
<1>1. Arguments(operation) = 1 BY DEF Arguments, Leaf, Unary
<1>2. Runs(Append(p, operation), 1 + 1 - Arguments(operation)) BY <1>1, RunsAppend
<1>3. 1 + 1 - 1 = 1 OBVIOUS
<1> QED BY <1>1, <1>2, <1>3

LEMMA BinaryRuns ==
    ASSUME NEW operation \in Operation, operation[1] \in Binary,
           NEW p, Runs(p, 1), NEW q, Runs(q, 1)
    PROVE  Runs(p \o q \o <<operation>>, 1)
<1>1. Arguments(operation) = 2 BY DEF Arguments, Leaf, Unary, Binary
<1>2. Runs(p \o q, 2)
  <2>1. Runs(p \o q, 1 + 1) BY RunsConcat
  <2>2. 1 + 1 = 2 OBVIOUS
  <2> QED BY <2>1, <2>2
<1> DEFINE pq == p \o q
<1>3. Runs(Append(pq, operation), 2 + 1 - Arguments(operation))
  <2>1. Runs(pq, 2) BY <1>2
  <2> HIDE DEF pq
  <2> QED BY <1>1, <2>1, RunsAppend
<1>4. pq \o <<operation>> = Append(pq, operation)
  <2>1. pq \in Seq(Operation) BY <1>2 DEF Runs
  <2> HIDE DEF pq
  <2> QED BY <2>1
<1>5. 2 + 1 - 2 = 1 OBVIOUS
<1> QED BY <1>1, <1>3, <1>4, <1>5

LEMMA StatementsRun ==
    /\ Runs(True, 1)
    /\ \A s \in Int : Runs(Var(s), 1)
    /\ \A p : Runs(p, 1) => Runs(Not(p), 1) /\ Runs(EX(p), 1) /\ Runs(EG(p), 1)
    /\ \A p, q : Runs(p, 1) /\ Runs(q, 1) =>
                     Runs(Or(p, q), 1) /\ Runs(And(p, q), 1) /\ Runs(EU(p, q), 1)
<1>1. Runs(True, 1)
  <2>1. <<"TRUE", 0>> \in Operation /\ <<"TRUE", 0>>[1] \in Leaf BY DEF Operation, Leaf
  <2> QED BY <2>1, LeafRuns DEF True
<1>2. ASSUME NEW s \in Int PROVE Runs(Var(s), 1)
  <2>1. <<"VAR", s>> \in Operation /\ <<"VAR", s>>[1] \in Leaf BY DEF Operation, Leaf
  <2> QED BY <2>1, LeafRuns DEF Var
<1>3. ASSUME NEW p, Runs(p, 1) PROVE Runs(Not(p), 1) /\ Runs(EX(p), 1) /\ Runs(EG(p), 1)
  <2>1. \A name \in Unary : <<name, 0>> \in Operation /\ <<name, 0>>[1] \in Unary
        BY DEF Operation
  <2>2. \A name \in Unary : Runs(Append(p, <<name, 0>>), 1) BY <1>3, <2>1, UnaryRuns
  <2> QED BY <2>2 DEF Not, EX, EG, Unary
<1>4. ASSUME NEW p, NEW q, Runs(p, 1), Runs(q, 1)
      PROVE  Runs(Or(p, q), 1) /\ Runs(And(p, q), 1) /\ Runs(EU(p, q), 1)
  <2>1. \A name \in Binary : <<name, 0>> \in Operation /\ <<name, 0>>[1] \in Binary
        BY DEF Operation
  <2>2. \A name \in Binary : Runs(p \o q \o << <<name, 0>> >>, 1) BY <1>4, <2>1, BinaryRuns
  <2> QED BY <2>2 DEF Or, And, EU, Binary
<1> QED BY <1>1, <1>2, <1>3, <1>4

LEMMA ReduceRuns ==
    ASSUME NEW r \in Reduction, NEW p, NEW q,
           r[1] \notin Leaf => Runs(p, 1), r[1] \in Infix => Runs(q, 1)
    PROVE  Runs(Reduce(r, p, q), 1)
<1>0. r[1] \in Leaf \cup Prefix \cup Infix /\ r[2] \in Int BY DEF Reduction
<1>1. CASE r[1] \in Leaf BY <1>0, <1>1, StatementsRun DEF Reduce, Leaf
<1>2. CASE r[1] \in Prefix
  <2>1. Runs(p, 1) BY <1>2 DEF Leaf, Prefix, Unary
  <2>2. /\ Runs(Not(EX(Not(p))), 1) /\ Runs(Not(EG(Not(p))), 1)
        /\ Runs(EU(True, p), 1) /\ Runs(Not(EU(True, Not(p))), 1)
    <3>1. Runs(True, 1) /\ Runs(Not(p), 1) BY <2>1, StatementsRun
    <3>2. Runs(EX(Not(p)), 1) /\ Runs(EG(Not(p)), 1) BY <3>1, StatementsRun
    <3>3. Runs(EU(True, p), 1) /\ Runs(EU(True, Not(p)), 1) BY <2>1, <3>1, StatementsRun
    <3> QED BY <3>2, <3>3, StatementsRun
  <2>3. Runs(Not(p), 1) /\ Runs(EX(p), 1) /\ Runs(EG(p), 1) BY <2>1, StatementsRun
  <2> QED BY <1>2, <2>2, <2>3 DEF Reduce, Prefix, Unary
<1>3. CASE r[1] \in Infix
  <2>1. Runs(p, 1) /\ Runs(q, 1) BY <1>3 DEF Leaf, Infix, Binary
  <2>2. Runs(Or(p, q), 1) /\ Runs(And(p, q), 1) /\ Runs(EU(p, q), 1)
        BY <2>1, StatementsRun
  <2>3. Runs(RewriteAU(p, q), 1)
    <3>1. Runs(Not(p), 1) /\ Runs(Not(q), 1) BY <2>1, StatementsRun
    <3>2. Runs(And(Not(p), Not(q)), 1) BY <3>1, StatementsRun
    <3>3. Runs(EU(Not(q), And(Not(p), Not(q))), 1) /\ Runs(EG(Not(q)), 1)
          BY <3>1, <3>2, StatementsRun
    <3>4. /\ Runs(Not(EU(Not(q), And(Not(p), Not(q)))), 1)
          /\ Runs(Not(EG(Not(q))), 1)
          BY <3>3, StatementsRun
    <3> QED BY <3>4, StatementsRun DEF RewriteAU
  <2> QED BY <1>3, <2>2, <2>3 DEF Reduce, Infix, Binary
<1> QED BY <1>0, <1>1, <1>2, <1>3

(* Every formula that the grammar accepts becomes a list of operations in  *)
(* which each finds its arguments and which leaves one value: checkCTLRec  *)
(* never meets a node without the children that its operator needs.        *)
THEOREM FormulasCompile == \A f : Formula(f) => PostOrder(Parse(f))
<1> SUFFICES ASSUME NEW f, Formula(f) PROVE PostOrder(Parse(f)) OBVIOUS
<1> DEFINE statement == CHOOSE h : Statements(f, h)
           T == {n \in Nat : \A k \in DOMAIN f : k <= n => Runs(statement[k], 1)}
<1>1. /\ Len(f) \in Nat /\ DOMAIN f = 1 .. Len(f) /\ Len(f) \in DOMAIN f
      /\ \A k \in DOMAIN f : /\ k \in Nat /\ f[k] \in Reduction
                             /\ f[k][1] \notin Leaf => f[k][2] \in 1 .. k - 1
                             /\ f[k][1] \in Infix => f[k][3] \in 1 .. k - 1
      BY ReductionType
<1>2. Parse(f) = statement[Len(f)] BY DEF Parse, Statements
<1>3. Statements(f, statement) BY StatementsExist
<1> HIDE DEF statement
<1>4. \A k \in DOMAIN f : statement[k] = Reduce(f[k], statement[f[k][2]], statement[f[k][3]])
      BY <1>3 DEF Statements
<1>5. 0 \in T BY <1>1
<1>6. ASSUME NEW n \in Nat, n \in T PROVE n + 1 \in T
  <2> SUFFICES ASSUME NEW k \in DOMAIN f, k <= n + 1 PROVE Runs(statement[k], 1) OBVIOUS
  <2>1. f[k][1] \notin Leaf => Runs(statement[f[k][2]], 1)
    <3> SUFFICES ASSUME f[k][1] \notin Leaf PROVE Runs(statement[f[k][2]], 1) OBVIOUS
    <3>1. f[k][2] \in DOMAIN f /\ f[k][2] <= n BY <1>1
    <3> QED BY <1>6, <3>1
  <2>2. f[k][1] \in Infix => Runs(statement[f[k][3]], 1)
    <3> SUFFICES ASSUME f[k][1] \in Infix PROVE Runs(statement[f[k][3]], 1) OBVIOUS
    <3>1. f[k][3] \in DOMAIN f /\ f[k][3] <= n BY <1>1
    <3> QED BY <1>6, <3>1
  <2>3. Runs(Reduce(f[k], statement[f[k][2]], statement[f[k][3]]), 1)
        BY <1>1, <2>1, <2>2, ReduceRuns
  <2> QED BY <1>4, <2>3
<1>7. Len(f) \in T
  <2> HIDE DEF T
  <2> QED BY <1>1, <1>5, <1>6, CountUp
<1>8. Runs(Parse(f), 1) BY <1>1, <1>2, <1>7
<1> QED BY <1>8 DEF Runs, PostOrder, Operation


=============================================================================
