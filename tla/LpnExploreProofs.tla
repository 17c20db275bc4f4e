-------------------------- MODULE LpnExploreProofs --------------------------
(***************************************************************************)
(* lpn_rsg implements GraphSearch, for every net and every fire list: its  *)
(* table holds only reachable markings, TRUE means it holds them all and   *)
(* none of them is bad, FALSE that a bad one was met.                      *)
(***************************************************************************)
EXTENDS LpnReduction, LpnNetProofs, SequenceTheorems, FiniteSetTheorems, TLAPS

(* Firing e in m has been seen to, and recorded.                           *)
Handled(m, e) ==
    IF Fails(net, m, e) THEN (NoFail \/ net.keepgoing) /\ <<m, e>> \in failEdges
    ELSE \E k \in Table :
            SameKey(k, FindNewMarking(net, m, e)) /\ <<m, e, k>> \in edges

Explored(m) ==
    /\ \A e \in FireEvents(net, m) : Handled(m, e)
    /\ FireEvents(net, m) = {} => ~FoundDeadlock(net, m, net.search)

OnStack(m) == \E i \in 1 .. Len(stack) : stack[i].marking = m

Entries == {Entry(net, m) : m \in Table}

(* A stored marking is on the stack, being explored, or has been explored. *)
Progress ==
    \A m \in Table :
        \/ OnStack(m)
        \/ pc \in {"fire", "stuck"} /\ m = cur
        \/ answer = "FALSE"
        \/ Explored(m)

Control ==
    /\ pc \in {"start", "pop", "fire", "stuck", "done"}
    /\ answer \in {"none", "TRUE", "FALSE"}
    /\ answer = "none" <=> pc # "done"
    /\ answer = "TRUE" => stack = <<>>
    /\ pc = "start" => Table = {}
    /\ pc \in {"pop", "fire", "stuck"} => Table # {}
    /\ stack \in Seq(Entries)

Current ==
    /\ pc \in {"fire", "stuck"} => cur \in Table
    /\ pc = "stuck" => FireEvents(net, cur) = {}
    /\ pc = "fire" =>
          /\ FireEvents(net, cur) # {}
          /\ todo \subseteq FireEvents(net, cur)
          /\ \A e \in FireEvents(net, cur) \ todo : Handled(cur, e)

IInv == Control /\ Current /\ Progress

-----------------------------------------------------------------------------
LEMMA InitIInv == Init => IInv
  <1> SUFFICES ASSUME Init PROVE IInv
    OBVIOUS
  <1>1. Table = {}
    BY DEF Init, Table
  <1>2. stack \in Seq(Entries)
    BY EmptySeq DEF Init
  <1> QED
    BY <1>1, <1>2 DEF Init, IInv, Control, Current, Progress

(* Steps that store nothing keep what has been handled and explored.       *)
LEMMA TableGrows ==
    ASSUME net' = net, Table \subseteq Table',
           edges \subseteq edges', failEdges \subseteq failEdges'
    PROVE  /\ \A m, e : Handled(m, e) => Handled(m, e)'
           /\ \A m : Explored(m) => Explored(m)'
           /\ Entries \subseteq Entries'
  <1>1. ASSUME NEW m, NEW e, Handled(m, e)
        PROVE  Handled(m, e)'
    BY <1>1 DEF Handled
  <1>2. ASSUME NEW m, Explored(m)
        PROVE  Explored(m)'
    BY <1>1, <1>2 DEF Explored
  <1>3. Entries \subseteq Entries'
    BY DEF Entries
  <1> QED
    BY <1>1, <1>2, <1>3

LEMMA InitialStep == IInv /\ FindInitial => IInv'
  <1> SUFFICES ASSUME IInv, FindInitial PROVE IInv'
    OBVIOUS
  <1> PICK m : m = InitialMarking(net)
    OBVIOUS
  <1>1. /\ Table' = {m} /\ stack' = <<Entry(net, m)>> /\ net' = net
        /\ pc' = "pop" /\ answer' = answer /\ pc = "start"
    BY DEF FindInitial, Table
  <1>2. Entries' = {Entry(net, m)}
    BY <1>1 DEF Entries
  <1>3. stack' \in Seq(Entries') /\ Len(stack') = 1 /\ stack'[1] = Entry(net, m)
    BY <1>1, <1>2
  <1>4. OnStack(m)'
    BY <1>3 DEF OnStack, Entry
  <1> QED
    BY <1>1, <1>3, <1>4 DEF IInv, Control, Current, Progress

LEMMA WithoutLast ==
    ASSUME NEW S, NEW seq \in Seq(S), seq # <<>>
    PROVE  /\ SubSeq(seq, 1, Len(seq) - 1) \in Seq(S)
           /\ Len(SubSeq(seq, 1, Len(seq) - 1)) = Len(seq) - 1
           /\ \A i \in 1 .. Len(seq) - 1 : SubSeq(seq, 1, Len(seq) - 1)[i] = seq[i]
  <1> PICK n : n = Len(seq) - 1
    OBVIOUS
  <1>1. n \in Nat /\ 1 \in Int /\ n \in Int
    BY EmptySeq, LenProperties
  <1>2. \A i \in 1 .. n : seq[i] \in S
    BY <1>1, ElementOfSeq
  <1>3. /\ SubSeq(seq, 1, n) \in Seq(S)
        /\ Len(SubSeq(seq, 1, n)) = IF 1 <= n THEN n - 1 + 1 ELSE 0
        /\ \A i \in 1 .. n - 1 + 1 : SubSeq(seq, 1, n)[i] = seq[1 + i - 1]
    BY <1>1, <1>2, SubSeqProperties
  <1>4. Len(SubSeq(seq, 1, n)) = n
    BY <1>1, <1>3
  <1>5. ASSUME NEW i \in 1 .. n PROVE SubSeq(seq, 1, n)[i] = seq[i]
    <2>1. i \in 1 .. n - 1 + 1 /\ 1 + i - 1 = i
      BY <1>1
    <2> QED
      BY <1>3, <2>1, Zenon
  <1> QED
    BY <1>3, <1>4, <1>5

(* The markings below the popped one stay on the stack.                    *)
LEMMA PopStep == IInv /\ PopMarking => IInv'
  <1> SUFFICES ASSUME IInv, PopMarking PROVE IInv'
    OBVIOUS
  <1> DEFINE n == Len(stack)
  <1>1. /\ stack \in Seq(Entries) /\ stack # <<>> /\ pc = "pop"
        /\ cur' = stack[n].marking /\ todo' = Event(net) \cap stack[n].firelist
        /\ stack' = SubSeq(stack, 1, n - 1)
        /\ pc' = IF todo' = {} THEN "stuck" ELSE "fire"
        /\ net' = net /\ number' = number /\ answer' = answer /\ answer = "none"
        /\ edges' = edges /\ failEdges' = failEdges
    BY DEF PopMarking, IInv, Control
  <1>2. n \in Nat \ {0} /\ \A i \in 1 .. n : stack[i] \in Entries
    BY <1>1, EmptySeq, ElementOfSeq
  <1>3. PICK m \in Table : stack[n] = Entry(net, m)
    BY <1>2 DEF Entries
  <1>4. cur' = m /\ todo' = FireEvents(net, m)
    BY <1>1, <1>3 DEF Entry, FireEvents
  <1>5. Table' = Table /\ Entries' = Entries
    BY <1>1 DEF Table, Entries
  <1>6. /\ stack' \in Seq(Entries)
        /\ Len(stack') = n - 1
        /\ \A i \in 1 .. n - 1 : stack'[i] = stack[i]
    BY <1>1, <1>2, WithoutLast
  <1>7. Control'
    BY <1>1, <1>5, <1>6 DEF IInv, Control
  <1>8. Current'
    <2>1. pc' = "fire" => \A e \in FireEvents(net, m) \ todo' : FALSE
      BY <1>4
    <2> QED
      BY <1>1, <1>4, <1>5, <2>1 DEF Current
  <1>9. Progress'
    <2> SUFFICES ASSUME NEW k \in Table, k # m PROVE OnStack(k)' \/ Explored(k)'
      BY <1>1, <1>4, <1>5 DEF Progress
    <2>1. CASE OnStack(k)
      <3>1. PICK i \in 1 .. n : stack[i].marking = k
        BY <2>1 DEF OnStack
      <3>2. i # n
        BY <1>3, <3>1 DEF Entry
      <3> QED
        BY <1>2, <1>6, <3>1, <3>2 DEF OnStack
    <2>2. CASE Explored(k)
      BY <1>1, <1>5, <2>2, TableGrows
    <2> QED
      BY <1>1, <2>1, <2>2 DEF IInv, Progress
  <1> QED
    BY <1>7, <1>8, <1>9 DEF IInv

(* Firing an event sees to it, and loses nothing.                          *)
LEMMA FireStep == IInv /\ FireNext => IInv'
  <1> SUFFICES ASSUME IInv, FireNext PROVE IInv'
    OBVIOUS
  <1>1. PICK e \in todo :
           /\ FireFailure(e) \/ FireNew(e) \/ FireSeen(e)
           /\ todo' = todo \ {e}
    BY DEF FireNext
  <1>2. /\ pc = "fire" /\ answer = "none" /\ net' = net /\ cur' = cur
        /\ cur \in Table /\ FireEvents(net, cur) # {}
        /\ todo \subseteq FireEvents(net, cur)
    BY DEF FireNext, IInv, Control, Current
  <1>3. /\ Table \subseteq Table'
        /\ edges \subseteq edges' /\ failEdges \subseteq failEdges'
        /\ stack' \in Seq(Entries')
        /\ \A k \in Table : OnStack(k) => OnStack(k)'
        /\ \A k \in Table' \ Table : OnStack(k)'
        /\ \/ pc' = "fire" /\ answer' = "none" /\ Handled(cur, e)'
           \/ pc' = "done" /\ answer' = "FALSE"
    <2>1. CASE FireFailure(e)
      <3>1. /\ stack' = stack /\ number' = number /\ edges' = edges
            /\ failEdges' = failEdges \cup {<<cur, e>>}
            /\ Fails(net, cur, e)
        BY <2>1 DEF FireFailure, AddFail
      <3>2. Table' = Table /\ Entries' = Entries
        BY <1>2, <3>1 DEF Table, Entries
      <3>3. \/ pc' = "fire" /\ answer' = "none" /\ (NoFail \/ net.keepgoing)
            \/ pc' = "done" /\ answer' = "FALSE"
        BY <2>1, <1>2 DEF FireFailure
      <3> QED
        BY <1>2, <3>1, <3>2, <3>3 DEF IInv, Control, OnStack, Handled
    <2>2. CASE FireNew(e)
      <3> PICK m : m = FindNewMarking(net, cur, e)
        OBVIOUS
      <3>1. /\ ~Fails(net, cur, e) /\ Table' = Table \cup {m}
            /\ stack' = Append(stack, Entry(net, m))
            /\ edges' = edges \cup {<<cur, e, m>>} /\ failEdges' = failEdges
            /\ pc' = pc /\ answer' = answer
        BY <2>2 DEF FireNew, Table
      <3>2. stack \in Seq(Entries') /\ Entry(net, m) \in Entries'
        BY <1>2, <3>1, SeqMonotonic DEF IInv, Control, Entries
      <3>3. /\ stack' \in Seq(Entries') /\ Len(stack') = Len(stack) + 1
            /\ \A i \in 1 .. Len(stack) : stack'[i] = stack[i]
            /\ stack'[Len(stack) + 1] = Entry(net, m)
            /\ Len(stack) \in Nat
        BY <3>1, <3>2, AppendProperties, LenProperties
      <3>4. \A k : OnStack(k) => OnStack(k)'
        BY <3>3 DEF OnStack
      <3>5. OnStack(m)'
        BY <3>3 DEF OnStack, Entry
      <3>6. Handled(cur, e)'
        BY <1>2, <3>1 DEF Handled, SameKey
      <3> QED
        BY <1>2, <3>1, <3>3, <3>4, <3>5, <3>6
    <2>3. CASE FireSeen(e)
      <3>1. /\ stack' = stack /\ number' = number /\ ~Fails(net, cur, e)
            /\ pc' = pc /\ answer' = answer
            /\ failEdges' = failEdges
            /\ \E k \in Table : /\ SameKey(k, FindNewMarking(net, cur, e))
                                /\ edges' = edges \cup {<<cur, e, k>>}
        BY <2>3 DEF FireSeen
      <3>2. Table' = Table /\ Entries' = Entries
        BY <1>2, <3>1 DEF Table, Entries
      <3> QED
        BY <1>2, <3>1, <3>2 DEF IInv, Control, OnStack, Handled
    <2> QED
      BY <1>1, <2>1, <2>2, <2>3
  <1>4. Control'
    BY <1>2, <1>3 DEF IInv, Control
  <1>5. Current'
    BY <1>1, <1>2, <1>3, TableGrows DEF IInv, Current
  <1>6. Progress'
    BY <1>1, <1>2, <1>3, TableGrows DEF IInv, Progress
  <1> QED
    BY <1>4, <1>5, <1>6 DEF IInv

(* The remaining steps store nothing and leave the stack alone.            *)
LEMMA OtherSteps ==
    IInv /\ (BailOut \/ EndOfList \/ Stuck \/ Finish \/ UNCHANGED vars) => IInv'
  <1> SUFFICES ASSUME IInv,
                      BailOut \/ EndOfList \/ Stuck \/ Finish \/ UNCHANGED vars
               PROVE  IInv'
    OBVIOUS
  <1>1. /\ net' = net /\ stack' = stack /\ number' = number
        /\ cur' = cur /\ todo' = todo
        /\ edges' = edges /\ failEdges \subseteq failEdges'
    BY DEF AddFail, BailOut, EndOfList, Stuck, Finish, vars
  <1>2. /\ Table' = Table /\ Entries' = Entries
        /\ \A m : OnStack(m)' <=> OnStack(m)
    BY <1>1 DEF Table, Entries, OnStack
  <1>3. CASE BailOut
    BY <1>1, <1>2, <1>3 DEF BailOut, IInv, Control, Current, Progress
  <1>4. CASE EndOfList
    <2>1. Explored(cur)
      BY <1>4 DEF EndOfList, IInv, Current, Explored
    <2> QED
      BY <1>1, <1>2, <1>4, <2>1, TableGrows
         DEF EndOfList, IInv, Control, Current, Progress
  <1>5. CASE Stuck
    <2>1. pc = "stuck" /\ FireEvents(net, cur) = {}
      BY <1>5 DEF Stuck, IInv, Current
    <2>2. CASE FoundDeadlock(net, cur, net.search)
      BY <1>1, <1>2, <1>5, <2>1, <2>2 DEF Stuck, IInv, Control, Current, Progress
    <2>3. CASE ~FoundDeadlock(net, cur, net.search)
      <3>1. Explored(cur)
        BY <2>1, <2>3 DEF Explored
      <3> QED
        BY <1>1, <1>2, <1>5, <2>1, <2>3, <3>1, TableGrows
           DEF Stuck, IInv, Control, Current, Progress
    <2> QED
      BY <2>2, <2>3
  <1>6. CASE Finish
    BY <1>1, <1>2, <1>6, TableGrows DEF Finish, IInv, Control, Current, Progress
  <1>7. CASE UNCHANGED vars
    BY <1>1, <1>2, <1>7, TableGrows DEF vars, IInv, Control, Current, Progress
  <1> QED
    BY <1>3, <1>4, <1>5, <1>6, <1>7

LEMMA Invariance == Spec => []IInv
  <1>1. IInv /\ [Next]_vars => IInv'
    BY InitialStep, PopStep, FireStep, OtherSteps DEF Next
  <1> QED
    BY <1>1, InitIInv, PTL DEF Spec

(* TRUE is answered only with the whole graph: every firing of every       *)
(* stored marking has been tried and recorded.                             *)
THEOREM Completeness == Spec => []GraphComplete
  <1>1. IInv => GraphComplete
    <2> SUFFICES ASSUME IInv, answer = "TRUE",
                        NEW m \in Table, NEW e \in FireEvents(net, m)
                 PROVE  IF Fails(net, m, e) THEN <<m, e>> \in failEdges
                        ELSE \E k \in Table : <<m, e, k>> \in edges
      BY DEF GraphComplete
    <2>1. stack = <<>> /\ pc = "done"
      BY DEF IInv, Control
    <2>2. ~OnStack(m)
      BY <2>1 DEF OnStack
    <2>3. Explored(m)
      BY <2>1, <2>2 DEF IInv, Progress
    <2> QED
      BY <2>3 DEF Explored, Handled
  <1> QED
    BY <1>1, Invariance, PTL

-----------------------------------------------------------------------------
(* The bookkeeping: numbers, edge lists and the stack.                     *)
Numbers ==
    /\ sn \in Nat /\ fail \in Int /\ fail >= -1
    /\ answer = "none" => fail < sn
    /\ pc = "start" => sn = 0 /\ fail = -1
    /\ IsFiniteSet(Table)
    /\ \A m \in Table : number[m] \in Nat

Links ==
    /\ edges \subseteq Table \X Event(net) \X Table
    /\ TracesExist

Store == Numbers /\ NumbersExact /\ Links /\ ExploredOnce

LEMMA InitStore == Init => Store
  <1> SUFFICES ASSUME Init PROVE Store
    OBVIOUS
  <1>1. Table = {} /\ edges = {} /\ stack = <<>> /\ sn = 0 /\ fail = -1
        /\ pc = "start" /\ answer = "none"
    BY DEF Init, Table
  <1>2. IsFiniteSet(Table) /\ Cardinality(Table) = 0
    BY <1>1, FS_EmptySet
  <1>3. Numbers
    BY <1>1, <1>2 DEF Numbers
  <1>4. NumbersExact
    BY <1>1, <1>2 DEF NumbersExact
  <1>5. Links
    BY <1>1 DEF Links, TracesExist
  <1>6. ExploredOnce
    BY <1>1 DEF ExploredOnce
  <1> QED
    BY <1>3, <1>4, <1>5, <1>6 DEF Store

(* A step that stores a marking m under the next number.                   *)
LEMMA NewMarking ==
    ASSUME NEW m, m \notin Table, Numbers, NumbersExact, answer = "none",
           Table' = Table \cup {m},
           \A k \in Table' : number'[k] = IF k \in Table THEN number[k] ELSE sn,
           sn' = sn + 1, fail' = fail, answer' = answer, pc' # "start"
    PROVE  Numbers' /\ NumbersExact'
  <1>1. IsFiniteSet(Table') /\ Cardinality(Table') = Cardinality(Table) + 1
    BY FS_AddElement DEF Numbers
  <1>2. Cardinality(Table) \in Nat
    BY FS_CardinalityType DEF Numbers
  <1>3. number'[m] = sn /\ \A k \in Table : number'[k] = number[k] /\ number[k] # sn
    BY DEF Numbers, NumbersExact
  <1>4. Numbers'
    BY <1>1, <1>3 DEF Numbers
  <1>5. \A k, l \in Table' : number'[k] = number'[l] => k = l
    BY <1>3 DEF NumbersExact
  <1>6. \A k \in Table' : number'[k] < sn' /\ number'[k] # fail'
    BY <1>3 DEF Numbers, NumbersExact
  <1>7. Cardinality(Table') + (IF fail' # -1 /\ fail' < sn' THEN 1 ELSE 0) = sn'
    BY <1>1, <1>2 DEF Numbers, NumbersExact
  <1> QED
    BY <1>4, <1>5, <1>6, <1>7 DEF NumbersExact

(* A step that stores nothing, but may create the FAIL state.              *)
LEMMA SameTable ==
    ASSUME Numbers, NumbersExact, number' = number, pc' # "start" \/ pc' = pc,
           \/ sn' = sn /\ fail' = fail /\ (answer' # answer => answer' # "none")
           \/ answer = "none" /\ sn' = sn + 1 /\ fail = -1 /\ fail' = sn /\ pc' # "start"
           \/ answer = "none" /\ sn' = sn /\ fail = -1 /\ fail' = sn /\ answer' = "FALSE"
              /\ pc' # "start"
    PROVE  Numbers' /\ NumbersExact'
  <1>1. Table' = Table /\ Cardinality(Table') = Cardinality(Table)
    BY DEF Table
  <1>2. Cardinality(Table) \in Nat
    BY FS_CardinalityType DEF Numbers
  <1>3. Numbers'
    BY <1>1 DEF Numbers
  <1>4. \A k, l \in Table' : number'[k] = number'[l] => k = l
    BY <1>1 DEF NumbersExact
  <1>5. \A k \in Table' : number'[k] < sn' /\ number'[k] # fail'
    BY <1>1 DEF Numbers, NumbersExact
  <1>6. Cardinality(Table') + (IF fail' # -1 /\ fail' < sn' THEN 1 ELSE 0) = sn'
    BY <1>1, <1>2 DEF Numbers, NumbersExact
  <1> QED
    BY <1>3, <1>4, <1>5, <1>6 DEF NumbersExact

LEMMA SameLinks ==
    ASSUME Links, net' = net, number' = number, edges' = edges
    PROVE  Links'
  <1>1. Table' = Table
    BY DEF Table
  <1> QED
    BY <1>1 DEF Links, TracesExist

LEMMA InitialStore == IInv /\ Store /\ FindInitial => Store'
  <1> SUFFICES ASSUME IInv, Store, FindInitial PROVE Store'
    OBVIOUS
  <1> PICK m : m = InitialMarking(net)
    OBVIOUS
  <1>1. /\ Table = {} /\ answer = "none" /\ sn = 0 /\ sn' = 1 /\ pc' = "pop"
        /\ net' = net /\ edges' = edges /\ fail' = fail /\ answer' = answer
        /\ number' = [n \in {m} |-> 0] /\ stack' = <<Entry(net, m)>>
    BY DEF FindInitial, IInv, Control, Store, Numbers
  <1>2. Table' = Table \cup {m} /\ number'[m] = 0 /\ m \notin Table
    BY <1>1 DEF Table
  <1>3. Numbers' /\ NumbersExact'
    <2>1. \A k \in Table' : number'[k] = IF k \in Table THEN number[k] ELSE sn
      BY <1>1, <1>2
    <2>2. sn' = sn + 1 /\ pc' # "start"
      BY <1>1
    <2> QED
      BY <1>1, <1>2, <2>1, <2>2, NewMarking DEF Store
  <1>4. Links'
    <2>1. edges' = {}
      BY <1>1 DEF Store, Links
    <2>2. \A n \in Table' : number'[n] = 0
      BY <1>1, <1>2
    <2> QED
      BY <2>1, <2>2 DEF Links, TracesExist
  <1>5. ExploredOnce'
    <2>1. Len(stack') = 1
      BY <1>1
    <2> QED
      BY <1>1, <2>1 DEF ExploredOnce
  <1> QED
    BY <1>3, <1>4, <1>5 DEF Store

LEMMA PopStore == IInv /\ Store /\ PopMarking => Store'
  <1> SUFFICES ASSUME IInv, Store, PopMarking PROVE Store'
    OBVIOUS
  <1>1. /\ stack \in Seq(Entries) /\ stack # <<>> /\ answer' = answer
        /\ cur' = stack[Len(stack)].marking
        /\ stack' = SubSeq(stack, 1, Len(stack) - 1)
        /\ net' = net /\ number' = number /\ edges' = edges
        /\ fail' = fail /\ sn' = sn /\ pc' \in {"stuck", "fire"}
    BY DEF PopMarking, IInv, Control
  <1>2. /\ Len(stack') = Len(stack) - 1
        /\ \A i \in 1 .. Len(stack) - 1 : stack'[i] = stack[i]
    BY <1>1, WithoutLast
  <1>3. Len(stack) \in Nat \ {0}
    BY <1>1, EmptySeq
  <1>4. ExploredOnce'
    BY <1>1, <1>2, <1>3 DEF ExploredOnce, Store
  <1>5. Numbers' /\ NumbersExact'
    BY <1>1, SameTable DEF Store
  <1> QED
    BY <1>1, <1>4, <1>5, SameLinks DEF Store

LEMMA FireStore == IInv /\ Store /\ FireNext => Store'
  <1> SUFFICES ASSUME IInv, Store, FireNext PROVE Store'
    OBVIOUS
  <1>1. PICK e \in todo : FireFailure(e) \/ FireNew(e) \/ FireSeen(e)
    BY DEF FireNext
  <1>2. /\ pc = "fire" /\ answer = "none" /\ net' = net /\ cur' = cur
        /\ cur \in Table /\ e \in FireEvents(net, cur) /\ e \in Event(net)
        /\ stack \in Seq(Entries)
    BY <1>1 DEF FireNext, IInv, Control, Current, FireEvents
  <1>3. CASE FireFailure(e)
    <2>1. /\ stack' = stack /\ number' = number /\ edges' = edges
          /\ fail' = (IF fail = -1 THEN sn ELSE fail)
          /\ sn' = (IF fail = -1 THEN sn + 1 ELSE sn)
          /\ pc' \in {"fire", "done"} /\ answer' \in {"none", "FALSE"}
          /\ answer' # answer => answer' # "none"
      BY <1>2, <1>3 DEF FireFailure, AddFail
    <2>2. Numbers' /\ NumbersExact'
      <3>1. CASE fail = -1
        BY <1>2, <2>1, <3>1, SameTable DEF Store
      <3>2. CASE fail # -1
        BY <1>2, <2>1, <3>2, SameTable DEF Store
      <3> QED
        BY <3>1, <3>2
    <2>3. ExploredOnce'
      BY <1>2, <2>1 DEF Store, ExploredOnce
    <2> QED
      BY <1>2, <2>1, <2>2, <2>3, SameLinks DEF Store
  <1>4. CASE FireSeen(e)
    <2>1. /\ stack' = stack /\ number' = number /\ pc' = pc /\ answer' = answer
          /\ fail' = fail /\ sn' = sn /\ ~Fails(net, cur, e)
      BY <1>4 DEF FireSeen
    <2>2. PICK k \in Table : /\ SameKey(k, FindNewMarking(net, cur, e))
                             /\ edges' = edges \cup {<<cur, e, k>>}
      BY <1>4 DEF FireSeen
    <2>3. Table' = Table
      BY <2>1 DEF Table
    <2>4. Links'
      <3>1. edges' \subseteq Table' \X Event(net') \X Table'
        BY <1>2, <2>2, <2>3 DEF Store, Links
      <3>2. \A ed \in edges' :
               /\ ed[2] \in FireList(net', ed[1]) /\ ~Fails(net', ed[1], ed[2])
               /\ SameKey(ed[3], FindNewMarking(net', ed[1], ed[2]))
        BY <1>2, <2>1, <2>2 DEF Store, Links, TracesExist, FireEvents
      <3>3. \A m \in Table' : number'[m] > 0 =>
               \E ed \in edges' : ed[3] = m /\ number'[ed[1]] < number'[m]
        BY <2>1, <2>2, <2>3 DEF Store, Links, TracesExist
      <3> QED
        BY <3>1, <3>2, <3>3 DEF Links, TracesExist
    <2>5. Numbers' /\ NumbersExact'
      BY <2>1, SameTable DEF Store
    <2>6. ExploredOnce'
      BY <1>2, <2>1 DEF Store, ExploredOnce
    <2> QED
      BY <2>4, <2>5, <2>6 DEF Store
  <1>5. CASE FireNew(e)
    <2> PICK m : m = FindNewMarking(net, cur, e)
      OBVIOUS
    <2>1. /\ ~Fails(net, cur, e) /\ \A k \in Table : ~SameKey(k, m)
          /\ number' = [n \in Table \cup {m} |->
                           IF n \in Table THEN number[n] ELSE sn]
          /\ edges' = edges \cup {<<cur, e, m>>}
          /\ stack' = Append(stack, Entry(net, m))
          /\ sn' = sn + 1 /\ fail' = fail /\ pc' = pc /\ answer' = answer
      BY <1>5 DEF FireNew
    <2>2. m \notin Table /\ Table' = Table \cup {m}
      BY <2>1 DEF SameKey, Table
    <2>3. /\ \A k \in Table' : number'[k] = IF k \in Table THEN number[k] ELSE sn
          /\ number'[m] = sn /\ \A k \in Table : number'[k] = number[k]
      BY <2>1, <2>2
    <2>4. Numbers' /\ NumbersExact'
      <3>1. pc' # "start" /\ answer = "none" /\ Numbers /\ NumbersExact
        BY <1>2, <2>1 DEF Store
      <3> QED
        BY <2>1, <2>2, <2>3, <3>1, NewMarking
    <2>5. Links'
      <3>1. edges' \subseteq Table' \X Event(net') \X Table'
        BY <1>2, <2>1, <2>2 DEF Store, Links
      <3>2. \A ed \in edges' :
               /\ ed[2] \in FireList(net', ed[1]) /\ ~Fails(net', ed[1], ed[2])
               /\ SameKey(ed[3], FindNewMarking(net', ed[1], ed[2]))
        BY <1>2, <2>1 DEF Store, Links, TracesExist, FireEvents, SameKey
      <3>3. ASSUME NEW n \in Table', number'[n] > 0
            PROVE  \E ed \in edges' : ed[3] = n /\ number'[ed[1]] < number'[n]
        <4>1. CASE n = m
          <5>1. <<cur, e, m>> \in edges' /\ number'[cur] < number'[m]
            BY <1>2, <2>1, <2>3 DEF Store, NumbersExact
          <5> QED
            BY <4>1, <5>1
        <4>2. CASE n # m
          <5>1. n \in Table /\ number[n] > 0
            BY <2>2, <2>3, <3>3, <4>2
          <5>2. PICK ed \in edges : ed[3] = n /\ number[ed[1]] < number[n]
            BY <5>1 DEF Store, Links, TracesExist
          <5>3. ed[1] \in Table
            BY <5>2 DEF Store, Links
          <5> QED
            BY <2>1, <2>3, <5>1, <5>2, <5>3
        <4> QED
          BY <4>1, <4>2
      <3> QED
        BY <3>1, <3>2, <3>3 DEF Links, TracesExist
    <2>6. ExploredOnce'
      <3>1. /\ Len(stack') = Len(stack) + 1 /\ Len(stack) \in Nat
            /\ \A i \in 1 .. Len(stack) : stack'[i] = stack[i]
            /\ stack'[Len(stack) + 1].marking = m
        BY <1>2, <2>1, AppendProperties, LenProperties DEF Entry
      <3>2. \A i \in 1 .. Len(stack) : stack[i].marking \in Table
        BY <1>2, ElementOfSeq DEF Entries, Entry
      <3> QED
        BY <1>2, <2>1, <2>2, <3>1, <3>2 DEF Store, ExploredOnce
    <2> QED
      BY <2>4, <2>5, <2>6 DEF Store
  <1> QED
    BY <1>1, <1>3, <1>4, <1>5

LEMMA OtherStore ==
    IInv /\ Store /\ (BailOut \/ EndOfList \/ Stuck \/ Finish \/ UNCHANGED vars)
    => Store'
  <1> SUFFICES ASSUME IInv, Store,
                      BailOut \/ EndOfList \/ Stuck \/ Finish \/ UNCHANGED vars
               PROVE  Store'
    OBVIOUS
  <1>1. /\ net' = net /\ stack' = stack /\ number' = number /\ edges' = edges
        /\ cur' = cur /\ sn' = sn
        /\ pc' \in {"fire", "stuck"} => pc' = pc
        /\ pc' # "start" \/ pc' = pc
    BY DEF BailOut, EndOfList, Stuck, Finish, vars
  <1>2. \/ fail' = fail /\ (answer' # answer => answer' # "none")
        \/ answer = "none" /\ fail = -1 /\ fail' = sn /\ answer' = "FALSE"
           /\ pc' # "start"
    <2>1. CASE Stuck
      BY <2>1 DEF Stuck, AddFail, IInv, Control
    <2>2. CASE ~Stuck
      BY <2>2 DEF BailOut, EndOfList, Finish, vars
    <2> QED
      BY <2>1, <2>2
  <1>3. Numbers' /\ NumbersExact'
    BY <1>1, <1>2, SameTable DEF Store
  <1>4. ExploredOnce'
    BY <1>1 DEF Store, ExploredOnce
  <1> QED
    BY <1>1, <1>3, <1>4, SameLinks DEF Store

LEMMA StoreInvariance == Spec => []Store
  <1>1. IInv /\ Store /\ [Next]_vars => Store'
    BY InitialStore, PopStore, FireStore, OtherStore DEF Next
  <1> QED
    BY <1>1, InitStore, Invariance, PTL DEF Spec

(* State numbers are exact: distinct, consecutive, and as many as the      *)
(* counter that lpn_rsg reports says.                                      *)
THEOREM NumbersAreExact == Spec => []NumbersExact
  BY StoreInvariance, PTL DEF Store

(* The pred and succ lists lead from every stored marking to the initial   *)
(* one, over firings that do not fail.                                     *)
THEOREM TracesToInitial == Spec => []TracesExist
  BY StoreInvariance, PTL DEF Store, Links

(* No marking is pushed twice.                                             *)
THEOREM NoReexploration == Spec => []ExploredOnce
  BY StoreInvariance, PTL DEF Store

-----------------------------------------------------------------------------
(* Types: what the other invariants leave open.                            *)
Types ==
    /\ net \in Nets
    /\ Table \subseteq Marking(net)
    /\ todo \subseteq Event(net)
    /\ failEdges \subseteq Table \X (1 .. net.nevents)

LEMMA EventIsEdge ==
    ASSUME NEW N \in Nets
    PROVE  /\ LoadedNet(N) /\ N.nevents \in 1 .. N.nevents
           /\ Event(N) \subseteq 1 .. N.nevents
  <1>1. LoadedNet(N) /\ N.nevents \in Nat \ {0}
    BY NetsAssumption DEF LoadedNet, NetShape
  <1> QED
    BY <1>1 DEF Event

LEMMA TypesInit == Init => Types
  <1> SUFFICES ASSUME Init PROVE Types
    OBVIOUS
  <1>1. Table = {} /\ net \in Nets /\ todo = {} /\ failEdges = {}
    BY DEF Init, Table
  <1> QED
    BY <1>1 DEF Types

LEMMA TypesStep == IInv /\ Types /\ [Next]_vars => Types'
  <1> SUFFICES ASSUME IInv, Types, [Next]_vars PROVE Types'
    OBVIOUS
  <1>1. net \in Nets /\ LoadedNet(net)
    BY NetsAssumption DEF Types
  <1>2. CASE FindInitial
    <2>1. InitialMarking(net) \in Marking(net)
      BY <1>1, InitialMarkingType
    <2>2. Table = {} /\ Table' = {InitialMarking(net)}
      BY <1>2 DEF FindInitial, Table, IInv, Control
    <2> QED
      BY <1>2, <2>1, <2>2 DEF FindInitial, Types
  <1>3. CASE PopMarking
    <2>1. todo' \subseteq Event(net)
      BY <1>3 DEF PopMarking
    <2> QED
      BY <1>3, <2>1 DEF PopMarking, Types, Table
  <1>4. CASE FireNext
    <2>1. PICK e \in todo :
             /\ FireFailure(e) \/ FireNew(e) \/ FireSeen(e)
             /\ todo' = todo \ {e} /\ net' = net
      BY <1>4 DEF FireNext
    <2>2. /\ e \in Event(net) /\ <<cur, e>> \in Table \X (1 .. net.nevents)
          /\ cur \in Table /\ cur \in Marking(net)
      BY <1>4, <1>1, EventIsEdge DEF FireNext, IInv, Current, Types
    <2>3. FindNewMarking(net, cur, e) \in Marking(net)
      BY <2>2, FindNewMarkingType
    <2>4. CASE FireFailure(e)
      BY <2>1, <2>2, <2>4 DEF FireFailure, AddFail, Types, Table
    <2>5. CASE FireNew(e)
      <3>1. /\ Table' = Table \cup {FindNewMarking(net, cur, e)}
            /\ failEdges' = failEdges
        BY <2>5 DEF FireNew, Table
      <3> QED
        BY <2>1, <2>3, <3>1 DEF Types
    <2>6. CASE FireSeen(e)
      BY <2>1, <2>6 DEF FireSeen, Types, Table
    <2> QED
      BY <2>1, <2>4, <2>5, <2>6
  <1>5. CASE Stuck
    <2>1. /\ net' = net /\ todo' = todo /\ Table' = Table
          /\ \/ failEdges' = failEdges
             \/ failEdges' = failEdges \cup {<<cur, net.nevents>>}
      BY <1>5 DEF Stuck, AddFail, Table
    <2>2. <<cur, net.nevents>> \in Table \X (1 .. net.nevents)
      BY <1>5, <1>1, EventIsEdge DEF Stuck, IInv, Current
    <2> QED
      BY <2>1, <2>2 DEF Types
  <1>6. CASE BailOut \/ EndOfList \/ Finish \/ UNCHANGED vars
    BY <1>6 DEF BailOut, EndOfList, Finish, vars, Types, Table
  <1> QED
    BY <1>2, <1>3, <1>4, <1>5, <1>6 DEF Next

(* Type correctness: whatever the net and whatever fire lists of events of *)
(* the net, the stack, the table and the edges hold markings and events of *)
(* that net, and edges into FAIL have the number of an event or nevents.   *)
THEOREM TypeCorrect ==
    ASSUME \A N \in Nets : \A m \in Marking(N) : FireList(N, m) \subseteq Event(N)
    PROVE  Spec => []TypeOK
  <1>1. IInv /\ Store /\ Types => TypeOK
    <2> SUFFICES ASSUME IInv, Store, Types PROVE TypeOK
      OBVIOUS
    <2>1. stack \in Seq([marking : Marking(net), firelist : SUBSET Event(net)])
      <3>1. Entries \subseteq [marking : Marking(net), firelist : SUBSET Event(net)]
        BY DEF Entries, Entry, Types
      <3> QED
        BY <3>1, SeqMonotonic DEF IInv, Control
    <2>2. fail \in Nat \cup {-1} /\ sn \in Nat /\ \A m \in Table : number[m] \in Nat
      BY DEF Store, Numbers
    <2>3. pc \in {"fire", "stuck"} => cur \in Marking(net)
      BY DEF IInv, Current, Types
    <2> QED
      BY <2>1, <2>2, <2>3 DEF TypeOK, Types, IInv, Control, Store, Links
  <1> QED
    BY <1>1, TypesInit, TypesStep, Invariance, StoreInvariance, PTL DEF Spec

-----------------------------------------------------------------------------
LEMMA StepSimulation == IInv /\ [Next]_vars => [Abstract!Next]_(Abstract!vars)
  <1> SUFFICES ASSUME IInv, [Next]_vars
               PROVE  Abstract!Next \/ UNCHANGED Abstract!vars
    OBVIOUS
  <1>1. ASSUME net' = net, number' = number, answer' = answer
        PROVE  UNCHANGED Abstract!vars
    BY <1>1 DEF Abstract!vars, Table
  <1>2. CASE FindInitial
    <2>1. Initial(net) = {InitialMarking(net)} /\ Table = {} /\ answer = "none"
      BY <1>2 DEF FindInitial, Initial, IInv, Control
    <2>2. Table' = {InitialMarking(net)} /\ answer' = answer /\ net' = net
      BY <1>2 DEF FindInitial, Table
    <2> QED
      BY <2>1, <2>2 DEF Abstract!Next, Abstract!Root
  <1>3. CASE BailOut
    <2>1. /\ Initial(net) = {} /\ answer = "none"
          /\ answer' = "FALSE" /\ net' = net /\ Table' = Table
      BY <1>3 DEF BailOut, Initial, IInv, Control, Table
    <2> QED
      BY <2>1 DEF Abstract!Next, Abstract!Reject
  <1>4. CASE PopMarking
    BY <1>1, <1>4 DEF PopMarking
  <1>5. CASE FireNext
    <2>1. PICK e \in todo : FireFailure(e) \/ FireNew(e) \/ FireSeen(e)
      BY <1>5 DEF FireNext
    <2>2. /\ answer = "none" /\ cur \in Table /\ net' = net
          /\ e \in FireEvents(net, cur)
      BY <1>5, <2>1 DEF FireNext, IInv, Control, Current
    <2>3. CASE FireFailure(e)
      <3>1. CASE NoFail \/ net.keepgoing
        BY <1>1, <2>2, <2>3, <3>1 DEF FireFailure
      <3>2. CASE ~(NoFail \/ net.keepgoing)
        <4>1. EndsSearch(net, cur)
          BY <2>2, <2>3, <3>2 DEF FireFailure, EndsSearch
        <4>2. Table' = Table /\ answer' = "FALSE"
          BY <2>3, <3>2 DEF FireFailure, Table
        <4> QED
          BY <2>2, <4>1, <4>2 DEF Abstract!Next, Abstract!Reject
      <3> QED
        BY <3>1, <3>2
    <2>4. CASE FireNew(e)
      <3> PICK m : m = FindNewMarking(net, cur, e)
        OBVIOUS
      <3>1. /\ ~Fails(net, cur, e) /\ Table' = Table \cup {m} /\ answer' = answer
            /\ \A k \in Table : ~SameKey(k, m)
        BY <2>4 DEF FireNew, Table
      <3>2. m \in Successors(net, cur)
        BY <2>2, <3>1 DEF Successors
      <3> QED
        BY <2>2, <3>1, <3>2 DEF Abstract!Next, Abstract!Extend
    <2>5. CASE FireSeen(e)
      BY <1>1, <2>2, <2>5 DEF FireSeen
    <2> QED
      BY <2>1, <2>3, <2>4, <2>5
  <1>6. CASE EndOfList
    BY <1>1, <1>6 DEF EndOfList
  <1>7. CASE Stuck
    <2>1. CASE FoundDeadlock(net, cur, net.search)
      <3>1. /\ EndsSearch(net, cur) /\ cur \in Table /\ answer = "none"
            /\ answer' = "FALSE" /\ net' = net /\ Table' = Table
        BY <1>7, <2>1 DEF Stuck, EndsSearch, IInv, Control, Current, Table
      <3> QED
        BY <3>1 DEF Abstract!Next, Abstract!Reject
    <2>2. CASE ~FoundDeadlock(net, cur, net.search)
      BY <1>1, <1>7, <2>2 DEF Stuck
    <2> QED
      BY <2>1, <2>2
  <1>8. CASE Finish
    <2>1. /\ stack = <<>> /\ pc = "pop" /\ answer = "none" /\ Table # {}
          /\ answer' = "TRUE" /\ net' = net /\ Table' = Table
      BY <1>8 DEF Finish, IInv, Control, Table
    <2>2. \A m \in Table : Explored(m)
      BY <2>1 DEF IInv, Progress, OnStack
    <2>3. \A m \in Table : ~EndsSearch(net, m)
      BY <2>2 DEF Explored, Handled, EndsSearch
    <2>4. Abstract!Closed
      BY <2>2 DEF Explored, Handled, Successors, Abstract!Closed
    <2> QED
      BY <2>1, <2>3, <2>4 DEF Abstract!Next, Abstract!Accept
  <1>9. CASE UNCHANGED vars
    BY <1>1, <1>9 DEF vars
  <1> QED
    BY <1>2, <1>3, <1>4, <1>5, <1>6, <1>7, <1>8, <1>9 DEF Next

(* The exploration gives a right answer about the whole graph, whatever    *)
(* the net, the order of the fire lists and the way it is cut short.       *)
THEOREM ImplementsGraphSearch == Spec => AbstractSpec
  <1>1. Init => Abstract!Init
    BY DEF Init, Abstract!Init, Table
  <1> QED
    BY <1>1, StepSimulation, Invariance, PTL DEF Spec, AbstractSpec, Abstract!Spec

-----------------------------------------------------------------------------
(* The conflicts of the loader                                             *)

(* Events that share a place share a first one, to which StealConflict     *)
(* looks.                                                                  *)
LEMMA FirstShared ==
    ASSUME NEW N, LoadedNet(N), NEW i, NEW j,
           NEW p \in Place(N), <<p, i>> \in N.rules, <<p, j>> \in N.rules
    PROVE  \E q \in Place(N) :
              /\ <<q, i>> \in N.rules /\ <<q, j>> \in N.rules
              /\ \A s \in Place(N) :
                    <<s, i>> \in N.rules /\ <<s, j>> \in N.rules => q <= s
  <1>1. PICK T : T = {q \in Place(N) : <<q, i>> \in N.rules /\ <<q, j>> \in N.rules}
    OBVIOUS
  <1>2. T \subseteq Nat /\ T # {}
    BY <1>1 DEF Place, LoadedNet, NetShape
  <1>3. \E q \in T : \A s \in T : q <= s
    BY <1>2, SmallestOf
  <1> QED
    BY <1>1, <1>3

(* Either one of them keeps the token of that place, or they put two       *)
(* tokens there.                                                           *)
LEMMA SharingConflicts ==
    ASSUME NEW N, LoadedNet(N), NEW i, NEW j, i # j,
           NEW p \in Place(N), <<p, i>> \in N.rules, <<p, j>> \in N.rules
    PROVE  Conflict(N, i, j) /\ Conflict(N, j, i)
  <1>1. PICK q \in Place(N) :
           /\ <<q, i>> \in N.rules /\ <<q, j>> \in N.rules
           /\ \A s \in Place(N) :
                 <<s, i>> \in N.rules /\ <<s, j>> \in N.rules => q <= s
    BY FirstShared
  <1>2. CASE <<i, q>> \in N.rules /\ <<j, q>> \in N.rules
    BY <1>2 DEF Conflict, MergeConflict
  <1>3. CASE <<i, q>> \notin N.rules \/ <<j, q>> \notin N.rules
    BY <1>1, <1>3 DEF Conflict, StealConflict
  <1> QED
    BY <1>2, <1>3

(* An event whose firing clears a bit that another one needs, and does not *)
(* set it again, shares a place with it.                                   *)
LEMMA StealingShares ==
    ASSUME NEW N, LoadedNet(N), NEW i, NEW j, i # j, Steals(N, i, j)
    PROVE  \E p \in Place(N) : <<p, i>> \in N.rules /\ <<p, j>> \in N.rules
  <1>1. PICK r \in Markable(N) : r[2] = j /\ r \in FanIn(N, i)
    BY DEF Steals
  <1>2. r = <<r[1], r[2]>> /\ r \in N.rules
    BY <1>1 DEF Markable, LoadedNet, NetShape
  <1>3. r[1] \in Place(N) /\ <<r[1], i>> \in N.rules
    BY <1>1 DEF FanIn
  <1> QED
    BY <1>1, <1>2, <1>3

(* The loader knows of every theft: of two enabled events of which one     *)
(* takes a token the other needs, each is in conflict with the other,      *)
(* though extract_rules looks at the first place they share only.          *)
THEOREM ThievesAreInConflict == Spec => []ThievesConflict
  <1>1. LoadedNet(net) => ThievesConflict
    BY StealingShares, SharingConflicts DEF ThievesConflict
  <1>2. Init => net \in Nets
    BY DEF Init
  <1>3. net \in Nets /\ [Next]_vars => (net \in Nets)'
    BY DEF Next, vars, FindInitial, BailOut, PopMarking, FireNext, EndOfList, Stuck, Finish
  <1>4. net \in Nets => LoadedNet(net)
    BY NetsAssumption
  <1> QED
    BY <1>1, <1>2, <1>3, <1>4, PTL DEF Spec

-----------------------------------------------------------------------------
(* Loops in index order.  A loop over a finite set comes to an end, and    *)
(* what each step keeps holds of its result.                               *)

LEMMA UpToFinite ==
    ASSUME NEW n \in Nat, NEW S \in SUBSET (0 .. n)
    PROVE  IsFiniteSet(S) /\ Cardinality(S) \in Nat
  <1>1. IsFiniteSet(0 .. n)
    BY FS_Interval
  <1>2. IsFiniteSet(S)
    BY <1>1, FS_Subset
  <1> QED
    BY <1>2, FS_CardinalityType

LEMMA NoneCounted ==
    ASSUME NEW S, IsFiniteSet(S), NEW s \in SUBSET S, Cardinality(s) <= 0
    PROVE  s = {}
  <1>1. IsFiniteSet(s) /\ Cardinality(s) \in Nat
    BY FS_Subset, FS_CardinalityType
  <1>2. Cardinality(s) = 0
    BY <1>1
  <1> QED
    BY <1>1, <1>2, FS_EmptySet

LEMMA LargestOf ==
    ASSUME NEW n \in Nat, NEW S \in SUBSET (0 .. n), S # {}
    PROVE  Max(S) \in S
  <1> DEFINE T == {n - x : x \in S}
  <1>1. T \subseteq Nat /\ T # {}
    <2>1. \A x \in S : n - x \in Nat
      OBVIOUS
    <2> QED
      BY <2>1
  <1>2. PICK t \in T : \A y \in T : t <= y
    <2> HIDE DEF T
    <2> QED
      BY <1>1, SmallestOf
  <1>3. PICK x \in S : t = n - x
    BY <1>2
  <1>4. ASSUME NEW y \in S PROVE x >= y
    <2>1. n - x <= n - y
      BY <1>2, <1>3
    <2> QED
      BY <2>1
  <1> QED
    BY <1>3, <1>4 DEF Max

(* One element more or less of a finite set counts.                        *)
LEMMA OneLess ==
    ASSUME NEW S, IsFiniteSet(S), NEW s \in SUBSET S, NEW x \in s, NEW k \in Nat,
           Cardinality(s) <= k + 1
    PROVE  s \ {x} \in SUBSET S /\ Cardinality(s \ {x}) <= k
  <1>1. IsFiniteSet(s) /\ Cardinality(s) \in Nat
    BY FS_Subset, FS_CardinalityType
  <1>2. Cardinality(s \ {x}) = Cardinality(s) - 1
    BY <1>1, FS_RemoveElement
  <1> QED
    BY <1>1, <1>2

Iteration(S, start, step, f) ==
    [s \in SUBSET S |-> IF s = {} THEN start ELSE step[Max(s)][f[s \ {Max(s)}]]]

LEMMA IterationExists ==
    ASSUME NEW n \in Nat, NEW S \in SUBSET (0 .. n), NEW start, NEW step
    PROVE  \E f : f = Iteration(S, start, step, f)
  <1> DEFINE I(f) == Iteration(S, start, step, f)
             T    == {k \in Nat : \E f : \A s \in SUBSET S :
                                     Cardinality(s) <= k => f[s] = I(f)[s]}
  <1>1. IsFiniteSet(S) /\ Cardinality(S) \in Nat
    BY UpToFinite
  <1>2. 0 \in T
    <2>1. \A s \in SUBSET S : Cardinality(s) <= 0 => s = {}
      BY <1>1, NoneCounted
    <2>2. \A s \in SUBSET S : Cardinality(s) <= 0 => I(I({}))[s] = I({})[s]
      BY <2>1 DEF Iteration
    <2> QED
      BY <2>2
  <1>3. ASSUME NEW k \in Nat, k \in T PROVE k + 1 \in T
    <2>1. PICK f : \A s \in SUBSET S : Cardinality(s) <= k => f[s] = I(f)[s]
      BY <1>3
    <2>2. ASSUME NEW s \in SUBSET S, Cardinality(s) <= k + 1 PROVE I(I(f))[s] = I(f)[s]
      <3>1. CASE s = {}
        BY <3>1 DEF Iteration
      <3>2. CASE s # {}
        <4>1. s \in SUBSET (0 .. n)
          OBVIOUS
        <4>2. Max(s) \in s
          BY <3>2, <4>1, LargestOf
        <4>3. s \ {Max(s)} \in SUBSET S /\ Cardinality(s \ {Max(s)}) <= k
          BY <1>1, <2>2, <4>2, OneLess
        <4>4. f[s \ {Max(s)}] = I(f)[s \ {Max(s)}]
          BY <2>1, <4>3
        <4> QED
          BY <3>2, <4>4 DEF Iteration
      <3> QED
        BY <3>1, <3>2
    <2> QED
      BY <2>2
  <1>4. Cardinality(S) \in T
    <2> HIDE DEF T
    <2> QED
      BY <1>1, <1>2, <1>3, SetInduction
  <1>5. PICK f : \A s \in SUBSET S : Cardinality(s) <= Cardinality(S) => f[s] = I(f)[s]
    BY <1>4
  <1>6. ASSUME NEW s \in SUBSET S PROVE f[s] = I(f)[s]
    <2>1. Cardinality(s) <= Cardinality(S)
      BY <1>1, FS_Subset
    <2> QED
      BY <1>5, <2>1
  <1>7. I(f) = I(I(f))
    <2>1. ASSUME NEW s \in SUBSET S PROVE I(I(f))[s] = I(f)[s]
      <3>1. CASE s = {}
        BY <3>1 DEF Iteration
      <3>2. CASE s # {}
        <4>1. s \ {Max(s)} \in SUBSET S
          OBVIOUS
        <4>2. f[s \ {Max(s)}] = I(f)[s \ {Max(s)}]
          BY <1>6, <4>1
        <4> QED
          BY <3>2, <4>2 DEF Iteration
      <3> QED
        BY <3>1, <3>2
    <2> QED
      BY <2>1 DEF Iteration
  <1> QED
    BY <1>7

(* Two loops over S with the same result, if in the results Y[s] that they *)
(* may have after s their steps do the same; and the result is in Y[S].    *)
Alike(S, Y, step, other) ==
    \A s \in SUBSET S : \A x \in S \ s : \A acc \in Y[s] :
        step[x][acc] = other[x][acc] /\ step[x][acc] \in Y[s \cup {x}]

LEMMA SameLoops ==
    ASSUME NEW n \in Nat, NEW S \in SUBSET (0 .. n), NEW Y, NEW start \in Y[{}],
           NEW step, NEW other, Alike(S, Y, step, other)
    PROVE  /\ InOrder(S, start, step) = InOrder(S, start, other)
           /\ InOrder(S, start, step) \in Y[S]
  <1> DEFINE f == CHOOSE h : h = Iteration(S, start, step, h)
             g == CHOOSE h : h = Iteration(S, start, other, h)
             T == {k \in Nat : \A s \in SUBSET S :
                      Cardinality(s) <= k => f[s] = g[s] /\ f[s] \in Y[s]}
  <1>1. f = Iteration(S, start, step, f) /\ g = Iteration(S, start, other, g)
    BY IterationExists
  <1>2. InOrder(S, start, step) = f[S] /\ InOrder(S, start, other) = g[S]
    BY DEF InOrder, MapThenFoldSet, Iteration
  <1> HIDE DEF f, g
  <1>3. /\ f[{}] = start /\ g[{}] = start
        /\ \A s \in SUBSET S : s # {} =>
              /\ f[s] = step[Max(s)][f[s \ {Max(s)}]]
              /\ g[s] = other[Max(s)][g[s \ {Max(s)}]]
    BY <1>1 DEF Iteration
  <1>4. IsFiniteSet(S) /\ Cardinality(S) \in Nat
    BY UpToFinite
  <1>5. 0 \in T
    <2>1. \A s \in SUBSET S : Cardinality(s) <= 0 => s = {}
      BY <1>4, NoneCounted
    <2> QED
      BY <1>3, <2>1
  <1>6. ASSUME NEW k \in Nat, k \in T PROVE k + 1 \in T
    <2>1. ASSUME NEW s \in SUBSET S, Cardinality(s) <= k + 1
          PROVE  f[s] = g[s] /\ f[s] \in Y[s]
      <3>1. CASE s = {}
        BY <1>3, <3>1
      <3>2. CASE s # {}
        <4>1. s \in SUBSET (0 .. n)
          OBVIOUS
        <4>2. PICK x \in s : x = Max(s)
          BY <3>2, <4>1, LargestOf
        <4>3. s \ {x} \in SUBSET S /\ Cardinality(s \ {x}) <= k
          BY <1>4, <2>1, OneLess
        <4>4. f[s \ {x}] = g[s \ {x}] /\ f[s \ {x}] \in Y[s \ {x}]
          BY <1>6, <4>3
        <4>5. x \in S \ (s \ {x}) /\ (s \ {x}) \cup {x} = s
          OBVIOUS
        <4>6. /\ step[x][f[s \ {x}]] = other[x][f[s \ {x}]]
              /\ step[x][f[s \ {x}]] \in Y[s]
          BY <4>3, <4>4, <4>5 DEF Alike
        <4> QED
          BY <1>3, <3>2, <4>2, <4>4, <4>6
      <3> QED
        BY <3>1, <3>2
    <2> QED
      BY <2>1
  <1>7. Cardinality(S) \in T
    <2> HIDE DEF T
    <2> QED
      BY <1>4, <1>5, <1>6, SetInduction
  <1> QED
    BY <1>2, <1>4, <1>7

-----------------------------------------------------------------------------
(* The search for a necessary set: types.                                  *)

Search(N, m) == [Cache(N, m) -> Answer(N, m)]

(* get answers for the events that may not pass through TD and maybe more. *)
Answers(N, m, get, TD) ==
    \A U \in SUBSET Event(N) : TD \subseteq U => get[U] \in [Event(N) -> Search(N, m)]

LEMMA NetBounds ==
    ASSUME NEW N, LoadedNet(N), NEW m \in Marking(N)
    PROVE  /\ N.nevents \in Nat /\ Event(N) \in SUBSET (0 .. N.nevents)
           /\ m.enablings \in SUBSET Event(N)
           /\ N.nevents + N.nplaces \in Nat
           /\ \A r \in Markable(N) : r[1] \in 0 .. N.nevents + N.nplaces
           /\ N.nsignals \in Nat /\ Signal(N) \in SUBSET (0 .. N.nsignals)
  <1>1. NetShape(N)
    BY DEF LoadedNet
  <1>2. N.nevents \in Nat /\ N.nplaces \in Nat /\ N.nsignals \in Nat
    BY <1>1 DEF NetShape
  <1>3. \A r \in Markable(N) : r[1] \in Event(N) \cup Place(N)
    BY <1>1 DEF NetShape, Markable
  <1>4. Event(N) \cup Place(N) \subseteq 0 .. N.nevents + N.nplaces
    BY <1>2 DEF Event, Place
  <1> QED
    BY <1>2, <1>3, <1>4 DEF Event, Signal, Marking

LEMMA UnionType ==
    ASSUME NEW N, NEW m, NEW acc \in Answer(N, m), NEW new \in Answer(N, m)
    PROVE  Union(acc, new) \in Answer(N, m)
  BY DEF Answer, Union, Found

LEMMA UpdateType ==
    ASSUME NEW N, NEW m, NEW acc \in Answer(N, m), NEW new \in Answer(N, m)
    PROVE  UpdateResult(acc, new) \in Answer(N, m)
  BY DEF Answer, UpdateResult

LEMMA StartType ==
    ASSUME NEW N, NEW m, NEW cache \in Cache(N, m)
    PROVE  Found({}, {}, cache) \in Answer(N, m)
  BY DEF Answer, Found

(* A loop whose steps lead from answers to answers.                        *)
LEMMA LoopType ==
    ASSUME NEW N, NEW m, NEW n \in Nat, NEW S \in SUBSET (0 .. n), NEW step,
           \A x \in S : \A acc \in Answer(N, m) : step[x][acc] \in Answer(N, m),
           NEW cache \in Cache(N, m)
    PROVE  InOrder(S, Found({}, {}, cache), step) \in Answer(N, m)
  <1> DEFINE Y == [s \in SUBSET S |-> Answer(N, m)]
  <1>1. Found({}, {}, cache) \in Y[{}]
    BY StartType
  <1>2. Alike(S, Y, step, step)
    BY DEF Alike
  <1>3. Y[S] = Answer(N, m)
    OBVIOUS
  <1> HIDE DEF Y
  <1>4. InOrder(S, Found({}, {}, cache), step) \in Y[S]
    BY <1>1, <1>2, SameLoops
  <1> QED
    BY <1>3, <1>4

LEMMA OverType ==
    ASSUME NEW N, NEW m, NEW n \in Nat, NEW S \in SUBSET (0 .. n),
           NEW search, \A x \in S : search[x] \in Search(N, m)
    PROVE  /\ UnionOver(N, m, S, search) \in Search(N, m)
           /\ BestOver(N, m, S, search) \in Search(N, m)
  <1>1. \A x \in S : \A acc \in Answer(N, m) : search[x][acc.cache] \in Answer(N, m)
    BY DEF Search, Answer
  <1>2. ASSUME NEW cache \in Cache(N, m)
        PROVE  UnionOver(N, m, S, search)[cache] \in Answer(N, m)
    <2> DEFINE step == [x \in S |-> [acc \in Answer(N, m) |->
                            Union(acc, search[x][acc.cache])]]
    <2>1. \A x \in S : \A acc \in Answer(N, m) : step[x][acc] \in Answer(N, m)
      BY <1>1, UnionType
    <2>2. UnionOver(N, m, S, search)[cache] = InOrder(S, Found({}, {}, cache), step)
      BY DEF UnionOver
    <2> HIDE DEF step
    <2> QED
      BY <2>1, <2>2, LoopType
  <1>3. ASSUME NEW cache \in Cache(N, m)
        PROVE  BestOver(N, m, S, search)[cache] \in Answer(N, m)
    <2> DEFINE step == [x \in S |-> [acc \in Answer(N, m) |->
                            IF acc.stop THEN acc ELSE UpdateResult(acc, search[x][acc.cache])]]
    <2>1. \A x \in S : \A acc \in Answer(N, m) : step[x][acc] \in Answer(N, m)
      BY <1>1, UpdateType
    <2>2. BestOver(N, m, S, search)[cache] = InOrder(S, Found({}, {}, cache), step)
      BY DEF BestOver
    <2> HIDE DEF step
    <2> QED
      BY <2>1, <2>2, LoopType
  <1> QED
    BY <1>2, <1>3 DEF Search, UnionOver, BestOver

LEMMA TransitionType ==
    ASSUME NEW N, LoadedNet(N), NEW m \in Marking(N), NEW get, NEW TD \in SUBSET Event(N),
           Answers(N, m, get, TD), NEW tp
    PROVE  TransitionRecurse(N, m, get, tp, TD) \in Search(N, m)
  <1>1. get[TD] \in [Event(N) -> Search(N, m)]
    BY DEF Answers
  <1> DEFINE S == {j \in Event(N) : <<j, tp>> \in N.rules /\ <<tp, j>> \notin N.rules}
  <1>2. S \in SUBSET (0 .. N.nevents) /\ N.nevents \in Nat
    BY NetBounds
  <1>3. \A x \in S : get[TD][x] \in Search(N, m)
    BY <1>1
  <1>4. UnionOver(N, m, S, get[TD]) \in Search(N, m)
    <2> HIDE DEF S
    <2> QED
      BY <1>2, <1>3, OverType
  <1> QED
    BY <1>1, <1>4 DEF TransitionRecurse

LEMMA LiteralType ==
    ASSUME NEW N, LoadedNet(N), NEW m \in Marking(N), NEW get, NEW TD \in SUBSET Event(N),
           Answers(N, m, get, TD), NEW s
    PROVE  LiteralRecurse(N, m, get, s, TD) \in Search(N, m)
  <1> DEFINE S == Phase(N, s, IF Val(m.state[s]) = "1" THEN 1 ELSE 0,
                        EventsOf(N, s) \cap N.dropped)
             search == [k \in EventsOf(N, s) |-> get[TD \cup (EventsOf(N, s) \ {k})][k]]
  <1>1. S \subseteq EventsOf(N, s) /\ EventsOf(N, s) \subseteq Event(N)
    BY DEF Phase, EventsOf
  <1>2. S \in SUBSET (0 .. N.nevents) /\ N.nevents \in Nat
    BY <1>1, NetBounds
  <1>3. ASSUME NEW k \in S PROVE search[k] \in Search(N, m)
    <2>1. get[TD \cup (EventsOf(N, s) \ {k})] \in [Event(N) -> Search(N, m)]
      <3> HIDE DEF S
      <3> QED
        BY <1>1 DEF Answers
    <2> QED
      BY <1>1, <2>1
  <1>4. UnionOver(N, m, S, search) \in Search(N, m)
    <2> HIDE DEF S, search
    <2> QED
      BY <1>2, <1>3, OverType
  <1> QED
    BY <1>4 DEF LiteralRecurse

LEMMA AndType ==
    ASSUME NEW N, LoadedNet(N), NEW m \in Marking(N), NEW get, NEW TD \in SUBSET Event(N),
           Answers(N, m, get, TD), NEW product
    PROVE  AndRecurse(N, m, get, product, TD) \in Search(N, m)
  <1> DEFINE S == {s \in Signal(N) : product[s] \notin {"X", Val(m.state[s])}}
             search == [s \in Signal(N) |-> LiteralRecurse(N, m, get, s, TD)]
  <1>1. S \in SUBSET (0 .. N.nsignals) /\ N.nsignals \in Nat
    BY NetBounds
  <1>2. \A s \in S : search[s] \in Search(N, m)
    BY LiteralType
  <1>3. BestOver(N, m, S, search) \in Search(N, m)
    <2> HIDE DEF S, search
    <2> QED
      BY <1>1, <1>2, OverType
  <1> QED
    BY <1>3 DEF AndRecurse

(* The products of a level are finitely many.                              *)
LEMMA FinitelyManyCubes ==
    ASSUME NEW n \in Nat
    PROVE  IsFiniteSet([0 .. n - 1 -> Values])
  <1> DEFINE D(k) == 0 .. k - 1
             T == {k \in Nat : IsFiniteSet([D(k) -> Values])}
  <1>1. 0 \in T
    <2>1. D(0) = {}
      OBVIOUS
    <2>2. [D(0) -> Values] = {[x \in {} |-> x]}
      BY <2>1
    <2> QED
      BY <2>2, FS_Singleton
  <1>2. ASSUME NEW k \in Nat, k \in T PROVE k + 1 \in T
    <2> DEFINE P == [D(k) -> Values] \X Values
               R == [D(k + 1) -> Values]
               f == [p \in P |-> [x \in D(k + 1) |-> IF x = k THEN p[2] ELSE p[1][x]]]
    <2>1. IsFiniteSet(Values)
      <3>1. IsFiniteSet({"0"} \cup {"1"} \cup {"X"})
        BY FS_Singleton, FS_AddElement
      <3>2. Values = {"0"} \cup {"1"} \cup {"X"}
        BY DEF Values
      <3> QED
        BY <3>1, <3>2
    <2>2. IsFiniteSet(P)
      BY <1>2, <2>1, FS_Product
    <2>3. D(k + 1) = D(k) \cup {k} /\ k \notin D(k)
      OBVIOUS
    <2>4. f \in [P -> R]
      <3> HIDE DEF D
      <3> QED
        BY <2>3
    <2>5. ASSUME NEW r \in R PROVE \E p \in P : f[p] = r
      <3> HIDE DEF D
      <3> DEFINE p == <<[x \in D(k) |-> r[x]], r[k]>>
      <3>1. p \in P
        BY <2>3
      <3>2. p[1] = [x \in D(k) |-> r[x]] /\ p[2] = r[k]
        OBVIOUS
      <3>3. f[p] = [x \in D(k + 1) |-> IF x = k THEN p[2] ELSE p[1][x]]
        <4> HIDE DEF p, P
        <4> QED
          BY <3>1
      <3>4. f[p] = r
        <4> HIDE DEF p, f
        <4> QED
          BY <2>3, <3>2, <3>3
      <3> QED
        BY <3>1, <3>4
    <2>6. f \in Surjection(P, R)
      <3> HIDE DEF P, R, f
      <3> QED
        BY <2>4, <2>5 DEF Surjection
    <2>7. IsFiniteSet(R)
      <3> HIDE DEF P, R, f
      <3> QED
        BY <2>2, <2>6, FS_Surjection
    <2> QED
      BY <2>7
  <1>3. Nat \subseteq T
    <2> HIDE DEF T
    <2> QED
      BY <1>1, <1>2, SetInduction
  <1> QED
    BY <1>3

LEMMA ProductsListed ==
    ASSUME NEW N, LoadedNet(N), NEW r \in Markable(N)
    PROVE  /\ Cardinality(N.level[r]) \in Nat
           /\ DOMAIN SetToSeq(N.level[r]) = 1 .. Cardinality(N.level[r])
  <1>1. NetShape(N)
    BY DEF LoadedNet
  <1>2. N.level[r] \subseteq [0 .. N.nsignals - 1 -> Values] /\ N.nsignals \in Nat
    BY <1>1 DEF NetShape, Signal
  <1>3. IsFiniteSet(N.level[r])
    BY <1>2, FinitelyManyCubes, FS_Subset
  <1>4. Cardinality(N.level[r]) \in Nat
    BY <1>3, FS_CardinalityType
  <1>5. \E f : f \in Bijection(1 .. Cardinality(N.level[r]), N.level[r])
    BY <1>3, FS_NatBijection, FS_CountingElements DEF ExistsBijection
  <1>6. \E f \in [1 .. Cardinality(N.level[r]) -> N.level[r]] : IsInjective(f)
    BY <1>5 DEF Bijection, Injection
  <1>7. SetToSeq(N.level[r]) \in [1 .. Cardinality(N.level[r]) -> N.level[r]]
    BY <1>6 DEF SetToSeq
  <1> QED
    BY <1>4, <1>7

LEMMA OrType ==
    ASSUME NEW N, LoadedNet(N), NEW m \in Marking(N), NEW get, NEW TD \in SUBSET Event(N),
           Answers(N, m, get, TD), NEW r \in Markable(N)
    PROVE  OrRecurse(N, m, get, r, TD) \in Search(N, m)
  <1> DEFINE products == SetToSeq(N.level[r])
             n == Cardinality(N.level[r])
             search == [i \in DOMAIN products |-> AndRecurse(N, m, get, products[i], TD)]
  <1>1. n \in Nat /\ DOMAIN products \in SUBSET (0 .. n)
    <2>1. n \in Nat /\ DOMAIN products = 1 .. n
      BY ProductsListed
    <2> QED
      BY <2>1
  <1>2. \A i \in DOMAIN products : search[i] \in Search(N, m)
    BY AndType
  <1>3. UnionOver(N, m, DOMAIN products, search) \in Search(N, m)
    <2> HIDE DEF products, search, n
    <2> QED
      BY <1>1, <1>2, OverType
  <1> QED
    BY <1>3 DEF OrRecurse

LEMMA RuleType ==
    ASSUME NEW N, LoadedNet(N), NEW m \in Marking(N), NEW get, NEW TD \in SUBSET Event(N),
           Answers(N, m, get, TD), NEW r \in Markable(N), NEW acc \in Answer(N, m)
    PROVE  RuleRecurse(N, m, get, r, TD, acc) \in Answer(N, m)
  <1> DEFINE token == IF r \in m.marking THEN acc
                      ELSE UpdateResult(acc, TransitionRecurse(N, m, get, r[1], TD)[acc.cache])
  <1>1. \A a \in Answer(N, m) :
           /\ TransitionRecurse(N, m, get, r[1], TD)[a.cache] \in Answer(N, m)
           /\ OrRecurse(N, m, get, r, TD)[a.cache] \in Answer(N, m)
    BY TransitionType, OrType DEF Search, Answer
  <1>2. token \in Answer(N, m)
    BY <1>1, UpdateType
  <1>3. [token EXCEPT !.stop = TRUE] \in Answer(N, m)
    <2> HIDE DEF token
    <2> QED
      BY <1>2 DEF Answer
  <1>4. UpdateResult(token, OrRecurse(N, m, get, r, TD)[token.cache]) \in Answer(N, m)
    <2> HIDE DEF token
    <2> QED
      BY <1>1, <1>2, UpdateType
  <1> QED
    BY <1>2, <1>3, <1>4 DEF RuleRecurse

LEMMA RulesType ==
    ASSUME NEW N, LoadedNet(N), NEW m \in Marking(N), NEW get, NEW TD \in SUBSET Event(N),
           Answers(N, m, get, TD), NEW t
    PROVE  RulesRecurse(N, m, get, t, TD) \in Search(N, m)
  <1> DEFINE waiting == {r \in Markable(N) :
                            r[2] = t /\ ~MarkedAndSatisfied(N, m.marking, m.state, r)}
             before  == {r[1] : r \in waiting}
             step    == [tp \in before |-> [acc \in Answer(N, m) |->
                            IF acc.stop THEN acc
                            ELSE RuleRecurse(N, m, get, <<tp, t>>, TD, acc)]]
  <1>1. before \in SUBSET (0 .. N.nevents + N.nplaces) /\ N.nevents + N.nplaces \in Nat
    BY NetBounds
  <1>2. \A tp \in before : <<tp, t>> \in Markable(N)
    BY DEF LoadedNet, NetShape, Markable
  <1>3. \A tp \in before : \A acc \in Answer(N, m) : step[tp][acc] \in Answer(N, m)
    BY <1>2, RuleType
  <1>4. RulesRecurse(N, m, get, t, TD) =
            [cache \in Cache(N, m) |-> InOrder(before, Found({}, {}, cache), step)]
    BY DEF RulesRecurse
  <1>5. \A cache \in Cache(N, m) : InOrder(before, Found({}, {}, cache), step) \in Answer(N, m)
    <2> HIDE DEF before, step
    <2> QED
      BY <1>1, <1>3, LoopType
  <1> QED
    BY <1>4, <1>5 DEF Search

-----------------------------------------------------------------------------
(* The nested calls of get_necessary_set come to an end: the recursive     *)
(* definition has a solution, and it answers for every call.               *)

(* f and g are the same below a call that bars TD.                         *)
Agree(N, f, g, TD) == \A U \in SUBSET Event(N) : TD \subseteq U => f[U] = g[U]

LEMMA RulesAgree ==
    ASSUME NEW N, NEW m, NEW f, NEW g, NEW TD \in SUBSET Event(N),
           Agree(N, f, g, TD), NEW t
    PROVE  RulesRecurse(N, m, f, t, TD) = RulesRecurse(N, m, g, t, TD)
  <1>1. f[TD] = g[TD]
    BY DEF Agree
  <1>2. ASSUME NEW s
        PROVE  LiteralRecurse(N, m, f, s, TD) = LiteralRecurse(N, m, g, s, TD)
    <2>1. \A k \in EventsOf(N, s) : f[TD \cup (EventsOf(N, s) \ {k})]
                                      = g[TD \cup (EventsOf(N, s) \ {k})]
      BY DEF Agree, EventsOf
    <2>2. [k \in EventsOf(N, s) |-> f[TD \cup (EventsOf(N, s) \ {k})][k]]
            = [k \in EventsOf(N, s) |-> g[TD \cup (EventsOf(N, s) \ {k})][k]]
      BY <2>1
    <2> QED
      BY <2>2 DEF LiteralRecurse
  <1>3. ASSUME NEW product
        PROVE  AndRecurse(N, m, f, product, TD) = AndRecurse(N, m, g, product, TD)
    <2>1. [s \in Signal(N) |-> LiteralRecurse(N, m, f, s, TD)]
            = [s \in Signal(N) |-> LiteralRecurse(N, m, g, s, TD)]
      BY <1>2
    <2> QED
      BY <2>1 DEF AndRecurse
  <1>4. ASSUME NEW r
        PROVE  OrRecurse(N, m, f, r, TD) = OrRecurse(N, m, g, r, TD)
    <2> DEFINE products == SetToSeq(N.level[r])
    <2>1. [i \in DOMAIN products |-> AndRecurse(N, m, f, products[i], TD)]
            = [i \in DOMAIN products |-> AndRecurse(N, m, g, products[i], TD)]
      BY <1>3
    <2> QED
      BY <2>1 DEF OrRecurse
  <1>5. ASSUME NEW tp
        PROVE  TransitionRecurse(N, m, f, tp, TD) = TransitionRecurse(N, m, g, tp, TD)
    BY <1>1 DEF TransitionRecurse
  <1>6. ASSUME NEW r, NEW acc
        PROVE  RuleRecurse(N, m, f, r, TD, acc) = RuleRecurse(N, m, g, r, TD, acc)
    <2>1. /\ OrRecurse(N, m, f, r, TD) = OrRecurse(N, m, g, r, TD)
          /\ TransitionRecurse(N, m, f, r[1], TD) = TransitionRecurse(N, m, g, r[1], TD)
      BY <1>4, <1>5
    <2> QED
      BY ONLY <2>1 DEF RuleRecurse
  <1> QED
    BY <1>6 DEF RulesRecurse

(* What one call does, with get for the calls it makes.                    *)
OneCall(N, m, get, TD, t, cache) ==
    IF t \in TD THEN Found({}, {t}, cache)
    ELSE IF t \in m.enablings THEN Found({t}, {}, cache)
    ELSE IF cache[t] # Unknown THEN Found(cache[t], {}, cache)
    ELSE LET found == RulesRecurse(N, m, get, t, TD \cup {t})[cache]
         IN  IF TD \cap found.dirty # {}
             THEN Found(found.res, found.dirty, found.cache)
             ELSE Found(found.res, {}, [found.cache EXCEPT ![t] = found.res])

Calls(N, m, get) ==
    [TD \in SUBSET Event(N) |->
        [t \in Event(N) |-> [cache \in Cache(N, m) |-> OneCall(N, m, get, TD, t, cache)]]]

LEMMA CallsAgree ==
    ASSUME NEW N, NEW m, NEW f, NEW g, NEW TD \in SUBSET Event(N),
           \A t \in Event(N) \ TD : Agree(N, f, g, TD \cup {t})
    PROVE  Calls(N, m, f)[TD] = Calls(N, m, g)[TD]
  <1>1. ASSUME NEW t \in Event(N), NEW cache
        PROVE  OneCall(N, m, f, TD, t, cache) = OneCall(N, m, g, TD, t, cache)
    <2>1. CASE t \in TD
      BY <2>1 DEF OneCall
    <2>2. CASE t \notin TD
      <3>1. RulesRecurse(N, m, f, t, TD \cup {t}) = RulesRecurse(N, m, g, t, TD \cup {t})
        BY <2>2, RulesAgree
      <3> QED
        BY <3>1 DEF OneCall
    <2> QED
      BY <2>1, <2>2
  <1> QED
    BY <1>1 DEF Calls

(* Every nested call bars one event more.                                  *)
LEMMA OneMoreBarred ==
    ASSUME NEW E, IsFiniteSet(E), NEW TD \in SUBSET E, NEW t \in E \ TD,
           NEW U \in SUBSET E, TD \cup {t} \subseteq U
    PROVE  Cardinality(E \ U) < Cardinality(E \ TD)
  <1>1. IsFiniteSet(E \ TD) /\ IsFiniteSet((E \ TD) \ {t}) /\ IsFiniteSet(E \ U)
    BY FS_Difference, FS_RemoveElement
  <1>2. Cardinality((E \ TD) \ {t}) = Cardinality(E \ TD) - 1
    BY <1>1, FS_RemoveElement
  <1>3. E \ U \in SUBSET ((E \ TD) \ {t})
    OBVIOUS
  <1>4. Cardinality(E \ U) <= Cardinality((E \ TD) \ {t})
    BY <1>1, <1>3, FS_Subset
  <1>5. Cardinality(E \ U) \in Nat /\ Cardinality(E \ TD) \in Nat
    BY <1>1, FS_CardinalityType
  <1> QED
    BY <1>2, <1>4, <1>5

LEMMA CountedLeft ==
    ASSUME NEW E, IsFiniteSet(E), NEW TD
    PROVE  Cardinality(E \ TD) \in Nat /\ Cardinality(E \ TD) < Cardinality(E) + 1
  <1>1. IsFiniteSet(E \ TD) /\ E \ TD \in SUBSET E
    BY FS_Difference
  <1>2. Cardinality(E \ TD) <= Cardinality(E)
    BY <1>1, FS_Subset
  <1> QED
    BY <1>1, <1>2, FS_CardinalityType

LEMMA CallsExist ==
    ASSUME NEW N, LoadedNet(N), NEW m \in Marking(N)
    PROVE  \E f : f = Calls(N, m, f)
  <1> DEFINE E    == Event(N)
             C(f) == Calls(N, m, f)
             T    == {k \in Nat : \E f : \A TD \in SUBSET E :
                                     Cardinality(E \ TD) < k => f[TD] = C(f)[TD]}
  <1>1. IsFiniteSet(E) /\ Cardinality(E) \in Nat
    BY NetBounds, UpToFinite
  <1>2. \A TD \in SUBSET E :
            Cardinality(E \ TD) \in Nat /\ Cardinality(E \ TD) < Cardinality(E) + 1
    BY <1>1, CountedLeft
  <1>3. 0 \in T
    <2>1. \A TD \in SUBSET E : ~(Cardinality(E \ TD) < 0)
      BY <1>2
    <2> QED
      BY <2>1
  <1>4. ASSUME NEW k \in Nat, k \in T PROVE k + 1 \in T
    <2>1. PICK f : \A TD \in SUBSET E : Cardinality(E \ TD) < k => f[TD] = C(f)[TD]
      BY <1>4
    <2>2. ASSUME NEW TD \in SUBSET E, Cardinality(E \ TD) < k + 1
          PROVE  C(C(f))[TD] = C(f)[TD]
      <3>1. ASSUME NEW t \in E \ TD PROVE Agree(N, C(f), f, TD \cup {t})
        <4>1. ASSUME NEW U \in SUBSET E, TD \cup {t} \subseteq U PROVE f[U] = C(f)[U]
          <5>1. Cardinality(E \ U) < Cardinality(E \ TD)
            <6> HIDE DEF E
            <6> QED
              BY <1>1, <4>1, OneMoreBarred
          <5>2. Cardinality(E \ U) < k
            BY <1>2, <2>2, <5>1
          <5> QED
            BY <2>1, <5>2
        <4> QED
          BY <4>1 DEF Agree
      <3> QED
        BY <3>1, CallsAgree
    <2>3. \E h : \A TD \in SUBSET E : Cardinality(E \ TD) < k + 1 => h[TD] = C(h)[TD]
      <3> HIDE DEF C, E
      <3> QED
        BY <2>2
    <2> QED
      BY <2>3
  <1>5. Cardinality(E) + 1 \in T
    <2> HIDE DEF T
    <2> QED
      BY <1>1, <1>3, <1>4, SetInduction
  <1>6. PICK f : \A TD \in SUBSET E :
                    Cardinality(E \ TD) < Cardinality(E) + 1 => f[TD] = C(f)[TD]
    BY <1>5
  <1>7. \A TD \in SUBSET E : C(f)[TD] = f[TD]
    BY <1>2, <1>6
  <1>8. \A TD \in SUBSET E : C(C(f))[TD] = C(f)[TD]
    BY <1>7, CallsAgree DEF Agree
  <1>9. C(C(f)) = C(f)
    BY <1>8 DEF Calls
  <1> QED
    BY <1>9

LEMMA NecessaryCalls ==
    ASSUME NEW N, LoadedNet(N), NEW m \in Marking(N)
    PROVE  GetNecessarySet(N, m) = Calls(N, m, GetNecessarySet(N, m))
  <1>1. GetNecessarySet(N, m) = CHOOSE f : f = Calls(N, m, f)
    BY DEF GetNecessarySet, Calls, OneCall
  <1>2. \E f : f = Calls(N, m, f)
    BY CallsExist
  <1> QED
    BY <1>1, <1>2

LEMMA OneCallType ==
    ASSUME NEW N, LoadedNet(N), NEW m \in Marking(N), NEW get, NEW TD \in SUBSET Event(N),
           \A t \in Event(N) \ TD : Answers(N, m, get, TD \cup {t}),
           NEW t \in Event(N), NEW cache \in Cache(N, m)
    PROVE  OneCall(N, m, get, TD, t, cache) \in Answer(N, m)
  <1>1. CASE t \in TD
    BY <1>1 DEF OneCall, Answer, Found
  <1>2. CASE t \notin TD /\ t \in m.enablings
    BY <1>2 DEF OneCall, Answer, Found
  <1>3. CASE t \notin TD /\ t \notin m.enablings /\ cache[t] # Unknown
    <2>1. cache[t] \in (SUBSET m.enablings) \cup {Unknown}
      BY DEF Cache
    <2>2. cache[t] \in SUBSET m.enablings
      BY <1>3, <2>1
    <2> QED
      BY <1>3, <2>2 DEF OneCall, Answer, Found
  <1>4. CASE t \notin TD /\ t \notin m.enablings /\ cache[t] = Unknown
    <2> DEFINE found == RulesRecurse(N, m, get, t, TD \cup {t})[cache]
    <2>1. found \in Answer(N, m)
      BY <1>4, RulesType DEF Search
    <2>2. \/ OneCall(N, m, get, TD, t, cache) = Found(found.res, found.dirty, found.cache)
          \/ OneCall(N, m, get, TD, t, cache)
                = Found(found.res, {}, [found.cache EXCEPT ![t] = found.res])
      BY <1>4 DEF OneCall
    <2> HIDE DEF found
    <2>3. /\ found.res \in SUBSET m.enablings /\ found.dirty \in SUBSET Event(N)
          /\ found.cache \in Cache(N, m)
      BY <2>1 DEF Answer
    <2>4. [found.cache EXCEPT ![t] = found.res] \in Cache(N, m)
      BY <2>3 DEF Cache
    <2>5. /\ Found(found.res, found.dirty, found.cache) \in Answer(N, m)
          /\ Found(found.res, {}, [found.cache EXCEPT ![t] = found.res]) \in Answer(N, m)
      BY <2>3, <2>4 DEF Answer, Found
    <2> QED
      BY <2>2, <2>5
  <1> QED
    BY <1>1, <1>2, <1>3, <1>4

(* The search for a necessary set finds enabled events only, in a cache as *)
(* it should be and in any way it is called.                               *)
LEMMA NecessaryType ==
    ASSUME NEW N, LoadedNet(N), NEW m \in Marking(N), NEW TD \in SUBSET Event(N)
    PROVE  GetNecessarySet(N, m)[TD] \in [Event(N) -> Search(N, m)]
  <1> DEFINE E == Event(N)
             g == GetNecessarySet(N, m)
             T == {k \in Nat : \A U \in SUBSET E :
                      Cardinality(E \ U) < k => g[U] \in [E -> Search(N, m)]}
  <1>1. IsFiniteSet(E) /\ Cardinality(E) \in Nat
    BY NetBounds, UpToFinite
  <1>2. ASSUME NEW U \in SUBSET E, \A t \in E \ U : Answers(N, m, g, U \cup {t})
        PROVE  g[U] \in [E -> Search(N, m)]
    <2>1. g[U] = [t \in E |-> [cache \in Cache(N, m) |-> OneCall(N, m, g, U, t, cache)]]
      <3> HIDE DEF g
      <3>1. g = Calls(N, m, g)
        BY NecessaryCalls DEF g
      <3>2. Calls(N, m, g)[U]
              = [t \in E |-> [cache \in Cache(N, m) |-> OneCall(N, m, g, U, t, cache)]]
        BY DEF Calls
      <3> QED
        BY <3>1, <3>2
    <2>2. \A t \in E, cache \in Cache(N, m) : OneCall(N, m, g, U, t, cache) \in Answer(N, m)
      BY <1>2, OneCallType
    <2> HIDE DEF g
    <2> QED
      BY <2>1, <2>2 DEF Search
  <1>3. \A U \in SUBSET E :
            Cardinality(E \ U) \in Nat /\ Cardinality(E \ U) < Cardinality(E) + 1
    BY <1>1, CountedLeft
  <1>4. 0 \in T
    BY <1>3
  <1>5. ASSUME NEW k \in Nat, k \in T PROVE k + 1 \in T
    <2>1. ASSUME NEW U \in SUBSET E, Cardinality(E \ U) < k + 1
          PROVE  g[U] \in [E -> Search(N, m)]
      <3>1. ASSUME NEW t \in E \ U PROVE Answers(N, m, g, U \cup {t})
        <4>1. ASSUME NEW V \in SUBSET E, U \cup {t} \subseteq V
              PROVE  g[V] \in [E -> Search(N, m)]
          <5>1. Cardinality(E \ V) < Cardinality(E \ U)
            <6> HIDE DEF E
            <6> QED
              BY <1>1, <4>1, OneMoreBarred
          <5>2. Cardinality(E \ V) \in Nat /\ Cardinality(E \ U) \in Nat
            BY <1>3
          <5>3. Cardinality(E \ V) < k
            BY <2>1, <5>1, <5>2
          <5> QED
            BY <1>5, <5>3
        <4> QED
          BY <4>1 DEF Answers
      <3> QED
        BY <1>2, <3>1
    <2> QED
      BY <2>1
  <1>6. Cardinality(E) + 1 \in T
    <2> HIDE DEF T
    <2> QED
      BY <1>1, <1>4, <1>5, SetInduction
  <1> QED
    BY <1>3, <1>6

-----------------------------------------------------------------------------
(* Dependent and ample sets.                                               *)

(* Every enabled event in conflict with a has been taken.                  *)
Settled(N, m, a, ample) == \A j \in m.enablings : Conflict(N, a, j) => j \in ample

(* Between from and to, events have been added and all of these settled.   *)
Grown(N, m, from, to) ==
    /\ to \in Partial(N, m)
    /\ from.ample \subseteq to.ample
    /\ \A a \in to.ample \ from.ample : Settled(N, m, a, to.ample)

Serves(N, m, dependent, k, part) ==
    k \in dependent[k][part].ample /\ Grown(N, m, part, dependent[k][part])

(* The same nested calls, as they should be, for more than base.           *)
Serving(N, m, dependent, other, base) ==
    \A k \in m.enablings, part \in Partial(N, m) :
        base \subseteq part.ample /\ k \notin part.ample =>
            dependent[k][part] = other[k][part] /\ Serves(N, m, dependent, k, part)

LEMMA GrownOn ==
    ASSUME NEW N, NEW m, NEW a, NEW b, NEW c, Grown(N, m, a, b), Grown(N, m, b, c)
    PROVE  Grown(N, m, a, c)
  BY DEF Grown, Settled

LEMMA AddEachGrows ==
    ASSUME NEW N, LoadedNet(N), NEW m \in Marking(N), NEW dependent, NEW other,
           NEW S \in SUBSET m.enablings, NEW acc \in Partial(N, m),
           Serving(N, m, dependent, other, acc.ample)
    PROVE  /\ AddEach(N, m, dependent, S, acc) = AddEach(N, m, other, S, acc)
           /\ Grown(N, m, acc, AddEach(N, m, dependent, S, acc))
           /\ S \subseteq AddEach(N, m, dependent, S, acc).ample
  <1> DEFINE Y == [s \in SUBSET S |-> {part \in Partial(N, m) :
                      Grown(N, m, acc, part) /\ s \subseteq part.ample}]
             step == [k \in S |-> [part \in Partial(N, m) |->
                        IF k \in part.ample THEN part ELSE dependent[k][part]]]
             also == [k \in S |-> [part \in Partial(N, m) |->
                        IF k \in part.ample THEN part ELSE other[k][part]]]
  <1>1. acc \in Y[{}]
    BY DEF Grown
  <1>2. ASSUME NEW s \in SUBSET S, NEW k \in S \ s, NEW part \in Y[s]
        PROVE  step[k][part] = also[k][part] /\ step[k][part] \in Y[s \cup {k}]
    <2>1. /\ part \in Partial(N, m) /\ Grown(N, m, acc, part)
          /\ s \subseteq part.ample /\ acc.ample \subseteq part.ample
      BY DEF Grown
    <2>2. s \cup {k} \in SUBSET S
      OBVIOUS
    <2>3. CASE k \in part.ample
      BY <2>1, <2>2, <2>3
    <2>4. CASE k \notin part.ample
      <3>1. /\ dependent[k][part] = other[k][part] /\ k \in dependent[k][part].ample
            /\ Grown(N, m, part, dependent[k][part])
        BY <2>1, <2>4 DEF Serves, Serving
      <3>2. Grown(N, m, acc, dependent[k][part])
        BY <2>1, <3>1, GrownOn
      <3>3. /\ dependent[k][part] \in Partial(N, m)
            /\ s \cup {k} \subseteq dependent[k][part].ample
        BY <2>1, <3>1 DEF Grown
      <3>4. step[k][part] = dependent[k][part] /\ also[k][part] = other[k][part]
        BY <2>1, <2>4
      <3>5. dependent[k][part] \in Y[s \cup {k}]
        BY <2>2, <3>2, <3>3
      <3> QED
        BY <3>1, <3>4, <3>5
    <2> QED
      BY <2>3, <2>4
  <1>7. Alike(S, Y, step, also)
    <2> HIDE DEF Y, step, also
    <2> QED
      BY <1>2 DEF Alike
  <1>3. N.nevents \in Nat /\ S \in SUBSET (0 .. N.nevents)
    BY NetBounds
  <1>4. /\ AddEach(N, m, dependent, S, acc) = InOrder(S, acc, step)
        /\ AddEach(N, m, other, S, acc) = InOrder(S, acc, also)
    BY DEF AddEach
  <1>5. InOrder(S, acc, step) = InOrder(S, acc, also) /\ InOrder(S, acc, step) \in Y[S]
    <2> HIDE DEF Y, step, also
    <2> QED
      BY <1>1, <1>3, <1>7, SameLoops
  <1>6. Y[S] = {part \in Partial(N, m) : Grown(N, m, acc, part) /\ S \subseteq part.ample}
    OBVIOUS
  <1> HIDE DEF Y, step, also
  <1> QED
    BY <1>4, <1>5, <1>6

LEMMA AddForGrows ==
    ASSUME NEW N, LoadedNet(N), NEW m \in Marking(N), NEW dependent, NEW other,
           NEW i \in m.enablings, NEW j \in Event(N), NEW acc \in Partial(N, m),
           Serving(N, m, dependent, other, acc.ample)
    PROVE  /\ AddFor(N, m, dependent, i, j, acc) = AddFor(N, m, other, i, j, acc)
           /\ Grown(N, m, acc, AddFor(N, m, dependent, i, j, acc))
           /\ j \in m.enablings => j \in AddFor(N, m, dependent, i, j, acc).ample
  <1> DEFINE barred    == IF N.signal[i] >= 0 THEN EventsOf(N, N.signal[i]) ELSE {i}
             necessary == GetNecessarySet(N, m)[barred][j][acc.cache]
             next      == [acc EXCEPT !.cache = necessary.cache]
  <1>1. CASE j \in m.enablings
    <2>1. AddFor(N, m, dependent, i, j, acc) = AddEach(N, m, dependent, {j}, acc)
      BY <1>1 DEF AddFor
    <2>2. AddFor(N, m, other, i, j, acc) = AddEach(N, m, other, {j}, acc)
      BY <1>1 DEF AddFor
    <2>3. {j} \in SUBSET m.enablings
      BY <1>1
    <2> QED
      BY <2>1, <2>2, <2>3, AddEachGrows
  <1>2. CASE j \notin m.enablings
    <2>1. barred \in SUBSET Event(N)
      BY NetBounds DEF EventsOf
    <2>2. necessary \in Answer(N, m)
      <3>1. GetNecessarySet(N, m)[barred] \in [Event(N) -> [Cache(N, m) -> Answer(N, m)]]
        <4> HIDE DEF barred
        <4> QED
          BY <2>1, NecessaryType DEF Search
      <3>2. acc.cache \in Cache(N, m)
        BY DEF Partial
      <3> HIDE DEF barred
      <3> QED
        BY <3>1, <3>2
    <2>3. AddFor(N, m, dependent, i, j, acc) = AddEach(N, m, dependent, necessary.res, next)
      BY <1>2 DEF AddFor
    <2>4. AddFor(N, m, other, i, j, acc) = AddEach(N, m, other, necessary.res, next)
      BY <1>2 DEF AddFor
    <2> HIDE DEF necessary
    <2>5. /\ necessary.res \in SUBSET m.enablings /\ next.ample = acc.ample
          /\ next \in Partial(N, m)
      BY <2>2 DEF Answer, Partial
    <2> HIDE DEF next
    <2>8. Serving(N, m, dependent, other, next.ample)
      BY <2>5
    <2>6. /\ AddEach(N, m, dependent, necessary.res, next)
                = AddEach(N, m, other, necessary.res, next)
          /\ Grown(N, m, next, AddEach(N, m, dependent, necessary.res, next))
      BY <2>5, <2>8, AddEachGrows
    <2>7. Grown(N, m, acc, AddEach(N, m, dependent, necessary.res, next))
      BY <2>5, <2>6 DEF Grown
    <2> QED
      BY <1>2, <2>3, <2>4, <2>6, <2>7
  <1> QED
    BY <1>1, <1>2

OneSeed(N, m, dependent, i, given) ==
    LET others == {j \in Event(N) : Conflict(N, i, j)}
    IN  InOrder(others, [given EXCEPT !.ample = @ \cup {i}],
                [j \in others |-> [acc \in Partial(N, m) |->
                    AddFor(N, m, dependent, i, j, acc)]])

Seeds(N, m, dependent) ==
    [i \in m.enablings |-> [given \in Partial(N, m) |-> OneSeed(N, m, dependent, i, given)]]

LEMMA SeedGrows ==
    ASSUME NEW N, LoadedNet(N), NEW m \in Marking(N), NEW dependent, NEW other,
           NEW i \in m.enablings, NEW given \in Partial(N, m),
           Serving(N, m, dependent, other, given.ample \cup {i})
    PROVE  /\ OneSeed(N, m, dependent, i, given) = OneSeed(N, m, other, i, given)
           /\ Grown(N, m, given, OneSeed(N, m, dependent, i, given))
           /\ i \in OneSeed(N, m, dependent, i, given).ample
  <1> DEFINE others == {j \in Event(N) : Conflict(N, i, j)}
             start  == [given EXCEPT !.ample = @ \cup {i}]
             step   == [j \in others |-> [acc \in Partial(N, m) |->
                           AddFor(N, m, dependent, i, j, acc)]]
             also   == [j \in others |-> [acc \in Partial(N, m) |->
                           AddFor(N, m, other, i, j, acc)]]
             Y      == [s \in SUBSET others |-> {part \in Partial(N, m) :
                           /\ Grown(N, m, start, part)
                           /\ s \cap m.enablings \subseteq part.ample}]
  <1>1. start \in Partial(N, m) /\ start.ample = given.ample \cup {i}
    BY DEF Partial
  <1> HIDE DEF start
  <1>2. start \in Y[{}]
    BY <1>1 DEF Grown
  <1>3. ASSUME NEW s \in SUBSET others, NEW j \in others \ s, NEW acc \in Y[s]
        PROVE  step[j][acc] = also[j][acc] /\ step[j][acc] \in Y[s \cup {j}]
    <2>1. /\ acc \in Partial(N, m) /\ Grown(N, m, start, acc) /\ j \in Event(N)
          /\ s \cap m.enablings \subseteq acc.ample
          /\ given.ample \cup {i} \subseteq acc.ample
      BY <1>1 DEF Grown
    <2>2. /\ AddFor(N, m, dependent, i, j, acc) = AddFor(N, m, other, i, j, acc)
          /\ Grown(N, m, acc, AddFor(N, m, dependent, i, j, acc))
          /\ j \in m.enablings => j \in AddFor(N, m, dependent, i, j, acc).ample
      <3>1. Serving(N, m, dependent, other, acc.ample)
        BY <2>1 DEF Serving
      <3> HIDE DEF others, step, also, Y
      <3> QED
        BY <2>1, <3>1, AddForGrows
    <2> PICK new : new = AddFor(N, m, dependent, i, j, acc)
      OBVIOUS
    <2>3. Grown(N, m, start, new)
      BY <2>1, <2>2, GrownOn
    <2>4. new \in Partial(N, m) /\ (s \cup {j}) \cap m.enablings \subseteq new.ample
      BY <2>1, <2>2 DEF Grown
    <2>5. s \cup {j} \in SUBSET others
      OBVIOUS
    <2>6. new \in Y[s \cup {j}]
      <3> HIDE DEF others
      <3> QED
        BY <2>3, <2>4, <2>5
    <2>7. step[j][acc] = new /\ also[j][acc] = AddFor(N, m, other, i, j, acc)
      BY <2>1
    <2> QED
      BY <2>2, <2>6, <2>7
  <1>0. Alike(others, Y, step, also)
    <2> HIDE DEF Y, step, also, others
    <2> QED
      BY <1>3 DEF Alike
  <1>4. N.nevents \in Nat /\ others \in SUBSET (0 .. N.nevents)
    BY NetBounds
  <1>5. /\ OneSeed(N, m, dependent, i, given) = InOrder(others, start, step)
        /\ OneSeed(N, m, other, i, given) = InOrder(others, start, also)
    BY DEF OneSeed, start
  <1> PICK new : new = InOrder(others, start, step)
    OBVIOUS
  <1>6. new = InOrder(others, start, also) /\ new \in Y[others]
    <2> HIDE DEF Y, step, also, others
    <2>1. /\ InOrder(others, start, step) = InOrder(others, start, also)
          /\ InOrder(others, start, step) \in Y[others]
      BY <1>0, <1>2, <1>4, SameLoops
    <2> QED
      BY <2>1
  <1>7. Grown(N, m, start, new) /\ others \cap m.enablings \subseteq new.ample
    BY <1>6
  <1>8. Settled(N, m, i, new.ample)
    BY <1>7, NetBounds DEF Settled
  <1>9. Grown(N, m, given, new) /\ i \in new.ample
    BY <1>1, <1>7, <1>8 DEF Grown
  <1> QED
    BY <1>5, <1>6, <1>9

(* How many events are still to be taken when i is added to given.         *)
Left(m, i, given) == Cardinality(m.enablings \ (given.ample \cup {i}))

LEMMA LeftFewer ==
    ASSUME NEW N, LoadedNet(N), NEW m \in Marking(N),
           NEW i \in m.enablings, NEW given \in Partial(N, m),
           NEW k \in m.enablings, NEW part \in Partial(N, m),
           given.ample \cup {i} \subseteq part.ample, k \notin part.ample
    PROVE  Left(m, k, part) < Left(m, i, given)
  <1>1. IsFiniteSet(m.enablings)
    <2>1. N.nevents \in Nat /\ m.enablings \in SUBSET (0 .. N.nevents)
      BY NetBounds
    <2> QED
      BY <2>1, UpToFinite
  <1>2. /\ given.ample \cup {i} \in SUBSET m.enablings
        /\ part.ample \cup {k} \in SUBSET m.enablings
        /\ k \in m.enablings \ (given.ample \cup {i})
        /\ given.ample \cup {i} \cup {k} \subseteq part.ample \cup {k}
    BY DEF Partial
  <1> QED
    BY <1>1, <1>2, OneMoreBarred DEF Left

LEMMA LeftType ==
    ASSUME NEW N, LoadedNet(N), NEW m \in Marking(N), NEW i, NEW given
    PROVE  /\ Cardinality(m.enablings) \in Nat
           /\ Left(m, i, given) \in Nat /\ Left(m, i, given) < Cardinality(m.enablings) + 1
  <1>1. N.nevents \in Nat /\ m.enablings \in SUBSET (0 .. N.nevents)
    BY NetBounds
  <1>2. IsFiniteSet(m.enablings) /\ Cardinality(m.enablings) \in Nat
    BY <1>1, UpToFinite
  <1> QED
    BY <1>2, CountedLeft DEF Left

LEMMA SeedsExist ==
    ASSUME NEW N, LoadedNet(N), NEW m \in Marking(N)
    PROVE  \E f : f = Seeds(N, m, f)
  <1> DEFINE D(f) == Seeds(N, m, f)
             Fixed(f, k) == \A i \in m.enablings, given \in Partial(N, m) :
                 Left(m, i, given) < k =>
                     f[i][given] = D(f)[i][given] /\ Serves(N, m, f, i, given)
             T == {k \in Nat : \E f : Fixed(f, k)}
             n == Cardinality(m.enablings) + 1
  <1>1. /\ n \in Nat
        /\ \A i, given : Left(m, i, given) \in Nat /\ Left(m, i, given) < n
    BY LeftType
  <1>2. 0 \in T
    <2>1. \A i, given : ~(Left(m, i, given) < 0)
      BY <1>1
    <2> QED
      BY <2>1
  <1>3. ASSUME NEW k \in Nat, NEW f, Fixed(f, k)
        PROVE  Fixed(D(f), k + 1)
    <2>1. ASSUME NEW i \in m.enablings, NEW given \in Partial(N, m), Left(m, i, given) < k + 1
          PROVE  /\ D(f)[i][given] = D(D(f))[i][given]
                 /\ Serves(N, m, D(f), i, given)
      <3>1. Serving(N, m, f, D(f), given.ample \cup {i})
        <4>1. ASSUME NEW j \in m.enablings, NEW part \in Partial(N, m),
                     given.ample \cup {i} \subseteq part.ample, j \notin part.ample
              PROVE  f[j][part] = D(f)[j][part] /\ Serves(N, m, f, j, part)
          <5>1. Left(m, j, part) < Left(m, i, given)
            BY <4>1, LeftFewer
          <5>2. Left(m, j, part) \in Nat /\ Left(m, i, given) \in Nat
            BY <1>1
          <5>3. Left(m, j, part) < k
            BY <2>1, <5>1, <5>2
          <5> HIDE DEF D
          <5> QED
            BY <1>3, <5>3
        <4> HIDE DEF D
        <4> QED
          BY <4>1 DEF Serving
      <3>2. /\ OneSeed(N, m, f, i, given) = OneSeed(N, m, D(f), i, given)
            /\ Grown(N, m, given, OneSeed(N, m, f, i, given))
            /\ i \in OneSeed(N, m, f, i, given).ample
        <4> HIDE DEF D
        <4> QED
          BY <3>1, SeedGrows
      <3>3. /\ D(f)[i][given] = OneSeed(N, m, f, i, given)
            /\ D(D(f))[i][given] = OneSeed(N, m, D(f), i, given)
        BY DEF Seeds
      <3> HIDE DEF D
      <3> QED
        BY <3>2, <3>3 DEF Serves
    <2> HIDE DEF D
    <2> QED
      BY <2>1
  <1>4. \A k \in Nat : k \in T => k + 1 \in T
    <2> HIDE DEF D, Fixed
    <2> QED
      BY <1>3
  <1>5. n \in T
    <2> HIDE DEF T, n
    <2> QED
      BY <1>1, <1>2, <1>4, SetInduction
  <1>6. PICK f : Fixed(f, n)
    <2> HIDE DEF Fixed
    <2> QED
      BY <1>5
  <1>7. ASSUME NEW i \in m.enablings, NEW given \in Partial(N, m)
        PROVE  D(D(f))[i][given] = D(f)[i][given]
    <2>1. Fixed(D(f), n + 1)
      <3> HIDE DEF D, Fixed, n
      <3> QED
        BY <1>1, <1>3, <1>6
    <2>2. Left(m, i, given) < n + 1
      BY <1>1
    <2> HIDE DEF D, n
    <2> QED
      BY <2>1, <2>2
  <1>8. D(D(f)) = D(f)
    BY <1>7 DEF Seeds
  <1> QED
    BY <1>8

(* The dependent set of i is made of enabled events, contains i, and with  *)
(* an event it adds all enabled events in conflict with it.                *)
LEMMA DependentGrows ==
    ASSUME NEW N, LoadedNet(N), NEW m \in Marking(N)
    PROVE  \A i \in m.enablings, given \in Partial(N, m) :
              Serves(N, m, GetDependentSet(N, m), i, given)
  <1> DEFINE d == GetDependentSet(N, m)
             T == {k \in Nat : \A i \in m.enablings, given \in Partial(N, m) :
                      Left(m, i, given) < k => Serves(N, m, d, i, given)}
             n == Cardinality(m.enablings) + 1
  <1>1. d = Seeds(N, m, d)
    <2>1. d = CHOOSE f : f = Seeds(N, m, f)
      BY DEF GetDependentSet, Seeds, OneSeed
    <2>2. \E f : f = Seeds(N, m, f)
      BY SeedsExist
    <2> QED
      BY <2>1, <2>2
  <1> HIDE DEF d
  <1>2. /\ n \in Nat
        /\ \A i, given : Left(m, i, given) \in Nat /\ Left(m, i, given) < n
    BY LeftType
  <1>3. 0 \in T
    <2>1. \A i, given : ~(Left(m, i, given) < 0)
      BY <1>2
    <2> QED
      BY <2>1
  <1>4. ASSUME NEW k \in Nat, k \in T PROVE k + 1 \in T
    <2>1. ASSUME NEW i \in m.enablings, NEW given \in Partial(N, m), Left(m, i, given) < k + 1
          PROVE  Serves(N, m, d, i, given)
      <3>1. Serving(N, m, d, d, given.ample \cup {i})
        <4>1. ASSUME NEW j \in m.enablings, NEW part \in Partial(N, m),
                     given.ample \cup {i} \subseteq part.ample, j \notin part.ample
              PROVE  Serves(N, m, d, j, part)
          <5>1. Left(m, j, part) < Left(m, i, given)
            BY <4>1, LeftFewer
          <5>2. Left(m, j, part) \in Nat /\ Left(m, i, given) \in Nat
            BY <1>2
          <5>3. Left(m, j, part) < k
            BY <2>1, <5>1, <5>2
          <5> QED
            BY <1>4, <5>3
        <4> QED
          BY <4>1 DEF Serving
      <3>2. /\ Grown(N, m, given, OneSeed(N, m, d, i, given))
            /\ i \in OneSeed(N, m, d, i, given).ample
        BY <3>1, SeedGrows
      <3>3. Seeds(N, m, d)[i][given] = OneSeed(N, m, d, i, given)
        BY DEF Seeds
      <3>4. d[i][given] = OneSeed(N, m, d, i, given)
        BY <1>1, <3>3
      <3> QED
        BY <3>2, <3>4 DEF Serves
    <2> QED
      BY <2>1
  <1>5. n \in T
    <2> HIDE DEF T, n
    <2> QED
      BY <1>2, <1>3, <1>4, SetInduction
  <1>6. \A i \in m.enablings, given \in Partial(N, m) : Serves(N, m, d, i, given)
    BY <1>2, <1>5
  <1> QED
    BY <1>6 DEF d

LEMMA AmpleSet ==
    ASSUME NEW N, LoadedNet(N), NEW m \in Marking(N)
    PROVE  /\ GetAmpleSet(N, m) \subseteq m.enablings
           /\ m.enablings # {} => GetAmpleSet(N, m) # {}
           /\ Closed(N, m, GetAmpleSet(N, m))
  <1> DEFINE E == m.enablings
             start == [ample |-> E, cache |-> NothingKnown(N)]
             dep(best, i) == GetDependentSet(N, m)[i][[best EXCEPT !.ample = {}]]
             Try(best, i) == IF Cardinality(dep(best, i).ample) < Cardinality(best.ample)
                             THEN dep(best, i) ELSE [best EXCEPT !.cache = dep(best, i).cache]
             step == [i \in E |-> [best \in Partial(N, m) |-> Try(best, i)]]
             Fit(best) == /\ best \in Partial(N, m) /\ Closed(N, m, best.ample)
                          /\ E # {} => best.ample # {}
             Y == [s \in SUBSET E |-> {best \in Partial(N, m) : Fit(best)}]
  <1>1. Fit(start)
    <2>1. NothingKnown(N) \in Cache(N, m)
      BY DEF NothingKnown, Cache
    <2> QED
      BY <2>1 DEF Partial, Closed
  <1>2. ASSUME NEW i \in E, NEW best, Fit(best) PROVE Fit(Try(best, i))
    <2> DEFINE given == [best EXCEPT !.ample = {}]
    <2>1. given \in Partial(N, m) /\ given.ample = {}
      BY <1>2 DEF Partial
    <2>2. Serves(N, m, GetDependentSet(N, m), i, given)
      <3> HIDE DEF given
      <3> QED
        BY <2>1, DependentGrows
    <2>3. /\ dep(best, i) \in Partial(N, m) /\ i \in dep(best, i).ample
          /\ Closed(N, m, dep(best, i).ample)
      BY <2>1, <2>2 DEF Serves, Grown, Settled, Closed
    <2> HIDE DEF dep
    <2>4. Fit(dep(best, i))
      BY <2>3
    <2>5. Fit([best EXCEPT !.cache = dep(best, i).cache])
      BY <1>2, <2>3 DEF Partial
    <2> HIDE DEF Fit
    <2> QED
      BY <2>4, <2>5
  <1>3. Alike(E, Y, step, step)
    <2>1. \A i \in E, best \in Partial(N, m) : Fit(best) => step[i][best] = Try(best, i)
      OBVIOUS
    <2>2. \A best : Fit(best) => best \in Partial(N, m)
      OBVIOUS
    <2>3. \A i \in E, best \in Partial(N, m) : Fit(best) =>
              step[i][best] \in {b \in Partial(N, m) : Fit(b)}
      <3> HIDE DEF step, Try, Fit
      <3> QED
        BY <1>2, <2>1, <2>2
    <2> HIDE DEF step, Fit
    <2> QED
      BY <2>3 DEF Alike
  <1>4. N.nevents \in Nat /\ E \in SUBSET (0 .. N.nevents)
    BY NetBounds
  <1>5. InOrder(E, start, step) \in Y[E]
    <2>1. start \in Y[{}]
      BY <1>1
    <2> HIDE DEF start, step, Y
    <2> QED
      BY <1>3, <1>4, <2>1, SameLoops
  <1>6. Fit(InOrder(E, start, step))
    <2> HIDE DEF Fit, start, step
    <2> QED
      BY <1>5
  <1>7. GetAmpleSet(N, m) = IF Cardinality(E) = 1 THEN E ELSE InOrder(E, start, step).ample
    BY DEF GetAmpleSet
  <1> HIDE DEF start, step
  <1>8. CASE Cardinality(E) = 1
    BY <1>7, <1>8 DEF Closed
  <1>9. CASE Cardinality(E) # 1
    BY <1>6, <1>7, <1>9 DEF Partial
  <1> QED
    BY <1>8, <1>9

(* The ample sets are proper, whatever the net: made of enabled events,    *)
(* empty only if none is enabled, and with an event they have every        *)
(* enabled one in conflict with it, although the sets are found by a       *)
(* recursion through a cache that the seeds share.                         *)
THEOREM AmpleSetsProper ==
    ASSUME \A N \in Nets : \A m \in Marking(N) : FireList(N, m) = GetAmpleSet(N, m)
    PROVE  Spec => []AmpleProper
  <1>1. IInv /\ Types => AmpleProper
    <2> SUFFICES ASSUME IInv, Types, NEW i \in 1 .. Len(stack)
                 PROVE  LET m == stack[i].marking IN
                        /\ stack[i].firelist \subseteq m.enablings
                        /\ m.enablings # {} => stack[i].firelist # {}
                        /\ Closed(net, m, stack[i].firelist)
      BY DEF AmpleProper
    <2>1. stack[i] \in Entries
      BY ElementOfSeq DEF IInv, Control
    <2>2. PICK m \in Table : stack[i].marking = m /\ stack[i].firelist = FireList(net, m)
      BY <2>1 DEF Entries, Entry
    <2>3. net \in Nets /\ LoadedNet(net) /\ m \in Marking(net)
      BY <2>2, NetsAssumption DEF Types
    <2> QED
      BY <2>2, <2>3, AmpleSet
  <1> QED
    BY <1>1, InitIInv, TypesInit, TypesStep, Invariance, PTL DEF Spec

=============================================================================
