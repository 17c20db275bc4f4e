------------------------- MODULE LpnTokenGameProofs -------------------------
(***************************************************************************)
(* Proofs about LpnTokenGame, for every net the loader can produce.        *)
(***************************************************************************)
EXTENDS LpnTokenGame, LpnNetProofs, Sequences, TLAPS

-----------------------------------------------------------------------------
(* Type correctness: every state of the game holds a well-formed marking   *)
(* of the net, whatever net was loaded and whatever the flags.             *)
LEMMA TypeInit == Init => TypeOK
  <1> SUFFICES ASSUME Init PROVE TypeOK
    OBVIOUS
  <1>1. LoadedNet(net)
    BY NetsAssumption DEF Init
  <1>2. [marking |-> net.marked, state |-> net.start, enablings |-> {}]
            \in Marking(net)
    BY <1>1 DEF LoadedNet, NetShape, Marking, Codes, Values
  <1>3. failed \in BOOLEAN
    BY DEF Init, NoInitialMarking, Inconsistent
  <1> QED
    BY <1>1, <1>2, <1>3, InitialMarkingType DEF Init, TypeOK

LEMMA TypeNext == TypeOK /\ [Next]_vars => TypeOK'
  <1> SUFFICES ASSUME TypeOK, [Next]_vars PROVE TypeOK'
    OBVIOUS
  <1>1. ASSUME NEW e \in Event(net), Fire(e) PROVE TypeOK'
    BY <1>1, FindNewMarkingType DEF Fire, TypeOK
  <1>2. ASSUME NEW e \in Event(net), Fail(e) PROVE TypeOK'
    BY <1>2 DEF Fail, TypeOK
  <1>3. CASE UNCHANGED vars
    BY <1>3 DEF vars, TypeOK
  <1> QED
    BY <1>1, <1>2, <1>3 DEF Next

THEOREM TypeCorrect == Spec => []TypeOK
  BY TypeInit, TypeNext, PTL DEF Spec

-----------------------------------------------------------------------------
(* Lemmas about what firing does to places and to signal codes.            *)

(* The bits an event clears, and those it sets, are those of whole places. *)
LEMMA FanUniform ==
    ASSUME NEW N, LoadedNet(N), NEW e \in Event(N),
           NEW r \in Markable(N), NEW s \in Markable(N), SamePlace(N, r, s)
    PROVE  /\ r \in FanIn(N, e) <=> s \in FanIn(N, e)
           /\ r \in FanOut(N, e) <=> s \in FanOut(N, e)
  <1>1. r = <<r[1], r[2]>> /\ s = <<s[1], s[2]>>
    BY DEF LoadedNet, NetShape, Markable
  <1>2. r[1] # e /\ s[1] # e
    BY DEF LoadedNet, NetShape, SamePlace, Event, Place
  <1> QED
    BY <1>1, <1>2 DEF FanIn, FanOut, Markable, SamePlace

(* The loaded marking is uniform, and every firing keeps it so.            *)
LEMMA FiringUniform ==
    ASSUME NEW N, LoadedNet(N), NEW e \in Event(N), NEW m \in Marking(N),
           \A r, s \in Markable(N) :
               SamePlace(N, r, s) => (r \in m.marking <=> s \in m.marking),
           NEW r \in Markable(N), NEW s \in Markable(N), SamePlace(N, r, s)
    PROVE  r \in FindNewMarking(N, m, e).marking
               <=> s \in FindNewMarking(N, m, e).marking
  <1>1. FindNewMarking(N, m, e).marking
            = (m.marking \ FanIn(N, e)) \cup FanOut(N, e)
    BY DEF FindNewMarking, UpdateState, FireTransition
  <1> QED
    BY <1>1, FanUniform

-----------------------------------------------------------------------------
(* The inductive invariant.  Its last conjunct says why an enabled event   *)
(* may fire: its rules hold for the marking, the present values of the     *)
(* outputs and some values of the inputs.                                  *)
EnabledInSomeView ==
    \E v \in [Signal(net) -> Values] :
        /\ \A s \in Output(net) : v[s] = Val(mk.state[s])
        /\ mk.enablings \subseteq EventsEnabled(net, mk.marking, v)

IInv == TypeOK /\ PlaceUniform /\ CodesMatchEnablings /\ EnabledInSomeView

(* In the initial marking the outputs have their start values.             *)
LEMMA InitFacts ==
    ASSUME Init
    PROVE  /\ CodesMatchEnablings
           /\ mk.marking = net.marked
           /\ \A s \in Output(net) : Val(mk.state[s]) = net.start[s]
           /\ mk.enablings \subseteq EventsEnabled(net, net.marked, net.start)
  <1>1. LoadedNet(net) /\ net.start \in [Signal(net) -> Values]
    BY NetsAssumption DEF Init, LoadedNet, NetShape
  <1> DEFINE en == EventsEnabled(net, net.marked, net.start)
  <1>2. CASE failed
    <2>1. mk = [marking |-> net.marked, state |-> net.start, enablings |-> {}]
      BY <1>2 DEF Init
    <2>2. CodesMatchEnablings
      BY <2>1, <1>1 DEF CodesMatchEnablings, Values
    <2>3. \A s \in Output(net) : Val(mk.state[s]) = net.start[s]
      BY <2>1, <1>1, OutputIsSignal DEF Val, Values
    <2> QED
      BY <2>1, <2>2, <2>3
  <1>3. CASE ~failed
    <2>1. mk = InitialMarking(net) /\ ~NoInitialMarking(net)
      BY <1>3 DEF Init
    <2>2. /\ en \in SUBSET Event(net)
          /\ \A e \in en : CheckConsistency(net, e, net.start)
      BY <2>1 DEF NoInitialMarking, Inconsistent, EventsEnabled
    <2>3. /\ mk.enablings = en
          /\ mk.marking = net.marked
          /\ mk.state = MarkEnabled(net, en, net.start)
      BY <2>1 DEF InitialMarking
    <2>4. CodesMatchEnablings
      BY <1>1, <2>2, <2>3, MarkEnabledCodes DEF CodesMatchEnablings
    <2>5. \A s \in Output(net) : Val(mk.state[s]) = net.start[s]
      BY <1>1, <2>2, <2>3, MarkEnabledCodes
    <2> QED
      BY <2>3, <2>4, <2>5
  <1> QED
    BY <1>2, <1>3

LEMMA InitIInv == Init => IInv
  <1> SUFFICES ASSUME Init PROVE IInv
    OBVIOUS
  <1>1. LoadedNet(net) /\ net.start \in [Signal(net) -> Values]
    BY NetsAssumption DEF Init, LoadedNet, NetShape
  <1>2. PlaceUniform
    BY <1>1, InitFacts DEF PlaceUniform, LoadedNet, PlacesAgree
  <1>3. EnabledInSomeView
    BY <1>1, InitFacts DEF EnabledInSomeView
  <1> QED
    BY <1>2, <1>3, TypeInit, InitFacts DEF IInv

LEMMA NextIInv == IInv /\ [Next]_vars => IInv'
  <1> SUFFICES ASSUME IInv, [Next]_vars PROVE IInv'
    OBVIOUS
  <1>0. TypeOK'
    BY TypeNext DEF IInv
  <1>1. ASSUME NEW e \in Event(net), Fire(e) PROVE IInv'
    <2> DEFINE base == ClearEnabled(FireTransition(net, mk, e).state)
    <2>1. /\ LoadedNet(net) /\ mk \in Marking(net) /\ net' = net
          /\ ~Fails(net, mk, e) /\ mk' = FindNewMarking(net, mk, e)
      BY <1>1, NetsAssumption DEF Fire, IInv, TypeOK
    <2>2. PlaceUniform'
      BY <2>1, FiringUniform DEF IInv, PlaceUniform
    <2>3. /\ mk'.enablings \in SUBSET Event(net)
          /\ mk'.enablings = EventsEnabled(net, mk'.marking, base)
          /\ base \in [Signal(net) -> Values]
          /\ mk'.state = MarkEnabled(net, mk'.enablings, base)
          /\ \A f \in mk'.enablings : CheckConsistency(net, f, base)
      BY <2>1, FiringCodes
    <2>4. CodesMatchEnablings'
      BY <2>1, <2>3, MarkEnabledCodes DEF CodesMatchEnablings
    <2>5. \A s \in Output(net) : base[s] = Val(mk'.state[s])
      BY <2>1, <2>3, MarkEnabledCodes
    <2> HIDE DEF base
    <2>6. EnabledInSomeView'
      BY <2>1, <2>3, <2>5 DEF EnabledInSomeView
    <2> QED
      BY <1>0, <2>2, <2>4, <2>6 DEF IInv
  <1>2. ASSUME UNCHANGED <<net, mk>> PROVE IInv'
    BY <1>0, <1>2 DEF IInv, PlaceUniform, CodesMatchEnablings, EnabledInSomeView
  <1>3. ASSUME NEW e \in Event(net), Fail(e) PROVE IInv'
    BY <1>2, <1>3 DEF Fail
  <1>4. CASE UNCHANGED vars
    BY <1>2, <1>4 DEF vars
  <1> QED
    BY <1>1, <1>3, <1>4 DEF Next

LEMMA Invariance == Spec => []IInv
  BY InitIInv, NextIInv, PTL DEF Spec

(* A place has a token or none: the bits of its rules never disagree.      *)
THEOREM PlacesUniform == Spec => []PlaceUniform
  <1>1. IInv => PlaceUniform
    BY DEF IInv
  <1> QED
    BY <1>1, Invariance, PTL

(* Signal codes and enabled events always tell the same story.             *)
THEOREM CodesMatch == Spec => []CodesMatchEnablings
  <1>1. IInv => CodesMatchEnablings
    BY DEF IInv
  <1> QED
    BY <1>1, Invariance, PTL

-----------------------------------------------------------------------------
(* Action properties.                                                      *)

(* The value of an output after a firing.                                  *)
LEMMA OutputAfterFiring ==
    ASSUME IInv, NEW e \in Event(net), Fire(e), NEW s \in Output(net)
    PROVE  /\ LoadedNet(net)
           /\ mk.state \in [Signal(net) -> Codes]
           /\ Val(mk'.state[s]) = IF s # net.signal[e] THEN Val(mk.state[s])
                                  ELSE IF net.rising[e] THEN "1" ELSE "0"
           /\ s = net.signal[e] => mk.state[s] = IF net.rising[e] THEN "R" ELSE "F"
  <1> DEFINE base == ClearEnabled(FireTransition(net, mk, e).state)
  <1>1. /\ LoadedNet(net) /\ mk \in Marking(net) /\ e \in mk.enablings
        /\ ~Fails(net, mk, e) /\ mk' = FindNewMarking(net, mk, e)
    BY NetsAssumption DEF Fire, IInv, TypeOK
  <1>2. /\ mk'.enablings \in SUBSET Event(net)
        /\ base \in [Signal(net) -> Values]
        /\ mk'.state = MarkEnabled(net, mk'.enablings, base)
        /\ \A f \in mk'.enablings : CheckConsistency(net, f, base)
        /\ \A t \in Signal(net) : base[t] =
              IF t # net.signal[e] THEN Val(mk.state[t])
              ELSE IF mk.state[t] = "R" THEN "1" ELSE "0"
    BY <1>1, FiringCodes
  <1> HIDE DEF base
  <1>3. Val(mk'.state[s]) = base[s]
    BY <1>1, <1>2, MarkEnabledCodes
  <1>4. s = net.signal[e] => mk.state[s] = IF net.rising[e] THEN "R" ELSE "F"
    BY <1>1 DEF IInv, CodesMatchEnablings
  <1>5. s \in Signal(net)
    BY <1>1, OutputIsSignal
  <1>6. base[s] = IF s # net.signal[e] THEN Val(mk.state[s])
                  ELSE IF net.rising[e] THEN "1" ELSE "0"
    BY <1>2, <1>4, <1>5
  <1>7. mk.state \in [Signal(net) -> Codes]
    BY <1>1 DEF Marking
  <1> QED
    BY <1>1, <1>3, <1>4, <1>6, <1>7

(* Semi-modularity: the tool lets no output be disabled by another event   *)
(* without reporting it.                                                   *)
THEOREM Persistence == Spec => OutputsPersist
  <1> DEFINE A == ~(Disabling \/ NoFail) =>
                      \A e, f \in LeavesEnabled : e = f /\ Reached(e)
  <1>1. IInv /\ [Next]_vars => [A]_vars
    <2> SUFFICES ASSUME IInv, Next, ~(Disabling \/ NoFail),
                        NEW g \in LeavesEnabled, NEW f \in LeavesEnabled
                 PROVE  g = f /\ Reached(g)
      OBVIOUS
    <2>1. ASSUME NEW e \in Event(net), Fail(e) PROVE FALSE
      BY <2>1 DEF Fail, LeavesEnabled
    <2>2. PICK e \in Event(net) : Fire(e)
      BY <2>1 DEF Next
    <2>3. /\ LoadedNet(net) /\ mk \in Marking(net)
          /\ ~Fails(net, mk, e) /\ mk' = FindNewMarking(net, mk, e)
      BY <2>2, NetsAssumption DEF Fire, IInv, TypeOK
    <2>4. \A h \in mk.enablings \ mk'.enablings :
              net.signal[h] >= net.ninpsig => h = e
      BY <2>3, FiringCodes
    <2>5. \A h \in LeavesEnabled : h = e
      BY <2>3, <2>4 DEF LeavesEnabled, Output, LoadedNet, NetShape
    <2>6. Val(mk'.state[net.signal[e]]) = IF net.rising[e] THEN "1" ELSE "0"
      BY <2>2, <2>5, OutputAfterFiring DEF LeavesEnabled
    <2> QED
      BY <2>5, <2>6 DEF Reached
  <1>2. Spec => [][A]_vars
    BY <1>1, Invariance, PTL DEF Spec
  <1> QED
    BY <1>2 DEF OutputsPersist

(* Outputs change one at a time, and only by firing.                       *)
THEOREM OutputsFire == Spec => OutputsChangeByFiring
  <1> DEFINE A == \A s, t \in Output(net) :
                     Val(mk'.state[s]) # Val(mk.state[s]) =>
                        /\ mk.state[s] \in {"R", "F"}
                        /\ Val(mk'.state[t]) # Val(mk.state[t]) => s = t
  <1>1. IInv /\ [Next]_vars => [A]_vars
    <2> SUFFICES ASSUME IInv, Next PROVE A
      OBVIOUS
    <2>1. ASSUME NEW e \in Event(net), Fail(e) PROVE A
      BY <2>1 DEF Fail
    <2>2. ASSUME NEW e \in Event(net), Fire(e) PROVE A
      BY <2>2, OutputAfterFiring
    <2> QED
      BY <2>1, <2>2 DEF Next
  <1>2. Spec => [][A]_vars
    BY <1>1, Invariance, PTL DEF Spec
  <1> QED
    BY <1>2 DEF OutputsChangeByFiring

-----------------------------------------------------------------------------
(* Refinement: the bits play the game of tokens.                           *)

(* Cells tell rules of different places apart.                             *)
LEMMA CellFacts ==
    ASSUME NEW N, LoadedNet(N), NEW r \in Markable(N), NEW s \in Markable(N),
           Cell(N, r) = Cell(N, s)
    PROVE  r = s \/ SamePlace(N, r, s)
  <1>1. r = <<r[1], r[2]>> /\ s = <<s[1], s[2]>>
    BY DEF LoadedNet, NetShape, Markable
  <1>2. ASSUME NEW a, NEW b, NEW c PROVE <<a>> # <<b, c>>
    <2>1. Len(<<a>>) = 1 /\ Len(<<b, c>>) = 2
      OBVIOUS
    <2> QED
      BY <2>1
  <1>3. CASE r[1] \in Place(N) /\ s[1] \in Place(N)
    BY <1>3 DEF Cell, SamePlace
  <1>4. CASE r[1] \in Place(N) /\ s[1] \notin Place(N)
    BY <1>1, <1>2, <1>4 DEF Cell
  <1>5. CASE r[1] \notin Place(N) /\ s[1] \in Place(N)
    BY <1>1, <1>2, <1>5 DEF Cell
  <1>6. CASE r[1] \notin Place(N) /\ s[1] \notin Place(N)
    BY <1>6 DEF Cell
  <1> QED
    BY <1>3, <1>4, <1>5, <1>6

Pre(N, e)  == {Cell(N, r) : r \in {q \in Markable(N) : q[2] = e}}
Post(N, e) == {Cell(N, r) : r \in FanOut(N, e)}

(* PetriNet's operators, seen through the refinement mapping, are these.   *)
LEMMA AbstractOperators ==
    ASSUME NEW N, LoadedNet(N), NEW e \in Event(N)
    PROVE  /\ Abstract!Pre(N, e) = Pre(N, e)
           /\ Abstract!Post(N, e) = Post(N, e)
  <1>1. Abstract!Pre(N, e) = Pre(N, e)
    BY DEF Abstract!Pre, Pre, Abstract!Cell, Cell, Abstract!Markable, Markable,
           Abstract!Event, Event, Abstract!Place, Place
  <1>2. ASSUME NEW c \in Abstract!Post(N, e) PROVE c \in Post(N, e)
    <2>1. CASE c \in {r \in Markable(N) : r[1] = e}
      <3>1. c[1] \notin Place(N)
        BY <2>1 DEF Event, Place, LoadedNet, NetShape
      <3> QED
        BY <2>1, <3>1 DEF Post, FanOut, Cell
    <2>2. ASSUME NEW p \in Place(N), c = <<p>>, <<e, p>> \in N.rules,
                 NEW f \in Event(N), <<p, f>> \in N.rules
          PROVE  c \in Post(N, e)
      <3>1. <<p, f>> \in FanOut(N, e)
        BY <2>2 DEF FanOut, Markable
      <3>2. Cell(N, <<p, f>>) = c
        BY <2>2 DEF Cell
      <3> QED
        BY <3>1, <3>2 DEF Post
    <2> QED
      BY <1>2, <2>1, <2>2 DEF Abstract!Post, Abstract!Markable, Markable,
           Abstract!Event, Event, Abstract!Place, Place
  <1>3. ASSUME NEW c \in Post(N, e) PROVE c \in Abstract!Post(N, e)
    <2>1. PICK r \in FanOut(N, e) : c = Cell(N, r)
      BY <1>3 DEF Post
    <2>2. r \in Markable(N) /\ r = <<r[1], r[2]>> /\ r[2] \in Event(N)
      BY <2>1 DEF FanOut, Markable, LoadedNet, NetShape
    <2>3. CASE r[1] = e
      <3>1. r[1] \notin Place(N)
        BY <2>3 DEF Event, Place, LoadedNet, NetShape
      <3> QED
        BY <2>1, <2>2, <2>3, <3>1 DEF Cell, Abstract!Post, Abstract!Markable,
           Markable, Abstract!Event, Event
    <2>4. CASE r[1] \in Place(N) /\ <<e, r[1]>> \in N.rules
      BY <2>1, <2>2, <2>4 DEF Cell, Abstract!Post, Markable,
         Abstract!Event, Event, Abstract!Place, Place
    <2> QED
      BY <2>1, <2>3, <2>4 DEF FanOut
  <1> QED
    BY <1>1, <1>2, <1>3

(* What a firing does to the tokens: the cleared bits are the tokens of    *)
(* the fan-in places, and bits that were clear hold no token.              *)
LEMMA FiringTokens ==
    ASSUME NEW N, LoadedNet(N), NEW e \in Event(N),
           NEW marking \in SUBSET Markable(N),
           FanOut(N, e) \cap (marking \ FanIn(N, e)) = {}
    PROVE  LET T(M) == {Cell(N, r) : r \in M} IN
           /\ T((marking \ FanIn(N, e)) \cup FanOut(N, e))
                 = (T(marking) \ Pre(N, e)) \cup Post(N, e)
           /\ (T(marking) \ Pre(N, e)) \cap Post(N, e) = {}
  <1> DEFINE T(M) == {Cell(N, r) : r \in M}
  <1>0. ASSUME NEW r \in Markable(N) PROVE r = <<r[1], r[2]>> /\ r \in N.rules
    BY DEF LoadedNet, NetShape, Markable
  <1>1. ASSUME NEW r \in marking \ FanIn(N, e)
        PROVE  Cell(N, r) \notin Pre(N, e)
    <2> SUFFICES ASSUME NEW q \in Markable(N), q[2] = e,
                        Cell(N, r) = Cell(N, q)
                 PROVE  FALSE
      BY DEF Pre
    <2>1. r = q \/ SamePlace(N, r, q)
      BY CellFacts
    <2> QED
      BY <1>0, <2>1 DEF SamePlace, FanIn
  <1>2. ASSUME NEW r \in marking, Cell(N, r) \notin Pre(N, e)
        PROVE  r \notin FanIn(N, e)
    <2> SUFFICES ASSUME r \in FanIn(N, e) PROVE FALSE
      OBVIOUS
    <2>1. CASE r[2] = e
      BY <1>2, <2>1 DEF Pre
    <2>2. CASE r[1] \in Place(N) /\ <<r[1], e>> \in N.rules
      <3>1. <<r[1], e>> \in Markable(N) /\ Cell(N, <<r[1], e>>) = Cell(N, r)
        BY <2>2 DEF Markable, Cell
      <3> QED
        BY <1>2, <3>1 DEF Pre
    <2> QED
      BY <2>1, <2>2 DEF FanIn
  <1>3. T(marking \ FanIn(N, e)) = T(marking) \ Pre(N, e)
    BY <1>1, <1>2
  <1>4. (T(marking) \ Pre(N, e)) \cap Post(N, e) = {}
    <2> SUFFICES ASSUME NEW r \in marking \ FanIn(N, e), NEW q \in FanOut(N, e),
                        Cell(N, r) = Cell(N, q)
                 PROVE  FALSE
      BY <1>3 DEF Post
    <2>1. q \in Markable(N)
      BY DEF FanOut
    <2>2. r = q \/ SamePlace(N, r, q)
      BY <2>1, CellFacts
    <2>3. r \in FanOut(N, e)
      <3>1. CASE SamePlace(N, r, q)
        BY <3>1, <2>1, FanUniform
      <3> QED
        BY <2>2, <3>1
    <2> QED
      BY <2>3
  <1>5. T((marking \ FanIn(N, e)) \cup FanOut(N, e))
            = T(marking \ FanIn(N, e)) \cup Post(N, e)
    BY DEF Post
  <1> QED
    BY <1>3, <1>4, <1>5

(* The abstract guard holds whenever an enabled event fires.               *)
LEMMA FiringAllowed ==
    ASSUME IInv, NEW e \in Event(net), Fire(e)
    PROVE  Abstract!CanFire(net, e)
  <1> DEFINE tokens == {Cell(net, r) : r \in mk.marking}
             out    == [s \in Output(net) |-> Val(mk.state[s])]
             held   == Markable(net) \ (IF NoFail THEN net.constraint ELSE {})
  <1>1. /\ LoadedNet(net) /\ mk \in Marking(net)
        /\ e \in mk.enablings /\ ~Fails(net, mk, e)
    BY NetsAssumption DEF Fire, IInv, TypeOK
  <1>2. \E v \in [Signal(net) -> Values] :
           /\ \A s \in Output(net) : v[s] = Val(mk.state[s])
           /\ \A r \in held : r[2] = e =>
                 MarkedAndSatisfied(net, mk.marking, v, r)
    <2>1. CASE NoFail
      <3> PICK v \in [Signal(net) -> Values] :
                 /\ \A s \in Output(net) : v[s] = Val(mk.state[s])
                 /\ mk.enablings \subseteq EventsEnabled(net, mk.marking, v)
        BY DEF IInv, EnabledInSomeView
      <3> QED
        BY <1>1, <2>1 DEF EventsEnabled
    <2>2. CASE ~NoFail
      <3> DEFINE v == ClearEnabled(mk.state)
      <3>1. mk.state \in [Signal(net) -> Codes]
        BY <1>1 DEF Marking
      <3>2. v \in [Signal(net) -> Values]
        BY <3>1, ClearEnabledType
      <3>3. \A s \in Output(net) : v[s] = Val(mk.state[s])
        BY <1>1, <3>1, OutputIsSignal DEF ClearEnabled
      <3>4. EventEnabled(net, mk.marking, mk.state, e)
        BY <1>1, <2>2 DEF Fails, ConstraintFailure
      <3>5. \A r \in held : r[2] = e => MarkedAndSatisfied(net, mk.marking, v, r)
        BY <1>1, <3>1, <3>4, LevelOfValues DEF EventEnabled, MarkedAndSatisfied
      <3> QED
        BY <3>2, <3>3, <3>5
    <2> QED
      BY <2>1, <2>2
  <1>3. PICK v \in [Signal(net) -> Values] :
           /\ \A s \in Output(net) : v[s] = Val(mk.state[s])
           /\ \A r \in held : r[2] = e =>
                 MarkedAndSatisfied(net, mk.marking, v, r)
    BY <1>2
  <1>4. v \in Abstract!Views(net, out)
    BY <1>3 DEF Abstract!Views, Abstract!Signal, Signal, Abstract!Values, Values,
                Abstract!Output, Output
  <1>5. \A r \in held : r[2] = e =>
           Abstract!Cell(net, r) \in tokens /\ Abstract!LevelSatisfied(net, r, v)
    BY <1>3 DEF MarkedAndSatisfied, Abstract!Cell, Cell, Abstract!Place, Place,
                Abstract!LevelSatisfied, LevelSatisfied, Abstract!Signal, Signal
  <1> QED
    BY <1>4, <1>5 DEF Abstract!CanFire, Abstract!Markable, Markable,
                      Abstract!Event, Event, Abstract!Output, Output,
                      Abstract!Val, Val

(* The token game implements PetriNet: whatever net is loaded, the bits    *)
(* lpn_fire_transition clears and sets are those of a safe firing of the   *)
(* places, and outputs take the value of the edge that fires.              *)
THEOREM ImplementsPetriNet == Spec => AbstractSpec
  <1>1. Init => Abstract!Init
    <2> SUFFICES ASSUME Init PROVE Abstract!Init
      OBVIOUS
    <2>1. /\ mk.marking = net.marked
          /\ \A s \in Output(net) : Val(mk.state[s]) = net.start[s]
      BY InitFacts
    <2>2. [s \in Output(net) |-> Val(mk.state[s])]
              = [s \in Output(net) |-> net.start[s]]
      BY <2>1
    <2> QED
      BY <2>1, <2>2 DEF Init, Abstract!Init, Abstract!Cell, Cell,
         Abstract!Place, Place, Abstract!Output, Output, Abstract!Val, Val
  <1>2. IInv /\ [Next]_vars => [Abstract!Next]_Abstract!vars
    <2> SUFFICES ASSUME IInv, [Next]_vars
                 PROVE  Abstract!Next \/ UNCHANGED Abstract!vars
      OBVIOUS
    <2>1. ASSUME NEW e \in Event(net), Fire(e) PROVE Abstract!Fire(e)
      <3>1. /\ LoadedNet(net) /\ mk \in Marking(net) /\ net' = net
            /\ ~Fails(net, mk, e) /\ mk' = FindNewMarking(net, mk, e)
        BY <2>1, NetsAssumption DEF Fire, IInv, TypeOK
      <3>2. /\ mk.marking \in SUBSET Markable(net)
            /\ FanOut(net, e) \cap (mk.marking \ FanIn(net, e)) = {}
        BY <3>1 DEF Fails, SafetyFailure, Marking
      <3>3. mk'.marking = (mk.marking \ FanIn(net, e)) \cup FanOut(net, e)
        BY <3>1 DEF FindNewMarking, UpdateState, FireTransition
      <3> DEFINE tokens  == {Cell(net, r) : r \in mk.marking}
                 outputs == [s \in Output(net) |-> Val(mk.state[s])]
      <3>4. /\ tokens' = (tokens \ Pre(net, e)) \cup Post(net, e)
            /\ (tokens \ Pre(net, e)) \cap Post(net, e) = {}
        <4>1. tokens' = {Cell(net, r) :
                           r \in (mk.marking \ FanIn(net, e)) \cup FanOut(net, e)}
          BY <3>1, <3>3
        <4>2. /\ {Cell(net, r) : r \in (mk.marking \ FanIn(net, e)) \cup FanOut(net, e)}
                    = (tokens \ Pre(net, e)) \cup Post(net, e)
              /\ (tokens \ Pre(net, e)) \cap Post(net, e) = {}
          BY <3>1, <3>2, FiringTokens
        <4> QED
          BY <4>1, <4>2
      <3>5. outputs' = [s \in Output(net) |->
                           IF s # net.signal[e] THEN outputs[s]
                           ELSE IF net.rising[e] THEN "1" ELSE "0"]
        <4>1. \A s \in Output(net) : Val(mk'.state[s]) =
                  IF s # net.signal[e] THEN Val(mk.state[s])
                  ELSE IF net.rising[e] THEN "1" ELSE "0"
          BY <2>1, OutputAfterFiring
        <4> QED
          BY <3>1, <4>1
      <3>6. Abstract!CanFire(net, e)
        BY <2>1, FiringAllowed
      <3>7. Abstract!Pre(net, e) = Pre(net, e) /\ Abstract!Post(net, e) = Post(net, e)
        BY <3>1, AbstractOperators
      <3> QED
        BY <3>1, <3>4, <3>5, <3>6, <3>7 DEF Abstract!Fire, Abstract!Output, Output,
           Abstract!Val, Val, Abstract!Cell, Cell, Abstract!Place, Place
    <2>2. ASSUME UNCHANGED <<net, mk>> PROVE UNCHANGED Abstract!vars
      BY <2>2 DEF Abstract!vars
    <2>3. ASSUME NEW e \in Event(net), Fail(e) PROVE UNCHANGED Abstract!vars
      BY <2>2, <2>3 DEF Fail
    <2>4. CASE UNCHANGED vars
      BY <2>2, <2>4 DEF vars
    <2> QED
      BY <2>1, <2>3, <2>4 DEF Next, Abstract!Next, Abstract!Event, Event
  <1> QED
    BY <1>1, <1>2, Invariance, PTL DEF Spec, AbstractSpec, Abstract!Spec

-----------------------------------------------------------------------------
(* The enablings stored with a marking are those of its codes, although    *)
(* they were computed before the state was recoded, provided that the      *)
(* environment never enables an input to take the value it has: the code   *)
(* checks this of outputs only.                                            *)
THEOREM EnablingsAreCurrent ==
    Spec /\ []InputsAgree(net, mk) => []EnablingsCurrent
  <1>1. Init /\ InputsAgree(net, mk) => EnablingsCurrent
    <2> SUFFICES ASSUME Init, InputsAgree(net, mk) PROVE EnablingsCurrent
      OBVIOUS
    <2>1. LoadedNet(net)
      BY NetsAssumption DEF Init
    <2>2. CASE failed
      BY <2>2 DEF EnablingsCurrent
    <2>3. CASE ~failed
      <3>1. ~NoInitialMarking(net) /\ mk = InitialMarking(net)
        BY <2>3 DEF Init
      <3>2. InputsConsistent(net, net.marked, net.start)
        BY DEF InputsAgree
      <3> QED
        BY <2>1, <3>1, <3>2, InitialValues DEF EnablingsCurrent
    <2> QED
      BY <2>2, <2>3
  <1>2. TypeOK /\ InputsAgree(net, mk) /\ EnablingsCurrent /\ [Next]_vars => EnablingsCurrent'
    <2> SUFFICES ASSUME TypeOK, InputsAgree(net, mk), EnablingsCurrent, [Next]_vars
                 PROVE  EnablingsCurrent'
      OBVIOUS
    <2>1. ASSUME NEW e \in Event(net), Fire(e) PROVE EnablingsCurrent'
      <3>1. LoadedNet(net) /\ mk \in Marking(net)
        BY NetsAssumption DEF TypeOK
      <3>2. mk'.enablings = EventsEnabled(net, mk'.marking, mk'.state)
        BY <2>1, <3>1, FiringValues DEF Fire
      <3> QED
        BY <2>1, <3>2 DEF Fire, EnablingsCurrent
    <2>2. ASSUME NEW e \in Event(net), Fail(e) PROVE EnablingsCurrent'
      BY <2>2 DEF Fail, EnablingsCurrent
    <2>3. CASE UNCHANGED vars
      BY <2>3 DEF vars, EnablingsCurrent
    <2> QED
      BY <2>1, <2>2, <2>3 DEF Next
  <1> QED
    BY <1>1, <1>2, TypeCorrect, PTL DEF Spec

=============================================================================
