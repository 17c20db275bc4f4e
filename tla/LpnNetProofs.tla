---------------------------- MODULE LpnNetProofs ----------------------------
(***************************************************************************)
(* Lemmas about the operators of LpnNet: what firing makes of a marking is *)
(* a marking.                                                              *)
(***************************************************************************)
EXTENDS LpnNet, Sequences, WellFoundedInduction, TLAPS

-----------------------------------------------------------------------------
(* Numbers.  The induction theorems of the library take a predicate; these *)
(* take the set of the numbers that have the property.                     *)

LEMMA SmallestOf ==
    ASSUME NEW T, T \subseteq Nat, T # {}
    PROVE  \E x \in T : \A y \in T : x <= y
  <1> DEFINE before == {ss \in Nat \X Nat : ss[1] < ss[2]}
  <1>1. IsWellFoundedOn(before, Nat)
    BY NatLessThanWellFounded, Zenon DEF OpToRel
  <1>2. PICK x \in T : \A y \in T : ~(<<y, x>> \in before)
    <2> HIDE DEF before
    <2> QED
      BY <1>1, WFMin
  <1>3. ASSUME NEW y \in T PROVE x <= y
    <2>1. <<y, x>> \in Nat \X Nat /\ ~(<<y, x>>[1] < <<y, x>>[2])
      BY <1>2
    <2> QED
      BY <2>1
  <1> QED
    BY <1>3

LEMMA SetInduction ==
    ASSUME NEW T, 0 \in T, \A n \in Nat : n \in T => n + 1 \in T
    PROVE  Nat \subseteq T
  <1> SUFFICES ASSUME Nat \ T # {} PROVE FALSE
    OBVIOUS
  <1>1. PICK x \in Nat \ T : \A y \in Nat \ T : x <= y
    <2>1. Nat \ T \subseteq Nat
      OBVIOUS
    <2> QED
      BY <2>1, SmallestOf
  <1>2. x # 0 /\ x - 1 \in Nat
    BY <1>1
  <1>3. x - 1 \in T
    BY <1>1, <1>2
  <1> QED
    BY <1>1, <1>2, <1>3

-----------------------------------------------------------------------------
(* Markings and firings.                                                  *)

(* Outputs are signals.                                                    *)
LEMMA OutputIsSignal ==
    ASSUME NEW N, LoadedNet(N)
    PROVE  Output(N) \subseteq Signal(N)
  <1>1. N.ninpsig \in Int /\ N.nsignals \in Int /\ 0 <= N.ninpsig
    BY DEF LoadedNet, NetShape
  <1> QED
    BY <1>1 DEF Output, Signal

(* Clearing the enabled codes leaves plain values.                         *)
LEMMA ClearEnabledType ==
    ASSUME NEW N, NEW state \in [Signal(N) -> Codes]
    PROVE  ClearEnabled(state) \in [Signal(N) -> Values]
  BY DEF ClearEnabled, Val, Codes, Values

(* Coding the enabled signals gives each signal a legal code.              *)
LEMMA MarkEnabledType ==
    ASSUME NEW N, NEW state \in [Signal(N) -> Codes], NEW enabled
    PROVE  MarkEnabled(N, enabled, state) \in [Signal(N) -> Codes]
  BY DEF MarkEnabled, Codes

(* Firing a transition keeps the type of the marking.                      *)
LEMMA FireTransitionType ==
    ASSUME NEW N, NEW m \in Marking(N), NEW e \in Event(N)
    PROVE  FireTransition(N, m, e) \in Marking(N)
  <1>1. (m.marking \ FanIn(N, e)) \cup FanOut(N, e) \in SUBSET Markable(N)
    BY DEF Marking, FanOut
  <1>2. [s \in Signal(N) |-> IF s # N.signal[e] THEN m.state[s]
                             ELSE IF m.state[s] = "R" THEN "1" ELSE "0"]
            \in [Signal(N) -> Codes]
    BY DEF Marking, Codes
  <1>3. m.enablings \ {e} \in SUBSET Event(N)
    BY DEF Marking
  <1> QED
    BY <1>1, <1>2, <1>3 DEF FireTransition, Marking

(* So does recomputing the enablings.                                      *)
LEMMA UpdateStateType ==
    ASSUME NEW N, NEW m \in Marking(N)
    PROVE  UpdateState(N, m) \in Marking(N)
  <1> DEFINE base == ClearEnabled(m.state)
             en   == EventsEnabled(N, m.marking, base)
  <1>1. m.marking \in SUBSET Markable(N) /\ m.state \in [Signal(N) -> Codes]
    BY DEF Marking
  <1>2. base \in [Signal(N) -> Codes]
    BY <1>1, ClearEnabledType DEF Codes, Values
  <1>3. en \in SUBSET Event(N)
    BY DEF EventsEnabled
  <1>4. MarkEnabled(N, en, base) \in [Signal(N) -> Codes]
    BY <1>2, MarkEnabledType
  <1> QED
    BY <1>1, <1>3, <1>4 DEF UpdateState, Marking

(* A new marking is a marking.                                             *)
LEMMA FindNewMarkingType ==
    ASSUME NEW N, NEW m \in Marking(N), NEW e \in Event(N)
    PROVE  FindNewMarking(N, m, e) \in Marking(N)
  BY FireTransitionType, UpdateStateType DEF FindNewMarking

(* The initial marking of a net is a marking, even if places are torn.     *)
LEMMA InitialMarkingShape ==
    ASSUME NEW N, NetShape(N)
    PROVE  InitialMarking(N) \in Marking(N)
  <1>1. N.marked \in SUBSET Markable(N) /\ N.start \in [Signal(N) -> Codes]
    BY DEF NetShape, Codes, Values
  <1>2. EventsEnabled(N, N.marked, N.start) \in SUBSET Event(N)
    BY DEF EventsEnabled
  <1>3. MarkEnabled(N, EventsEnabled(N, N.marked, N.start), N.start)
            \in [Signal(N) -> Codes]
    BY <1>1, MarkEnabledType
  <1> QED
    BY <1>1, <1>2, <1>3 DEF InitialMarking, Marking

LEMMA InitialMarkingType ==
    ASSUME NEW N, LoadedNet(N)
    PROVE  InitialMarking(N) \in Marking(N)
  BY InitialMarkingShape DEF LoadedNet

-----------------------------------------------------------------------------
(* Once consistent, the codes tell which signals have an enabled event,    *)
(* outputs with the edge it has, and no output loses its value.            *)
LEMMA MarkEnabledCodes ==
    ASSUME NEW N, LoadedNet(N), NEW base \in [Signal(N) -> Values],
           NEW enabled \in SUBSET Event(N),
           \A e \in enabled : CheckConsistency(N, e, base)
    PROVE  /\ \A s \in Signal(N) :
                 MarkEnabled(N, enabled, base)[s] \in {"R", "F"}
                     <=> \E e \in enabled : N.signal[e] = s
           /\ \A e \in enabled : N.signal[e] \in Output(N) =>
                 MarkEnabled(N, enabled, base)[N.signal[e]]
                     = (IF N.rising[e] THEN "R" ELSE "F")
           /\ \A s \in Output(N) :
                 Val(MarkEnabled(N, enabled, base)[s]) = base[s]
  <1> DEFINE codes == MarkEnabled(N, enabled, base)
  <1>r. \A e \in enabled : N.rising[e] \in BOOLEAN
    BY DEF LoadedNet, NetShape
  <1>1. ASSUME NEW s \in Signal(N)
        PROVE  codes[s] \in {"R", "F"} <=> \E e \in enabled : N.signal[e] = s
    BY DEF MarkEnabled, Values
  <1>2. ASSUME NEW e \in enabled, N.signal[e] \in Output(N)
        PROVE  /\ codes[N.signal[e]] = (IF N.rising[e] THEN "R" ELSE "F")
               /\ base[N.signal[e]] = (IF N.rising[e] THEN "0" ELSE "1")
    <2>1. N.signal[e] \in Signal(N)
      BY <1>2, OutputIsSignal
    <2>2. ASSUME NEW f \in enabled, N.signal[f] = N.signal[e]
          PROVE  base[N.signal[e]] = IF N.rising[f] THEN "0" ELSE "1"
      BY <2>1, <2>2, <1>2 DEF CheckConsistency, Values
    <2>3. \A f \in enabled :
              N.signal[f] = N.signal[e] => (N.rising[f] <=> N.rising[e])
      BY <2>2, <1>r
    <2>4. CASE N.rising[e]
      <3>1. codes[N.signal[e]] = "R"
        BY <2>1, <2>3, <2>4 DEF MarkEnabled
      <3> QED
        BY <3>1, <2>2, <2>4
    <2>5. CASE ~N.rising[e]
      <3>1. codes[N.signal[e]] = "F"
        BY <2>1, <2>3, <2>5 DEF MarkEnabled
      <3> QED
        BY <3>1, <2>2, <2>5
    <2> QED
      BY <2>4, <2>5
  <1>3. ASSUME NEW s \in Output(N)
        PROVE  Val(codes[s]) = base[s]
    <2>1. s \in Signal(N)
      BY OutputIsSignal
    <2>2. CASE \E e \in enabled : N.signal[e] = s
      <3> PICK e \in enabled : N.signal[e] = s
        BY <2>2
      <3> QED
        BY <1>2 DEF Val
    <2>3. CASE \A e \in enabled : N.signal[e] # s
      <3>1. codes[s] = base[s]
        BY <2>1, <2>3 DEF MarkEnabled
      <3> QED
        BY <3>1, <2>1 DEF Val, Values
    <2> QED
      BY <2>2, <2>3
  <1> HIDE DEF codes
  <1>4. QED
    BY <1>1, <1>2, <1>3 DEF codes

(* A firing that does not fail leaves outputs their values, except the one *)
(* of the event, which takes the value of its edge.                        *)
LEMMA FiringCodes ==
    ASSUME NEW N, LoadedNet(N), NEW e \in Event(N), NEW m \in Marking(N),
           ~Fails(N, m, e)
    PROVE  LET n    == FindNewMarking(N, m, e)
               base == ClearEnabled(FireTransition(N, m, e).state)
           IN  /\ n.enablings \subseteq Event(N)
               /\ n.enablings = EventsEnabled(N, n.marking, base)
               /\ base \in [Signal(N) -> Values]
               /\ n.state = MarkEnabled(N, n.enablings, base)
               /\ \A f \in n.enablings : CheckConsistency(N, f, base)
               /\ ~(Disabling \/ NoFail) =>
                     \A f \in m.enablings \ n.enablings :
                         N.signal[f] >= N.ninpsig => f = e
               /\ \A s \in Signal(N) : base[s] =
                     IF s # N.signal[e] THEN Val(m.state[s])
                     ELSE IF m.state[s] = "R" THEN "1" ELSE "0"
  <1> DEFINE fired == FireTransition(N, m, e)
             base  == ClearEnabled(fired.state)
             n     == FindNewMarking(N, m, e)
  <1>1. fired \in Marking(N)
    BY FireTransitionType
  <1>2. /\ n.marking = fired.marking
        /\ n.enablings = EventsEnabled(N, fired.marking, base)
        /\ n.state = MarkEnabled(N, n.enablings, base)
    BY DEF FindNewMarking, UpdateState
  <1>3. base \in [Signal(N) -> Values]
    BY <1>1, ClearEnabledType DEF Marking
  <1>4. n.enablings \subseteq Event(N)
    BY <1>2 DEF EventsEnabled
  <1>5. \A f \in n.enablings : CheckConsistency(N, f, base)
    BY <1>2 DEF Fails, UpdateFailure, Inconsistent
  <1>6. ~(Disabling \/ NoFail) =>
            \A f \in m.enablings \ n.enablings :
                N.signal[f] >= N.ninpsig => f = e
    <2>1. fired.enablings = m.enablings \ {e}
      BY DEF FireTransition
    <2> QED
      BY <1>2, <2>1 DEF Fails, UpdateFailure, DisablesOutput
  <1>7. ASSUME NEW s \in Signal(N)
        PROVE  base[s] = IF s # N.signal[e] THEN Val(m.state[s])
                         ELSE IF m.state[s] = "R" THEN "1" ELSE "0"
    BY DEF ClearEnabled, FireTransition, Val
  <1> QED
    BY <1>2, <1>3, <1>4, <1>5, <1>6, <1>7

(* A level expression reads the same from codes as from values.            *)
LEMMA LevelOfValues ==
    ASSUME NEW N, LoadedNet(N), NEW r \in Markable(N),
           NEW state \in [Signal(N) -> Codes], LevelSatisfied(N, r, state)
    PROVE  LevelSatisfied(N, r, ClearEnabled(state))
  BY DEF LevelSatisfied, ClearEnabled, Val, Codes

-----------------------------------------------------------------------------
(* Values are what codes stand for, and only values count in a level.      *)
LEMMA LevelReadsValues ==
    ASSUME NEW N, LoadedNet(N), NEW r \in Markable(N),
           NEW s1 \in [Signal(N) -> Codes], NEW s2 \in [Signal(N) -> Codes],
           \A s \in Signal(N) : Val(s1[s]) = Val(s2[s])
    PROVE  LevelSatisfied(N, r, s1) <=> LevelSatisfied(N, r, s2)
  <1>1. \A s \in Signal(N) : /\ s1[s] \in {"0", "R"} <=> s2[s] \in {"0", "R"}
                             /\ s1[s] \in {"1", "F"} <=> s2[s] \in {"1", "F"}
    BY DEF Val, Codes
  <1> QED
    BY <1>1 DEF LevelSatisfied

(* If every enabled event would change the value of its signal, recoding   *)
(* leaves the values of all signals alone.                                 *)
LEMMA RecodingKeepsValues ==
    ASSUME NEW N, LoadedNet(N), NEW base \in [Signal(N) -> Values],
           NEW enabled \in SUBSET Event(N),
           \A e \in enabled : CheckConsistency(N, e, base),
           \A e \in enabled : N.signal[e] \in Input(N) =>
               base[N.signal[e]] \in (IF N.rising[e] THEN {"0", "R"} ELSE {"1", "F"})
    PROVE  \A s \in Signal(N) : Val(MarkEnabled(N, enabled, base)[s]) = base[s]
  <1> SUFFICES ASSUME NEW s \in Signal(N)
               PROVE  Val(MarkEnabled(N, enabled, base)[s]) = base[s]
    OBVIOUS
  <1>1. s \in Output(N) \/ s \in Input(N)
    BY DEF LoadedNet, NetShape, Signal, Output, Input
  <1>2. ASSUME NEW e \in enabled, N.signal[e] = s
        PROVE  base[s] = IF N.rising[e] THEN "0" ELSE "1"
    BY <1>1, <1>2 DEF CheckConsistency, Values
  <1>3. CASE \A e \in enabled : N.signal[e] # s
    <2>1. MarkEnabled(N, enabled, base)[s] = base[s]
      BY <1>3 DEF MarkEnabled
    <2> QED
      BY <2>1 DEF Val, Values
  <1>4. CASE \E e \in enabled : N.signal[e] = s
    <2> PICK e \in enabled : N.signal[e] = s
      BY <1>4
    <2>1. \A f \in enabled : N.rising[f] \in BOOLEAN
      BY DEF LoadedNet, NetShape
    <2>2. CASE N.rising[e]
      <3>1. \A f \in enabled : N.signal[f] = s => N.rising[f]
        BY <1>2, <2>1, <2>2
      <3>2. MarkEnabled(N, enabled, base)[s] = "R"
        BY <3>1 DEF MarkEnabled
      <3> QED
        BY <3>2, <1>2, <2>2 DEF Val
    <2>3. CASE ~N.rising[e]
      <3>1. \A f \in enabled : N.signal[f] = s => ~N.rising[f]
        BY <1>2, <2>1, <2>3
      <3>2. MarkEnabled(N, enabled, base)[s] = "F"
        BY <3>1, <2>3 DEF MarkEnabled
      <3> QED
        BY <3>2, <1>2, <2>3 DEF Val
    <2> QED
      BY <2>2, <2>3
  <1> QED
    BY <1>3, <1>4

(* The events enabled are those of the values.                             *)
LEMMA EnabledReadsValues ==
    ASSUME NEW N, LoadedNet(N), NEW marking,
           NEW s1 \in [Signal(N) -> Codes], NEW s2 \in [Signal(N) -> Codes],
           \A s \in Signal(N) : Val(s1[s]) = Val(s2[s])
    PROVE  EventsEnabled(N, marking, s1) = EventsEnabled(N, marking, s2)
  BY LevelReadsValues DEF EventsEnabled, MarkedAndSatisfied

(* As long as the environment is consistent, the enablings stored with a   *)
(* marking are those of its codes, and only the fired signal has changed.  *)
LEMMA FiringValues ==
    ASSUME NEW N, LoadedNet(N), NEW e \in Event(N), NEW m \in Marking(N),
           e \in m.enablings, ~Fails(N, m, e), InputsAgree(N, m)
    PROVE  LET n == FindNewMarking(N, m, e)
           IN  /\ n \in Marking(N)
               /\ n.enablings = EventsEnabled(N, n.marking, n.state)
               /\ \A s \in Signal(N) : Val(n.state[s]) =
                     IF s # N.signal[e] THEN Val(m.state[s])
                     ELSE IF m.state[s] = "R" THEN "1" ELSE "0"
  <1> DEFINE fired == FireTransition(N, m, e)
             base  == ClearEnabled(fired.state)
             n     == FindNewMarking(N, m, e)
  <1>1. /\ n.enablings \subseteq Event(N)
        /\ n.enablings = EventsEnabled(N, n.marking, base)
        /\ base \in [Signal(N) -> Values]
        /\ n.state = MarkEnabled(N, n.enablings, base)
        /\ \A f \in n.enablings : CheckConsistency(N, f, base)
        /\ \A s \in Signal(N) : base[s] =
              IF s # N.signal[e] THEN Val(m.state[s])
              ELSE IF m.state[s] = "R" THEN "1" ELSE "0"
    BY FiringCodes
  <1>2. n.marking = fired.marking
    BY DEF FindNewMarking, UpdateState
  <1>3. InputsConsistent(N, fired.marking, base)
    BY DEF InputsAgree
  <1>4. \A s \in Signal(N) : Val(n.state[s]) = base[s]
    BY <1>1, <1>2, <1>3, RecodingKeepsValues DEF InputsConsistent
  <1>5. n \in Marking(N) /\ n.state \in [Signal(N) -> Codes]
    BY FindNewMarkingType DEF Marking
  <1>6. base \in [Signal(N) -> Codes] /\ \A s \in Signal(N) : Val(base[s]) = base[s]
    BY <1>1 DEF Values, Codes, Val
  <1>7. n.enablings = EventsEnabled(N, n.marking, n.state)
    BY <1>1, <1>4, <1>5, <1>6, EnabledReadsValues
  <1> HIDE DEF n, base, fired
  <1> QED
    BY <1>1, <1>4, <1>5, <1>7 DEF n

(* So are those of the initial marking.                                    *)
LEMMA InitialValues ==
    ASSUME NEW N, LoadedNet(N), ~NoInitialMarking(N),
           InputsConsistent(N, N.marked, N.start)
    PROVE  LET n == InitialMarking(N)
           IN  /\ n \in Marking(N)
               /\ n.enablings = EventsEnabled(N, n.marking, n.state)
               /\ \A s \in Signal(N) : Val(n.state[s]) = N.start[s]
  <1> DEFINE n == InitialMarking(N)
  <1>1. /\ n.marking = N.marked
        /\ n.enablings = EventsEnabled(N, N.marked, N.start)
        /\ n.state = MarkEnabled(N, n.enablings, N.start)
    BY DEF InitialMarking
  <1>2. N.start \in [Signal(N) -> Values]
    BY DEF LoadedNet, NetShape
  <1>3. n.enablings \in SUBSET Event(N)
    BY <1>1 DEF EventsEnabled
  <1>4. \A e \in n.enablings : CheckConsistency(N, e, N.start)
    BY <1>1 DEF NoInitialMarking, Inconsistent
  <1>5. \A s \in Signal(N) : Val(n.state[s]) = N.start[s]
    BY <1>1, <1>2, <1>3, <1>4, RecodingKeepsValues DEF InputsConsistent
  <1>6. n \in Marking(N) /\ n.state \in [Signal(N) -> Codes]
    BY InitialMarkingType DEF Marking
  <1>7. /\ N.start \in [Signal(N) -> Codes]
        /\ \A s \in Signal(N) : Val(N.start[s]) = N.start[s]
    BY <1>2 DEF Values, Codes, Val
  <1>8. n.enablings = EventsEnabled(N, n.marking, n.state)
    BY <1>1, <1>5, <1>6, <1>7, EnabledReadsValues
  <1> HIDE DEF n
  <1> QED
    BY <1>5, <1>6, <1>8 DEF n

=============================================================================
