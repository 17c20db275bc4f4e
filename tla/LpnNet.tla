------------------------------- MODULE LpnNet -------------------------------
(***************************************************************************)
(* The labelled Petri nets (LPNs) of ATACS and one firing of a net, as     *)
(* lpnrsg.c computes it.  A net is a record:                               *)
(*                                                                         *)
(*   nevents, nplaces   events are 1 .. nevents-1 (event 0 is the reset    *)
(*                      event, which an LPN does not use) and places are   *)
(*                      nevents .. nevents+nplaces-1, as in the code       *)
(*   nsignals, ninpsig  signals are 0 .. nsignals-1; below ninpsig: inputs *)
(*   rules, constraint  the valid rules <<i, j>> and those among them of   *)
(*                      type ORDERING (constraint rules)                   *)
(*   level              for each rule into an event, the set of products   *)
(*                      of its level expression, each a function from      *)
(*                      signals to "0", "1" or "X"                         *)
(*   marked             the rules whose epsilon is 1: initially marked     *)
(*   signal, rising     for each event its signal (-1: none) and edge      *)
(*   start              the start state                                    *)
(*   dropped            the events and places that are no longer there      *)
(*                                                                         *)
(* A marking is a record: the set of marked rules, the code of each signal *)
(* ("0", "1", "R" rising-enabled, "F" falling-enabled) and the set of      *)
(* enabled events.                                                         *)
(***************************************************************************)
EXTENDS Integers, FiniteSets

CONSTANTS
    NoFail,      \* timeopts.nofail: failures are warnings
    Disabling    \* timeopts.disabling: disabled outputs are warnings

ASSUME FlagsAssumption == NoFail \in BOOLEAN /\ Disabling \in BOOLEAN

Event(N)  == 1 .. (N.nevents - 1)
Place(N)  == N.nevents .. (N.nevents + N.nplaces - 1)
Signal(N) == 0 .. (N.nsignals - 1)
Output(N) == N.ninpsig .. (N.nsignals - 1)
Input(N)  == 0 .. (N.ninpsig - 1)

Values == {"0", "1", "X"}
Codes  == {"0", "1", "X", "R", "F"}

(* A rule into an event owns a bit of the marking; a rule into a place has *)
(* one too, but nothing ever reads or writes it.                           *)
Markable(N) == {r \in N.rules : r[2] \in Event(N)}

(* Both rules record the token of the same place.                          *)
SamePlace(N, r, s) == r[1] \in Place(N) /\ s[1] = r[1]

(* The place a rule takes its token from: its own, or the implicit place   *)
(* of a rule between two events.                                           *)
Cell(N, r) == IF r[1] \in Place(N) THEN <<r[1]>> ELSE r

(* What the arrays of a net hold, and how their indices are used.          *)
NetShape(N) ==
    /\ N.nevents \in Nat \ {0} /\ N.nplaces \in Nat
    /\ N.nsignals \in Nat /\ N.ninpsig \in 0 .. N.nsignals
    /\ N.rules \subseteq (Event(N) \X (Event(N) \cup Place(N)))
                            \cup (Place(N) \X Event(N))
    /\ N.constraint \subseteq N.rules
    /\ N.level \in [Markable(N) -> SUBSET [Signal(N) -> Values]]
    /\ N.marked \subseteq Markable(N)
    /\ N.signal \in [Event(N) -> -1 .. (N.nsignals - 1)]
    /\ N.rising \in [Event(N) -> BOOLEAN]
    /\ N.start \in [Signal(N) -> Values]
    /\ N.dropped \subseteq Event(N) \cup Place(N)

(* Every rule out of a place has the token of that place.                  *)
PlacesAgree(N) ==
    \A r, s \in Markable(N) :
        SamePlace(N, r, s) => (r \in N.marked <=> s \in N.marked)

(* What extract_rules builds from a parsed net: every rule out of a place  *)
(* gets the marking of that place.                                         *)
LoadedNet(N) == NetShape(N) /\ PlacesAgree(N)

Marking(N) == [marking   : SUBSET Markable(N),
               state     : [Signal(N) -> Codes],
               enablings : SUBSET Event(N)]

-----------------------------------------------------------------------------
(* Enabling                                                                *)

(* The value a signal has while it is coded as enabled to change.          *)
Val(c) == IF c = "R" THEN "0" ELSE IF c = "F" THEN "1" ELSE c

(* A level expression is a disjunction of products; no product: false.     *)
LevelSatisfied(N, r, state) ==
    \E product \in N.level[r] : \A s \in Signal(N) :
        /\ product[s] = "1" => state[s] \notin {"0", "R"}
        /\ product[s] = "0" => state[s] \notin {"1", "F"}

MarkedAndSatisfied(N, marking, state, r) ==
    r \in marking /\ LevelSatisfied(N, r, state)

(* The enabled events, constraint rules aside.                             *)
EventsEnabled(N, marking, state) ==
    {e \in Event(N) :
        /\ e \notin N.dropped
        /\ \A r \in Markable(N) \ N.constraint :
              r[2] = e => MarkedAndSatisfied(N, marking, state, r)}

(* The check made when an event fires: its constraint rules count too.     *)
EventEnabled(N, marking, state, e) ==
    /\ e \notin N.dropped
    /\ \A r \in Markable(N) :
          r[2] = e => MarkedAndSatisfied(N, marking, state, r)

(* Faulty: only rising edges are checked.                                  *)
CheckConsistencyRising(N, e, state) ==
    N.signal[e] \in Output(N) /\ N.rising[e] => state[N.signal[e]] \in {"0", "R"}

(* An output may only be enabled to leave the value it has.  Inputs are    *)
(* not checked.                                                            *)
CheckConsistency(N, e, state) ==
    N.signal[e] \in Output(N) =>
        state[N.signal[e]] \in (IF N.rising[e] THEN {"0", "R"} ELSE {"1", "F"})

(* The enabled events are visited in index order and each overwrites the   *)
(* code of its signal, so the last of them decides.                        *)
MarkEnabled(N, enabled, state) ==
    [s \in Signal(N) |->
        IF \A e \in enabled : N.signal[e] # s THEN state[s]
        ELSE IF \E e \in enabled :
                   /\ N.signal[e] = s /\ ~N.rising[e]
                   /\ \A f \in enabled :
                         N.signal[f] = s /\ N.rising[f] => f < e
             THEN "F" ELSE "R"]

(* Faulty: falling codes are kept.                                         *)
ClearRising(state) == [s \in DOMAIN state |-> IF state[s] = "R" THEN "0" ELSE state[s]]

ClearEnabled(state) == [s \in DOMAIN state |-> Val(state[s])]

-----------------------------------------------------------------------------
(* Firing                                                                  *)

(* Faulty: the other rules out of a fan-in place keep their bits.          *)
FanInOwn(N, e) == {r \in Markable(N) : r[2] = e}

(* Faulty: rules into places are marked as well.                           *)
FanOutAll(N, e) ==
    {r \in N.rules : \/ r[1] = e
                     \/ r[1] \in Place(N) /\ <<e, r[1]>> \in N.rules}

(* The bits cleared when e fires: those of its own rules and, for each of  *)
(* its fan-in places, of every rule out of the place.                      *)
FanIn(N, e) ==
    {r \in Markable(N) : \/ r[2] = e
                         \/ r[1] \in Place(N) /\ <<r[1], e>> \in N.rules}

(* The bits set: the fan-out rules to events and every rule out of the     *)
(* fan-out places.                                                         *)
FanOut(N, e) ==
    {r \in Markable(N) : \/ r[1] = e
                         \/ r[1] \in Place(N) /\ <<e, r[1]>> \in N.rules}

ConstraintFailure(N, mk, e) ==
    ~NoFail /\ ~EventEnabled(N, mk.marking, mk.state, e)

(* Faulty: the check looks at the rules of e alone.                        *)
SafetyOfOwnRules(N, mk, e) == \E r \in mk.marking \ FanIn(N, e) : r[1] = e

SafetyFailure(N, mk, e) == FanOut(N, e) \cap (mk.marking \ FanIn(N, e)) # {}

VacuousFailure(N, mk, e) ==
    N.signal[e] >= 0 /\ mk.state[N.signal[e]] \notin {"R", "F"}

(* The marking after e has fired, its enabled events not yet recomputed.   *)
FireTransition(N, mk, e) ==
    [marking   |-> (mk.marking \ FanIn(N, e)) \cup FanOut(N, e),
     state     |-> [s \in Signal(N) |->
                       IF s # N.signal[e] THEN mk.state[s]
                       ELSE IF mk.state[s] = "R" THEN "1" ELSE "0"],
     enablings |-> mk.enablings \ {e}]

(* Faulty: enablings are only ever added.                                  *)
UpdateAddingEnablings(N, mk) ==
    LET base    == ClearEnabled(mk.state)
        enabled == EventsEnabled(N, mk.marking, base)
    IN  [marking   |-> mk.marking,
         state     |-> MarkEnabled(N, enabled, base),
         enablings |-> mk.enablings \cup enabled]

UpdateState(N, mk) ==
    LET base    == ClearEnabled(mk.state)
        enabled == EventsEnabled(N, mk.marking, base)
    IN  [marking   |-> mk.marking,
         state     |-> MarkEnabled(N, enabled, base),
         enablings |-> enabled]

Inconsistent(N, marking, state) ==
    \E e \in EventsEnabled(N, marking, state) : ~CheckConsistency(N, e, state)

(* Faulty: the first output is taken for an input.                         *)
DisablesLaterOutput(N, mk) ==
    \E e \in mk.enablings \ EventsEnabled(N, mk.marking, ClearEnabled(mk.state)) :
        N.signal[e] > N.ninpsig

(* An output that was enabled, has not fired and no longer is enabled.     *)
DisablesOutput(N, mk) ==
    \E e \in mk.enablings \ EventsEnabled(N, mk.marking, ClearEnabled(mk.state)) :
        N.signal[e] >= N.ninpsig

UpdateFailure(N, mk) ==
    \/ Inconsistent(N, mk.marking, ClearEnabled(mk.state))
    \/ ~(Disabling \/ NoFail) /\ DisablesOutput(N, mk)

(* lpn_find_new_marking returns no marking: firing e in mk is a failure.   *)
Fails(N, mk, e) ==
    \/ ConstraintFailure(N, mk, e)
    \/ SafetyFailure(N, mk, e)
    \/ VacuousFailure(N, mk, e)
    \/ UpdateFailure(N, FireTransition(N, mk, e))

FindNewMarking(N, mk, e) == UpdateState(N, FireTransition(N, mk, e))

(* lpn_find_initial_marking, and when it returns none.                     *)
InitialMarking(N) ==
    LET enabled == EventsEnabled(N, N.marked, N.start)
    IN  [marking   |-> N.marked,
         state     |-> MarkEnabled(N, enabled, N.start),
         enablings |-> enabled]

NoInitialMarking(N) == Inconsistent(N, N.marked, N.start)

(* What the code does not check: no input is enabled to take the value it  *)
(* has, in the start state and after any firing in mk.                     *)
InputsConsistent(N, marking, state) ==
    \A e \in EventsEnabled(N, marking, state) : N.signal[e] \in Input(N) =>
        state[N.signal[e]] \in (IF N.rising[e] THEN {"0", "R"} ELSE {"1", "F"})

InputsAgree(N, mk) ==
    /\ InputsConsistent(N, N.marked, N.start)
    /\ \A e \in mk.enablings : ~Fails(N, mk, e) =>
          LET fired == FireTransition(N, mk, e)
          IN  InputsConsistent(N, fired.marking, ClearEnabled(fired.state))

(* What happens in a marking with nothing to fire: a search succeeds when  *)
(* every constraint rule holds, a verification fails when some does.       *)
FoundDeadlock(N, mk, search) ==
    IF search
    THEN \A r \in N.constraint : MarkedAndSatisfied(N, mk.marking, mk.state, r)
    ELSE /\ ~NoFail
         /\ \E r \in N.constraint :
               MarkedAndSatisfied(N, mk.marking, mk.state, r)

=============================================================================
