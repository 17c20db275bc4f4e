# A verification development for ATACS

ATACS compiles, explores, verifies and synthesizes timed asynchronous circuits.
A design is described as a labelled Petri net (LPN), a timed event/level
structure (TEL), VHDL, CSP or a burst-mode machine; the program loads it into
one rule-based structure, explores its (timed) state space, and synthesizes or
verifies a circuit from the reduced state graph. The program is a single
sequential process. What is hard about it is not interleaving of threads but
long sequences of legal steps over redundant representations: markings kept as
one bit per rule, enablings kept three times over, states identified by part of
what they store, graphs built while they are explored and pruned while they are
built, and lists edited while they are scanned.

This directory holds TLA+ modules that model the core of the program, TLC
configurations that check them on small nets, and proofs that TLAPS checks for
all nets. Every definition is translated from the C source; `PROJECT.json`
("map") names the lines.

## 1. Inventory

File names are relative to `src/src`.

| component | code | state it keeps | operations | here |
|---|---|---|---|---|
| Net loader | `loadg.c`, `loader.c`, `loadrsg.c` | the global `design`: `events`, `signals`, `rules`, `markkey`, `startstate` | parse a net, number its events and signals, build rules and conflicts (`extract_rules`) | what it guarantees of a net, and the conflicts |
| LPN token game | `lpnrsg.c` 162-707 | a marking: rule bits, signal codes, enablings | initial marking, enabling, firing, failures | whole |
| LPN exploration | `lpnrsg.c` `lpn_rsg` | stack of markings and fire lists, state counters | pop, fire, add, push, failure, deadlock | whole without timing; with timing along one run |
| Partial-order reduction | `lpnrsg.c` 713-1164 | necessary-set cache | necessary, dependent, ample sets | whole |
| LPN zones | `lpnrsg.c` 1170-1795 | a difference-bound matrix per marking | initial zone, projection, extension, pruning, fireable events | whole but for pruning, on the nets of section 8 |
| State table | `findrsg.c` 975-2127 | hash table of states with pred/succ lists and lists of zones | look up, add, link, edit the zone list | key, edges, FAIL, zones; not orbits or BDDs |
| TEL engine | `findrsg.c` 2434-4900, `findred.c`, `addpers.c`, `addord.c` | markings of rules, order and persistence rules | `find_rsg`, `event_enabled`, `update_state`, CSC and disabling checks, traces | planned |
| Timed TEL methods | `geom.c`, `approx.c`, `orbitsrsg.c`, `common_timing.c` | regions, posets | timed exploration | not modelled: see section 8 |
| Hybrid nets | `lhpnrsg.c`, `hpnrsg.c`, `srllpnrsg.c` | zones with rates, Booleans, continuous variables | timed hybrid exploration | not modelled |
| State graph projection | `project.c` | the state table, a flag per state | merge the states that a dummy event joins, move their links, mend the codes | whole but for FAIL states, clocks and probabilities |
| CTL checker | `ctlchecker.c`, `ctl.y` | sets of states, colours and times of a depth-first search | rewrite the formula, fixpoints, fair components | whole but for the printed witness |
| Circuit verifier | `verify.c`, `loadac.c` | gate states composed with specification states | conformance check | planned |
| LPN transformations | `lpntrsfm.c` | the rules of the design | remove and merge places and transitions | whole but for delays and hybrid nets |
| Synthesis | `findconf.c`, `findcover.c`, `bcp.c`, `primes.c`, `exact.c`, `heursyn.c`, ... | excitation regions, covers | conflicts, primes, covering | covering core planned |
| State coding, decomposition, technology mapping | `solvecsc.c`, `stateasgn.c`, `decomp.c`, `match_cov.c`, ... | heuristics' tables | | not modelled |
| Symbolic exploration | `symbolic.c`, `smtsym.c`, `bddrsg.c` | BDDs of an external library | | not modelled |
| Simulators | `simulate.c`, `hpnsim.c`, `lhpnsim.c` | a marking and clocks | random firing | not modelled |
| Status pipeline | `atacs.c`, `memaloc.c` | `design->status`, options | every command: which earlier results it needs and invalidates | planned |
| Parsers, storage, display, GUI | generated or pure output | | | not modelled |

**How they interact.** `atacs.c` reads a command and calls the components in
order, with the whole design passed by reference. The loader fills the design
and, when post-processing is on, calls `transform` on it before it returns.
`timed_state_space_exploration_methods` (`findrsg.c` 4903) dispatches on the
kind of design and method; for an LPN it calls `lpn_rsg`, which calls the token
game (`lpn_find_new_marking`) for each event of a fire list, asks the state
table (`add_state`) whether the result is new, and asks the reduction
(`get_ample_set`) which events to fire from it. The state table is the only
result: it is read by the CTL checker, by the reduced-state-graph routines
(which project it first), by synthesis, and for error traces.

**What is hard**, and therefore what the properties are about:

* *protocol sequences*: the token of one place is a bit in every rule out of the
  place; firings set and clear them one by one.
* *stale state*: enablings are computed from the state, and then the state is
  recoded from the enablings; the state table compares states but not enablings.
* *partial failure*: a failure is recorded as a state of the graph, and with
  `nofail` or `keepgoing` exploration goes on after it.
* *editing while scanning*: adding a zone removes others from the list that is
  being scanned, through a `prev` pointer and a flag that must be reset.
* *arbitrary order*: the searches of the CTL checker and the merging of states
  take states in the order of a hash table, of link lists and of addresses; the
  result must not depend on it.
* *redundant links*: an edge of the graph is a successor link of one state and a
  predecessor link of another, and merging two states edits both lists of each.
* *forgotten causes*: a zone keeps differences of firing times and not what
  enabled what; causes are guessed from the keys it has kept, and the firings of
  one fire list work on one shared matrix.
* *reduction*: ample sets must not hide a stuck marking or a failure, and neither
  must the removal of an event from a net.
* *rewriting*: a transformation edits the rules of a place one by one, on a net
  that earlier ones have left; each assumes what none of them checks.
* *termination* of the exploration, of the scan and of the rewriting.

There are no threads, and nothing is persisted between steps: interleaving and
crash recovery are not hazards of this code.

**Correctness, component by component.** The game plays a 1-safe Petri net whose
outputs are semi-modular. The exploration is a graph search: complete, sound,
ending, with exact counts and traces that lead home. The reduction keeps what
the reduced graph is used for. Zones contain every time at which the net can fire, and adding one to
the table loses none. The CTL checker computes the fixpoints of the logic, over
fair paths. Projection merges exactly the states that silent firings join and
keeps every other firing. A transformed net does whatever the
net did, and fails whenever it failed.

## 2. Modules

| module | models | kind |
|---|---|---|
| `LpnNet` | loaded nets (`LoadedNet`), enabling, one firing of an event | operators |
| `LpnTokenGame` | the game: `Fire`, `Fail` | specification |
| `PetriNet` | what the game promises: tokens on places | abstract specification |
| `LpnNetProofs` | firing makes markings of markings; sets of numbers with a smallest element | lemmas |
| `LpnTokenGameProofs` | invariants and refinement of the game | proofs |
| `LpnExplore` | `lpn_rsg` without timing, with the state table | specification |
| `GraphSearch` | what any exploration promises | abstract specification |
| `LpnExploreProofs` | invariants and refinement of the exploration; conflicts cover theft; ample sets | proofs |
| `LpnConflict` | the conflicts that `extract_rules` computes | operators |
| `LpnAmple` | necessary, dependent and ample sets | operators |
| `LpnReduction` | `LpnExplore` run with ample sets, and the whole graph | composition |
| `ZoneList` | `find_state`'s editing of the zones of one state | specification |
| `ZoneListProofs` | invariants of the zone list | proofs |
| `LpnZone` | zones of `lpn_rsg` with bap: matrices, causes, extension, projection, fire lists | operators |
| `LpnTimedGame` | the timed game along one run, the zones computed beside it | specification |
| `LpnTimedProofs` | matrices, zones and causes along a run: the invariants of the timed game | proofs |
| `CtlLogic` | state graphs, formulas, least and greatest fixpoints, fairness | definitions the checker is compared with |
| `CtlParser` | formulas, the rewriting done by the actions of the grammar, what the operators mean | operators |
| `CtlChecker` | `checkCTL` | specification |
| `CtlCheckerProofs` | what least fixpoints, reaching and components satisfy; the stack of calls, the fixpoints, the two searches of `stateSCC`, and EG; what the operations left of a formula compute | proofs |
| `StateProject` | `project` | specification |
| `StateProjectProofs` | what the merges do to the lists, and what is left of the graph | proofs |
| `LpnTransform` | `transform`, and the game played on the net before and after it | specification |
| `LpnTransformProofs` | what every transformation leaves is a net | proofs |
| `LpnSamples`, `TimedSamples`, `CtlSamples`, `ProjectSamples`, `TransformSamples` | the families of nets, state graphs and formulas TLC runs on | data |
| `MC*` | names for the configurations | TLC |

Operators whose comment starts with "Faulty" are mutated forms of the
definition that follows them; they show that a property can fail
(`PROJECT.json`, "mutants") and no specification uses them.

## 3. State and actions against the code

**Nets.** A net is a record. Event and place numbers, the numbering of signals
and the split into inputs and outputs are the code's. `rules` are the pairs with
a valid rule; `constraint` those of type ORDERING; all other types behave alike
in the game. A rule into an event owns a bit (`markkey`), and `Markable` is the
set of those rules; `dropped` are the events and places that the loader or a
transformation has dropped. The options `keepgoing` and `search`, which only the
exploration reads, are fields of the record. Level expressions are sets of products; a product is a
function from signals to `0`, `1`, `X`. Formatting of names is left out;
`rising` stands for the search of an event's name for a `+`.

`LoadedNet` states what `extract_rules` ensures: `NetShape`, rules go from events
to events or places and from places to events and the arrays have their sizes,
and `PlacesAgree`, rules out of one place get the same initial bit. It is the assumption (`NetsAssumption`) of every module.

**Markings** are records with the code's three fields. `lpn_find_new_marking`
copies a marking, fires, and updates. `FireTransition` and `UpdateState` are its
two parts, and `Fails` is the disjunction of its error returns, in terms of the
marking before. The loops over rules are set expressions (`FanIn`, `FanOut`).
The one loop whose order matters, the recoding of signals by enabled events in
index order, is `MarkEnabled`: the last enabled event of a signal decides.

**The exploration** (`LpnExplore`): `pc` names the places in `lpn_rsg`'s loop:
`start`, `pop` (the `while`), `fire` (the `for`), `stuck` (its `if (stuck)`) and
`done`. `todo` is the rest of the fire list, `number` is the state table
restricted to real states, `fail` the number of the FAIL state and `failEdges`
its predecessor list. One step is one iteration of a loop. `FireList` is a
parameter: all enabled events, or an ample set. The number of an old FAIL state
does not change, and the FAIL state of a stuck marking takes `sn` without
incrementing it, as in the code.

**The reduction** (`LpnAmple`): a search is a function from the cache it starts with
to its answer, which holds the cache it leaves. `GetNecessarySet(N, m)[TD][t]` is the
search for `t` without the events of `TD`; it is a recursive function, and the
helpers between its nested calls (`transition_recurse`, `literal_recurse`,
`AND_recurse`, `OR_recurse`) are operators that take it as an argument (`get`). So
the shared array `TD` is an index, which the code sets before a nested call and
resets after it, and `nec_cache` goes from answer to answer; `Unknown` is its
null pointer. Loops over events, signals and products in index order are `InOrder`.
A loop that ends early is the field `stop`. `GetDependentSet(N, m)[i]` takes the
events found so far with the cache, and returns both.

**The zone list** (`ZoneList`): `at`, `prev`, `superset`, `removed` are the
locals of `find_state`. The zone of the state is a function from some of the
dimensions to a bound. The comparison of two matrices is entry by entry over the
matched dimensions, so one bound per dimension has the same order structure
(less, equal, incomparable). A dimension that a zone lacks is unconstrained,
which is how the bap method uses zones with fewer clocks. Orbit matches, `genrg`
and `exp_enabled` are left out.

**LPN zones** (`LpnZone`, `LpnTimedGame`). A zone is the code's list of keys
(fired events, oldest first) and its matrix, without the row of the event that
is added and projected away again. `FindInitialZone`, `ExtendZone`,
`ProjectZone`, `Cause`, `Needed`, `GetFireable` and `Recanocalize` are the C
functions of these names; one phase of Floyd's loop is one function, which is
the same as the in-place update as long as the matrix is consistent, and
`ZoneCanonical` says that it is. The program hands one matrix to all firings of
a fire list and tightens it as it goes: `ZoneBefore(e)` is what the firings
before `e` have left of it. The actions are those of the loop of `lpn_rsg`: the
initial state, then a firing of the fire list in each step. What the model adds
is the *run*: a delay before each firing, and the history variables `age` (how
long each rule has been marked and satisfied), `ago` (how long since the firing
of each key) and `elapsed`. The zones never read them; the properties compare
the two. Bounds are integers and closed, so runs with integer delays take every
order of firings that real delays allow, and the corners of each zone.

**The CTL checker** (`CtlChecker`). `checkCTLRec` is a recursion over the
formula; its post-order is the sequence `prog`, `at` is the operation being
executed and `stack` the values of the calls that have returned; `PostOrder`,
part of the assumption on instances, says that each operation finds its
arguments there. Operators
without a loop are one step. `checkEU` and the last part of `checkEG` share the
loop over the set `T` (`work`); the first search of `stateSCC` keeps its
recursion as `path` and its finishing times as `finish`; the second takes one
component in a step. Sets of pointers, successor lists and the hash table are
iterated in an arbitrary order: each such choice is a `\E`. `CtlParser`
translates the grammar's actions (AF, AG, AU, AX, EF become NOT, OR, AND, EX, EG,
EU). A formula is the sequence of the reductions that the parser makes of it, each
with the numbers of the earlier ones that its arguments are; `Reduce` is the
grammar's actions, `Parse` applies them to one reduction after the other, and `Means`
and `Sat` give each operator its meaning in the same order.

**Projection** (`StateProject`). `succ` and `pred` are the linked lists of the
code as sequences of pairs, in the order of `exp_add_state`'s insertions, and
`RmPredLinks` and `RmSuccLinks` translate how they are edited: `Walk` keeps the
early end of the walk when the head of a list was removed, `InStateList` that
the event of the last link is not compared. A loop that removes links is the set
of the positions that stay (`At`); the repeated walks through one list, one for
each link from the absorbed state, are a function on their number (`Walked`).
`absorbed` is the colour -1, `zero`
the state with number 0. `rep`, a history variable, tells which state stands for
which original one.

**Net transformations** (`LpnTransform`). `net` is the net as it was loaded and
`design` the net as it is. `pc` follows `transform`: `check` (constraint rules
are looked at and implicit places made explicit), `events` (the loop over the
events, one event in a step), `merge` (`xform0`), `loops` (`xform1`), `pass` (the
end of the `do` loop). For each event the six transformations are tried in the
order of the code, and each has its action: `Can3a` to `Can4c` are its early
returns, `Merge3ab`, `Merge3c` and `Merge4` what it does to the rules. 3a and 3b
write the same rules under different guards, and so do 4a, 4b and 4c. `Rewrite`
stands for the assignments to a rule: its type, its token (`epsilon`) and its
level. `fix_constraints` looks only at rules that lead to a higher index and
removes none of them, against its comment (`lpntrsfm.c` 349-351), so an abstract
event that a constraint rule touches is protected by `check_constraints` alone.
`torn`, a history variable, tells that 4b has given a place after the event to
other consumers although it was marked. When the transformations have ended the model plays both nets: `mk` is a marking
of the old one; `images` are all markings the new one can have after the same
visible events, abstract events being invisible (`Follow` fires those, one round
in a step, until no marking is added); `alarm` says that one of these
has shown a failure, after which the program stops and nothing is left to
compare.

## 4. Runs

Deadlock checking is off in every run because the modelled functions return:
a state without successor is the end of the call.

| run | nets | shows |
|---|---|---|
| `game` | all nets over 2 events and 2 places; the same over 2 signals with edges that need not alternate; 2 alternating signals with level guards and 0-2 inputs | type correctness, uniform places, codes and stored enablings current, semi-modular outputs that change only by firing, refinement of `PetriNet` |
| `explore` | the nets of `game`, and 2 events and 2 places with `search` and `keepgoing` | numbers, traces, completeness also when failures do not end the exploration, no re-exploration, termination, refinement of `GraphSearch` |
| `reduce` | 2 events, 2 places; 3 events, 3 places; level guards | ample sets proper (enabled, not empty, closed under conflict), conflicts cover theft, stuck markings kept |
| `reduce_answer` | 2 events and 2 places | **violation** of `SameAnswer` |
| `zones_added` | 2 dimensions, bounds 0-1, 8 option sets | nothing lost, exact count, irredundant, scan ends |
| `timed` | plain nets of 3 events, two rings with levels, a join of three signals, a fork beside a loop; intervals [0,1], [1,2], [2,2], [1,inf) | no time and no firing lost, canonical zones, causes found again |
| `ctl` | graphs of 2 and 3 states with up to 2 events, all operators | type correctness with the height of the stack, fixpoints, components and EG exact in every order, result right, termination |
| `ctl_stuck` | graphs with states without successors | **violation** of `StuckStatesLoop` |
| `project` | graphs of 3 and 4 states with silent and visible events | no firing lost, links sound, merged exactly, termination |
| `project_preds` | the same of 3 states, also with an initial state nothing leads to | **violation** of `PredsKnown` |
| `transform` | all nets of 3 events and 3 places with one or two abstract events, within bounds on the arcs; 4 events with a fork, also with a marked place after the abstract event (with `xform2`, without which 3a to 3c are all there is); rings and forks of 2 signals and 2 abstract events, with guards and constraint rules | the result is a net, whose places agree unless 4b has torn one, no behaviour and no failure is lost, the passes end |
| `transform_hides` | the first family, without the restriction on production | **violation** of `NothingHidden` |

A passing run visits between 30 000 and 620 000 distinct states and takes at
most about three minutes. The runs of the LPN modules use one value of `NoFail`
and `Disabling`; the theorems cover every value.

**The violations.** `reduce_answer`: with ample sets `lpn_rsg` can return TRUE where it returns
FALSE without. `ctl_stuck`: a comment says that states without successors become
self-loops, and the loop under it does nothing; such a state satisfies no EG.
`project_preds`: a state without predecessors does not take over those of the
state it absorbs (the branch is commented out), and successor links without
predecessor links remain. In the nets the program is used on the initial state
is reached again, and `project` shows that all is well then.
`transform_hides`: an event that produces both before and after an abstract event
puts two tokens into the net and one into its abstraction, so that a place that
would get a second token never does; the document on the transformations says
that they only add behaviour.

**Bounds.** Two events and two places are enough for every relation of two
events the code distinguishes: sharing, feeding and stealing a place, read arcs
(self-loops), constraint rules, sources and sinks, unsafe firings. The family is
exhaustive, so no shape is left out by choice. Two signals with all guards over
the other signal give enabling and disabling by level. Three events with three
places (`ChoiceNets`, up to three output arcs) are what the reduction needs: two
events in conflict and one that enables or disables them from outside. In
`ZoneList` two dimensions make zones incomparable in both ways (different sets
of dimensions, crossed bounds), two bounds make them ordered, and five zones
(`MaxAdds` = 4) let one zone swallow several others: at the head, inside, the
only one, and the last.

Three states make components of every shape that matters: one state with and
without a loop, two, three, one that leads to another; two events tell fairness
in one component from fairness across two. Of two states that are exchangeable
only one naming is generated. Projection needs a fourth state to
merge two pairs whose links cross. The timed run is cut after four firings
(`MaxFirings`), with delays of at most three (`MaxDelay`), one more than the
largest finite bound (`MaxBound`): enough for a key to be made, to outlive the key that
caused it, to be needed by two enabled events and to be projected away. The four
families are the shapes on which the parts of `ExtendZone` differ: cause through
a place, direct, through a level; no cause; several keys to project; states in
which both edges of a signal wait.

The nets of `transform` exclude three shapes. In all of them every place has a
rule out of it, since otherwise the game has no bit for its token. No abstract
event has a place both before and after it, and no event produces both before
and after an abstract one, which `transform_hides` shows to be necessary. Abstract
events have no guard; the document on the transformations excludes guards that
the events after them do not imply. Three places are what 3c and xform1 need, the fourth makes 4a and 4b apply, and rings
of two abstract events make one removal work on what another has left. With them
every transformation is applied, the rarest (4a and 4b) in 18 nets.

## 5. Fairness

`LpnExplore` and `ZoneList` model sequential loops. Weak fairness of the next
step says only that the program keeps running. In `ZoneList` it is on the steps
of the scan and not on `FindState`, since nothing makes the caller add a zone.
`CtlChecker`, `StateProject` and `LpnTransform` are loops of the same kind, with
weak fairness of the next step. `LpnTimedGame` states no fairness: nothing in it must happen.

## 6. Proofs

All theorems hold for every set of loaded nets, all flags, for zones all
dimensions and bounds, and for the CTL checker and the projection every finite
state graph and every formula; the only assumptions are the named ones of the modules.

* **Game.** The inductive invariant `IInv` is `TypeOK`, `PlaceUniform`,
  `CodesMatchEnablings` and `EnabledInSomeView`. Uniformity is inductive because
  `FanIn` and `FanOut` are closed under `SamePlace`. The codes agree with the
  enablings because `UpdateState` clears all codes before it sets those of
  enabled events, and the consistency check makes the enabled events of an
  output have one edge. From it `OutputsPersist` and `OutputsChangeByFiring`
  follow for each step. `EnabledInSomeView` is needed for the refinement: the
  stored enablings need not be those of the stored state when an input has
  a value that its enabled edge contradicts, but they are those of some values
  of the inputs, which is what `PetriNet` allows.

  `EnablingsCurrent` is that they are those of the stored state, and it needs
  more: an input that is 1 and has an enabled rising event is recoded R, whose
  value is 0, after the enablings were computed (`lpnrsg.c` 636-652), and the
  code looks at outputs only (404). `InputsAgree` says of a marking that this
  does not happen in it or in the next one: the environment never enables an
  input to take the value it has. `EnablingsAreCurrent` is for the runs along
  which it holds; on the nets of the timed run TLC finds that it always does.
* **Exploration.** `IInv` has three parts: `Control` (what each `pc` implies),
  `Current` (the marking being explored is stored, and what of its fire list has
  been fired is in the graph), and `Progress` (every stored marking is on the
  stack, current, or fully in the graph). With `Store`, the invariant of the
  state table alone, they give exact numbers, traces, single exploration,
  completeness, and the refinement of `GraphSearch`: an answer TRUE needs that
  the stack is empty and everything stored is closed. `Types` adds that all
  stored markings are markings of the net; `TypeCorrect` assumes that fire lists
  hold events of the net, which both parameters the program has (all enabled
  events, ample sets) satisfy.
* **Conflicts.** `ThievesAreInConflict`: if `e` takes a token that `f` needs, each
  is in conflict with the other. It is about a detail of `extract_rules`, which
  stops at the first place that two events share: that place may be another one
  than the stolen one, but whichever it is, it gives a conflict of the one kind or
  the other (`FirstShared`, `SharingConflicts`).
* **Ample sets.** `AmpleSetsProper` is about the values of recursive definitions,
  so it begins with their existence. A nested call for a necessary set bars one
  event more (`OneMoreBarred`) and does not depend on what calls with fewer barred
  events do (`RulesAgree`, `CallsAgree`): by induction on the events not barred
  there is a function that satisfies the definition (`CallsExist`), and any
  such function answers every call with enabled events and a cache of such sets
  (`NecessaryType`), whatever cache it is given. The nested calls for dependent sets have no
  such index: they end because the set that they share has grown, so existence
  and what the calls do are proved together (`SeedGrows`, `SeedsExist`,
  `DependentGrows`). The invariant is `Grown`: between the call and its return only
  enabled events have been added, and each of them is settled, that is, every
  enabled event in conflict with it is there too. The events of the calls still
  open are not settled yet; they are those of the set that was given, which
  `Grown` leaves out. For the seed, which starts from the empty set, all are
  settled. `SameLoops` says of a loop what is used of it: a property of its result
  that depends on the elements passed so far and is kept by each step.
* **Zone list.** `IInv` is `TypeOK`, `Ordered` (kept zones are pairwise
  irredundant, when both options are on), `Scanning` (how `prev`, `at` and
  `superset` are related during a scan: `prev` is `at - 1` or the head was
  removed) and `Counted`. `Counted` holds the argument for `RegionsExact`: if
  the scan has removed a zone, the new zone is wider than it, and since stored
  zones are irredundant no other stored zone can make the new one redundant.
* **Zones of LPNs.** The theorems of `LpnTimedProofs` are for the nets of
  section 8 (`Simple`), every number of events, all bounds and delays below
  `INFIN`, and runs along which `InputsAgree` holds. `NetsAssumption` keeps the
  sums of bounds along a run below `INFIN`, since the code adds `int`s without
  looking; `MaxBound`, `MaxDelay` and `MaxFirings` are any numbers that allow it.
  The inductive invariant is `TimedInv` (`TimedInvariance`). `Past` orders the
  keys by their firing times and relates these to `age`; `Explained` says that an
  enabled event with a cause among the keys has been enabled since that key
  fired, and an event without one since the start. It is what survives of the
  causes after `lpn_project_zone` has forgotten keys, and `CausesRight` is read
  off it (`CausesAreRight`). `Holds` says that the times of the keys are in the
  zone, and `TimesInZone` is that. It is preserved because every bound that
  `lpn_find_causal` sets is met by whatever the run can do next (`MeetsAllowed`,
  where `Explained` is needed), because a phase of Floyd's algorithm removes no
  solution (`ThroughFits`), and because projecting a matrix projects its
  solutions. The firings before `e` in the same matrix are harmless for the same
  reason: each could have been next (`DelayExists`). `FireableInTime`
  takes, for an event that fires first, times for all enabled events that none
  of them precedes: the zone of `lpn_get_fireable` contains them, so no entry
  excludes the event. `Canonical`, the last part, is that no path through the matrix
  is shorter than its entry and that finite entries are bounded by the firings so
  far (at most `MaxBound` for each event, as each may have been added to the same
  matrix), so that no sum of two is taken for infinity. One phase of Floyd's
  algorithm closes one more clock (`PhaseCloses`); on a canonical matrix with one
  clock more the phases change only the row of the new one (`ExtensionPhase`).
  Closed entries and zero diagonals are what `ZoneCanonical` says.
* **CTL checker.** `TypeCorrect` counts: each operation takes its arguments and
  leaves one value, so the stack has the height of the post-order. The invariant
  of the fixpoints is `Growing`: a state that has left `T` has its predecessors
  in the set, and the set is within the least fixpoint (`FixpointsExact`). For
  the components, `FirstSearch` says that each state of the path reaches the
  innermost one and, with `Latest`, that when a state is finished every edge out
  of the finished states leads to a finished state or to one of the path that
  is reached from it. `LastIsRoot` draws the classical conclusion for the second
  search: of the states left, the one finished last reaches every state that
  reaches it; otherwise, of those it does not reach, the one finished last would
  refute `Latest`. Hence what `stateSCCHelp`
  takes is a whole component, and `SecondSearch` (`Taken`) keeps that for those
  taken before (`ComponentsFound`). `FairPathsFound` adds that a fair path in
  part of a component gives one in the whole (`FairUnion`), so nothing is missed
  by looking only at whole components.

  `VerdictsExact` puts this together for formulas of every depth. A program
  `Computes` a set if, wherever its operations occur in a longer one, they leave
  that set on top of the values they found (`Replay`). The three kinds of operations
  keep this (`LeafComputes`, `UnaryComputes`, `BinaryComputes`), so a reduction of the
  parser does (`ReduceComputes`), where the meaning of the operator that is rewritten
  comes in: `WeakUntil` is the dual by which AU becomes NOT EU, `Always` the one of
  AG and EF, `NextDual` that of AX; each relates a least fixpoint to the largest set
  that some condition keeps. Induction over the reductions (`ParseComputes`) ends in
  what the whole formula means. The invariant of the run is then that the stack is
  what the operations before the next one leave (`Replayed`), and that the argument
  of a loop stays on the stack until it ends (`Argued`); an operation with a loop
  returns the right set by `FixpointsExact` and `FairPathsFound`. `FormulasCompile`
  is that a formula never becomes a program that lacks an argument, so what
  `InstancesAssumption` asks of programs excludes no formula.
* **Projection.** The theorems are for every state graph without kept events and
  every numbering of its states, the order in which the hash table is walked. The
  invariant (`Inv`) says that each state left stands for a class of states that
  have its values (`ValuesKept`, `Classes`) and that silent firings join
  (`Joined`); that every link between states left is the image of a firing
  (`SuccSound`, `PredSound`), from which `LinksSound` is read off; and that every
  predecessor link has its successor link. The last is why `rm_pred_links`, which
  walks through the predecessors of a state once for each successor link from the
  absorbed one and stops early when it removes a head, walks often enough
  (`OneWalk`, `WalksDone`, `EnoughWalks`): no predecessor link to a freed
  state is left.

  `FiringsKept` needs the other direction, `PredComplete`: `rm_succ_links` finds
  the links it has to move by way of the predecessors, and `rm_pred_links` gives
  those of the absorbed state only to a state that has some itself. `PredsKept`
  is the argument that the comment at `project.c` 306 lacks. Suppose an absorbing
  state is left without predecessors: it had none, or only the one it absorbs.
  Every state has a firing into it, the initial one by `Proper`; so for the
  states of the class, and of the absorbed one, there is one that comes from
  inside and is silent, and following these backwards closes a circle of
  silent firings (`FiredInto`), which `Proper` excludes.
  `Settled` says that a state which has absorbed others, or which the loop has
  passed, has no silent link left. So the first pass already merges everything,
  and `ClassesMerged` follows.

  Two hypotheses came out of the proof. `OneEvent`, each change of values is
  made by one event, is there because `in_state_list` does not compare the event
  of the last link: a second event between the same two states would lose its
  predecessor link. That every state but the initial one is reached by an edge
  is part of `InstancesAssumption`, since `exp_add_state` is called for the
  target of a firing.
* **Transformations.** `TransformTypeCorrect` holds for every net, every choice of
  abstract events and every order of removals. The invariant (`IInv`) adds to
  `TypeOK` that the rules which `replace_constraints` puts back lead to places. 3a,
  3b and 3c are one lemma (`Merged3`), as are 4a, 4b and 4c (`Merge4`): each says
  of every place that stays whether it has a token afterwards (`Token3`, `Token4`)
  and that all its rules show it. `NewPlaceApart` is that two implicit places never
  get the same number. `UntornWithoutXform2` follows: without that option what
  is explored is a net that `extract_rules` could have built.

  The first form of `TypeOK` said so of every net, and the proof of it failed. 4b
  gives the places after `t` to the other consumers of the place before `t`
  (`lpntrsfm.c` 1490-1500) and writes the token on the new rules only if the place
  before `t` has it. A token after `t` stays on the old rules alone, and the new
  consumer never sees it. `doc/abstraction/abstraction.tex` 262-264 says "All places
  in postset(t) must have same marking (all marked or all unmarked) and place in
  preset(t) can be marked.  If anything is marked, new combined places are marked";
  the code checks neither and marks only in the second case. `torn` marks the
  nets to which this has happened, `TypeOK` leaves them out, and the nets of the run
  `transform` include some; in these `NothingHidden` still holds.

## 7. Only model-checked

Termination and `ScanEnds` (liveness). `DeadlocksKept`: that no stuck marking is lost
needs more of the net than `extract_rules` ensures. `literal_recurse` and the
conflicts over a level take every second event of a signal for the events of
one edge, and a signal whose start value is X satisfies a literal and is searched
for what would satisfy it. The nets of `reduce` number their events alternately
and start with 0 and 1. `NothingHidden`, that the
transformed net can follow the net, is a simulation between two games and holds
only for the shapes that section 4 names. What loops compute is proved without
recursion on data: a loop is a function on its counters (`phase` of
`Recanocalize`, `before` of `ZoneBefore`), and induction is on the set of counters
for which an invariant holds (`SetInduction`, `HistoryExists`, `CountTo`,
`CountUp`).

## 8. Not modelled, and why

Parsers and lexers are generated. Storage, display and the GUI have no state of
their own. Symbolic exploration is calls of a BDD or SMT library. The timed TEL
methods and the hybrid engines are variations of zone exploration over much more
data; the zone operations they share with the LPN engine come first. Heuristic
synthesis, decomposition and technology mapping are searches whose results are
checked by later passes of the program.

**Zones of LPNs.** `LpnTimedGame` takes nets in which all rules to an event have
the same bounds, without constraint rules, with one product per level, without
levels of an event over its own signal and without events that no rule leads to
(`Simple`). For the others the code makes an assumption that it documents as a
big one, that the latest event is the causal one: a rule that was enabled
earlier but has a larger bound then goes unnoticed, and `TimesInZone` fails for
want of the assumption, not of the code. The initial zone is wider than it could
be: `find_largest` (`lpnrsg.c` 1261) looks at the bound of a rule from event to
event that does not exist when a place is between them. This admits firings that
cannot happen in time, so the model claims that nothing is lost and not that
nothing is added. The timed exploration need not end: differences of firing
times are not widened, and two loops that never meet drift apart. Pruning
(`lpn_prune_past`) is called by nothing. The stack and the state
table are those of `LpnExplore` and `ZoneList`; the composition of all three is
not run.

**The rest of the checker and of the projection.** The witness that is printed
for a formula that fails is left out, as are states named FAIL, which only
`nofail` and `keepgoing` produce. The properties of `StateProject` are about
graphs without kept events, without circles of silent firings, and whose initial
state is reached again (`Proper`), and `FiringsKept` about graphs in which each
change of values is made by one event (`OneEvent`); with kept events, or with two
events for one change, `in_state_list` forgets a
comparison, which is listed as a hazard.

**Transformations.** Delays are left out: the transformations add, widen or
forget them, and the zones that would tell the difference are those of nets that
`LpnTimedGame` excludes. For a hybrid net `transform` does nothing. The
renumbering of the bits (`make_markkey`) has no counterpart, as the model names a
bit by its rule. `compress_design`, `xform2` and `xform5a` to `xform7` are called
by nothing. The static vectors of `fix_constraints` (`lpntrsfm.c` 353-355) are
never emptied, so that a second net loaded by one program gets rules of the
first; the model loads one net. The guards that 3a to 3c overwrite are listed as
a hazard.

Hazards without a property have a note in `PROJECT.json` that says why: most
are reads through a null pointer, which have no defined outcome to model.

## 9. Plan

1. Proofs about the modules that are only model-checked: `NothingHidden` for one
   transformation at a time, `DeadlocksKept` for nets with alternating events.
2. TEL engine: marking, ordering and persistence rules, `find_rsg`,
   `check_csc`, `check_disablings`, `find_trace`, against `GraphSearch`.
3. Unate covering core of synthesis against minimum covers.
4. Status pipeline of `atacs.c`: no command uses a result that a later option
   has invalidated.
5. The timed exploration with its stack and table: `LpnTimedGame` in the place
   of the token game in `LpnExplore`, with `ZoneList`.
