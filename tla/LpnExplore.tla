----------------------------- MODULE LpnExplore -----------------------------
(***************************************************************************)
(* lpn_rsg without timing: depth-first exploration of a loaded net.  The   *)
(* loop pops a marking, fires each event of its fire list in index order,  *)
(* and add_state stores every marking it has not seen, with its number and *)
(* the edge that led to it.  One step of the model is one iteration of a   *)
(* loop of the code.                                                       *)
(***************************************************************************)
EXTENDS LpnNet, Sequences

CONSTANTS
    Nets,             \* what lpn_rsg is called with: nets, see also below
    FireList(_, _)    \* FireList(N, m): the events tried in marking m

(* With a net goes how it is explored: keepgoing if a failed firing does   *)
(* not end it (timeopts.keepgoing), search for the search command, which   *)
(* looks for a stuck marking.                                              *)
ASSUME NetsAssumption ==
    \A N \in Nets : LoadedNet(N) /\ N.keepgoing \in BOOLEAN /\ N.search \in BOOLEAN

VARIABLES
    net,
    pc,        \* "start", "pop", "fire", "stuck" or "done"
    stack,     \* markings still to explore, with their fire lists; top last
    cur,       \* the marking being explored, <<>> before the first
    todo,      \* its events not yet fired
    number,    \* the state table: the number of each stored marking
    edges,     \* the pred and succ lists: <<from, event, to>>
    fail,      \* the number of the FAIL state, -1 while there is none
    failEdges, \* the edges into it: <<from, event>>
    sn,        \* the next state number
    answer     \* what lpn_rsg returned

vars == <<net, pc, stack, cur, todo, number, edges, fail, failEdges, sn, answer>>

Table == DOMAIN number

(* find_state compares the state and the marking, not the enablings.       *)
SameKey(m, n) == m.marking = n.marking /\ m.state = n.state

Entry(N, m) == [marking |-> m, firelist |-> FireList(N, m)]

Init ==
    /\ net \in Nets
    /\ pc = "start"
    /\ stack = <<>> /\ cur = <<>> /\ todo = {}
    /\ number = <<>>
    /\ edges = {} /\ fail = -1 /\ failEdges = {}
    /\ sn = 0
    /\ answer = "none"

FindInitial ==
    /\ pc = "start" /\ ~NoInitialMarking(net)
    /\ LET m == InitialMarking(net) IN
          /\ stack' = <<Entry(net, m)>>
          /\ number' = [n \in {m} |-> 0]
    /\ sn' = 1
    /\ pc' = "pop"
    /\ UNCHANGED <<net, cur, todo, edges, fail, failEdges, answer>>

BailOut ==
    /\ pc = "start" /\ NoInitialMarking(net)
    /\ pc' = "done" /\ answer' = "FALSE"
    /\ UNCHANGED <<net, stack, cur, todo, number, edges, fail, failEdges, sn>>

(* Faulty: the marking stays on the stack.                                 *)
PeekMarking ==
    /\ pc = "pop" /\ stack # <<>>
    /\ cur' = stack[Len(stack)].marking
    /\ todo' = Event(net) \cap stack[Len(stack)].firelist
    /\ pc' = IF todo' = {} THEN "stuck" ELSE "fire"
    /\ UNCHANGED <<net, stack, number, edges, fail, failEdges, sn, answer>>

PopMarking ==
    /\ pc = "pop" /\ stack # <<>>
    /\ LET top == stack[Len(stack)] IN
          /\ cur' = top.marking
          /\ todo' = Event(net) \cap top.firelist
    /\ stack' = SubSeq(stack, 1, Len(stack) - 1)
    /\ pc' = IF todo' = {} THEN "stuck" ELSE "fire"
    /\ UNCHANGED <<net, number, edges, fail, failEdges, sn, answer>>

(* Faulty: only the first edge into FAIL is kept.                          *)
AddFailOnce(e) ==
    /\ failEdges' = IF fail = -1 THEN {<<cur, e>>} ELSE failEdges
    /\ fail' = IF fail = -1 THEN sn ELSE fail

(* add_state creates the FAIL state the first time and links to it.        *)
AddFail(e) ==
    /\ failEdges' = failEdges \cup {<<cur, e>>}
    /\ fail' = IF fail = -1 THEN sn ELSE fail

(* Faulty: a failure that does not end the exploration takes a number.     *)
FireFailureCounted(e) ==
    /\ Fails(net, cur, e)
    /\ AddFail(e)
    /\ sn' = sn + 1
    /\ IF NoFail \/ net.keepgoing
       THEN UNCHANGED <<pc, answer>>
       ELSE pc' = "done" /\ answer' = "FALSE"
    /\ UNCHANGED <<stack, number, edges>>

FireFailure(e) ==
    /\ Fails(net, cur, e)
    /\ AddFail(e)
    /\ sn' = IF fail = -1 THEN sn + 1 ELSE sn
    /\ IF NoFail \/ net.keepgoing
       THEN UNCHANGED <<pc, answer>>
       ELSE pc' = "done" /\ answer' = "FALSE"
    /\ UNCHANGED <<stack, number, edges>>

(* Faulty: the edge is entered the wrong way round.                        *)
FireNewBackwards(e) ==
    LET m == FindNewMarking(net, cur, e) IN
    /\ ~Fails(net, cur, e)
    /\ \A k \in Table : ~SameKey(k, m)
    /\ number' = [n \in Table \cup {m} |-> IF n \in Table THEN number[n] ELSE sn]
    /\ edges' = edges \cup {<<m, e, cur>>}
    /\ stack' = Append(stack, Entry(net, m))
    /\ sn' = sn + 1
    /\ UNCHANGED <<fail, failEdges, pc, answer>>

FireNew(e) ==
    LET m == FindNewMarking(net, cur, e) IN
    /\ ~Fails(net, cur, e)
    /\ \A k \in Table : ~SameKey(k, m)
    /\ number' = [n \in Table \cup {m} |-> IF n \in Table THEN number[n] ELSE sn]
    /\ edges' = edges \cup {<<cur, e, m>>}
    /\ stack' = Append(stack, Entry(net, m))
    /\ sn' = sn + 1
    /\ UNCHANGED <<fail, failEdges, pc, answer>>

(* Faulty: a marking met again is explored again.                          *)
FireSeenAgain(e) ==
    /\ ~Fails(net, cur, e)
    /\ \E k \in Table :
          /\ SameKey(k, FindNewMarking(net, cur, e))
          /\ edges' = edges \cup {<<cur, e, k>>}
          /\ stack' = Append(stack, Entry(net, k))
    /\ UNCHANGED <<number, fail, failEdges, sn, pc, answer>>

FireSeen(e) ==
    /\ ~Fails(net, cur, e)
    /\ \E k \in Table :
          /\ SameKey(k, FindNewMarking(net, cur, e))
          /\ edges' = edges \cup {<<cur, e, k>>}
    /\ UNCHANGED <<stack, number, fail, failEdges, sn, pc, answer>>

FireNext ==
    /\ pc = "fire"
    /\ \E e \in todo :
          /\ \A f \in todo : e <= f
          /\ FireFailure(e) \/ FireNew(e) \/ FireSeen(e)
          /\ todo' = todo \ {e}
    /\ UNCHANGED <<net, cur>>

EndOfList ==
    /\ pc = "fire" /\ todo = {}
    /\ pc' = "pop"
    /\ UNCHANGED <<net, stack, cur, todo, number, edges, fail, failEdges, sn, answer>>

(* Faulty: the edge has the number of the first place.                     *)
StuckPlusOne ==
    /\ pc = "stuck"
    /\ IF FoundDeadlock(net, cur, net.search)
       THEN /\ AddFail(net.nevents + 1)
            /\ pc' = "done" /\ answer' = "FALSE"
       ELSE /\ pc' = "pop"
            /\ UNCHANGED <<fail, failEdges, answer>>
    /\ UNCHANGED <<net, stack, cur, todo, number, edges, sn>>

(* Faulty: a stuck marking is always passed over.                          *)
StuckIgnored ==
    /\ pc = "stuck"
    /\ pc' = "pop"
    /\ UNCHANGED <<net, stack, cur, todo, number, edges, fail, failEdges, sn, answer>>

(* Nothing to fire: the FAIL edge carries event number nevents.            *)
Stuck ==
    /\ pc = "stuck"
    /\ IF FoundDeadlock(net, cur, net.search)
       THEN /\ AddFail(net.nevents)
            /\ pc' = "done" /\ answer' = "FALSE"
       ELSE /\ pc' = "pop"
            /\ UNCHANGED <<fail, failEdges, answer>>
    /\ UNCHANGED <<net, stack, cur, todo, number, edges, sn>>

Finish ==
    /\ pc = "pop" /\ stack = <<>>
    /\ pc' = "done" /\ answer' = "TRUE"
    /\ UNCHANGED <<net, stack, cur, todo, number, edges, fail, failEdges, sn>>

Next == \/ FindInitial \/ BailOut \/ PopMarking \/ FireNext
        \/ EndOfList \/ Stuck \/ Finish

Spec == Init /\ [][Next]_vars

(* lpn_rsg is one sequential loop: nothing keeps it from its next step.    *)
FairSpec == Spec /\ WF_vars(Next)

-----------------------------------------------------------------------------
TypeOK ==
    /\ net \in Nets
    /\ pc \in {"start", "pop", "fire", "stuck", "done"}
    /\ stack \in Seq([marking : Marking(net), firelist : SUBSET Event(net)])
    /\ pc \in {"fire", "stuck"} => cur \in Marking(net)
    /\ todo \subseteq Event(net)
    /\ Table \subseteq Marking(net)
    /\ \A m \in Table : number[m] \in Nat
    /\ edges \subseteq Table \X Event(net) \X Table
    /\ failEdges \subseteq Table \X (1 .. net.nevents)
    /\ fail \in Nat \cup {-1} /\ sn \in Nat
    /\ answer \in {"none", "TRUE", "FALSE"}

(* State numbers are those of distinct states: the stored markings and the *)
(* FAIL state use 0, 1, 2 ... without a gap or a duplicate.                *)
NumbersExact ==
    /\ \A m, n \in Table : number[m] = number[n] => m = n
    /\ \A m \in Table : number[m] < sn /\ number[m] # fail
    /\ Cardinality(Table) + (IF fail # -1 /\ fail < sn THEN 1 ELSE 0) = sn

(* The edge lists never lie, and they lead back to the initial marking:    *)
(* every other stored marking has an edge from one stored before it.  The  *)
(* error traces are read off these lists.                                  *)
TracesExist ==
    /\ \A ed \in edges :
          /\ ed[2] \in FireList(net, ed[1]) /\ ~Fails(net, ed[1], ed[2])
          /\ SameKey(ed[3], FindNewMarking(net, ed[1], ed[2]))
    /\ \A m \in Table : number[m] > 0 =>
          \E ed \in edges : ed[3] = m /\ number[ed[1]] < number[m]

(* Each stored marking is explored once: it is on the stack at most once,  *)
(* and not while it is being explored.                                     *)
ExploredOnce ==
    /\ \A i, j \in 1 .. Len(stack) : stack[i].marking = stack[j].marking => i = j
    /\ pc \in {"fire", "stuck"} =>
          \A i \in 1 .. Len(stack) : stack[i].marking # cur

(* When the exploration ends with TRUE its graph is the whole graph: every *)
(* firing of every stored marking is an edge, to FAIL if it failed.        *)
FireEvents(N, m) == Event(N) \cap FireList(N, m)
GraphComplete ==
    answer = "TRUE" =>
        \A m \in Table : \A e \in FireEvents(net, m) :
            IF Fails(net, m, e) THEN <<m, e>> \in failEdges
            ELSE \E k \in Table : <<m, e, k>> \in edges

(* The exploration of a finite net ends.                                   *)
Terminates == <>(pc = "done")

(* The graph explored, and when a marking ends the exploration.            *)
Successors(N, m) ==
    {FindNewMarking(N, m, e) : e \in {f \in FireEvents(N, m) : ~Fails(N, m, f)}}
EndsSearch(N, m) ==
    \/ ~NoFail /\ ~N.keepgoing /\ \E e \in FireEvents(N, m) : Fails(N, m, e)
    \/ FireEvents(N, m) = {} /\ FoundDeadlock(N, m, N.search)
Initial(N) == IF NoInitialMarking(N) THEN {} ELSE {InitialMarking(N)}

(* The exploration implements GraphSearch: see there.                      *)
Abstract == INSTANCE GraphSearch WITH
    Start <- Initial, Succ <- Successors, Same <- SameKey, Bad <- EndsSearch,
    seen <- Table

AbstractSpec == Abstract!Spec

=============================================================================
