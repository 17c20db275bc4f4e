---------------------------- MODULE LpnTransform ----------------------------
(***************************************************************************)
(* The net transformations (lpntrsfm.c): transform removes the dummy       *)
(* events that the user has declared abstract, and places that make no     *)
(* difference, until no transformation applies.  The loader calls it when  *)
(* post-processing is on; what is explored is the result.                  *)
(*                                                                         *)
(* When it has returned, the game is played on the net as it was and, by   *)
(* sets of markings, on the net as it is: the documents say that the       *)
(* transformations only add behaviour, so that a failure of the net is     *)
(* always found in its abstraction.  The abstract events that are left     *)
(* fire on their own in the second game, before it goes on with the first. *)
(*                                                                         *)
(* With a net goes the set of its abstract events and the option xform2.   *)
(* Delays are left out, and constraint rules from an abstract event to     *)
(* itself, which the code overlooks.                                       *)
(***************************************************************************)
EXTENDS LpnNet

CONSTANT Nets

Fields == {"nevents", "nplaces", "nsignals", "ninpsig", "rules", "constraint", "level",
           "marked", "signal", "rising", "start", "dropped", "abstract", "xform2"}

ASSUME NetsAssumption ==
    \A N \in Nets :
        /\ DOMAIN N = Fields /\ LoadedNet(N)
        /\ N.abstract \subseteq {e \in Event(N) : N.signal[e] = -1}
        /\ \A e \in N.abstract : <<e, e>> \notin N.constraint
        /\ N.xform2 \in BOOLEAN

VARIABLES
    net,       \* the net as it was loaded
    design,    \* the net as it is
    saved,     \* the rules that fix_constraints has recorded
    torn,      \* history: 4b has given a marked place to another consumer
    pc,        \* "check"; "events", "merge", "loops", "pass"; "follow",
               \* "compare", "failed"
    at,        \* the event whose removal is tried next
    modified,  \* something was changed in this pass
    mk,        \* the marking of the net as it was
    images,    \* the markings of the other after the same visible events
    alarm      \* one of these has shown a failure

game == <<mk, images, alarm>>
vars == <<net, design, saved, torn, pc, at, modified, game>>

-----------------------------------------------------------------------------
(* The neighbours of an event and of a place, in an expanded design.       *)
Preset(N, t)     == {p \in Place(N) : <<p, t>> \in N.rules}
Postset(N, t)    == {p \in Place(N) : <<t, p>> \in N.rules}
Neighbours(N, t) == Preset(N, t) \cup Postset(N, t)
Producers(N, p)  == {t \in Event(N) : <<t, p>> \in N.rules}
Consumers(N, p)  == {t \in Event(N) : <<p, t>> \in N.rules}

MarkedPlace(N, p) == \E r \in N.marked : r[1] = p

(* The design with some rules removed and others written over or added,    *)
(* which are of type TRIGGER; level is that of those into events.          *)
Rewrite(N, gone, new, marked, level, dropped) ==
    LET rules == (N.rules \ gone) \cup new IN
    [N EXCEPT !.rules = rules,
              !.constraint = (@ \cap rules) \ new,
              !.marked = marked \cap rules,
              !.level = [r \in {s \in rules : s[2] \in Event(N)} |->
                            IF r \in new THEN level[r] ELSE @[r]],
              !.dropped = @ \cup dropped]

-----------------------------------------------------------------------------
(* Before                                                                  *)

Implicit(N) == {r \in N.rules : r[1] \in Event(N) /\ r[2] \in Event(N)}

(* Events that a constraint rule connects may not be removed.              *)
CheckConstraints(N) ==
    {e \in N.abstract :
        \A r \in N.constraint :
            /\ r \in Implicit(N) /\ r[1] # r[2] => e \notin {r[1], r[2]}
            /\ r[1] \in Place(N) => e # r[2] /\ <<e, r[1]>> \notin N.rules}

(* Implicit places become places, numbered in the order of their rules.    *)
ExpandDesign(N) ==
    LET implicit == Implicit(N)
        place(r) == N.nevents + N.nplaces
                       + Cardinality({s \in implicit : \/ s[1] < r[1]
                                                       \/ s[1] = r[1] /\ s[2] < r[2]})
        into(r)  == <<place(r), r[2]>>
        from(r)  == <<r[1], place(r)>>
        rules    == (N.rules \ implicit) \cup {into(r) : r \in implicit}
                                         \cup {from(r) : r \in implicit}
    IN  [N EXCEPT
           !.nplaces = @ + Cardinality(implicit),
           !.rules = rules,
           !.constraint = (@ \ implicit) \cup {into(r) : r \in @ \cap implicit}
                                         \cup {from(r) : r \in @ \cap implicit},
           !.marked = (@ \ implicit) \cup {into(r) : r \in @ \cap implicit},
           !.level = [s \in {r \in rules : r[2] \in Event(N)} |->
                         IF s \in N.rules THEN @[s]
                         ELSE @[CHOOSE r \in implicit : into(r) = s]]]

(* fix_constraints records the constraint rules that lead to a higher      *)
(* index, which are those from an event to a place, and removes nothing.   *)
Prepare ==
    /\ pc = "check"
    /\ design' = [ExpandDesign(net) EXCEPT !.abstract = CheckConstraints(net)]
    /\ saved' = {r \in design'.constraint : r[1] < r[2]}
    /\ pc' = "events" /\ at' = 1 /\ modified' = FALSE
    /\ UNCHANGED <<net, torn, game>>

-----------------------------------------------------------------------------
(* Removing an event t with one place q in its postset (3a, 3b, 3c)        *)

Exclusive(N, t) == \A p \in Preset(N, t) : Consumers(N, p) = {t}
PreMarked(N, t) == \E p \in Preset(N, t) : <<p, t>> \in N.marked

Mergeable3(N, t, q) ==
    /\ Postset(N, t) = {q}
    /\ Preset(N, t) # {} /\ Consumers(N, q) # {}
    /\ ~(PreMarked(N, t) /\ MarkedPlace(N, q))

Can3a(N, t, q) == Mergeable3(N, t, q) /\ Exclusive(N, t) /\ Producers(N, q) = {t}
Can3b(N, t, q) == Mergeable3(N, t, q) /\ Producers(N, q) = {t}
Can3c(N, t, q) == Mergeable3(N, t, q) /\ Exclusive(N, t)

(* The rules from q to its consumers become rules from the preset of t,    *)
(* with the level expressions of t.  A rule of t comes back if t consumes  *)
(* from q too and the place comes before q.                                *)
Moved3(N, t, q) ==
    {<<p, x>> : p \in Preset(N, t) \ {q}, x \in Consumers(N, q)}
        \ {<<p, t>> : p \in {r \in Preset(N, t) : r > q}}

(* Faulty: a token before t is not on the rules that replace those of t.   *)
Marked3Lost(N, t, q, new) ==
    IF MarkedPlace(N, q) THEN N.marked \cup new \cup {r \in N.rules : r[1] \in Preset(N, t)}
    ELSE N.marked

(* What is marked before or after t is marked in the places that stay.     *)
Marked3(N, t, q, new) ==
    IF MarkedPlace(N, q) THEN N.marked \cup new \cup {r \in N.rules : r[1] \in Preset(N, t)}
    ELSE N.marked \cup {r \in new : <<r[1], t>> \in N.marked}

Merge3ab(N, t, q) ==
    LET new == Moved3(N, t, q) IN
    Rewrite(N, {<<p, t>> : p \in Preset(N, t)} \cup {r \in N.rules : q \in {r[1], r[2]}},
            new, Marked3(N, t, q, new), [r \in new |-> N.level[<<r[1], t>>]], {t, q})

(* The other producers of q now produce into the preset of t.              *)
Merge3c(N, t, q) ==
    LET moved == {r \in Moved3(N, t, q) : r[2] # t}
        into  == (Producers(N, q) \ {t}) \X (Preset(N, t) \ {q})
    IN  Rewrite(N, {<<p, t>> : p \in Preset(N, t)} \cup {r \in N.rules : q \in {r[1], r[2]}},
                moved \cup into, Marked3(N, t, q, moved),
                [r \in moved |-> N.level[<<r[1], t>>]], {t, q})

-----------------------------------------------------------------------------
(* Removing an event t with one place p in its preset (4a, 4b, 4c)         *)

PostMarked(N, t)    == \E q \in Postset(N, t) : MarkedPlace(N, q)
OnlyProducer(N, t)  == \A q \in Postset(N, t) : Producers(N, q) = {t}

Mergeable4(N, t, p) ==
    /\ Preset(N, t) = {p}
    /\ Producers(N, p) # {} /\ Postset(N, t) # {}
    /\ ~(PreMarked(N, t) /\ PostMarked(N, t))
    /\ \A q \in Postset(N, t) : Producers(N, p) \cap Consumers(N, q) = {}

Can4a(N, t, p) == /\ Mergeable4(N, t, p) /\ Consumers(N, p) = {t}
                  /\ OnlyProducer(N, t) /\ ~PostMarked(N, t)
Can4b(N, t, p) == Mergeable4(N, t, p) /\ OnlyProducer(N, t)
Can4c(N, t, p) == Mergeable4(N, t, p) /\ Consumers(N, p) = {t}

TrueLevel(N) == {[s \in Signal(N) |-> "X"]}

(* Faulty: only the rules that were there get the token.                   *)
Marked4Old(N, t, new) ==
    IF PreMarked(N, t) THEN N.marked \cup {r \in N.rules : r[1] \in Postset(N, t)}
    ELSE N.marked

(* A token before t is put into the places after it.                       *)
Marked4(N, t, new) ==
    IF PreMarked(N, t) THEN N.marked \cup {r \in N.rules \cup new : r[1] \in Postset(N, t)}
    ELSE N.marked

(* The producers of p produce into the postset of t, and the other         *)
(* consumers of p, without their level expressions, consume from it.       *)
Merge4(N, t, p) ==
    LET new == (Postset(N, t) \X (Consumers(N, p) \ {t}))
                   \cup (Producers(N, p) \X Postset(N, t))
    IN  Rewrite(N, {<<t, q>> : q \in Postset(N, t)} \cup {r \in N.rules : p \in {r[1], r[2]}},
                new, Marked4(N, t, new), [r \in new |-> TrueLevel(N)], {t, p})

(* The token of a place after t is not on its new rules to consumers of p. *)
Tears(N, t, p) == PostMarked(N, t) /\ Consumers(N, p) # {t}

-----------------------------------------------------------------------------
(* A pass over the events: each is removed by the first that applies.      *)
Xforms == <<"3a", "4a", "3b", "4b", "3c", "4c">>

Can(N, k, t, p) ==
    CASE Xforms[k] = "3a" -> Can3a(N, t, p) [] Xforms[k] = "4a" -> N.xform2 /\ Can4a(N, t, p)
      [] Xforms[k] = "3b" -> Can3b(N, t, p) [] Xforms[k] = "4b" -> N.xform2 /\ Can4b(N, t, p)
      [] Xforms[k] = "3c" -> Can3c(N, t, p) [] Xforms[k] = "4c" -> N.xform2 /\ Can4c(N, t, p)

Applies(N, k, t) == \E p \in Neighbours(N, t) : Can(N, k, t, p)

(* No transformation before the k-th removes the event that is tried.      *)
First(k) ==
    /\ pc = "events" /\ at \in design.abstract \ design.dropped
    /\ \A j \in 1 .. (k - 1) : ~Applies(design, j, at)

Removed ==
    /\ at' = at + 1 /\ modified' = TRUE
    /\ UNCHANGED <<net, saved, pc, game>>

Xform3a ==
    /\ First(1)
    /\ \E p \in Neighbours(design, at) :
          Can(design, 1, at, p) /\ design' = Merge3ab(design, at, p)
    /\ Removed /\ UNCHANGED torn

Xform4a ==
    /\ First(2)
    /\ \E p \in Neighbours(design, at) :
          Can(design, 2, at, p) /\ design' = Merge4(design, at, p)
    /\ Removed /\ UNCHANGED torn

Xform3b ==
    /\ First(3)
    /\ \E p \in Neighbours(design, at) :
          Can(design, 3, at, p) /\ design' = Merge3ab(design, at, p)
    /\ Removed /\ UNCHANGED torn

Xform4b ==
    /\ First(4)
    /\ \E p \in Neighbours(design, at) :
          /\ Can(design, 4, at, p)
          /\ design' = Merge4(design, at, p)
          /\ torn' = (torn \/ Tears(design, at, p))
    /\ Removed

Xform3c ==
    /\ First(5)
    /\ \E p \in Neighbours(design, at) :
          Can(design, 5, at, p) /\ design' = Merge3c(design, at, p)
    /\ Removed /\ UNCHANGED torn

Xform4c ==
    /\ First(6)
    /\ \E p \in Neighbours(design, at) :
          Can(design, 6, at, p) /\ design' = Merge4(design, at, p)
    /\ Removed /\ UNCHANGED torn

KeepEvent ==
    /\ pc = "events" /\ at \in Event(design)
    /\ at \in design.abstract \ design.dropped =>
          \A k \in DOMAIN Xforms : ~Applies(design, k, at)
    /\ at' = at + 1
    /\ UNCHANGED <<net, design, saved, torn, pc, modified, game>>

EventsTried ==
    /\ pc = "events" /\ at = design.nevents
    /\ pc' = "merge"
    /\ UNCHANGED <<net, design, saved, torn, at, modified, game>>

(* xform0: places with the same rules, types and tokens are merged.        *)
Parallel(N, p, q) ==
    \A t \in Event(N) \ N.dropped :
        \A set \in {N.rules, N.constraint, N.marked} :
            /\ <<p, t>> \in set <=> <<q, t>> \in set
            /\ <<t, p>> \in set <=> <<t, q>> \in set

(* Faulty: places that have been dropped are compared again.               *)
DuplicatesDropped(N) == {q \in Place(N) : \E p \in Place(N) : p < q /\ Parallel(N, p, q)}

Duplicates(N) ==
    {q \in Place(N) \ N.dropped :
        \E p \in Place(N) \ N.dropped : p < q /\ Parallel(N, p, q)}

Drop(N, places) ==
    Rewrite(N, {r \in N.rules : r[1] \in places \/ r[2] \in places}, {}, N.marked,
            <<>>, places)

Xform0 ==
    /\ pc = "merge"
    /\ IF Duplicates(design) = {}
       THEN /\ pc' = IF design.xform2 THEN "loops" ELSE "pass"
            /\ UNCHANGED <<design, modified>>
       ELSE /\ design' = Drop(design, Duplicates(design))
            /\ modified' = TRUE /\ pc' = "pass"
    /\ UNCHANGED <<net, saved, torn, at, game>>

(* xform1: a marked place that only t consumes and produces is removed if  *)
(* t has other places on both sides.                                       *)
SelfLoops(N) ==
    {p \in Place(N) \ N.dropped :
        \E t \in Event(N) :
            /\ Consumers(N, p) = {t} /\ Producers(N, p) = {t}
            /\ <<p, t>> \in N.marked
            /\ Preset(N, t) # {p} /\ Postset(N, t) # {p}}

Xform1 ==
    /\ pc = "loops"
    /\ IF SelfLoops(design) = {}
       THEN pc' = "pass" /\ UNCHANGED <<design, modified>>
       ELSE /\ \E p \in SelfLoops(design) :
                  /\ \A q \in SelfLoops(design) : p <= q
                  /\ design' = Drop(design, {p})
            /\ modified' = TRUE /\ UNCHANGED pc
    /\ UNCHANGED <<net, saved, torn, at, game>>

NextPass ==
    /\ pc = "pass" /\ modified
    /\ pc' = "events" /\ at' = 1 /\ modified' = FALSE
    /\ UNCHANGED <<net, design, saved, torn, game>>

-----------------------------------------------------------------------------
(* The game before and after                                               *)

Shows(N, M) == \E m \in M : \E e \in m.enablings : Fails(N, m, e)

After(N, M, events) ==
    UNION {{FindNewMarking(N, m, e) :
                e \in {f \in m.enablings \cap events : ~Fails(N, m, f)}} : m \in M}

(* replace_constraints; the exploration begins.                            *)
Return ==
    /\ pc = "pass" /\ ~modified
    /\ design' = [design EXCEPT !.rules = @ \cup saved, !.constraint = @ \cup saved]
    /\ pc' = "follow"
    /\ mk' = InitialMarking(net)
    /\ images' = {InitialMarking(design')}
    /\ alarm' = (NoInitialMarking(design') \/ Shows(design', images'))
    /\ UNCHANGED <<net, saved, torn, at, modified>>

(* The abstract events that are left fire in any order.                    *)
Follow ==
    /\ pc = "follow"
    /\ images' = images \cup After(design, images, design.abstract)
    /\ alarm' = (alarm \/ Shows(design, images'))
    /\ pc' = IF images' = images THEN "compare" ELSE pc
    /\ UNCHANGED <<net, design, saved, torn, at, modified, mk>>

(* One firing of the net as it was; nothing more can be learnt once the    *)
(* other has failed.                                                       *)
Play ==
    /\ pc = "compare" /\ ~alarm /\ ~NoInitialMarking(net)
    /\ \E e \in mk.enablings :
          /\ ~Fails(net, mk, e)
          /\ mk' = FindNewMarking(net, mk, e)
          /\ IF e \in design.abstract THEN UNCHANGED <<pc, images, alarm>>
             ELSE /\ pc' = "follow"
                  /\ images' = After(design, images, {e})
                  /\ alarm' = Shows(design, images')
    /\ UNCHANGED <<net, design, saved, torn, at, modified>>

PlayFailing ==
    /\ pc = "compare"
    /\ NoInitialMarking(net) \/ \E e \in mk.enablings : Fails(net, mk, e)
    /\ pc' = "failed"
    /\ UNCHANGED <<net, design, saved, torn, at, modified, game>>

Init ==
    /\ net \in Nets /\ design = net
    /\ saved = {} /\ torn = FALSE /\ pc = "check" /\ at = 0 /\ modified = FALSE
    /\ mk = <<>> /\ images = {} /\ alarm = FALSE

Next ==
    \/ Prepare
    \/ Xform3a \/ Xform4a \/ Xform3b \/ Xform4b \/ Xform3c \/ Xform4c
    \/ KeepEvent \/ EventsTried \/ Xform0 \/ Xform1 \/ NextPass
    \/ Return \/ Follow \/ Play \/ PlayFailing

Spec == Init /\ [][Next]_vars /\ WF_vars(Next)

-----------------------------------------------------------------------------
(* The result is what every other part of the program assumes of a net: in *)
(* particular the rules out of a place agree on its token.  The exception  *)
(* is a place that 4b has torn.                                            *)
TypeOK ==
    /\ NetShape(design) /\ (~torn => PlacesAgree(design))
    /\ design.abstract \subseteq Event(design)
    /\ torn \in BOOLEAN /\ modified \in BOOLEAN /\ at \in 0 .. design.nevents
    /\ pc \in {"check", "events", "merge", "loops", "pass", "follow", "compare", "failed"}
    /\ pc \in {"follow", "compare", "failed"} =>
          mk \in Marking(net) /\ images \subseteq Marking(design)

(* No behaviour is lost: whatever the net does can be followed by its      *)
(* abstraction, and a failure of the net is a failure of the abstraction.  *)
NothingHidden ==
    ~alarm => /\ pc # "failed"
              /\ pc = "compare" => images # {}

(* Every pass that is not the last removes an event or a place, so the     *)
(* passes over the net end.                                                *)
Terminates == <>(pc \in {"compare", "failed"})

=============================================================================
