----------------------------- MODULE CtlChecker -----------------------------
(***************************************************************************)
(* The CTL checker (ctlchecker.c): checkCTLRec evaluates a formula bottom  *)
(* up to the set of states that satisfy it.  The recursion is the post-    *)
(* order of the formula, kept as a sequence of operations, and the values  *)
(* returned by the calls are a stack.  checkEU and the end of checkEG grow *)
(* a set through predecessors; checkEG first finds the strongly connected  *)
(* components of the states where its argument holds, by two depth-first   *)
(* searches (stateSCC), and keeps those a fair path can stay in.           *)
(*                                                                         *)
(* The order of the hash table, of the successor lists and of the sets of  *)
(* pointers is arbitrary, so each choice it makes is a \E.                 *)
(***************************************************************************)
EXTENDS CtlLogic

CONSTANT Instances      \* what may be checked: a graph and a formula

(* The post-order of a formula: every operation finds its arguments.       *)
Leaf   == {"TRUE", "VAR"}
Unary  == {"NOT", "EX", "EG"}
Binary == {"OR", "AND", "EU"}

Of(ops, prog, n)     == {i \in 1 .. n : prog[i][1] \in ops}
(* The values that the first n operations leave.                           *)
Height(prog, n)      == Cardinality(Of(Leaf, prog, n)) - Cardinality(Of(Binary, prog, n))
Arguments(operation) == IF operation[1] \in Leaf THEN 0 ELSE IF operation[1] \in Unary THEN 1 ELSE 2
PostOrder(prog) ==
    /\ prog \in Seq((Leaf \cup Unary \cup Binary) \X Int)
    /\ \A n \in DOMAIN prog : Height(prog, n - 1) >= Arguments(prog[n])
    /\ Height(prog, Len(prog)) = 1

ASSUME InstancesAssumption ==
    \A i \in Instances : StateGraph(i.graph) /\ PostOrder(i.prog)

VARIABLES
    inst,     \* the instance: its graph and formula are only read
    at,       \* the next operation
    stack,    \* the values of the calls that have returned, last first
    pc,       \* "eval", or the loop being run: "grow", "dfs", "scc"; "done"
    base,     \* the states a grown set may contain: f1
    work,     \* T: the states whose predecessors are still to be added
    acc,      \* EU, EG: the set being grown
    path,     \* the states being visited (colour 2), innermost first
    finish,   \* the states visited (colour 3), by finishing time
    left,     \* the visited states that the second search has not taken
    comps     \* the components found

search == <<path, finish, left, comps>>
vars   == <<inst, at, stack, pc, base, work, acc, search>>

g      == inst.graph
States == g.states
Op     == inst.prog[at]

Range1(seq) == {seq[i] : i \in DOMAIN seq}

Init ==
    /\ inst \in Instances
    /\ at = 1 /\ stack = <<>> /\ pc = "eval"
    /\ base = {} /\ work = {} /\ acc = {}
    /\ path = <<>> /\ finish = <<>> /\ left = {} /\ comps = {}

-----------------------------------------------------------------------------
(* One call returns the set v, having used n values.                       *)
Return(n, v) == stack' = <<v>> \o SubSeq(stack, n + 1, Len(stack))

AtomicGetStates(signal) == {s \in States : g.code[signal][s] \in {"1", "F"}}

(* The operations without a loop of their own.                             *)
Value ==
    CASE Op[1] = "TRUE" -> States
      [] Op[1] = "VAR"  -> AtomicGetStates(Op[2])
      [] Op[1] = "NOT"  -> States \ stack[1]
      [] Op[1] = "OR"   -> stack[2] \cup stack[1]
      [] Op[1] = "AND"  -> stack[2] \cap stack[1]
      [] Op[1] = "EX"   -> UNION {Pred(g, s) : s \in stack[1]}

Eval ==
    /\ pc = "eval" /\ at <= Len(inst.prog)
    /\ Op[1] \notin {"EU", "EG"}
    /\ Return(Arguments(Op), Value)
    /\ at' = at + 1
    /\ UNCHANGED <<inst, pc, base, work, acc, search>>

CheckEU ==
    /\ pc = "eval" /\ at <= Len(inst.prog)
    /\ Op[1] = "EU"
    /\ base' = stack[2] /\ work' = stack[1] /\ acc' = stack[1]
    /\ pc' = "grow"
    /\ UNCHANGED <<inst, at, stack, search>>

(* Faulty: the predecessors found are not looked at in their turn.         *)
GrowOnce ==
    /\ pc = "grow"
    /\ \E s \in work :
          /\ acc' = acc \cup (Pred(g, s) \cap base)
          /\ work' = work \ {s}
    /\ UNCHANGED <<inst, at, stack, pc, base, search>>

(* Faulty: a predecessor already known is looked at again.                 *)
GrowAgain ==
    /\ pc = "grow"
    /\ \E s \in work :
          /\ acc' = acc \cup (Pred(g, s) \cap base)
          /\ work' = (work \ {s}) \cup (Pred(g, s) \cap base)
    /\ UNCHANGED <<inst, at, stack, pc, base, search>>

Grow ==
    /\ pc = "grow"
    /\ \E s \in work :
          LET new == (Pred(g, s) \cap base) \ acc
          IN  /\ acc' = acc \cup new
              /\ work' = (work \cup new) \ {s}
    /\ UNCHANGED <<inst, at, stack, pc, base, search>>

(* Faulty: the result of the argument is left behind.                      *)
GrownOver ==
    /\ pc = "grow" /\ work = {}
    /\ Return(Arguments(Op) - 1, acc)
    /\ at' = at + 1 /\ pc' = "eval"
    /\ UNCHANGED <<inst, base, work, acc, search>>

(* checkEU and checkEG return.                                             *)
Grown ==
    /\ pc = "grow" /\ work = {}
    /\ Return(Arguments(Op), acc)
    /\ at' = at + 1 /\ pc' = "eval"
    /\ UNCHANGED <<inst, base, work, acc, search>>

-----------------------------------------------------------------------------
(* checkEG: createSubGraph and stateSCC.                                   *)
CheckEG ==
    /\ pc = "eval" /\ at <= Len(inst.prog)
    /\ Op[1] = "EG"
    /\ base' = stack[1]
    /\ path' = <<>> /\ finish' = <<>> /\ left' = {} /\ comps' = {}
    /\ pc' = "dfs"
    /\ UNCHANGED <<inst, at, stack, work, acc>>

White == base \ (Range1(path) \cup Range1(finish))

(* stateDFS starts a tree; stateDFSVisit goes to a successor, or returns.  *)
Root ==
    /\ pc = "dfs" /\ path = <<>>
    /\ \E s \in White : path' = <<s>>
    /\ UNCHANGED <<inst, at, stack, pc, base, work, acc, finish, left, comps>>

Visit ==
    /\ pc = "dfs" /\ path # <<>>
    /\ \E s \in Succ(g, path[1]) \cap White : path' = <<s>> \o path
    /\ UNCHANGED <<inst, at, stack, pc, base, work, acc, finish, left, comps>>

(* Faulty: the time is taken when a state is reached first.                *)
FinishOldest ==
    /\ pc = "dfs" /\ path # <<>>
    /\ Succ(g, path[1]) \cap White = {}
    /\ finish' = Append(finish, path[Len(path)])
    /\ path' = SubSeq(path, 1, Len(path) - 1)
    /\ UNCHANGED <<inst, at, stack, pc, base, work, acc, left, comps>>

Finish ==
    /\ pc = "dfs" /\ path # <<>>
    /\ Succ(g, path[1]) \cap White = {}
    /\ finish' = Append(finish, path[1])
    /\ path' = Tail(path)
    /\ UNCHANGED <<inst, at, stack, pc, base, work, acc, left, comps>>

Searched ==
    /\ pc = "dfs" /\ path = <<>> /\ White = {}
    /\ left' = base
    /\ pc' = "scc"
    /\ UNCHANGED <<inst, at, stack, base, work, acc, path, finish, comps>>

(* stateSCCHelp: the states of X from which s is reached inside X.         *)
SccHelp(X, s) == EUSat(g, X, {s})

HasSelfLoop(s) == s \in Succ(g, s)

(* The state finished last starts the next component; a component of one   *)
(* state needs a loop.                                                     *)
TakeComponent ==
    /\ pc = "scc" /\ left # {}
    /\ \E i \in DOMAIN finish :
          /\ finish[i] \in left
          /\ \A j \in DOMAIN finish : finish[j] \in left => j <= i
          /\ LET C == SccHelp(left, finish[i])
             IN  /\ left' = left \ C
                 /\ comps' = IF Cardinality(C) = 1 /\ ~HasSelfLoop(finish[i])
                             THEN comps ELSE comps \cup {C}
    /\ UNCHANGED <<inst, at, stack, pc, base, work, acc, path, finish>>

(* Faulty: an event that stays enabled is unfair even if it can be taken   *)
(* inside the component.                                                   *)
FairPathStrict(C) ==
    \A e \in {x[2] : x \in g.edges} : \E s \in C : ~Enables(g, s, e)

(* fairPath: no event is enabled in every state of C with all its edges    *)
(* leaving C.  The loop for predicates does the same.                      *)
FairPath(C) ==
    \A e \in {x[2] : x \in g.edges} :
        \E s \in C :
            \/ ~Enables(g, s, e)
            \/ \E x \in g.edges : x[1] = s /\ x[2] = e /\ x[3] \in C

FairComponents ==
    /\ pc = "scc" /\ left = {}
    /\ work' = UNION {C \in comps : FairPath(C)}
    /\ acc' = work'
    /\ pc' = "grow"
    /\ UNCHANGED <<inst, at, stack, base, search>>

(* checkCTL returns whether the initial state is in the result.            *)
Answer ==
    /\ pc = "eval" /\ at > Len(inst.prog)
    /\ pc' = "done"
    /\ UNCHANGED <<inst, at, stack, base, work, acc, search>>

Next ==
    \/ Eval \/ CheckEU \/ Grow \/ Grown
    \/ CheckEG \/ Root \/ Visit \/ Finish \/ Searched \/ TakeComponent \/ FairComponents
    \/ Answer

Spec == Init /\ [][Next]_vars /\ WF_vars(Next)

-----------------------------------------------------------------------------
(* The variables have their types, and the calls that have returned have   *)
(* left exactly the values that the operations still to come need.         *)
TypeOK ==
    /\ inst \in Instances
    /\ at \in 1 .. (Len(inst.prog) + 1)
    /\ Len(stack) = Height(inst.prog, at - 1)
    /\ stack \in Seq(SUBSET States)
    /\ pc \in {"eval", "grow", "dfs", "scc", "done"}
    /\ base \subseteq States /\ work \subseteq States /\ acc \subseteq States
    /\ path \in Seq(States) /\ finish \in Seq(States)
    /\ left \subseteq States
    /\ comps \subseteq SUBSET States

(* A set grows within the states that it must end with, and when the loop  *)
(* over T ends nothing is missing: checkEU and checkEG compute the least   *)
(* fixpoint whatever order they take the states in.                        *)
GrowExact ==
    pc = "grow" =>
        LET start == IF Op[1] = "EU" THEN stack[1] ELSE UNION {C \in comps : FairPath(C)}
        IN  /\ acc \subseteq EUSat(g, base, start)
            /\ work = {} => acc = EUSat(g, base, start)

(* checkEG ends with the states from which a fair path stays in f1 for     *)
(* ever: looking at whole components only misses no fair path in a part of *)
(* one.                                                                    *)
EGExact ==
    pc = "grow" /\ work = {} /\ Op[1] = "EG" => acc = EGSat(g, base)

(* stateSCC finds the strongly connected components of the subgraph where  *)
(* the argument of EG holds, although its second search goes by the        *)
(* finishing times of the first and both see edges that leave the subgraph.*)
ComponentsExact ==
    pc = "scc" /\ left = {} =>
        comps = {C \in SUBSET base :
                    Recurrent(g, C) /\ \A D \in SUBSET base :
                        C \subseteq D /\ Recurrent(g, D) => C = D}

(* The checker returns: no state stays in T, and both searches end.        *)
Terminates == <>(pc = "done")

=============================================================================
