------------------------------ MODULE CtlParser ------------------------------
(***************************************************************************)
(* From the formulas a user writes to the operations checkCTLRec runs: the *)
(* grammar (ctl.y) rewrites every operator to NOT, OR, AND, EX, EU and EG. *)
(*                                                                         *)
(* A formula is the sequence of the reductions that the parser makes of    *)
(* it, triples of an operator and the numbers of the reductions that its   *)
(* arguments are.  VAR has the number of its signal there.                 *)
(***************************************************************************)
EXTENDS CtlChecker

Prefix == Unary \cup {"EF", "AX", "AF", "AG"}
Infix  == Binary \cup {"AU"}

Formula(f) ==
    /\ f \in Seq((Leaf \cup Prefix \cup Infix) \X Int \X Int) /\ f # <<>>
    /\ \A k \in DOMAIN f : /\ f[k][1] \notin Leaf => f[k][2] \in 1 .. k - 1
                           /\ f[k][1] \in Infix => f[k][3] \in 1 .. k - 1

-----------------------------------------------------------------------------
(* What newctlstmt makes of statements p and q, as they are evaluated.     *)
True       == << <<"TRUE", 0>> >>
Var(s)     == << <<"VAR", s>> >>
Not(p)     == Append(p, <<"NOT", 0>>)
EX(p)      == Append(p, <<"EX", 0>>)
EG(p)      == Append(p, <<"EG", 0>>)
Or(p, q)   == p \o q \o << <<"OR", 0>> >>
And(p, q)  == p \o q \o << <<"AND", 0>> >>
EU(p, q)   == p \o q \o << <<"EU", 0>> >>

(* Faulty: the left side of AU need not hold until the right side does.    *)
RewriteAUWeak(p, q) == Not(EG(Not(q)))

RewriteAU(p, q) == And(Not(EU(Not(q), And(Not(p), Not(q)))), Not(EG(Not(q))))

(* The statement that a reduction makes of p and q.                        *)
Reduce(reduction, p, q) ==
    LET op == reduction[1] IN
    CASE op = "TRUE" -> True
      [] op = "VAR"  -> Var(reduction[2])
      [] op = "NOT"  -> Not(p)
      [] op = "OR"   -> Or(p, q)
      [] op = "AND"  -> And(p, q)
      [] op = "EX"   -> EX(p)
      [] op = "AX"   -> Not(EX(Not(p)))
      [] op = "EU"   -> EU(p, q)
      [] op = "EF"   -> EU(True, p)
      [] op = "EG"   -> EG(p)
      [] op = "AF"   -> Not(EG(Not(p)))
      [] op = "AG"   -> Not(EU(True, Not(p)))
      [] op = "AU"   -> RewriteAU(p, q)

Parse(f) ==
    LET statement[k \in DOMAIN f] ==
            Reduce(f[k], statement[f[k][2]], statement[f[k][3]])
    IN  statement[Len(f)]

ASSUME FormulasAssumption ==
    \A i \in Instances : Formula(i.formula) /\ i.prog = Parse(i.formula)

-----------------------------------------------------------------------------
(* What an operator means when its arguments hold in P and Q, each read    *)
(* for itself.                                                             *)
Means(G, reduction, P, Q) ==
    LET S  == G.states
        op == reduction[1] IN
    CASE op = "TRUE" -> S
      [] op = "VAR"  -> {s \in S : G.code[reduction[2]][s] \in {"1", "F"}}
      [] op = "NOT"  -> S \ P
      [] op = "OR"   -> P \cup Q
      [] op = "AND"  -> P \cap Q
      [] op = "EX"   -> EXSat(G, P)
      [] op = "AX"   -> {s \in S : Succ(G, s) \subseteq P}
      [] op = "EU"   -> EUSat(G, P, Q)
      [] op = "EF"   -> S \ AWSat(G, S \ P, {})
      [] op = "EG"   -> EGSat(G, P)
      [] op = "AF"   -> S \ EGSat(G, S \ P)
      [] op = "AG"   -> AWSat(G, P, {})
      [] op = "AU"   -> AWSat(G, P, Q) \ EGSat(G, S \ Q)

Sat(G, f) ==
    LET sat[k \in DOMAIN f] == Means(G, f[k], sat[f[k][2]], sat[f[k][3]])
    IN  sat[Len(f)]

(* The verdict of checkCTL is the meaning of the formula as written, in    *)
(* every state, not only in the initial one.                               *)
ResultExact == pc = "done" => stack = <<Sat(g, inst.formula)>>

(* "Make states w/out a succ into self loops" (ctlchecker.c 117): a state  *)
(* where nothing happens any more satisfies EG of what holds in it.        *)
Looped(G) ==
    [G EXCEPT !.edges = @ \cup {<<s, 0, s>> : s \in {t \in G.states : Succ(G, t) = {}}}]

StuckStatesLoop ==
    pc = "done" => (0 \in stack[1] <=> 0 \in Sat(Looped(g), inst.formula))

=============================================================================
