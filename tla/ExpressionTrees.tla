-------------------------- MODULE ExpressionTrees --------------------------
(***************************************************************************)
(* The expressions a statement can hold, grown from the leaves the way the *)
(* parser reduces them, and what must be true of each of them on its way   *)
(* through the program: analysis, rewrite, index choice, evaluation, and   *)
(* for a CHECK condition the catalog file and back.                        *)
(*                                                                         *)
(* A scenario says which operands there are and how often it may grow.     *)
(***************************************************************************)
EXTENDS Grammar, FiniteSets

CONSTANTS
    Scenarios,      \* workloads by name, see the fields used below
    Rows            \* the rows an expression is evaluated on

VARIABLES
    scn,            \* the name of the workload, chosen once
    expr,           \* the expression so far
    depth           \* how often it grew

vars == <<scn, expr, depth>>

Workload == Scenarios[scn]

Operands == {Lit(a) : a \in Workload.literals} \cup {Col(c) : c \in Workload.columns}

Init ==
    /\ scn \in DOMAIN Scenarios
    /\ expr \in Operands
    /\ depth = 0

\* A tree the analyzer refuses goes nowhere.
Grow(e) ==
    /\ depth < Workload.depth
    /\ TypeOf(e) # "Error"
    /\ expr' = e
    /\ depth' = depth + 1
    /\ UNCHANGED scn

\* The operators of two operands, the tree on either side.
Grown(op, operand) == {Node(op, <<expr, operand>>), Node(op, <<operand, expr>>)}

ParseComparison == \E op \in Workload.comparisons, o \in Operands : \E e \in Grown(op, o) : Grow(e)
ParseArithmetic == \E op \in Workload.arithmetic, o \in Operands : \E e \in Grown(op, o) : Grow(e)
ParseConnective ==
    \E op \in Connectives, o \in Workload.tests : \E e \in Grown(op, o) : Grow(e)
ParseNot == Grow(Node("NOT", <<expr>>))
ParseMinus == expr # Minus(expr) /\ Grow(Minus(expr))

WithNot(e) == {e, [e EXCEPT !.neg = TRUE]}
ParseIsNull == \E e \in WithNot(Node("IS", <<expr>>)) : Grow(e)
ParseIn ==
    \E list \in Workload.lists : \E e \in WithNot(Node("IN", <<expr>> \o list)) : Grow(e)
ParseBetween ==
    \E range \in Workload.ranges : \E e \in WithNot(Node("BETWEEN", <<expr>> \o range)) : Grow(e)
ParseLike ==
    \E p \in Workload.patterns : \E e \in WithNot(Node("LIKE", <<expr, Lit(MakeText(p))>>)) : Grow(e)
ParseCallOrCast ==
    \/ \E c \in Workload.calls : Grow(Node(c.fn, <<expr>> \o c.rest))
    \/ \E type \in Workload.casts : Grow([Node("CAST", <<expr>>) EXCEPT !.as = type])
ParseCaseWhen ==
    \E test \in Workload.tests, o \in Operands :
        \/ Grow(Node("CASE", <<test, expr, o>>))
        \/ Grow(Node("CASE", <<expr, o>>))

Next ==
    \/ ParseComparison \/ ParseArithmetic \/ ParseConnective \/ ParseNot \/ ParseMinus
    \/ ParseIsNull \/ ParseIn \/ ParseBetween \/ ParseLike
    \/ ParseCallOrCast \/ ParseCaseWhen

Spec == Init /\ [][Next]_vars

----------------------------------------------------------------------------
(******************************* Properties ********************************)

\* The analyzer takes the first typed alternative of CASE and COALESCE as the
\* type of all.  Where alternatives differ it is wrong, and so are the rewrites
\* that trust it; such trees are not meant below.
RECURSIVE Uniform(_)
Uniform(e) ==
    LET results == IF e.op = "COALESCE" THEN DOMAIN e.args
                   ELSE {i \in DOMAIN e.args : i % 2 = 0 \/ i = Len(e.args)}
    IN  /\ \A i \in DOMAIN e.args : Uniform(e.args[i])
        /\ e.op \in {"COALESCE", "CASE"} =>
            Cardinality({TypeOf(e.args[i]) : i \in results} \ {"Unknown"}) <= 1

RuntimeTypes == [Int |-> {"Int"}, Float |-> {"Double"}, Bool |-> {"Bool"},
                 Text |-> {"Text"}, Unknown |-> {}]

(* What the analyzer says of an expression is what evaluation yields, on
   every row: a value of the resolved type, or NULL.  Constraint checks, the
   sort, and the column store trust the type without looking again. *)
TypeSound ==
    Uniform(expr) =>
        \A r \in Rows : Eval(expr, r).t \in RuntimeTypes[TypeOf(expr)] \cup {"Null"}

(* rewriteExpression never changes what an expression yields, type included
   ("null-safe and type-preserving, so they never change results"): folding
   and the identities agree with three-valued logic and with division. *)
RewriteSafe ==
    Uniform(expr) => \A r \in Rows : Eval(Rewritten(expr), r) = Eval(expr, r)

(* A CHECK condition that was written to the catalog file and parsed again
   at the next start is the same tree, so it accepts the same rows. *)
CheckSurvivesReload == ReadBack(Written(expr)) = {expr}

(* An index never hides a row: FETCH finds with it what a scan finds, for
   every set of rows (it is enough to look at the table that holds all). *)
IndexAgreesWithScan ==
    TypeOf(expr) = "Bool" => GatherRows(expr, Rows) = {r \in Rows : PredicateTrue(expr, r)}

RECURSIVE Matches(_, _)
Matches(s, p) ==
    IF p = << >> THEN s = << >>
    ELSE \/ Head(p) = 37 /\ \E n \in 0 .. Len(s) : Matches(SubSeq(s, n + 1, Len(s)), Tail(p))
         \/ /\ s # << >>
            /\ Head(p) \in {95, Head(s)}
            /\ Matches(Tail(s), Tail(p))

(* The LIKE matcher, which goes back to the last % only, agrees with the
   definition of a match that tries every length for every %. *)
LikeExact ==
    expr.op = "LIKE" =>
        \A r \in Rows :
            LET s == Eval(expr.args[1], r)
            IN  s.t = "Text" => LikeMatch(s.v, expr.args[2].v.v) = Matches(s.v, expr.args[2].v.v)
=============================================================================
