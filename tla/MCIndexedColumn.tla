-------------------------- MODULE MCIndexedColumn --------------------------
(***************************************************************************)
(* Pages of 60 bytes: leaves of two Int entries, inner nodes of two        *)
(* separators, so that five rows make a tree of three levels.              *)
(***************************************************************************)
EXTENDS IndexedColumn

Ints == {[type |-> "Int", rank |-> i, size |-> 9] : i \in 1 .. 3}
Doubles == {[v EXCEPT !.type = "Double"] : v \in Ints}
Few == {v \in Ints : v.rank <= 2}

MCValues == {Null} \cup Ints \cup Doubles
MCRids == 1 .. 6

Base == [literals |-> Few \cup {Null}, unique |-> FALSE, float |-> FALSE,
         stmts |-> 6, rebuilds |-> 0]

\* Duplicates and NULLs in an INT column; a UNIQUE one, rebuilt in between.
IntColumn == {Base,
              [Base EXCEPT !.literals = Ints, !.unique = TRUE,
                           !.stmts = 4, !.rebuilds = 1]}

\* A FLOAT column, UNIQUE, with integer literals.
FloatColumn == {[Base EXCEPT !.literals = Few \cup Doubles, !.float = TRUE,
                             !.unique = TRUE, !.stmts = 3]}

\* What the theorems ask of pages and columns holds of those of the run, and does not
\* of a FLOAT column with integer literals.
ASSUME PagesAreRoomy == Roomy(2, 11, 19)
ASSUME ColumnsKeyed ==
    (\A sc \in IntColumn : Keyed(sc)) /\ \A sc \in FloatColumn : ~Keyed(sc)
============================================================================
