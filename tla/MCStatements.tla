---------------------------- MODULE MCStatements ----------------------------
(***************************************************************************)
(* Four databases: a chain of cascading references, a parent with a child  *)
(* that restricts and one that sets NULL, a table with every constraint of *)
(* its own, and tables that are defined and redefined.                     *)
(***************************************************************************)
EXTENDS Statements

Key(name) == [Plain(name) EXCEPT !.primaryKey = TRUE, !.unique = TRUE, !.notNull = TRUE]
Unique(name) == [Plain(name) EXCEPT !.unique = TRUE]
Checked(name, of, passing) == [Plain(name) EXCEPT !.check = {[source |-> of, bound |-> {0}, passing |-> passing]}]
Reference(col, table, column, onDelete, onUpdate) ==
    [col |-> col, table |-> table, column |-> column, onDelete |-> onDelete, onUpdate |-> onUpdate]

Build(t, schema) == [op |-> "build", table |-> t, schema |-> schema]
PutInto(t, rows) == [op |-> "put", table |-> t, rows |-> rows, conflict |-> {}]
PutOn(t, row, on, set) == [op |-> "put", table |-> t, rows |-> <<row>>, conflict |-> {[on |-> on, set |-> set]}]
To(col, v) == [col |-> col, to |-> v, add |-> 0]
Plus(col, n) == [col |-> col, to |-> Null, add |-> n]
ModifyWhere(t, where, set) == [op |-> "modify", table |-> t, where |-> where, set |-> {set}]
RemoveFrom(t, where) == [op |-> "remove", table |-> t, where |-> where]
StartSaveUndo == [op |-> "start"]
StopAndStart == [op |-> "restart"]
\* BUILD AS and BUILD VIEW, TRUNCATE and DISCARD
FromTable(op, t, from) == [op |-> op, table |-> t, from |-> from]
OnTable(op, t) == [op |-> op, table |-> t]
IndexOn(t, column) == [op |-> "build index", index |-> <<"ix", t>>, table |-> t, columns |-> <<column>>]
NoIndexOn(t) == [op |-> "discard index", index |-> <<"ix", t>>]
Add(t, column, fks) == [op |-> "add", table |-> t, column |-> column, refers |-> fks]
Drop(t, column) == [op |-> "drop", table |-> t, column |-> column]

One == {{1}}    \* WHEN the first column is 1
All == {}

Parent == Build("p", Table(<<Key("id")>>, << >>, << >>))

Chain ==
    [first |-> <<
        Parent,
        Build("c", Table(<<Key("id")>>, << >>, <<Reference(1, "p", "id", "Cascade", "Cascade")>>)),
        Build("g", Table(<<Plain("c")>>, << >>, <<Reference(1, "c", "id", "SetNull", "Cascade")>>)),
        PutInto("p", << <<{1}>>, <<{2}>> >>),
        PutInto("c", << <<{2}>>, <<{1}>> >>),
        PutInto("g", << <<{2}>>, <<{1}>>, <<{2}>>, <<{3}>> >>)>>,
     then |-> {
        PutInto("p", << <<{3}>>, <<{2}>> >>), PutInto("c", << <<{3}>> >>), PutInto("g", << <<{3}>>, <<Null>> >>),
        ModifyWhere("p", One, To(1, {3})), ModifyWhere("p", All, Plus(1, 1)),
        ModifyWhere("c", All, To(1, {2})), ModifyWhere("g", One, To(1, {2})),
        RemoveFrom("p", One), RemoveFrom("c", All), RemoveFrom("g", One),
        StartSaveUndo, StopAndStart},
     max |-> 6]

Siblings ==
    [first |-> <<
        Parent,
        Build("c", Table(<<Unique("p")>>, << >>, <<Reference(1, "p", "id", "Restrict", "Restrict")>>)),
        Build("d", Table(<<Plain("p")>>, << >>, <<Reference(1, "p", "id", "SetNull", "SetNull")>>)),
        PutInto("p", << <<{1}>>, <<{2}>>, <<{4}>> >>),
        PutInto("c", << <<{2}>>, <<Null>>, <<Null>> >>),
        PutInto("d", << <<{1}>>, <<{2}>>, <<{1}>> >>)>>,
     then |-> {
        RemoveFrom("p", All), RemoveFrom("p", One), RemoveFrom("c", All),
        ModifyWhere("p", All, Plus(1, 1)), ModifyWhere("p", One, To(1, {3})), ModifyWhere("c", All, To(1, {1})),
        PutInto("d", << <<{3}>>, <<{1}>> >>),
        StartSaveUndo, StopAndStart},
     max |-> 6]

Alone ==
    [first |-> <<
        Build("t", Table(<<[Key("id") EXCEPT !.auto = TRUE], Unique("u"),
                           [Checked("k", "k", 1 .. 2) EXCEPT !.default = <<{1}>>]>>, << >>, << >>)),
        Build("m", Table(<<Plain("a"), Plain("b")>>, <<1, 2>>, << >>))>>,
     then |-> {
        PutInto("t", << 2 :> {1}, 2 :> {2} >>), PutInto("t", << 1 :> {2}, 2 :> {2} >>),
        PutInto("t", << <<{3}, {3}, {3}>> >>), PutInto("t", << <<Null, Null, {2}>> >>),
        PutOn("t", 2 :> {1}, {2}, {}), PutOn("t", 2 :> {1}, {2}, {To(2, {2})}), PutOn("t", 2 :> {2}, {2}, {Plus(3, 1)}),
        ModifyWhere("t", All, Plus(2, 1)), ModifyWhere("t", One, To(3, {2})), RemoveFrom("t", One),
        PutInto("m", << <<{1}, {1}>>, <<{1}, {2}>> >>), ModifyWhere("m", One, Plus(2, 1)),
        IndexOn("t", "k"), NoIndexOn("t"), StartSaveUndo, StopAndStart},
     max |-> 6]

Defined ==
    [first |-> <<
        Build("p", Table(<<Key("id"), Plain("x")>>, << >>, << >>)),
        PutInto("p", << <<{1}, {1}>>, <<{2}, Null>> >>),
        Build("t", Table(<<Plain("a"), Checked("b", "b", 1 .. 2), Unique("c")>>, << >>,
                         <<Reference(1, "p", "id", "Cascade", "Cascade")>>)),
        PutInto("t", << <<{1}, {1}, {1}>>, <<{2}, {2}, Null>> >>)>>,
     then |-> {
        Build("t", Table(<<Plain("a"), Plain("b")>>, << >>, <<Reference(1, "p", "id", "Restrict", "Cascade")>>)),
        Build("u", Table(<<Key("a"), Plain("b")>>, << >>,
                         <<Reference(2, "p", "id", "SetNull", "SetNull"), Reference(1, "q", "id", "Cascade", "Cascade")>>)),
        Build("m", Table(<<Plain("a"), Plain("b")>>, <<1, 2>>, << >>)),
        FromTable("build as", "u", "p"), FromTable("build view", "v", "p"), OnTable("discard", "v"),
        IndexOn("t", "a"), NoIndexOn("t"), OnTable("discard", "t"), OnTable("truncate", "t"),
        Add("t", "r", {Reference(0, "p", "id", "Cascade", "Cascade")}), Drop("t", "c"), Drop("p", "x"),
        PutInto("t", << <<{1}, {2}, {1}>>, <<{3}, {1}, {2}>> >>), PutInto("u", << <<{1}, {1}>> >>),
        ModifyWhere("p", One, To(1, {3})), RemoveFrom("p", One),
        StopAndStart},
     max |-> 6]

MCScenarios == [chain |-> Chain, siblings |-> Siblings, alone |-> Alone, defined |-> Defined]

----------------------------------------------------------------------------
\* What the scenarios above leave out, one at a time.

Referenced ==
    <<Parent,
      Build("c", Table(<<Plain("p")>>, << >>, <<Reference(1, "p", "id", "Cascade", "Cascade")>>)),
      PutInto("p", << <<{1}>>, <<{2}>> >>),
      PutInto("c", << <<{1}>> >>)>>

\* A primary key of one column, stated after the columns.
SingleKey ==
    [first |-> <<Build("s", Table(<<Plain("id"), Plain("v")>>, <<1>>, << >>))>>,
     then |-> {PutInto("s", << <<{1}, {1}>>, <<{1}, {2}>> >>), PutInto("s", << <<{2}, {1}>> >>),
               ModifyWhere("s", All, Plus(1, 1)), RemoveFrom("s", One)},
     max |-> 3]

\* ON CONFLICT that changes a key others refer to.
ConflictOnKey == [first |-> Referenced, then |-> {PutOn("p", <<{1}>>, {1}, {To(1, {3})})}, max |-> 1]

\* TRUNCATE of a table others refer to.
TruncatedParent == [first |-> Referenced, then |-> {OnTable("truncate", "p")}, max |-> 1]

\* A column goes that stands before a checked one.
MovedCheck ==
    [first |-> <<Build("t", Table(<<Plain("a"), Checked("b", "b", 1 .. 2), Plain("d")>>, << >>, << >>)),
                 Drop("t", "a")>>,
     then |-> {PutInto("t", << <<{3}, {1}>> >>)},
     max |-> 1]

\* A child that cascades next to one that restricts.
CascadeAndRestrict ==
    [first |-> Referenced \o <<
        Build("d", Table(<<Plain("p")>>, << >>, <<Reference(1, "p", "id", "Restrict", "Restrict")>>)),
        PutInto("d", << <<{1}>> >>)>>,
     then |-> {ModifyWhere("p", One, To(1, {3}))},
     max |-> 1]

SingleKeyOnly == [single |-> SingleKey]
ConflictOnKeyOnly == [conflict |-> ConflictOnKey]
TruncatedParentOnly == [truncated |-> TruncatedParent]
MovedCheckOnly == [moved |-> MovedCheck]
CascadeAndRestrictOnly == [both |-> CascadeAndRestrict]
=============================================================================
