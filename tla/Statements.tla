----------------------------- MODULE Statements -----------------------------
(***************************************************************************)
(* The statements that change rows or tables, as vm/executor_engine.cpp    *)
(* and the analyzer before it execute them: PUT of several rows with       *)
(* defaults, counters and ON CONFLICT, MODIFY, REMOVE, their constraint    *)
(* checks and referential actions, START, SAVE and UNDO, and BUILD,        *)
(* RESHAPE, TRUNCATE and DISCARD; and the restart that reads the catalog.  *)
(*                                                                         *)
(* One session.  A statement is one step: it runs to its end or to the row *)
(* that fails, and what it did before stays.  Its log records and versions *)
(* are in Durability and VersionStore.                                     *)
(***************************************************************************)
EXTENDS Catalog
LOCAL INSTANCE Functions

CONSTANTS
    Scenarios,      \* by name: the catalog to begin with, the statements, how many
    MaxRows         \* bound on the record ids of a table

VARIABLES
    scenario,       \* the name of the scenario
    catalog,        \* tables and index definitions
    heap,           \* the row of each record id of each table, or Gone
    indexes,        \* IndexManager: columns and entries of each index
    undo,           \* undo list of the open transaction: {} or one list
    before,         \* the rows when it began
    count           \* the statements so far

vars == <<scenario, catalog, heap, indexes, undo, before, count>>

Gone == << >>
Null == {}

\* A statement works on a store: the rows, the indexes, the changes it made,
\* whether it failed, and the next values of the counters.
Store == [heap |-> heap, indexes |-> indexes, log |-> << >>, failed |-> FALSE, next |-> << >>]
Failed(st) == [st EXCEPT !.failed = TRUE]

Live(st, t) == {rid \in DOMAIN st.heap[t] : st.heap[t][rid] # Gone}
LiveList(st, t) == SelectSeq([i \in DOMAIN st.heap[t] |-> i], LAMBDA i : st.heap[t][i] # Gone)
RowBag(h, t) ==
    [row \in {h[t][i] : i \in DOMAIN h[t]} \ {Gone} |-> Cardinality({i \in DOMAIN h[t] : h[t][i] = row})]

\* One after the other, until one fails.
Each(Do(_, _), st, list) ==
    S!FoldLeft(LAMBDA s, x : IF s.failed THEN s ELSE Do(s, x), st, list)

----------------------------------------------------------------------------
(************************** Rows and their indexes *************************)

KeyOf(index, row) == [n \in DOMAIN index.cols |-> row[index.cols[n]]]
OfTable(indexes0, t) == {n \in DOMAIN indexes0 : indexes0[n].table = t}

Entered(ixs, t, rid, row) ==
    [n \in DOMAIN ixs |-> IF ixs[n].table # t THEN ixs[n]
                          ELSE [ixs[n] EXCEPT !.entries = @ \cup {<<KeyOf(ixs[n], row), rid>>}]]
Dropped(ixs, t, rid, row) ==
    [n \in DOMAIN ixs |-> IF ixs[n].table # t THEN ixs[n]
                          ELSE [ixs[n] EXCEPT !.entries = @ \ {<<KeyOf(ixs[n], row), rid>>}]]

\* insertTuple gives a record id of its own.
Insert(st, t, row) ==
    LET rid == Len(st.heap[t]) + 1
    IN  [st EXCEPT !.heap[t] = Append(@, row), !.indexes = Entered(@, t, rid, row),
                   !.log = Append(@, [table |-> t, rid |-> rid, old |-> Gone, new |-> row])]

Erase(st, t, rid) ==
    LET row == st.heap[t][rid]
    IN  [st EXCEPT !.heap[t][rid] = Gone, !.indexes = Dropped(@, t, rid, row),
                   !.log = Append(@, [table |-> t, rid |-> rid, old |-> row, new |-> Gone])]

MutantIndexKeepsOld(st, t, rid, row) ==
    LET old == st.heap[t][rid]
    IN  [st EXCEPT !.heap[t][rid] = row, !.indexes = Entered(@, t, rid, old),
                   !.log = Append(@, [table |-> t, rid |-> rid, old |-> old, new |-> row])]

\* The row keeps its record id: the page has room (HeapTable has the moves).
Update(st, t, rid, row) ==
    LET old == st.heap[t][rid]
    IN  [st EXCEPT !.heap[t][rid] = row,
                   !.indexes = Entered(Dropped(@, t, rid, old), t, rid, row),
                   !.log = Append(@, [table |-> t, rid |-> rid, old |-> old, new |-> row])]

\* The closure registerUndo keeps for one change: what was written goes, what
\* was there comes back at a new record id.
Undone(st, change) ==
    LET t == change.table
        erased == IF change.new = Gone THEN st
                  ELSE [st EXCEPT !.heap[t][change.rid] = Gone,
                                  !.indexes = Dropped(@, t, change.rid, change.new)]
    IN  IF change.old = Gone THEN erased ELSE Insert(erased, t, change.old)

----------------------------------------------------------------------------
(****************************** Constraints ********************************)

Equal(v, w) == v # Null /\ v = w

\* valueExists and parentHasValue: by an index on that one column if there is
\* one, by a scan if not.
Exists(st, t, col, v, except) ==
    LET found == {n \in OfTable(st.indexes, t) : st.indexes[n].cols = <<col>>}
        candidates ==
            IF found = {} THEN Live(st, t)
            ELSE {e[2] : e \in {e \in st.indexes[CHOOSE n \in found : TRUE].entries : e[1] = <<v>>}}
    IN  \E rid \in (candidates \cap Live(st, t)) \ except : Equal(st.heap[t][rid][col], v)

ParentHas(st, fk, v) ==
    /\ HasTable(catalog, fk.table)
    /\ \E col \in Positions(catalog.tables[fk.table], fk.column) : Exists(st, fk.table, col, v, {})

ForeignKeysMet(st, t, row) ==
    \A i \in DOMAIN catalog.tables[t].foreignKeys :
        LET fk == catalog.tables[t].foreignKeys[i]
        IN  row[fk.col] = Null \/ ParentHas(st, fk, row[fk.col])

\* A check that is unknown does not pass; one that is bound to no column of the
\* row reads NULL.
CheckPasses(c, row) ==
    \A i \in c.bound : i \in DOMAIN row /\ \E v \in row[i] : v \in c.passing

ColumnAllows(st, t, row, except, i) ==
    LET c == catalog.tables[t].columns[i]
    IN /\ c.notNull => row[i] # Null
       /\ \A check \in c.check : CheckPasses(check, row)
       /\ (c.primaryKey \/ c.unique) /\ row[i] # Null => ~Exists(st, t, i, row[i], except)

KeyTaken(st, t, row, except) ==
    LET key == S!ToSet(catalog.tables[t].primaryKey)
    IN /\ Cardinality(key) >= 2
       /\ \E rid \in Live(st, t) \ except : \A i \in key : Equal(st.heap[t][rid][i], row[i])

\* checkForeignKeys, then enforceConstraints
Allowed(st, t, row, except) ==
    /\ ForeignKeysMet(st, t, row)
    /\ \A i \in DOMAIN row : ColumnAllows(st, t, row, except, i)
    /\ ~KeyTaken(st, t, row, except)

----------------------------------------------------------------------------
(*************************** Referential actions ***************************)

\* The foreign keys on a table, in the order the tables are walked.
Children(order, t) ==
    S!FlattenSeq([i \in DOMAIN order |->
        LET fks == SelectSeq(catalog.tables[order[i]].foreignKeys, LAMBDA fk : fk.table = t)
        IN  [n \in DOMAIN fks |-> [child |-> order[i], fk |-> fks[n]]]])

MutantUnlogged(st, t, rid, row) ==
    [IF row = Gone THEN Erase(st, t, rid) ELSE Update(st, t, rid, row) EXCEPT !.log = st.log]

Write(st, t, rid, row) == IF row = Gone THEN Erase(st, t, rid) ELSE Update(st, t, rid, row)

\* What becomes of a child row when the parent row becomes new.
ChildRow(action, row, col, new, pcol) ==
    CASE action = "SetNull" -> [row EXCEPT ![col] = Null]
      [] action # "SetNull" /\ new = Gone -> Gone
      [] OTHER -> [row EXCEPT ![col] = new[pcol]]

RECURSIVE Referential(_, _, _, _, _)

\* One foreign key: the matching rows are found first, then changed one by
\* one, each after its own children.
ApplyKey(st, order, t, old, new, on) ==
    LET fk == on.fk
        action == IF new = Gone THEN fk.onDelete ELSE fk.onUpdate
        col == CHOOSE i \in Positions(catalog.tables[t], fk.column) : TRUE
        rids == SelectSeq(LiveList(st, on.child), LAMBDA rid : Equal(st.heap[on.child][rid][fk.col], old[col]))
        Change(s, rid) ==
            LET row == st.heap[on.child][rid]
                changed == ChildRow(action, row, fk.col, new, col)
                inner == IF action = "Cascade" THEN Referential(s, order, on.child, row, changed) ELSE s
            IN  IF inner.failed THEN inner ELSE Write(inner, on.child, rid, changed)
        kept == new # Gone /\ Equal(old[col], new[col])
    IN  IF Positions(catalog.tables[t], fk.column) = {} \/ kept \/ rids = << >> THEN st
        ELSE IF action = "Restrict" THEN Failed(st)
        ELSE Each(Change, st, rids)

Referential(st, order, t, old, new) ==
    LET Apply(s, on) == ApplyKey(s, order, t, old, new, on)
    IN  Each(Apply, st, Children(order, t))

\* applyReferentialActions and applyUpdateReferentialActions
OnDelete(st, order, t, row) == Referential(st, order, t, row, Gone)
OnUpdate(st, order, t, old, new) == Referential(st, order, t, old, new)

----------------------------------------------------------------------------
(************************** PUT, MODIFY, REMOVE ****************************)

\* An assignment sets a column to a value or adds to it.
Assign(row, set) ==
    [i \in DOMAIN row |->
        LET to == {a \in set : a.col = i}
        IN  IF to = {} THEN row[i]
            ELSE LET a == CHOOSE a \in to : TRUE
                 IN  IF a.add > 0 THEN {v + a.add : v \in row[i]} ELSE a.to]

\* The next value of each counter, from the largest in the table.
Counters(st, t) ==
    LET columns == catalog.tables[t].columns
        largest(i) == LET used == UNION {st.heap[t][rid][i] : rid \in Live(st, t)} \cup {0}
                      IN  CHOOSE n \in used : \A m \in used : m <= n
    IN  [i \in {i \in DOMAIN columns : columns[i].auto} |-> largest(i) + 1]

\* The row as it is stored: what is given, the counter, the default or NULL.
Completed(next, t, given) ==
    LET columns == catalog.tables[t].columns
        counted(i) == columns[i].auto /\ (i \notin DOMAIN given \/ given[i] = Null)
    IN  [i \in DOMAIN columns |->
            IF counted(i) THEN {next[i]}
            ELSE IF i \in DOMAIN given THEN given[i]
            ELSE IF columns[i].default # << >> THEN columns[i].default[1]
            ELSE Null]

\* conflict is {} or the columns compared and what is set, {} for DO NOTHING.
PutOne(st, t, given, conflict) ==
    LET row == Completed(st.next, t, given)
        counted == [st EXCEPT !.next = [i \in DOMAIN @ |->
                        IF i \in DOMAIN given /\ given[i] # Null THEN @[i] ELSE @[i] + 1]]
        existing == SelectSeq(LiveList(st, t), LAMBDA rid :
                        \E c \in conflict : \A i \in c.on : Equal(st.heap[t][rid][i], row[i]))
        merged == Assign(st.heap[t][existing[1]], UNION {c.set : c \in conflict})
    IN CASE existing = << >> ->
              IF Allowed(st, t, row, {}) THEN Insert(counted, t, row) ELSE Failed(st)
         [] existing # << >> /\ (\E c \in conflict : c.set = {}) -> counted
         [] OTHER ->
              IF Allowed(st, t, merged, {existing[1]}) THEN Update(counted, t, existing[1], merged)
              ELSE Failed(st)

PutRows(s) ==
    LET Put(st, given) == PutOne(st, s.table, given, s.conflict)
    IN  Each(Put, [Store EXCEPT !.next = Counters(Store, s.table)], s.rows)

\* The rows a WHERE on the first column selects; none means every row.
Selected(s) ==
    SelectSeq(LiveList(Store, s.table), LAMBDA rid :
        \A values \in s.where : \E v \in heap[s.table][rid][1] : v \in values)

MutantOrphans(s, order) ==
    LET Change(st, rid) ==
            LET new == Assign(heap[s.table][rid], s.set)
            IN  IF Allowed(st, s.table, new, {rid}) THEN Update(st, s.table, rid, new) ELSE Failed(st)
    IN  Each(Change, Store, Selected(s))

\* The rows are read first and then changed one by one, each checked against
\* the rows changed so far, its children before itself.
ModifyRows(s, order) ==
    LET Change(st, rid) ==
            LET old == heap[s.table][rid]
                new == Assign(old, s.set)
                children == OnUpdate(st, order, s.table, old, new)
            IN  IF ~Allowed(st, s.table, new, {rid}) THEN Failed(st)
                ELSE IF children.failed THEN children
                ELSE Update(children, s.table, rid, new)
    IN  Each(Change, Store, Selected(s))

\* The children of every victim, then the victims.
RemoveRows(s, order) ==
    LET Children0(st, rid) == OnDelete(st, order, s.table, heap[s.table][rid])
        Victim(st, rid) == Erase(st, s.table, rid)
    IN  Each(Victim, Each(Children0, Store, Selected(s)), Selected(s))

\* Whatever order the catalog walks its tables in.
Orders == S!SetToSeqs(DOMAIN catalog.tables)

----------------------------------------------------------------------------
(****************************** The session ********************************)

Open == undo # {}

Init ==
    \E n \in DOMAIN Scenarios :
        /\ scenario = n
        /\ catalog = [tables |-> << >>, indexes |-> << >>]
        /\ heap = << >>
        /\ indexes = << >>
        /\ undo = {} /\ before = << >>
        /\ count = 0

\* The next statement of the scenario: any of its kind, once its first ones,
\* which build the tables, are done.
Given(op) ==
    LET sc == Scenarios[scenario]
    IN  IF count < Len(sc.first) THEN {s \in {sc.first[count + 1]} : s.op = op}
        ELSE {s \in sc.then : s.op = op /\ count < Len(sc.first) + sc.max}
Statement == count' = count + 1 /\ UNCHANGED scenario

\* What the statement did stays, also if it failed; in a transaction it can be
\* undone.  No transaction changes a record it changed before, see README.
Done(st) ==
    /\ heap' = st.heap /\ indexes' = st.indexes
    /\ undo' = {list \o st.log : list \in undo}
    /\ \A list \in undo' : \A i, j \in DOMAIN list :
          i # j => <<list[i].table, list[i].rid>> # <<list[j].table, list[j].rid>>
    /\ \A t \in DOMAIN heap' : Len(heap'[t]) <= MaxRows
    /\ Statement
    /\ UNCHANGED <<catalog, before>>

Put == \E s \in Given("put") : HasTable(catalog, s.table) /\ Done(PutRows(s))
Modify == \E s \in Given("modify"), order \in Orders : HasTable(catalog, s.table) /\ Done(ModifyRows(s, order))
Remove == \E s \in Given("remove"), order \in Orders : HasTable(catalog, s.table) /\ Done(RemoveRows(s, order))

Start ==
    /\ Given("start") # {} /\ ~Open
    /\ undo' = {<< >>}
    /\ before' = [t \in DOMAIN heap |-> RowBag(heap, t)]
    /\ Statement
    /\ UNCHANGED <<catalog, heap, indexes>>

Save ==
    /\ Given("start") # {} /\ Open
    /\ undo' = {} /\ before' = << >>
    /\ Statement
    /\ UNCHANGED <<catalog, heap, indexes>>

\* The last change first.
RolledBack == S!FoldRight(LAMBDA change, st : Undone(st, change), CHOOSE list \in undo : TRUE, Store)

Undo ==
    /\ Given("start") # {} /\ Open
    /\ heap' = RolledBack.heap /\ indexes' = RolledBack.indexes
    /\ undo' = {} /\ before' = << >>
    /\ Statement
    /\ UNCHANGED catalog

----------------------------------------------------------------------------
(************************ BUILD, RESHAPE, DISCARD **************************)

\* These are not logged and not undone; they are taken outside transactions.
Define(cat, h, ixs) ==
    /\ ~Open /\ Statement
    /\ catalog' = cat /\ heap' = h /\ indexes' = ixs
    /\ UNCHANGED <<undo, before>>

\* rebuilding of one index from the rows
Filled(h, t, cols) ==
    [table |-> t, cols |-> cols,
     entries |-> {<<[n \in DOMAIN cols |-> h[t][rid][cols[n]]], rid>> : rid \in {i \in DOMAIN h[t] : h[t][i] # Gone}}]

\* The indexes a new table gets: one for each unique column, and one for a
\* primary key of several.
KeyIndexes(name, schema) ==
    LET unique == {i \in DOMAIN schema.columns : schema.columns[i].primaryKey \/ schema.columns[i].unique}
        key == schema.primaryKey
    IN  [n \in {<<"uq", name, schema.columns[i].name>> : i \in unique} |->
            <<CHOOSE i \in unique : schema.columns[i].name = n[3]>>]
        @@ IF Len(key) >= 2 THEN <<"pk", name>> :> key ELSE << >>

\* The table is in the catalog before its foreign keys are looked at: the first
\* one that refers to nothing ends the statement, and the table stays without it,
\* without its indexes and with its checks not bound.
BuildRelation ==
    \E s \in Given("build") :
        LET fks == s.schema.foreignKeys
            created == SetPrimaryKey(CreateTable(catalog, s.table, [s.schema EXCEPT !.foreignKeys = << >>]),
                                     s.table, s.schema.primaryKey)
            known(fk) == HasTable(created, fk.table) /\ Positions(created.tables[fk.table], fk.column) # {}
            accepted == {n \in DOMAIN fks : \A i \in 1 .. n : known(fks[i])}
            cat == S!FoldLeft(LAMBDA c, n : AddForeignKey(c, s.table, fks[n].col, fks[n]),
                              created, [n \in 1 .. Cardinality(accepted) |-> n])
            schema == Bound(cat.tables[s.table])
            new == [n \in DOMAIN KeyIndexes(s.table, schema) \ DOMAIN catalog.indexes |->
                        KeyIndexes(s.table, schema)[n]]
            names(cols) == [i \in DOMAIN cols |-> schema.columns[cols[i]].name]
            empty == s.table :> << >>
        IN /\ ~HasTable(catalog, s.table)
           /\ IF Cardinality(accepted) < Len(fks) THEN Define(cat, heap @@ empty, indexes)
              ELSE Define([cat EXCEPT !.tables[s.table] = schema,
                                      !.indexes = @ @@ [n \in DOMAIN new |-> [table |-> s.table, columns |-> names(new[n])]]],
                          heap @@ empty,
                          indexes @@ [n \in DOMAIN new |-> Filled(empty, s.table, new[n])])

\* BUILD RELATION AS FETCH * FROM: the columns without their constraints.
BuildAs ==
    \E s \in Given("build as") :
        LET columns == catalog.tables[s.from].columns
            schema == Table([i \in DOMAIN columns |-> Plain(columns[i].name)], << >>, << >>)
            rows == SelectSeq(heap[s.from], LAMBDA row : row # Gone)
        IN /\ HasTable(catalog, s.from) /\ ~IsView(catalog.tables[s.from]) /\ ~HasTable(catalog, s.table)
           /\ Define(CreateTable(catalog, s.table, schema), heap @@ s.table :> rows, indexes)

BuildView ==
    \E s \in Given("build view") :
        /\ HasTable(catalog, s.from) /\ ~HasTable(catalog, s.table)
        /\ Define(CreateTable(catalog, s.table, ViewOn(s.from, catalog.tables[s.from].columns)), heap, indexes)

\* An index the manager still has under that name is left as it is.
BuildIndex ==
    \E s \in Given("build index") :
        LET cols == [n \in DOMAIN s.columns |-> CHOOSE i \in Positions(catalog.tables[s.table], s.columns[n]) : TRUE]
        IN /\ HasTable(catalog, s.table) /\ s.index \notin DOMAIN catalog.indexes
           /\ \A n \in DOMAIN s.columns : Positions(catalog.tables[s.table], s.columns[n]) # {}
           /\ Define(CreateIndex(catalog, s.index, s.table, s.columns), heap,
                     indexes @@ s.index :> Filled(heap, s.table, cols))

DiscardIndex ==
    \E s \in Given("discard index") :
        /\ s.index \in DOMAIN catalog.indexes
        /\ Define(DropIndex(catalog, s.index), heap, Without(indexes, {s.index}))

\* A table or a view; nobody asks who refers to it.
Discard ==
    \E s \in Given("discard") :
        /\ HasTable(catalog, s.table)
        /\ Define(DropTable(catalog, s.table), Without(heap, {s.table}),
                  Without(indexes, OfTable(indexes, s.table)))

Truncate ==
    \E s \in Given("truncate") :
        /\ HasTable(catalog, s.table) /\ ~IsView(catalog.tables[s.table])
        /\ Define(catalog, [heap EXCEPT ![s.table] = << >>],
                  [n \in DOMAIN indexes |-> IF indexes[n].table # s.table THEN indexes[n]
                                            ELSE [indexes[n] EXCEPT !.entries = {}]])

\* The rows are written anew; the indexes go, but not from the catalog.
Reshaped(t, cat, Row(_)) ==
    LET rows == SelectSeq(heap[t], LAMBDA row : row # Gone)
    IN  Define(cat, [heap EXCEPT ![t] = [i \in DOMAIN rows |-> Row(rows[i])]],
               Without(indexes, OfTable(indexes, t)))

\* Of the new column its name and a foreign key are kept.
ReshapeAdd ==
    \E s \in {s \in Given("add") : HasTable(catalog, s.table)} :
        LET Row(row) == Append(row, Null)
        IN /\ Positions(catalog.tables[s.table], s.column) = {}
           /\ \A fk \in s.refers : HasTable(catalog, fk.table)
                                 /\ Positions(catalog.tables[fk.table], fk.column) # {}
           /\ Reshaped(s.table, AddColumn(catalog, s.table, s.column, s.refers), Row)

ReshapeDiscard ==
    \E s \in {s \in Given("drop") : HasTable(catalog, s.table)} :
        \E i \in Positions(catalog.tables[s.table], s.column) :
            LET Row(row) == S!RemoveAt(row, i)
            IN /\ Len(catalog.tables[s.table].columns) > 1
               /\ Reshaped(s.table, DropColumn(catalog, s.table, i), Row)

----------------------------------------------------------------------------
(******************************** Restart **********************************)

\* rebuildIndexes
Rebuilt(cat, h) ==
    [n \in DOMAIN cat.indexes |->
        LET ix == cat.indexes[n]
        IN  Filled(h, ix.table, [i \in DOMAIN ix.columns |->
                CHOOSE p \in Positions(cat.tables[ix.table], ix.columns[i]) : TRUE])]

\* An orderly stop undoes what is open and writes the catalog; the start reads
\* it, with the views in any order, and fills the indexes from the rows.
Restart ==
    LET h == IF Open THEN RolledBack.heap ELSE heap
        file == Written(catalog)
    IN /\ Given("restart") # {}
       /\ \E views \in S!SetToSeqs(DOMAIN file.views) : catalog' = Read(file, views)
       /\ heap' = h
       /\ indexes' = Rebuilt(catalog', h)
       /\ undo' = {} /\ before' = << >>
       /\ Statement

----------------------------------------------------------------------------

Rows == Put \/ Modify \/ Remove
Transaction == Start \/ Save \/ Undo
Definition ==
    \/ BuildRelation \/ BuildAs \/ BuildView \/ BuildIndex
    \/ DiscardIndex \/ Discard \/ Truncate
    \/ ReshapeAdd \/ ReshapeDiscard

Next == Rows \/ Transaction \/ Definition \/ Restart

Spec == Init /\ [][Next]_vars

----------------------------------------------------------------------------
(****************************** Properties *********************************)

Stored == {t \in DOMAIN catalog.tables : ~IsView(catalog.tables[t])}
RowsOf(t) == {heap[t][rid] : rid \in DOMAIN heap[t]} \ {Gone}

\* Every reference finds its row.
ReferencesHold(t) ==
    \A row \in RowsOf(t), fk \in S!ToSet(catalog.tables[t].foreignKeys) :
        row[fk.col] # Null =>
            /\ fk.table \in Stored
            /\ \E p \in RowsOf(fk.table) : \E i \in Positions(catalog.tables[fk.table], fk.column) :
                  p[i] = row[fk.col]

\* No two rows agree on a unique column or on the whole primary key.
KeysHold(t) ==
    LET schema == catalog.tables[t]
        unique == {{i} : i \in {i \in DOMAIN schema.columns : schema.columns[i].primaryKey \/ schema.columns[i].unique}}
        keys == unique \cup ({S!ToSet(schema.primaryKey)} \ {{}})
    IN  \A i, j \in {r \in DOMAIN heap[t] : heap[t][r] # Gone}, key \in keys :
            i # j => \E c \in key : ~Equal(heap[t][i][c], heap[t][j][c])

\* A check speaks of the column its text names.
ColumnsHold(t) ==
    LET schema == catalog.tables[t]
    IN  \A row \in RowsOf(t), i \in DOMAIN schema.columns :
            /\ schema.columns[i].notNull => row[i] # Null
            /\ \A c \in schema.columns[i].check : \A p \in Positions(schema, c.source) :
                  row[p] # Null /\ row[p] \subseteq c.passing

\* The declared constraints hold of all rows between statements: after several
\* rows of which one failed, cascades, ON CONFLICT, UNDO, reshaped tables, with
\* and without indexes, and after a restart (enforceConstraints,
\* checkForeignKeys and the referential actions).
ConstraintsHold == \A t \in Stored : ReferencesHold(t) /\ KeysHold(t) /\ ColumnsHold(t)

\* The index manager holds, of every row of an indexed table, the key it has
\* now, and nothing else (every handler keeps the indexes itself).
IndexesAgree ==
    \A n \in DOMAIN indexes : indexes[n] = Filled(heap, indexes[n].table, indexes[n].cols)

\* UNDO, and a stop with a transaction open, give back the rows of every table
\* as they were at START, whatever cascaded and whichever statement failed half
\* way (TransactionManager::rollback and the closures of the handlers).
UndoRestores ==
    [][Open /\ (Undo \/ Restart) => \A t \in DOMAIN before : RowBag(heap', t) = before[t]]_vars

WholeIndexes ==
    {n \in DOMAIN catalog.indexes :
        LET ix == catalog.indexes[n]
        IN  \A i \in DOMAIN ix.columns : Positions(catalog.tables[ix.table], ix.columns[i]) # {}}

\* A restart finds every table with its keys, foreign keys, actions and bound
\* checks, every view of the same table, and every index definition whose
\* columns the table still has, with an index for each (saveCatalog, loadCatalog).
RestartKeepsCatalog ==
    [][Restart =>
            /\ \A t \in Stored : HasTable(catalog', t) /\ catalog'.tables[t] = catalog.tables[t]
            /\ \A v \in DOMAIN catalog.tables \ Stored :
                  HasTable(catalog', v) /\ catalog'.tables[v].from = catalog.tables[v].from
            /\ catalog'.indexes = Restrict(catalog.indexes, WholeIndexes)
            /\ DOMAIN indexes' = DOMAIN catalog'.indexes]_vars
=============================================================================
