------------------------------ MODULE Catalog ------------------------------
(***************************************************************************)
(* The catalog (frontend/catalog.cpp): tables, views, foreign keys, index  *)
(* definitions, and what the catalog file keeps of them (saveCatalog and   *)
(* loadCatalog of frontend/db.cpp).                                        *)
(*                                                                         *)
(* A table is known by its name: ids are never given twice.  A value is a  *)
(* set, {} for NULL and {n} for the integer n.  The check of a column is   *)
(* {} or one record: the column its text names, the position its           *)
(* expression is bound to, and the values that pass.  The position is a    *)
(* set: {} if there is no expression, {0} if it was never bound.           *)
(***************************************************************************)
EXTENDS Naturals, Sequences, FiniteSets, TLC
S == INSTANCE SequencesExt
LOCAL INSTANCE Functions

\* What only the column's name distinguishes from others of its kind.
Plain(name) ==
    [name |-> name, notNull |-> FALSE, primaryKey |-> FALSE, unique |-> FALSE,
     auto |-> FALSE, default |-> << >>, check |-> {}]

Table(columns, key, foreignKeys) ==
    [columns |-> columns, primaryKey |-> key, foreignKeys |-> foreignKeys, from |-> {}]
\* A view: from holds the table its FETCH reads, with every column of it.
ViewOn(base, columns) ==
    [columns |-> columns, primaryKey |-> << >>, foreignKeys |-> << >>, from |-> {base}]

IsView(schema) == schema.from # {}
HasTable(cat, name) == name \in DOMAIN cat.tables

\* columnIndex, as {} or one position
Positions(schema, name) == {i \in DOMAIN schema.columns : schema.columns[i].name = name}

Without(f, names) == Restrict(f, DOMAIN f \ names)

CreateTable(cat, name, schema) == [cat EXCEPT !.tables = @ @@ name :> schema]

\* Index definitions go with the table; foreign keys that refer to it stay.
DropTable(cat, name) ==
    [tables |-> Without(cat.tables, {name}),
     indexes |-> Without(cat.indexes, {n \in DOMAIN cat.indexes : cat.indexes[n].table = name})]

CreateIndex(cat, index, table, columns) ==
    IF index \in DOMAIN cat.indexes \/ ~HasTable(cat, table)
       \/ \E i \in DOMAIN columns : Positions(cat.tables[table], columns[i]) = {}
    THEN cat
    ELSE [cat EXCEPT !.indexes = @ @@ index :> [table |-> table, columns |-> columns]]

DropIndex(cat, index) == [cat EXCEPT !.indexes = Without(@, {index})]

\* setPrimaryKey: the columns may not be NULL any more; nothing else follows.
SetPrimaryKey(cat, table, key) ==
    [cat EXCEPT !.tables[table].primaryKey = key,
                !.tables[table].columns = [i \in DOMAIN @ |->
                    IF i \in S!ToSet(key) THEN [@[i] EXCEPT !.notNull = TRUE] ELSE @[i]]]

AddForeignKey(cat, table, col, fk) ==
    [cat EXCEPT !.tables[table].foreignKeys = Append(@, [fk EXCEPT !.col = col])]

\* refers holds the foreign key of the column, if it has one.
AddColumn(cat, table, name, refers) ==
    LET added == [cat EXCEPT !.tables[table].columns = Append(@, Plain(name))]
        last == Len(added.tables[table].columns)
    IN  IF refers = {} THEN added ELSE AddForeignKey(added, table, last, CHOOSE fk \in refers : TRUE)

\* Foreign keys of later columns move with them; the primary key, the index
\* definitions and what the checks are bound to do not.
DropColumn(cat, table, i) ==
    LET kept == SelectSeq(cat.tables[table].foreignKeys, LAMBDA fk : fk.col # i)
        moved == [n \in DOMAIN kept |-> [kept[n] EXCEPT !.col = IF @ > i THEN @ - 1 ELSE @]]
    IN  [cat EXCEPT !.tables[table].columns = S!RemoveAt(@, i), !.tables[table].foreignKeys = moved]

----------------------------------------------------------------------------
(**************************** The catalog file *****************************)

\* bindExpression of every check of a table; where it fails there is no
\* expression, and the text stays.
Bound(schema) ==
    [schema EXCEPT !.columns =
        [i \in DOMAIN @ |-> [@[i] EXCEPT !.check = {[c EXCEPT !.bound = Positions(schema, c.source)] : c \in @}]]]

MutantForgetsOnUpdate(cat) ==
    LET forgotten(t) == [t EXCEPT !.foreignKeys = [n \in DOMAIN @ |-> [@[n] EXCEPT !.onUpdate = "Restrict"]]]
        base == {n \in DOMAIN cat.tables : ~IsView(cat.tables[n])}
    IN  [tables |-> [n \in base |-> forgotten(cat.tables[n])],
         indexes |-> cat.indexes,
         views |-> [n \in DOMAIN cat.tables \ base |-> cat.tables[n].from]]

\* saveCatalog: of a check its text, of a view its statement.
Written(cat) ==
    LET base == {n \in DOMAIN cat.tables : ~IsView(cat.tables[n])}
    IN  [tables |-> [n \in base |-> cat.tables[n]],
         indexes |-> cat.indexes,
         views |-> [n \in DOMAIN cat.tables \ base |-> cat.tables[n].from]]

\* A view is analyzed again; one whose table is not known is left out.
ReadView(cat, name, from) ==
    IF from \subseteq DOMAIN cat.tables
    THEN LET base == CHOOSE b \in from : TRUE
         IN  CreateTable(cat, name, ViewOn(base, cat.tables[base].columns))
    ELSE cat

\* loadCatalog, with the views in the order of the file.
Read(file, views) ==
    LET tables == [tables |-> [n \in DOMAIN file.tables |-> Bound(file.tables[n])], indexes |-> << >>]
        indexed == S!FoldLeft(LAMBDA c, n :
                        CreateIndex(c, n, file.indexes[n].table, file.indexes[n].columns),
                        tables, S!SetToSeq(DOMAIN file.indexes))
    IN  S!FoldLeft(LAMBDA c, n : ReadView(c, n, file.views[n]), indexed, views)
=============================================================================
