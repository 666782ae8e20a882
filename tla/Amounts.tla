------------------------------ MODULE Amounts ------------------------------
(***************************************************************************)
(* Tables of amounts and their SQL aggregates.  A table is a set of rows,  *)
(* each a record with at least the fields id and amount; an amount is a    *)
(* whole number of the smallest currency unit (the schema's Decimal(12,2)  *)
(* columns are exact, so no rounding is involved).                         *)
(*                                                                         *)
(* The sum of a column is the cardinality of the set that holds one tagged *)
(* unit per unit of each row.  For rows with distinct ids this is the sum; *)
(* it is stated this way because facts about cardinalities, unlike facts   *)
(* about a recursive sum, can be proved for tables of every size.          *)
(***************************************************************************)
EXTENDS Integers, FiniteSets

Units(table) == UNION {{row.id} \X (1 .. row.amount) : row \in table}

\* aggregate({ _sum: { amount: true } }), with null (no rows) read as 0
Total(table) == Cardinality(Units(table))

Ids(table) == {row.id : row \in table}

UniqueIds(table) == \A x, y \in table : x.id = y.id => x = y

\* DELETE ... WHERE id = i
Delete(table, i) == {row \in table : row.id # i}

\* UPDATE ... SET amount = a WHERE id = i
SetAmount(table, i, a) ==
    {IF row.id = i THEN [row EXCEPT !.amount = a] ELSE row : row \in table}
=============================================================================
