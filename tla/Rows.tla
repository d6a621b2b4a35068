-------------------------------- MODULE Rows --------------------------------
(***************************************************************************)
(* What the two store backends are written with: a Python dict, a list and *)
(* a SQLite table are all sequences of rows here, a dict in the order its  *)
(* keys were inserted, a table in the order of its rowids.  They differ in *)
(* one thing that the stores' answers can show: a dict keeps the place of  *)
(* a key that is assigned again, INSERT OR REPLACE deletes the row and     *)
(* inserts it anew.                                                        *)
(***************************************************************************)
EXTENDS Integers, Sequences, FiniteSets

None == <<>>                     \* no row, no id

RowSet(rows) == {rows[i] : i \in DOMAIN rows}

Has(rows, k) == \E i \in DOMAIN rows : rows[i].id = k
Row(rows, k) == rows[CHOOSE i \in DOMAIN rows : rows[i].id = k]

Where(rows, Matches(_)) == SelectSeq(rows, Matches)

Altered(rows, Matches(_), New(_)) ==
    [i \in DOMAIN rows |-> IF Matches(rows[i]) THEN New(rows[i]) ELSE rows[i]]

(* d[row.id] = row                                                          *)
Assigned(rows, row) ==
    IF Has(rows, row.id)
    THEN Altered(rows, LAMBDA r : r.id = row.id, LAMBDA r : row)
    ELSE Append(rows, row)

(* INSERT OR REPLACE INTO ... VALUES row                                    *)
Replaced(rows, row) == Append(SelectSeq(rows, LAMBDA r : r.id # row.id), row)

(* A list, or a table with an AUTOINCREMENT key, that rows are only ever    *)
(* appended to: the row gets the next number.                              *)
Numbered(rows, row) == Append(rows, [row EXCEPT !.id = Len(rows) + 1])

LastRow(rows) == IF rows = <<>> THEN None ELSE rows[Len(rows)]

SumOf(S, Value(_)) ==
    LET sum[T \in SUBSET S] ==
            IF T = {} THEN 0
            ELSE LET x == CHOOSE y \in T : TRUE IN Value(x) + sum[T \ {x}]
    IN sum[S]
=============================================================================
