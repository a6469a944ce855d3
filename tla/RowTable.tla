------------------------------ MODULE RowTable ------------------------------
(***************************************************************************)
(* Tables with key columns, and what the statements of insert_arrow() in   *)
(* DuckDbStore and DuckLakeStore change in them.                           *)
(***************************************************************************)
EXTENDS Naturals, FiniteSets, Functions

CONSTANTS
  Keys,     \* values of the key columns
  Values    \* values of the others; one value when there are none

Rows == [key : Keys, val : Values]
Batches == (SUBSET Rows) \ {{}}

ASSUME RowAssumption == IsFiniteSet(Rows)

(* A table, or a change to one, counts copies of rows.                     *)
Nothing == [r \in Rows |-> 0]
Copies(rows) == [r \in Rows |-> IF r \in rows THEN 1 ELSE 0]

KeysOf(rows) == {r.key : r \in rows}
HasKey(table, k) == \E r \in Rows : r.key = k /\ table[r] > 0
CopiesWith(table, k) == UNION {{r} \X (1..table[r]) : r \in {s \in Rows : s.key = k}}

(* No key is there twice, which a UNIQUE constraint demands.               *)
KeysUnique(table) ==
  \A r, s \in Rows : (r.key = s.key /\ table[r] > 0 /\ table[s] > 0) => (r = s /\ table[r] = 1)

(* ROW_NUMBER() OVER (PARTITION BY keys) without an order keeps any one of *)
(* the rows with a key.                                                    *)
OneRowPerKey_All(batch) == {batch}
OneRowPerKey(batch) ==
  {d \in SUBSET batch : /\ KeysOf(d) = KeysOf(batch)
                        /\ \A r, s \in d : r.key = s.key => r = s}

(* What one statement in a mode may remove from a table and add to it:     *)
(* INSERT, INSERT .. ANTI JOIN, or MERGE, which updates every copy there   *)
(* is of a key.  With no columns but the keys an upsert changes nothing    *)
(* that is there, and is the same as an insert_ignore.                     *)
Inserted(batch) == {[removed |-> Nothing, added |-> Copies(batch)]}
InsertedOrIgnored_NoAntiJoin(table, batch) ==
  {[removed |-> Nothing, added |-> Copies(d)] : d \in OneRowPerKey(batch)}
InsertedOrIgnored(table, batch) ==
  {[removed |-> Nothing, added |-> Copies({r \in d : ~HasKey(table, r.key)})]
     : d \in OneRowPerKey(batch)}
Upserted(table, batch) ==
  {[removed |-> [r \in Rows |-> IF r.key \in KeysOf(batch) THEN table[r] ELSE 0],
    added |-> [r \in Rows |-> IF r \notin d THEN 0
                              ELSE IF HasKey(table, r.key)
                                   THEN Cardinality(CopiesWith(table, r.key)) ELSE 1]]
     : d \in OneRowPerKey(batch)}

Changes_IgnoresOnConflict(mode, table, batch) ==
  IF mode = "append" THEN Inserted(batch) ELSE InsertedOrIgnored(table, batch)
Changes(mode, table, batch) ==
  CASE mode = "append" -> Inserted(batch)
    [] mode = "insert_ignore" -> InsertedOrIgnored(table, batch)
    [] mode = "upsert" -> Upserted(table, batch)

Changed(table, c) == [r \in Rows |-> table[r] - c.removed[r] + c.added[r]]
=============================================================================
