----------------------- MODULE DuckDbInsertProperties -----------------------
(***************************************************************************)
(* What the writes of a DuckDbStore owe their callers.                     *)
(***************************************************************************)
EXTENDS DuckDbInsert

(* Several threads write to the same tables, in any mode, and each write   *)
(* happens at one moment or not at all: TableWrites, at the COMMITs.       *)
Asked(w) ==
  IF w.kind \in {"insert", "txn"}
  THEN [mode |-> w.mode, batch |-> w.batch, where |-> {w.table}, result |-> "none"]
  ELSE [mode |-> "none", batch |-> {}, where |-> {}, result |-> w.result]
Stores == INSTANCE TableWrites WITH
            Places <- Tables, Modes <- Modes \cup {"append"}, tables <- tables,
            asked <- [t \in Writers |-> Asked(write[t])]
ImplementsWrites == Stores!Spec

(* When a write returns, the rows of its batch are there: all of them more *)
(* than before, or one for each key; rows of other keys, and those that an *)
(* insert_ignore has found, are as they were.  When ensure_table() returns *)
(* there is a table, though perhaps not the one that was asked for.        *)
RowsOf(table, k) == {r \in Rows : r.key = k /\ table[r] > 0}
Delivered(w, before, after) ==
  IF w.mode = "append"
  THEN \A r \in Rows : after[r] - before[r] = IF r \in w.batch THEN 1 ELSE 0
  ELSE \A k \in Keys :
         IF k \notin KeysOf(w.batch) \/ (w.mode = "insert_ignore" /\ HasKey(before, k))
         THEN \A r \in Rows : r.key = k => after[r] = before[r]
         ELSE \E r \in w.batch : r.key = k /\ RowsOf(after, k) = {r} /\ after[r] = 1
ReturnMeansStored ==
  [][\A t \in Writers : LET w == write[t] IN
       (w.pc # "idle" /\ write'[t].pc = "idle" /\ write'[t].result = "ok") =>
         IF w.kind = "ensure" THEN schema'[w.table] # "none"
         ELSE \E n \in Tables : n = w.table /\ Delivered(w, tables[n], tables'[n])]_vars
=============================================================================
