---------------------------- MODULE DuckDbInsert ----------------------------
(***************************************************************************)
(* Writing to tmautils.db.DuckDbStore: insert_arrow(), with flush_arrow()  *)
(* of DuckDbBackend in front of it, execute_txn(), with ensure_table() in  *)
(* front of it, and execute(), by several threads.                         *)
(*                                                                         *)
(* A call has a cursor and a transaction of its own.  What its statement   *)
(* reads is the table at that moment; COMMIT fails when the rows it would  *)
(* replace are gone, or a key would be there twice in a table that was     *)
(* created with a constraint.  Nothing is retried.                         *)
(***************************************************************************)
EXTENDS RowTable, Sequences

CONSTANTS
  Writers,          \* threads
  Tables,
  Modes,
  CommitOutcomes,   \* what a COMMIT may do
  MaxCalls          \* bound on the calls of a thread

ASSUME DbAssumption ==
  /\ IsFiniteSet(Writers)
  /\ Modes \subseteq {"append", "insert_ignore", "upsert"}
  /\ CommitOutcomes \subseteq {"committed", "rolledBack", "ambiguous"}
  /\ MaxCalls \in Nat

VARIABLES
  con,      \* whether the connection is open
  schema,   \* "none", or how each table was created: "plain" or "unique"
  tables,   \* the copies of each row in each table
  write     \* where each call stands

vars == <<con, schema, tables, write>>

(* kind is "insert", "txn" or "ensure"; statements are the rows that a     *)
(* transaction has yet to insert, batch those of the whole call; create is *)
(* what ensure_table() makes.  removed and added are the changes so far.   *)
NoWrite == [pc |-> "idle", kind |-> "none", mode |-> "none", table |-> "none", batch |-> {},
            statements |-> <<>>, create |-> "none", removed |-> Nothing, added |-> Nothing,
            calls |-> 0, result |-> "none"]

Init ==
  /\ con = TRUE
  /\ schema = [n \in Tables |-> "none"]
  /\ tables = [n \in Tables |-> Nothing]
  /\ write = [t \in Writers |-> NoWrite]

-----------------------------------------------------------------------------
(* What the transaction has done so far is gone.                           *)
Raised(w) == [w EXCEPT !.pc = "raised", !.statements = <<>>, !.create = "none",
                       !.removed = Nothing, !.added = Nothing]
Ended(w, result) == [NoWrite EXCEPT !.result = result, !.calls = w.calls]

(* A call makes its cursor; a closed connection has none to give.          *)
Called(t, w) ==
  /\ write[t].pc = "idle"
  /\ write[t].calls < MaxCalls
  /\ LET called == [w EXCEPT !.pc = "run", !.calls = write[t].calls + 1]
     IN  write' = [write EXCEPT ![t] = IF con THEN called ELSE Raised(called)]
  /\ UNCHANGED <<con, schema, tables>>

CallInsert(t, n, m, batch) ==
  Called(t, [NoWrite EXCEPT !.kind = "insert", !.table = n, !.mode = m, !.batch = batch])

CallTransaction(t, n, script) ==
  Called(t, [NoWrite EXCEPT !.kind = "txn", !.table = n, !.mode = "append",
                            !.batch = Range(script), !.statements = script])

(* ensure_table(): CREATE TABLE IF NOT EXISTS with the constraints of the  *)
(* model, which say nothing of the key columns of the configuration.       *)
CallEnsure(t, n, create) ==
  Called(t, [NoWrite EXCEPT !.kind = "ensure", !.table = n, !.create = create])

(* BEGIN and the statement of an insert.  ON CONFLICT needs a constraint;  *)
(* DO UPDATE may refuse a batch that has a key twice, as any statement may *)
(* fail; otherwise one of the rows is taken.                               *)
Run(t) ==
  LET w == write[t] IN
  /\ w.pc = "run" /\ w.kind = "insert"
  /\ schema[w.table] \in IF w.mode = "append" THEN {"plain", "unique"} ELSE {"unique"}
  /\ \E c \in Changes(w.mode, tables[w.table], w.batch) :
       write' = [write EXCEPT ![t] =
         [w EXCEPT !.pc = "commit", !.removed = c.removed, !.added = c.added]]
  /\ UNCHANGED <<con, schema, tables>>

(* BEGIN, and each statement of a transaction.                             *)
RunStatement_Autocommit(t) ==
  LET w == write[t]
      r == Head(w.statements)
  IN  /\ w.pc = "run" /\ w.kind = "txn"
      /\ schema[w.table] = "plain"
      /\ tables' = [tables EXCEPT ![w.table][r] = @ + 1]
      /\ write' = [write EXCEPT ![t] =
           [w EXCEPT !.statements = Tail(@), !.pc = IF Len(@) = 1 THEN "commit" ELSE "run"]]
      /\ UNCHANGED <<con, schema>>
RunStatement(t) ==
  LET w == write[t]
      rest == Tail(w.statements)
  IN  /\ w.pc = "run" /\ w.kind = "txn"
      /\ schema[w.table] # "none"
      /\ write' = [write EXCEPT ![t] =
           [w EXCEPT !.statements = rest, !.added[Head(w.statements)] = @ + 1,
                     !.pc = IF rest = <<>> THEN "commit" ELSE "run"]]
      /\ UNCHANGED <<con, schema, tables>>

RunCreate(t) ==
  LET w == write[t] IN
  /\ w.pc = "run" /\ w.kind = "ensure"
  /\ write' = [write EXCEPT ![t] =
       [w EXCEPT !.pc = "commit", !.create = IF schema[w.table] = "none" THEN @ ELSE "none"]]
  /\ UNCHANGED <<con, schema, tables>>

(* A statement fails.                                                      *)
Fail(t) ==
  /\ write[t].pc = "run"
  /\ write' = [write EXCEPT ![t] = Raised(@)]
  /\ UNCHANGED <<con, schema, tables>>

(* COMMIT, or a failure of it that rolls back, or raises all the same.     *)
Fits(w) ==
  /\ w.create # "none" => schema[w.table] = "none"
  /\ \A r \in Rows : w.removed[r] <= tables[w.table][r]
  /\ schema[w.table] = "unique" => KeysUnique(Changed(tables[w.table], w))

Commit(t, outcome) ==
  LET w == write[t] IN
  /\ w.pc = "commit"
  /\ IF outcome = "rolledBack" THEN UNCHANGED <<schema, tables>>
     ELSE /\ Fits(w)
          /\ schema' = [schema EXCEPT ![w.table] = IF w.create = "none" THEN @ ELSE w.create]
          /\ tables' = [tables EXCEPT ![w.table] = Changed(@, w)]
  /\ write' = [write EXCEPT ![t] =
       IF outcome = "committed" THEN Ended(w, "ok") ELSE Raised(w)]
  /\ UNCHANGED con

(* ROLLBACK, which may fail too, and the exception.                        *)
Raise(t) ==
  /\ write[t].pc = "raised"
  /\ write' = [write EXCEPT ![t] = Ended(@, "error")]
  /\ UNCHANGED <<con, schema, tables>>

(* close(); cursors go on.                                                 *)
Close ==
  /\ con /\ con' = FALSE
  /\ UNCHANGED <<schema, tables, write>>

Scripts == {s \in UNION {[1..i -> Rows] : i \in 1..2} : IsInjective(s)}

Step(t) ==
  \/ Run(t) \/ RunStatement(t) \/ RunCreate(t) \/ Fail(t)
  \/ \E o \in CommitOutcomes : Commit(t, o)
  \/ Raise(t)

Next ==
  \/ Close
  \/ \E t \in Writers, n \in Tables :
       \/ \E m \in Modes, batch \in Batches : CallInsert(t, n, m, batch)
       \/ \E script \in Scripts : CallTransaction(t, n, script)
       \/ \E create \in {"plain", "unique"} : CallEnsure(t, n, create)
  \/ \E t \in Writers : Step(t)

Spec == Init /\ [][Next]_vars
=============================================================================
