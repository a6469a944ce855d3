----------------------------- MODULE LakeInsert -----------------------------
(***************************************************************************)
(* Writing to the lakes of tmautils.db.DuckLakeStore: insert_arrow(), with *)
(* insert_records() and DuckLakeBackend.flush_arrow() in front of it, and  *)
(* execute_txn(), with ensure_table() and checkpoint() in front of it, and *)
(* execute(), a transaction of one statement, while other threads attach,  *)
(* detach and close (LakeRegistry).  A lake that is detached keeps its     *)
(* data and has them when it is attached again under its alias.            *)
(*                                                                         *)
(* A write runs in a transaction of its own cursor: what its statements    *)
(* read is the table at that moment, and what they change is seen by       *)
(* others at COMMIT.  It ends in a return or an exception; run_with_retry()*)
(* decides whether the whole attempt runs again.                           *)
(***************************************************************************)
EXTENDS LakeRegistry, RowTable

CONSTANTS
  Writers,         \* threads that write, one for each table at a time
  Modes,           \* write modes in use; each has a table of its own
  WriteFailures,   \* how a statement or a COMMIT may fail
  CommitOutcomes,  \* what a COMMIT may do
  OneShot,         \* whether the statements of execute_txn() are an iterator
  MaxCalls         \* bound on the calls of a writer

ASSUME WriteAssumption ==
  /\ IsFiniteSet(Writers)
  /\ Modes \subseteq {"append", "insert_ignore", "upsert"}
  /\ WriteFailures \subseteq Failures
  /\ CommitOutcomes \subseteq {"committed", "rolledBack", "ambiguous"}
  /\ OneShot \subseteq BOOLEAN
  /\ MaxCalls \in Nat

VARIABLES
  data,   \* the copies of each row in each table of each lake
  write   \* where each write stands

writeVars == <<vars, data, write>>

(* kind is "insert" or "txn".  An insert has a mode, a batch and the lake  *)
(* it was given; a transaction has its statements, each the insertion of   *)
(* one row, and how many were drawn from them.  removed and added are what *)
(* the attempt has changed so far.  before and doubt are history: the data *)
(* when the call began, and whether a COMMIT of it was ambiguous; calls is *)
(* the number of calls so far.                                             *)
NoWrite == [pc |-> "idle", kind |-> "none", mode |-> "none", batch |-> {},
            given |-> None, statements |-> <<>>, oneShot |-> FALSE, drawn |-> 0,
            left |-> 0, alias |-> None, removed |-> Nothing, added |-> Nothing,
            before |-> [a \in Aliases |-> [m \in Modes |-> Nothing]],
            doubt |-> FALSE, calls |-> 0, result |-> "none"]

WriteInit ==
  /\ Init
  /\ data = [a \in Aliases |-> [m \in Modes |-> Nothing]]
  /\ write = [t \in Writers |-> NoWrite]

-----------------------------------------------------------------------------
(* The attempt has raised: it runs again from its start, or the call ends. *)
(* An iterator goes on where it stands.                                    *)
Start(w) == [w EXCEPT !.pc = "begin", !.drawn = IF w.oneShot THEN @ ELSE 0,
                      !.removed = Nothing, !.added = Nothing]
End(w, result) == [NoWrite EXCEPT !.result = result, !.doubt = w.doubt, !.calls = w.calls]
Failed_Swallows(w, failure) ==
  IF failure = "transient" /\ w.left > 1
  THEN Start([w EXCEPT !.left = @ - 1])
  ELSE End(w, "ok")
Failed(w, failure) ==
  IF failure = "transient" /\ w.left > 1
  THEN Start([w EXCEPT !.left = @ - 1])
  ELSE End(w, "error")

-----------------------------------------------------------------------------
(* insert_arrow(table, data, mode=..., lake=...); an empty table returns.  *)
CallInsert(t, m, batch) ==
  /\ write[t].pc = "idle"
  /\ write[t].calls < MaxCalls
  /\ \E lake \in Aliases \cup {None}, left \in Attempts :
       write' = [write EXCEPT ![t] =
         Start([NoWrite EXCEPT !.kind = "insert", !.mode = m, !.batch = batch,
                               !.given = lake, !.left = left, !.before = data,
                               !.calls = write[t].calls + 1])]
  /\ UNCHANGED <<vars, data>>

(* alias = lake or self._get_default_alias(), again in every attempt.      *)
ChooseLake(t) ==
  LET w == write[t]
      Run(alias) == [w EXCEPT !.pc = "run", !.alias = alias]
  IN  /\ w.pc = "begin" /\ w.kind = "insert"
      /\ write' = [write EXCEPT ![t] = IF w.given # None THEN Run(w.given)
                                       ELSE IF Len(lakes) = 1 THEN Run(Head(lakes))
                                       ELSE Failed(w, "permanent")]
      /\ UNCHANGED <<vars, data>>

(* A cursor, BEGIN and the statement of an insert.  The statement fails    *)
(* for reasons of its own, or because the store is closed or the lake gone.*)
RunInsert(t) ==
  LET w == write[t] IN
  /\ w.pc = "run" /\ w.kind = "insert"
  /\ \/ /\ ~closed /\ w.alias \in attached
        /\ \E c \in Changes(w.mode, data[w.alias][w.mode], w.batch) :
             write' = [write EXCEPT ![t] =
               [@ EXCEPT !.pc = "commit", !.removed = c.removed, !.added = c.added]]
     \/ \E f \in WriteFailures : write' = [write EXCEPT ![t] = Failed(@, f)]
     \/ /\ closed \/ w.alias \notin attached
        /\ write' = [write EXCEPT ![t] = Failed(@, "permanent")]
  /\ UNCHANGED <<vars, data>>

(* execute_txn(statements); the SQL names its lake.                        *)
CallTransaction(t, a, statements) ==
  /\ write[t].pc = "idle"
  /\ "append" \in Modes
  /\ write[t].calls < MaxCalls
  /\ \E oneShot \in OneShot, left \in Attempts :
       write' = [write EXCEPT ![t] =
         Start([NoWrite EXCEPT !.kind = "txn", !.mode = "append", !.alias = a,
                               !.statements = statements, !.oneShot = oneShot,
                               !.left = left, !.before = data,
                               !.calls = write[t].calls + 1])]
  /\ UNCHANGED <<vars, data>>

(* A cursor and BEGIN; then the loop over what is left of statements.      *)
Looping_LeavesOne(w) ==
  [w EXCEPT !.pc = IF w.drawn + 1 >= Len(w.statements) THEN "commit" ELSE "run"]
Looping(w) == [w EXCEPT !.pc = IF w.drawn = Len(w.statements) THEN "commit" ELSE "run"]
BeginTransaction(t) ==
  /\ write[t].pc = "begin" /\ write[t].kind = "txn"
  /\ write' = [write EXCEPT ![t] = IF closed THEN Failed(@, "permanent") ELSE Looping(@)]
  /\ UNCHANGED <<vars, data>>

(* The next statement is drawn and executed.  A cursor outlives the close  *)
(* of the connection that it was made from.                                *)
RunStatement(t) ==
  LET w == [write[t] EXCEPT !.drawn = @ + 1] IN
  /\ w.pc = "run" /\ w.kind = "txn"
  /\ \/ /\ closed \/ w.alias \in attached
        /\ write' = [write EXCEPT ![t] =
             Looping([w EXCEPT !.added[w.statements[w.drawn]] = @ + 1])]
     \/ \E f \in WriteFailures : write' = [write EXCEPT ![t] = Failed(w, f)]
     \/ /\ w.alias \notin attached
        /\ write' = [write EXCEPT ![t] = Failed(w, "permanent")]
  /\ UNCHANGED <<vars, data>>

(* COMMIT.  It may fail, roll back and raise, and has to when a row that   *)
(* it removes is gone; when it is ambiguous the exception comes although   *)
(* the changes are made.                                                   *)
Commit(t, outcome) ==
  LET w == write[t]
      table == data[w.alias][w.mode]
      applied == [data EXCEPT ![w.alias][w.mode] = Changed(@, w)]
  IN  /\ w.pc = "commit"
      /\ outcome # "rolledBack" => \A r \in Rows : w.removed[r] <= table[r]
      /\ data' = IF outcome = "rolledBack" THEN data ELSE applied
      /\ IF outcome = "committed"
           THEN write' = [write EXCEPT ![t] = End(@, "ok")]
           ELSE \E f \in WriteFailures :
                  write' = [write EXCEPT ![t] =
                    Failed([w EXCEPT !.doubt = @ \/ outcome = "ambiguous"], f)]
      /\ UNCHANGED vars

WriteStep(t) ==
  \/ ChooseLake(t) \/ RunInsert(t)
  \/ BeginTransaction(t) \/ RunStatement(t)
  \/ \E o \in CommitOutcomes : Commit(t, o)

Scripts == {s \in UNION {[1..n -> Rows] : n \in 1..2} : IsInjective(s)}

WriteNext ==
  \/ Next /\ UNCHANGED <<data, write>>
  \/ \E t \in Writers :
       \/ \E m \in Modes, batch \in Batches : CallInsert(t, m, batch)
       \/ \E a \in Aliases, script \in Scripts : CallTransaction(t, a, script)
       \/ WriteStep(t)

WriteSpec == WriteInit /\ [][WriteNext]_writeVars
=============================================================================
