---------------------------- MODULE TableWrites ----------------------------
(***************************************************************************)
(* What a store owes to those who write to its tables, a BufferedWriter    *)
(* among them: a write that returns has changed one table in one step, to  *)
(* what its mode makes of the batch and of the table as it is then; one    *)
(* that raises has changed nothing.  Only where a COMMIT may succeed and   *)
(* raise is there a third outcome, after which the caller must expect both.*)
(***************************************************************************)
EXTENDS RowTable

CONSTANTS Writers, Places, Modes

VARIABLES
  tables,   \* the rows in each place
  asked     \* what each writer is waiting for, or the result of the last write

vars == <<tables, asked>>

Answer(result) == [mode |-> "none", batch |-> {}, where |-> {}, result |-> result]
Requests == [mode : Modes, batch : Batches, where : SUBSET Places, result : {"none"}]

Init ==
  /\ tables = [p \in Places |-> Nothing]
  /\ asked = [t \in Writers |-> Answer("none")]

(* A writer asks, or does something else.                                  *)
Asks(t) ==
  /\ asked[t].mode = "none"
  /\ asked' = [asked EXCEPT ![t] = asked'[t]]
  /\ asked'[t] \in Requests \cup {Answer(result) : result \in {"none", "ok", "error"}}
  /\ UNCHANGED tables

Stores(t) ==
  \E p \in asked[t].where : \E c \in Changes(asked[t].mode, tables[p], asked[t].batch) :
    tables' = [tables EXCEPT ![p] = Changed(@, c)]

Returns(t) ==
  /\ asked[t].mode # "none"
  /\ asked' = [asked EXCEPT ![t] = Answer("ok")]
  /\ Stores(t)

Raises(t) ==
  /\ asked[t].mode # "none"
  /\ asked' = [asked EXCEPT ![t] = Answer("error")]
  /\ UNCHANGED tables

(* The rows are stored, and the caller, or the next attempt, hears of an   *)
(* error.                                                                  *)
StoresAndFails(t) ==
  /\ asked[t].mode # "none"
  /\ asked' \in {asked, [asked EXCEPT ![t] = Answer("error")]}
  /\ Stores(t)

Certain == \E t \in Writers : Asks(t) \/ Returns(t) \/ Raises(t)
Next == Certain \/ \E t \in Writers : StoresAndFails(t)

Spec == Init /\ [][Next]_vars
=============================================================================
