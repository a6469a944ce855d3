------------------------------ MODULE TableLog ------------------------------
(***************************************************************************)
(* What a buffered writer promises of every table while its backend is     *)
(* atomic: the rows given to it are stored once each and in the order they *)
(* were accepted, in steps of any size and at any later time.              *)
(***************************************************************************)
EXTENDS Naturals, Sequences

CONSTANTS
  Tables,
  Batches   \* the row lists that may be given to the writer at once

VARIABLES accepted, stored

vars == <<accepted, stored>>

Init ==
  /\ accepted = [t \in Tables |-> <<>>]
  /\ stored = [t \in Tables |-> <<>>]

Accept(t) ==
  /\ \E rows \in Batches : accepted' = [accepted EXCEPT ![t] = @ \o rows]
  /\ UNCHANGED stored

(* The next rows of the table, one or more, reach the backend. *)
Store(t) ==
  /\ \E n \in Len(stored[t]) + 1 .. Len(accepted[t]) :
       stored' = [stored EXCEPT ![t] = SubSeq(accepted[t], 1, n)]
  /\ UNCHANGED accepted

Next == \E t \in Tables : Accept(t) \/ Store(t)

Spec == Init /\ [][Next]_vars
=============================================================================
