------------------------ MODULE LogHelperProperties ------------------------
(***************************************************************************)
(* What becomes of the records, and of a program that ends.                *)
(***************************************************************************)
EXTENDS LogHelper, FiniteSetsExt

(* Types; the stopper runs from the shutdown on, and a worker that has     *)
(* ended left nothing behind in its own buffer.                            *)
LogTypeOK ==
  /\ logged \in [Procs -> 0..(MaxRecords + 1)]
  /\ Len(pipe) <= PipeSize
  /\ main.pc \in {"run", "stopping", "closing", "shut", "exiting", "exited"}
  /\ stopper \in {"off", "stop", "join", "done"}
  /\ worker \in [Workers -> {"none", "run", "ending", "gone"}]
  /\ main.pc \in {"stopping", "closing", "shut"} => stopper # "off"
  /\ \A w \in Workers : worker[w] \in {"none", "gone"} => buffer[w] = <<>>

(* The records of a process are written in the order in which they were    *)
(* logged, once each, whatever the other processes do and however often a  *)
(* logger is used after shutdown: a TableLog with a table for each process.*)
Records == INSTANCE TableLog WITH
             Tables <- Procs, Batches <- {<<n>> : n \in 1..(MaxRecords + 1)},
             accepted <- [p \in Procs |-> [n \in 1..logged[p] |-> n]], stored <- written
ImplementsRecordLog == Records!Spec

(* A shutdown that does not run into its time limit has written what the   *)
(* main process logged before it, and all that workers logged which had    *)
(* ended by then: the sentinel follows them through the same queue.        *)
ShutdownDrains ==
  /\ LogTypeOK
  /\ (main.pc \in {"closing", "shut"} /\ ~main.timedOut) =>
    \A p \in Procs : Len(written[p]) >= main.due[p]

(* Shutdown returns, within its time limit or after the one record that a  *)
(* handler has in hand, however long the queue is.                         *)
ShutdownReturns == (main.pc = "stopping") ~> (main.pc \notin {"stopping", "closing"})

(* The exit ends, unless there are more records behind the sentinel than   *)
(* the pipe can take: then a feeder waits for a reader for ever, and the   *)
(* exit for the feeder.                                                    *)
Unread(p) == logged[p] - Len(written[p])
FewLeft == listener.pc = "stopped" => MapThenSumSet(Unread, Procs) <= PipeSize
ExitReturns == []FewLeft => (main.pc = "exiting" ~> main.pc = "exited")
=============================================================================
