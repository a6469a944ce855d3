---------------------- MODULE BufferedWriterProperties ----------------------
(***************************************************************************)
(* What the buffered writer is trusted to do with the rows it accepts.     *)
(***************************************************************************)
EXTENDS BufferedWriter

(* The batches of a table that are between a buffer and the end of a flush.*)
Carried(t) == {a \in Agents : carrying[a] # NoTask /\ carrying[a].table = t}
Queued(t) == {i \in DOMAIN queue : queue[i].table = t}

CallState == [pc : {"idle", "append", "submit", "closing", "top", "scan",
                "shutdown", "join"},
          table : Tables \cup {NoTask}, rows : Seq(Rows), closing : BOOLEAN,
          deadline : {"none", "ahead", "passed"}, todo : SUBSET Tables,
          pending : BOOLEAN, futures : SUBSET Tables, mark : [Tables -> Nat]]

TimerState == [pc : {"scan", "lock", "submit", "stopped"}, todo : SUBSET Tables,
           table : Tables \cup {NoTask}, now : Nat, thresh : Nat]

(* Every variable has its type, and a thread holds a batch exactly at the  *)
(* points of its code where it has taken one and not handed it on.         *)
TablesOK ==
  /\ buffer \in [Tables -> Seq(Rows)]
  /\ flushing \in [Tables -> BOOLEAN]
  /\ lastFlush \in [Tables -> Nat]
  /\ stored \in [Tables -> Seq(Rows)]
  /\ accepted \in [Tables -> Seq(Rows)]
  /\ dropped \in [Tables -> Seq(Rows)]

PoolOK ==
  /\ queue \in Seq(Task)
  /\ carrying \in [Agents -> Task \cup {NoTask}]
  /\ answer \in [Workers -> {"none", "ok", "raised"}]
  /\ \A w \in Workers : answer[w] # "none" => carrying[w] # NoTask

ControlOK ==
  /\ closed \in BOOLEAN
  /\ shutdown \in BOOLEAN
  /\ closeResult \subseteq {"complete", "incomplete", "early"}
  /\ clock \in Nat

CallsOK ==
  /\ call \in [Callers -> CallState]
  /\ \A c \in Callers :
       /\ call[c].pc = "submit" <=> carrying[c] # NoTask
       /\ call[c].pc = "append" => call[c].table \in Tables /\ call[c].rows \in Batches

TimerOK ==
  /\ timer \in TimerState
  /\ timer.pc = "submit" <=> carrying[Timer] # NoTask
  /\ timer.pc = "lock" => timer.table \in Tables

TypeOK == TablesOK /\ PoolOK /\ ControlOK /\ CallsOK /\ TimerOK

(* A table has at most one batch between its buffer and the end of its     *)
(* flush: in the hands of a thread that is about to submit it, in the      *)
(* executor's queue, with a worker, or lost; and is_flushing says whether  *)
(* there is one.                                                           *)
OneFlush(t) ==
  /\ \A a, b \in Carried(t) : a = b
  /\ \A i, j \in Queued(t) : i = j
  /\ Carried(t) = {} \/ Queued(t) = {}
  /\ dropped[t] # <<>> => Carried(t) = {} /\ Queued(t) = {}
  /\ flushing[t] <=> Carried(t) # {} \/ Queued(t) # {} \/ dropped[t] # <<>>

OneFlushPerTable == \A t \in Tables : OneFlush(t)

(* The rows of the batch that a carries and that are not yet stored. *)
Unstored(a) ==
  IF a \in Workers /\ answer[a] = "ok" THEN <<>> ELSE carrying[a].rows

(* The rows are those accepted that are neither stored nor buffered. *)
Between(t, rows) == accepted[t] = (stored[t] \o rows) \o buffer[t]

RowsConserved(t) ==
  /\ ~flushing[t] => Between(t, <<>>)
  /\ \A a \in Carried(t) : Between(t, Unstored(a))
  /\ \A i \in Queued(t) : Between(t, queue[i].rows)
  /\ dropped[t] # <<>> => Between(t, dropped[t])

(* With a backend that stores a batch or raises, no row of add_rows() is   *)
(* lost, stored twice, or stored out of order, through failed flushes and  *)
(* re-buffering; only a batch refused by a closed executor stays unstored. *)
Conserved == AtomicBackend => \A t \in Tables : RowsConserved(t)

(* Every accepted row is stored, buffered, or in a batch in between.       *)
NoRowLost ==
  \A t \in Tables :
    Range(accepted[t]) = Range(stored[t]) \cup Range(buffer[t])
                         \cup Range(dropped[t])
                         \cup (UNION {Range(carrying[a].rows) : a \in Carried(t)})
                         \cup (UNION {Range(queue[i].rows) : i \in Queued(t)})

(* No row is stored before all the rows accepted before it are.            *)
StoredAfterPredecessors ==
  \A t \in Tables : \A i \in DOMAIN stored[t] : \A j \in DOMAIN accepted[t] :
    accepted[t][j] = stored[t][i] =>
      \A k \in 1 .. j - 1 : \E h \in 1 .. i - 1 : stored[t][h] = accepted[t][k]

(* A row that cannot be converted stops its table: the batch that holds it *)
(* fails and returns to the front of the buffer, so that neither it nor a  *)
(* row accepted after it is ever stored.                                   *)
PoisonBlocksTable ==
  \A t \in Tables : \A i \in DOMAIN accepted[t] :
    accepted[t][i] \in Poison =>
      \A j \in i .. Len(accepted[t]) : accepted[t][j] \notin Range(stored[t])

(* With a backend that may store a batch and raise, rows may be stored     *)
(* again, but none is lost and none overtakes another; and those behind a  *)
(* row that cannot be converted wait for ever.                             *)
RowsKeptInOrder == NoRowLost /\ StoredAfterPredecessors /\ PoisonBlocksTable

(* A flush() that returns because a pass found nothing pending has stored  *)
(* every row that had been accepted when it was called, in all tables.     *)
FlushCovers ==
  [][\A c \in Callers :
       /\ call[c].pc = "scan"
       /\ call[c].todo = {}
       /\ call'[c].pc \in {"idle", "shutdown"}
       => \A t \in Tables : \A i \in 1 .. call[c].mark[t] :
            accepted[t][i] \in Range(stored[t])]_vars

(* last_flush_ts never goes back, although the timer thread reads the time *)
(* long before it takes a lock, and takes the time of a flush from there.  *)
LastFlushMonotone ==
  [][\A t \in Tables : lastFlush[t] <= lastFlush'[t]]_vars

(* When no thread of the writer calls the backend any more, so that its    *)
(* owner may close it: after a close() that waited for the workers has     *)
(* returned, whatever other calls are under way; and after one that has    *)
(* returned at once because the writer was closed, as soon as no other is  *)
(* between setting _closed and its return.                                 *)
Waited == closeResult \ {"early"} # {}
StoreFrozenAfterClose ==
  [][Waited \/ ("early" \in closeResult /\ \A c \in Callers : ~call[c].closing)
       => UNCHANGED stored]_vars

(* The writer is a log per table (for an atomic backend).                  *)
Log == INSTANCE TableLog WITH Tables <- Tables, Batches <- Batches,
                            accepted <- accepted, stored <- stored
ImplementsLog == Log!Spec

(* A writer that is left open, over a backend that recovers.               *)
Undisturbed == BackendRecovers /\ [](~closed)

(* Every row that such a writer accepts is stored: by the row threshold or *)
(* by the timer, without any call of flush().                              *)
EveryRowStored ==
  Undisturbed => \A t \in Tables, r \in Rows :
    r \in Range(accepted[t]) ~> r \in Range(stored[t])

(* A flush() of it without a timeout returns, if adding stops: as long as  *)
(* others add rows, each pass may find something pending and call for      *)
(* another one.                                                            *)
AddingStops == <>[][UNCHANGED accepted]_vars
FlushReturns ==
  Undisturbed /\ AddingStops => \A c \in Callers :
    (call[c].pc \in {"top", "scan"} /\ call[c].deadline = "none")
      ~> call[c].pc = "idle"

(* close() returns, whatever the backend does.                             *)
CloseAlwaysReturns == \A c \in Callers : call[c].pc = "closing" ~> call[c].pc = "idle"

(* "Close the BufferedWriter, flushing any remaining data": when a close() *)
(* whose flush did not time out has returned, and no other call is under   *)
(* way, every accepted row is stored.                                      *)
CloseFlushesAll ==
  ("complete" \in closeResult /\ \A c \in Callers : call[c].pc = "idle")
    => \A t \in Tables : Range(accepted[t]) = Range(stored[t])
=============================================================================
