--------------------------- MODULE BufferedWriter ---------------------------
(***************************************************************************)
(* The threads of tmautils.db.BufferedWriter: callers of add_rows(),       *)
(* flush() and close(), the timer thread, and the worker threads of the    *)
(* executor that run _flush_task().                                        *)
(*                                                                         *)
(* A step is what one thread does between two points where another thread  *)
(* can be seen: a block under a table's lock is one step, and so is every  *)
(* read or write of a field that is shared without a lock (_closed, the    *)
(* timer's first look at a table, the executor's shutdown flag).  A call   *)
(* that returns or raises before it changes anything is a stuttering step  *)
(* and is not written: add_rows() on a closed writer, with no rows or with *)
(* an unknown table.                                                       *)
(*                                                                         *)
(* A definition named X_Fault is X with a fault put in: it is used only to *)
(* see that a property of X would notice.                                  *)
(***************************************************************************)
EXTENDS Naturals, Sequences, FiniteSets, Functions

CONSTANTS
  Tables,          \* the keys of table_configs
  Rows,            \* rows, told apart only by their identity
  Batches,         \* the row lists that one add_rows() call may pass
  Poison,          \* rows that tb.config.model(**r) or pydantic_to_arrow rejects
  Callers,         \* threads of the application
  Timer,           \* the timer thread
  Workers,         \* the executor's threads, max_workers of them
  RowThresholds,   \* row_thresh under every jitter factor
  TimeThresholds,  \* time_thresh_sec under every jitter factor
  Outcomes,        \* what backend.flush_arrow may do
  Calls,           \* the methods that the application uses
  MaxTime,         \* bound on the clock
  MaxStored,       \* bound on a table's rows when a flush may be ambiguous
  NoTask           \* the absence of a batch

Threads == Callers \cup {Timer}
Agents == Threads \cup Workers

ASSUME ConstantsAssumption ==
  /\ Batches \subseteq Seq(Rows) \ {<<>>}
  /\ Poison \subseteq Rows
  /\ Timer \notin Callers
  /\ Threads \cap Workers = {}
  /\ RowThresholds \subseteq Nat
  /\ TimeThresholds \subseteq Nat
  /\ Outcomes \subseteq {"ok", "rejected", "ambiguous"}
  /\ Calls \subseteq {"add", "flush", "timedFlush", "close"}
  /\ MaxTime \in Nat /\ MaxStored \in Nat

(* A backend that raises only when it has stored nothing. *)
AtomicBackend == "ambiguous" \notin Outcomes

(* The rows of one flush: rows_to_flush, then the arguments of _flush_task; *)
(* "if should_flush and rows_to_flush" keeps an empty one from being taken. *)
Task == [table : Tables, rows : Seq(Rows) \ {<<>>}, ts : Nat, by : Threads]

ASSUME NoTaskAssumption == NoTask \notin Task

VARIABLES
  buffer,      \* tb.buffer
  flushing,    \* tb.is_flushing
  lastFlush,   \* tb.last_flush_ts
  queue,       \* the executor's work queue
  carrying,    \* the batch in the local variables of a thread or a worker
  answer,      \* what a worker has got back for its batch
  stored,      \* the rows that the backend holds, in the order it got them
  accepted,    \* history: the rows appended to tb.buffer by add_rows()
  dropped,     \* history: a batch lost because the executor refused it
  closed,      \* self._closed
  shutdown,    \* the executor no longer accepts work
  closeResult, \* history: how close() calls have ended
  call,        \* where a caller is, and the local variables of its call
  timer,       \* the same for the timer thread
  clock        \* time.monotonic()

data == <<buffer, flushing, lastFlush, queue, carrying, answer, stored,
          accepted, dropped>>
control == <<closed, shutdown, closeResult>>
vars == <<data, control, call, timer, clock>>

(* "table" and "rows" are the arguments of add_rows(); the others belong   *)
(* to flush(), called by close() or not.  "mark" is history: how much was  *)
(* accepted when flush() began.                                            *)
Idle == [pc |-> "idle", table |-> NoTask, rows |-> <<>>, closing |-> FALSE,
         deadline |-> "none", todo |-> {}, pending |-> FALSE, futures |-> {},
         mark |-> [t \in Tables |-> 0]]

Init ==
  /\ buffer = [t \in Tables |-> <<>>]
  /\ flushing = [t \in Tables |-> FALSE]
  /\ lastFlush = [t \in Tables |-> 0]
  /\ queue = <<>>
  /\ carrying = [a \in Agents |-> NoTask]
  /\ answer = [w \in Workers |-> "none"]
  /\ stored = [t \in Tables |-> <<>>]
  /\ accepted = [t \in Tables |-> <<>>]
  /\ dropped = [t \in Tables |-> <<>>]
  /\ closed = FALSE
  /\ shutdown = FALSE
  /\ closeResult = {}
  /\ call = [c \in Callers |-> Idle]
  /\ timer = [pc |-> "scan", todo |-> {}, table |-> NoTask, now |-> 0, thresh |-> 0]
  /\ clock = 0

-----------------------------------------------------------------------------
(* self._exec.submit(): the batch is queued, or refused with a RuntimeError *)
(* when the executor is shut down; a refused batch is then lost.           *)
Submitted(task) ==
  /\ ~shutdown
  /\ queue' = Append(queue, task)
  /\ UNCHANGED dropped

Refused(task) ==
  /\ shutdown
  /\ dropped' = [dropped EXCEPT ![task.table] = task.rows]
  /\ UNCHANGED queue

(* Under the table's lock, a thread takes all the rows of the table. *)
Take(t) ==
  /\ flushing' = [flushing EXCEPT ![t] = TRUE]
  /\ buffer' = [buffer EXCEPT ![t] = <<>>]

MayTake_AnyFlush(t) == buffer[t] # <<>>

(* "not tb.is_flushing and tb.buffer" *)
MayTake(t) == ~flushing[t] /\ buffer[t] # <<>>

GoTo(c, label) == call' = [call EXCEPT ![c].pc = label]

-----------------------------------------------------------------------------
(* add_rows()                                                              *)

(* Rows that some call has already passed: each row is passed only once.   *)
Issued == (UNION {Range(accepted[t]) : t \in Tables})
          \cup (UNION {Range(call[c].rows) : c \in Callers})

(* add_rows() is called and finds the writer open. *)
AddRows(c, t, rows) ==
  /\ "add" \in Calls
  /\ call[c].pc = "idle"
  /\ ~closed
  /\ Range(rows) \cap Issued = {}
  /\ call' = [call EXCEPT ![c] = [Idle EXCEPT !.pc = "append", !.table = t,
                                              !.rows = rows]]
  /\ UNCHANGED <<data, control, timer, clock>>

(* The locked block of add_rows(): the rows are buffered, and the buffer   *)
(* is taken when it has reached the threshold and no flush is under way.   *)
AppendRows(c, thresh) ==
  LET t == call[c].table
      full == buffer[t] \o call[c].rows
  IN /\ call[c].pc = "append"
     /\ accepted' = [accepted EXCEPT ![t] = @ \o call[c].rows]
     /\ IF ~flushing[t] /\ Len(full) >= thresh
          THEN /\ Take(t)
               /\ carrying' = [carrying EXCEPT
                    ![c] = [table |-> t, rows |-> full, ts |-> 0, by |-> c]]
               /\ call' = [call EXCEPT ![c] = [Idle EXCEPT !.pc = "submit"]]
          ELSE /\ buffer' = [buffer EXCEPT ![t] = full]
               /\ call' = [call EXCEPT ![c] = Idle]
               /\ UNCHANGED <<flushing, carrying>>
     /\ UNCHANGED <<lastFlush, queue, answer, stored, dropped, control, timer, clock>>

(* The submit after the locked block; time.monotonic() is read here. *)
SubmitRows(c) ==
  LET task == [carrying[c] EXCEPT !.ts = clock]
  IN /\ call[c].pc = "submit"
     /\ Submitted(task) \/ Refused(task)
     /\ carrying' = [carrying EXCEPT ![c] = NoTask]
     /\ GoTo(c, "idle")
     /\ UNCHANGED <<buffer, flushing, lastFlush, answer, stored, accepted,
                    control, timer, clock>>

-----------------------------------------------------------------------------
(* flush() and close()                                                     *)

BeginFlush(c, closing, deadline) ==
  call' = [call EXCEPT ![c] =
    [Idle EXCEPT !.pc = "top", !.closing = closing, !.deadline = deadline,
                 !.mark = [t \in Tables |-> Len(accepted[t])]]]

(* flush(timeout) is called; with timeout=None it has no deadline. *)
Flush(c, deadline) ==
  /\ call[c].pc = "idle"
  /\ \/ deadline = "none" /\ "flush" \in Calls
     \/ deadline = "ahead" /\ "timedFlush" \in Calls
  /\ BeginFlush(c, FALSE, deadline)
  /\ UNCHANGED <<data, control, timer, clock>>

(* close() reads _closed, and returns at once if it is set: also while the *)
(* close() that has set it is still flushing.                              *)
CloseAgain(c) ==
  /\ "close" \in Calls
  /\ call[c].pc = "idle"
  /\ closed
  /\ closeResult' = closeResult \cup {"early"}
  /\ UNCHANGED <<data, closed, shutdown, call, timer, clock>>

(* Otherwise it goes on ... *)
Close(c) ==
  /\ "close" \in Calls
  /\ call[c].pc = "idle"
  /\ ~closed
  /\ GoTo(c, "closing")
  /\ UNCHANGED <<data, control, timer, clock>>

(* ... and sets it, then calls flush() with FINAL_FLUSH_TIMEOUT_SEC. *)
SetClosed(c) ==
  /\ call[c].pc = "closing"
  /\ closed' = TRUE
  /\ BeginFlush(c, TRUE, "ahead")
  /\ UNCHANGED <<data, shutdown, closeResult, timer, clock>>

(* The time of a flush() runs out. *)
Deadline(c) ==
  /\ call[c].deadline = "ahead"
  /\ call' = [call EXCEPT ![c].deadline = "passed"]
  /\ UNCHANGED <<data, control, timer, clock>>

(* flush() returns or raises, to its caller or to close(). *)
LeaveFlush(c, pending) ==
  call' = [call EXCEPT ![c] =
    IF @.closing
      THEN [Idle EXCEPT !.pc = "shutdown", !.closing = TRUE, !.pending = pending]
      ELSE Idle]

FlushTop_KeepsPending(c) ==
  /\ call[c].pc = "top"
  /\ IF call[c].deadline = "passed"
       THEN LeaveFlush(c, TRUE)
       ELSE call' = [call EXCEPT ![c] = [@ EXCEPT !.pc = "scan", !.todo = Tables,
                                          !.futures = {}]]
  /\ UNCHANGED <<data, control, timer, clock>>

FlushTop_NoDeadline(c) ==
  /\ call[c].pc = "top"
  /\ call' = [call EXCEPT ![c] = [@ EXCEPT !.pc = "scan", !.todo = Tables,
                                     !.pending = FALSE, !.futures = {}]]
  /\ UNCHANGED <<data, control, timer, clock>>

(* The top of the loop of flush(): the deadline is looked at. *)
FlushTop(c) ==
  /\ call[c].pc = "top"
  /\ IF call[c].deadline = "passed"
       THEN LeaveFlush(c, TRUE)
       ELSE call' = [call EXCEPT ![c] = [@ EXCEPT !.pc = "scan", !.todo = Tables,
                                          !.pending = FALSE, !.futures = {}]]
  /\ UNCHANGED <<data, control, timer, clock>>

Seen(c, t, pending, futures) ==
  call' = [call EXCEPT ![c].todo = @ \ {t}, ![c].pending = @ \/ pending,
                       ![c].futures = @ \cup futures]

(* The locked block of flush() for one table.  It submits under the lock;  *)
(* a submit that raises leaves flush(), with the rows taken.               *)
FlushTable(c, t) ==
  LET task == [table |-> t, rows |-> buffer[t], ts |-> clock, by |-> c]
  IN /\ call[c].pc = "scan"
     /\ t \in call[c].todo
     /\ IF MayTake(t)
          THEN /\ Take(t)
               /\ \/ Submitted(task) /\ Seen(c, t, TRUE, {t})
                  \/ Refused(task) /\ LeaveFlush(c, TRUE)
          ELSE /\ Seen(c, t, flushing[t], {})
               /\ UNCHANGED <<buffer, flushing, queue, dropped>>
     /\ UNCHANGED <<lastFlush, carrying, answer, stored, accepted, control,
                    timer, clock>>

FlushDone_Pending(c) ==
  /\ call[c].pc = "scan"
  /\ call[c].todo = {}
  /\ LeaveFlush(c, FALSE)
  /\ UNCHANGED <<data, control, timer, clock>>

(* A pass over the tables found nothing pending. *)
FlushDone(c) ==
  /\ call[c].pc = "scan"
  /\ call[c].todo = {}
  /\ ~call[c].pending
  /\ LeaveFlush(c, FALSE)
  /\ UNCHANGED <<data, control, timer, clock>>

(* The future of a batch that c submitted is not done. *)
Unfinished(c, t) ==
  \E task \in Range(queue) \cup {carrying[w] : w \in Workers} :
    task # NoTask /\ task.table = t /\ task.by = c

(* wait(futures, remaining_time), or sleep(0.1) when there are none. *)
FlushWait(c) ==
  /\ call[c].pc = "scan"
  /\ call[c].todo = {}
  /\ call[c].pending
  /\ \/ call[c].deadline = "passed"
     \/ \A t \in call[c].futures : ~Unfinished(c, t)
  /\ GoTo(c, "top")
  /\ UNCHANGED <<data, control, timer, clock>>

(* close() calls self._exec.shutdown(wait=True) ... *)
Shutdown(c) ==
  /\ call[c].pc = "shutdown"
  /\ shutdown' = TRUE
  /\ GoTo(c, "join")
  /\ UNCHANGED <<data, closed, closeResult, timer, clock>>

CloseReturns_NoWait(c) ==
  /\ call[c].pc = "join"
  /\ closeResult' = closeResult \cup {IF call[c].pending THEN "incomplete" ELSE "complete"}
  /\ call' = [call EXCEPT ![c] = Idle]
  /\ UNCHANGED <<data, closed, shutdown, timer, clock>>

(* ... which returns when the workers have finished all that was queued. *)
CloseReturns(c) ==
  /\ call[c].pc = "join"
  /\ queue = <<>>
  /\ \A w \in Workers : carrying[w] = NoTask
  /\ closeResult' = closeResult \cup {IF call[c].pending THEN "incomplete" ELSE "complete"}
  /\ call' = [call EXCEPT ![c] = Idle]
  /\ UNCHANGED <<data, closed, shutdown, timer, clock>>

-----------------------------------------------------------------------------
(* The timer thread                                                        *)

(* After a sleep: the loop ends, or a pass over the tables begins. *)
TimerWake ==
  /\ timer.pc = "scan"
  /\ timer.todo = {}
  /\ IF closed
       THEN timer' = [timer EXCEPT !.pc = "stopped"]
       ELSE \E th \in TimeThresholds :
              timer' = [timer EXCEPT !.todo = Tables, !.now = clock, !.thresh = th]
  /\ UNCHANGED <<data, control, call, clock>>

(* The first look at a table, without its lock. *)
TimerPeek(t) ==
  /\ timer.pc = "scan"
  /\ t \in timer.todo
  /\ timer' = IF MayTake(t)
                THEN [timer EXCEPT !.todo = @ \ {t}, !.pc = "lock", !.table = t]
                ELSE [timer EXCEPT !.todo = @ \ {t}]
  /\ UNCHANGED <<data, control, call, clock>>

TimeIsUp_NotChecked(t) == TRUE

(* now - last_flush_ts >= time_thresh; "now" may be before the last flush. *)
TimeIsUp(t) == timer.now >= lastFlush[t] + timer.thresh

(* The second look, under the lock. *)
TimerLock ==
  LET t == timer.table
  IN /\ timer.pc = "lock"
     /\ IF MayTake(t) /\ TimeIsUp(t)
          THEN /\ Take(t)
               /\ carrying' = [carrying EXCEPT ![Timer] =
                    [table |-> t, rows |-> buffer[t], ts |-> timer.now, by |-> Timer]]
               /\ timer' = [timer EXCEPT !.pc = "submit", !.table = NoTask]
          ELSE /\ timer' = [timer EXCEPT !.pc = "scan", !.table = NoTask]
               /\ UNCHANGED <<buffer, flushing, carrying>>
     /\ UNCHANGED <<lastFlush, queue, answer, stored, accepted, dropped, control,
                    call, clock>>

(* The submit; a RuntimeError ends the pass and is caught in _timer_loop(). *)
TimerSubmit ==
  LET task == carrying[Timer]
  IN /\ timer.pc = "submit"
     /\ \/ Submitted(task) /\ timer' = [timer EXCEPT !.pc = "scan"]
        \/ Refused(task) /\ timer' = [timer EXCEPT !.pc = "scan", !.todo = {}]
     /\ carrying' = [carrying EXCEPT ![Timer] = NoTask]
     /\ UNCHANGED <<buffer, flushing, lastFlush, answer, stored, accepted,
                    control, call, clock>>

-----------------------------------------------------------------------------
(* _flush_task() on a worker of the executor                               *)

WorkerTake(w) ==
  /\ carrying[w] = NoTask
  /\ queue # <<>>
  /\ carrying' = [carrying EXCEPT ![w] = Head(queue)]
  /\ queue' = Tail(queue)
  /\ UNCHANGED <<buffer, flushing, lastFlush, answer, stored, accepted, dropped,
                 control, call, timer, clock>>

Rejected(task) == Range(task.rows) \cap Poison # {}

(* A row fails validation or conversion: the whole batch fails. *)
ConvertRaises(w) ==
  /\ carrying[w] # NoTask
  /\ answer[w] = "none"
  /\ Rejected(carrying[w])
  /\ answer' = [answer EXCEPT ![w] = "raised"]
  /\ UNCHANGED <<buffer, flushing, lastFlush, queue, carrying, stored, accepted,
                 dropped, control, call, timer, clock>>

(* backend.flush_arrow() stores the rows, or raises; when the outcome is   *)
(* "ambiguous" it raises although it has stored them.                      *)
BackendAnswers(w, o) ==
  /\ carrying[w] # NoTask
  /\ answer[w] = "none"
  /\ ~Rejected(carrying[w])
  /\ o = "ambiguous" =>
       Len(stored[carrying[w].table] \o carrying[w].rows) <= MaxStored
  /\ answer' = [answer EXCEPT ![w] = IF o = "ok" THEN "ok" ELSE "raised"]
  /\ stored' = IF o = "rejected" THEN stored
               ELSE [stored EXCEPT ![carrying[w].table] = @ \o carrying[w].rows]
  /\ UNCHANGED <<buffer, flushing, lastFlush, queue, carrying, accepted, dropped,
                 control, call, timer, clock>>

Release_KeepsAnswer(w) ==
  /\ flushing' = [flushing EXCEPT ![carrying[w].table] = FALSE]
  /\ carrying' = [carrying EXCEPT ![w] = NoTask]
  /\ UNCHANGED <<queue, answer, stored, accepted, dropped, control, call, timer, clock>>

(* The worker is done with its batch: the table may be flushed again. *)
Release(w) ==
  /\ flushing' = [flushing EXCEPT ![carrying[w].table] = FALSE]
  /\ carrying' = [carrying EXCEPT ![w] = NoTask]
  /\ answer' = [answer EXCEPT ![w] = "none"]
  /\ UNCHANGED <<queue, stored, accepted, dropped, control, call, timer, clock>>

FlushSucceeds(w) ==
  /\ answer[w] = "ok"
  /\ lastFlush' = [lastFlush EXCEPT ![carrying[w].table] = carrying[w].ts]
  /\ Release(w)
  /\ UNCHANGED buffer

FlushFails_RowsLast(w) ==
  /\ answer[w] = "raised"
  /\ buffer' = [buffer EXCEPT ![carrying[w].table] = @ \o carrying[w].rows]
  /\ Release(w)
  /\ UNCHANGED lastFlush

FlushFails_RowsOnly(w) ==
  /\ answer[w] = "raised"
  /\ buffer' = [buffer EXCEPT ![carrying[w].table] = carrying[w].rows]
  /\ Release(w)
  /\ UNCHANGED lastFlush

FlushFails_KeepsFlag(w) ==
  /\ answer[w] = "raised"
  /\ buffer' = [buffer EXCEPT ![carrying[w].table] = carrying[w].rows \o @]
  /\ carrying' = [carrying EXCEPT ![w] = NoTask]
  /\ answer' = [answer EXCEPT ![w] = "none"]
  /\ UNCHANGED <<flushing, lastFlush, queue, stored, accepted, dropped, control,
                 call, timer, clock>>

(* "Re-buffering rows": in front of those added meanwhile. *)
FlushFails(w) ==
  /\ answer[w] = "raised"
  /\ buffer' = [buffer EXCEPT ![carrying[w].table] = carrying[w].rows \o @]
  /\ Release(w)
  /\ UNCHANGED lastFlush

-----------------------------------------------------------------------------
Tick ==
  /\ clock < MaxTime
  /\ clock' = clock + 1
  /\ UNCHANGED <<data, control, call, timer>>

(* What the application may call, and the steps inside a call. *)
Call(c) ==
  \/ \E t \in Tables, rows \in Batches : AddRows(c, t, rows)
  \/ \E d \in {"none", "ahead"} : Flush(c, d)
  \/ Close(c) \/ CloseAgain(c)

CallStep(c) ==
  \/ \E th \in RowThresholds : AppendRows(c, th)
  \/ SubmitRows(c)
  \/ SetClosed(c)
  \/ FlushTop(c)
  \/ \E t \in Tables : FlushTable(c, t)
  \/ FlushDone(c)
  \/ FlushWait(c)
  \/ Shutdown(c)
  \/ CloseReturns(c)

TimerStep ==
  \/ TimerWake
  \/ \E t \in Tables : TimerPeek(t)
  \/ TimerLock
  \/ TimerSubmit

WorkerStep(w) ==
  \/ WorkerTake(w)
  \/ ConvertRaises(w)
  \/ \E o \in Outcomes : BackendAnswers(w, o)
  \/ FlushSucceeds(w)
  \/ FlushFails(w)

Next ==
  \/ \E c \in Callers : Call(c) \/ CallStep(c) \/ Deadline(c)
  \/ TimerStep
  \/ \E w \in Workers : WorkerStep(w)
  \/ Tick

Spec == Init /\ [][Next]_vars

(* Every thread that can go on does so, and time passes.  Nothing makes    *)
(* the application call anything.                                          *)
Fairness ==
  /\ WF_vars(TimerStep)
  /\ \A w \in Workers : WF_vars(WorkerStep(w))
  /\ \A c \in Callers : WF_vars(CallStep(c)) /\ WF_vars(Deadline(c))

(* A backend that is asked to store a table's rows again and again         *)
(* eventually does.                                                        *)
BackendRecovers ==
  \A t \in Tables :
    SF_vars(\E w \in Workers : /\ carrying[w] # NoTask
                              /\ carrying[w].table = t
                              /\ BackendAnswers(w, "ok"))

FairSpec == Spec /\ Fairness
RecoveringSpec == FairSpec /\ BackendRecovers
=============================================================================
