----------------------- MODULE BufferedWriter_proofs ------------------------
(***************************************************************************)
(* Proofs about the buffered writer, for any tables, rows, callers,        *)
(* workers, thresholds and backends.                                       *)
(***************************************************************************)
EXTENDS BufferedWriterProperties, SequenceTheorems, TLAPS

-----------------------------------------------------------------------------
(* Updates of the record of a call, and of one call among all              *)

Labels == {"idle", "append", "submit", "closing", "top", "scan", "shutdown", "join"}

LEMMA IdleType == Idle \in CallState /\ Idle.pc = "idle"
  BY DEF Idle, CallState

LEMMA LabelType ==
  ASSUME NEW r \in CallState, NEW l \in Labels
  PROVE  [r EXCEPT !.pc = l] \in CallState /\ [r EXCEPT !.pc = l].pc = l
  BY DEF CallState, Labels

(* A call that goes to any point but "append" keeps CallsOK, provided that *)
(* it carries a batch exactly at "submit".                                 *)
LEMMA CallUpdate ==
  ASSUME CallsOK, NEW c \in Callers, NEW r \in CallState,
         call' = [call EXCEPT ![c] = r],
         r.pc # "append",
         r.pc = "submit" <=> carrying'[c] # NoTask,
         \A d \in Callers \ {c} : carrying'[d] = carrying[d]
  PROVE  CallsOK'
  BY DEF CallsOK

LEMMA GoToKeepsCalls ==
  ASSUME CallsOK, NEW c \in Callers, NEW l \in Labels \ {"append"}, GoTo(c, l),
         l = "submit" <=> carrying'[c] # NoTask,
         \A d \in Callers \ {c} : carrying'[d] = carrying[d]
  PROVE  CallsOK'
  <1>1. call[c] \in CallState
    BY DEF CallsOK
  <1>2. /\ [call[c] EXCEPT !.pc = l] \in CallState
        /\ [call[c] EXCEPT !.pc = l].pc = l
    BY <1>1, LabelType
  <1> QED
    BY <1>2, CallUpdate DEF GoTo

LEMMA BeginFlushKeepsCalls ==
  ASSUME CallsOK, TablesOK, NEW c \in Callers, NEW closing \in BOOLEAN,
         NEW deadline \in {"none", "ahead"}, BeginFlush(c, closing, deadline),
         UNCHANGED carrying, carrying[c] = NoTask
  PROVE  CallsOK'
  <1> DEFINE m == [t \in Tables |-> Len(accepted[t])]
             r == [Idle EXCEPT !.pc = "top", !.closing = closing,
                               !.deadline = deadline, !.mark = m]
  <1>1. m \in [Tables -> Nat]
    BY DEF TablesOK
  <1>2. r \in CallState /\ r.pc = "top"
    <2> HIDE DEF m
    <2> QED
      BY IdleType, <1>1 DEF CallState
  <1> QED
    BY <1>2, CallUpdate DEF BeginFlush

LEMMA LeaveFlushKeepsCalls ==
  ASSUME CallsOK, NEW c \in Callers, NEW pending \in BOOLEAN,
         LeaveFlush(c, pending), UNCHANGED carrying, carrying[c] = NoTask
  PROVE  CallsOK'
  <1> DEFINE r == [Idle EXCEPT !.pc = "shutdown", !.closing = TRUE,
                               !.pending = pending]
  <1>1. r \in CallState /\ r.pc = "shutdown"
    BY IdleType DEF CallState
  <1>2. CASE call[c].closing
    <2>1. call' = [call EXCEPT ![c] = r]
      BY <1>2 DEF LeaveFlush
    <2> QED
      BY <2>1, <1>1, CallUpdate
  <1>3. CASE ~call[c].closing
    <2>1. call' = [call EXCEPT ![c] = Idle]
      BY <1>3 DEF LeaveFlush
    <2> QED
      BY <2>1, IdleType, CallUpdate
  <1> QED
    BY <1>2, <1>3

-----------------------------------------------------------------------------
(* Type correctness: every variable keeps its type, and a thread holds a   *)
(* batch exactly where its code has taken one and not handed it on.        *)

LEMMA TypeInit == Init => TypeOK
<1> SUFFICES ASSUME Init PROVE TypeOK
  OBVIOUS
<1>1. TablesOK
  BY DEF Init, TablesOK
<1>2. PoolOK
  BY DEF Init, PoolOK
<1>3. ControlOK
  BY DEF Init, ControlOK
<1>4. CallsOK
  BY IdleType DEF Init, CallsOK, Agents, Threads
<1>5. TimerOK
  BY DEF Init, TimerOK, TimerState, Agents, Threads
<1> QED
  BY <1>1, <1>2, <1>3, <1>4, <1>5 DEF TypeOK

(* A step of a caller that changes nothing but its call and the flags. *)
LEMMA TypeQuiet ==
  ASSUME TypeOK, UNCHANGED <<data, timer>>, ControlOK', CallsOK'
  PROVE  TypeOK'
  BY DEF TypeOK, TablesOK, PoolOK, TimerOK, data

(* self._exec.submit() keeps the types of what it changes. *)
LEMMA SubmitTypes ==
  ASSUME TablesOK, PoolOK, NEW task \in Task, Submitted(task) \/ Refused(task)
  PROVE  queue' \in Seq(Task) /\ dropped' \in [Tables -> Seq(Rows)]
<1>1. task.table \in Tables /\ task.rows \in Seq(Rows)
  BY DEF Task
<1>2. CASE Submitted(task)
  BY <1>2, AppendProperties DEF TablesOK, PoolOK, Submitted
<1>3. CASE Refused(task)
  BY <1>1, <1>3 DEF TablesOK, PoolOK, Refused
<1> QED
  BY <1>2, <1>3

LEMMA TypeStep == TypeOK /\ [Next]_vars => TypeOK'
<1> SUFFICES ASSUME TypeOK, [Next]_vars PROVE TypeOK'
  OBVIOUS
<1>0. TablesOK /\ PoolOK /\ ControlOK /\ CallsOK /\ TimerOK
  BY DEF TypeOK
<1>1. ASSUME NEW c \in Callers, NEW t \in Tables, NEW rows \in Batches,
             AddRows(c, t, rows)
      PROVE  TypeOK'
  <2> DEFINE r == [Idle EXCEPT !.pc = "append", !.table = t, !.rows = rows]
  <2>1. r \in CallState /\ r.pc = "append" /\ r.table = t /\ r.rows = rows
    BY IdleType, ConstantsAssumption DEF CallState
  <2>2. UNCHANGED <<data, control, timer, clock>> /\ call' = [call EXCEPT ![c] = r]
    BY <1>1 DEF AddRows
  <2> HIDE DEF r
  <2>3. call[c].pc = "idle" /\ UNCHANGED carrying
    BY <1>1, <2>2 DEF AddRows, data
  <2>4. CallsOK'
    BY <1>0, <2>1, <2>2, <2>3 DEF CallsOK
  <2> QED
    BY <1>0, <2>2, <2>4, TypeQuiet DEF ControlOK, control
<1>2. ASSUME NEW c \in Callers, NEW d \in {"none", "ahead"}, Flush(c, d)
      PROVE  TypeOK'
  <2>1. UNCHANGED carrying /\ carrying[c] = NoTask
    BY <1>0, <1>2 DEF Flush, CallsOK, data
  <2>2. CallsOK'
    BY <1>0, <1>2, <2>1, BeginFlushKeepsCalls DEF Flush
  <2> QED
    BY <1>0, <1>2, <2>2, TypeQuiet DEF Flush, ControlOK, control
<1>3. ASSUME NEW c \in Callers, Close(c) PROVE TypeOK'
  <2>1. UNCHANGED carrying /\ carrying[c] = NoTask
    BY <1>0, <1>3 DEF Close, CallsOK, data
  <2>2. CallsOK'
    BY <1>0, <1>3, <2>1, GoToKeepsCalls DEF Close, Labels
  <2> QED
    BY <1>0, <1>3, <2>2, TypeQuiet DEF Close, ControlOK, control
<1>4. ASSUME NEW c \in Callers, NEW th \in RowThresholds, AppendRows(c, th)
      PROVE  TypeOK'
  <2> DEFINE t == call[c].table
             full == buffer[t] \o call[c].rows
             task == [table |-> t, rows |-> full, ts |-> 0, by |-> c]
             r == [Idle EXCEPT !.pc = "submit"]
  <2>1. t \in Tables /\ call[c].rows \in Seq(Rows) \ {<<>>} /\ call[c].pc = "append"
    BY <1>0, <1>4, ConstantsAssumption DEF CallsOK, AppendRows
  <2>2. full \in Seq(Rows) \ {<<>>}
    BY <1>0, <2>1 DEF TablesOK
  <2>3. task \in Task
    BY <2>1, <2>2 DEF Task, Threads
  <2>4. r \in CallState /\ r.pc = "submit"
    BY IdleType DEF CallState
  <2>5. /\ accepted' = [accepted EXCEPT ![t] = @ \o call[c].rows]
        /\ UNCHANGED <<lastFlush, queue, answer, stored, dropped, timer, control, clock>>
    BY <1>4 DEF AppendRows
  <2>6. c \in Agents /\ c \notin Workers /\ c # Timer
    BY ConstantsAssumption DEF Agents, Threads
  <2>7. CASE ~flushing[t] /\ Len(full) >= th
    <3>1. /\ flushing' = [flushing EXCEPT ![t] = TRUE]
          /\ buffer' = [buffer EXCEPT ![t] = <<>>]
          /\ carrying' = [carrying EXCEPT ![c] = task]
          /\ call' = [call EXCEPT ![c] = r]
      BY <1>4, <2>7 DEF AppendRows, Take
    <3> HIDE DEF task, r, t, full
    <3>2. TablesOK'
      BY <1>0, <2>1, <2>2, <2>5, <3>1 DEF TablesOK
    <3>3. PoolOK'
      BY <1>0, <2>3, <2>5, <2>6, <3>1 DEF PoolOK
    <3>4. CallsOK'
      <4>1. /\ carrying'[c] # NoTask
            /\ \A d \in Callers \ {c} : carrying'[d] = carrying[d]
        BY <1>0, <2>3, <2>6, <3>1, NoTaskAssumption DEF PoolOK, Agents, Threads
      <4> QED
        BY <1>0, <2>4, <3>1, <4>1, CallUpdate
    <3>5. TimerOK' /\ ControlOK'
      BY <1>0, <2>5, <2>6, <3>1 DEF TimerOK, ControlOK, control, PoolOK, Agents, Threads
    <3> QED
      BY <3>2, <3>3, <3>4, <3>5 DEF TypeOK
  <2>8. CASE ~(~flushing[t] /\ Len(full) >= th)
    <3>1. /\ buffer' = [buffer EXCEPT ![t] = full]
          /\ call' = [call EXCEPT ![c] = Idle]
          /\ UNCHANGED <<flushing, carrying>>
      BY <1>4, <2>8 DEF AppendRows
    <3> HIDE DEF t, full
    <3>2. TablesOK'
      BY <1>0, <2>1, <2>2, <2>5, <3>1 DEF TablesOK
    <3>3. CallsOK'
      <4>1. carrying'[c] = NoTask
        BY <1>0, <2>1, <3>1 DEF CallsOK
      <4> QED
        BY <1>0, <3>1, <4>1, IdleType, CallUpdate
    <3>4. PoolOK' /\ TimerOK' /\ ControlOK'
      BY <1>0, <2>5, <3>1 DEF PoolOK, TimerOK, ControlOK, control
    <3> QED
      BY <3>2, <3>3, <3>4 DEF TypeOK
  <2> QED
    BY <2>7, <2>8
<1>5. ASSUME NEW c \in Callers, SubmitRows(c) PROVE TypeOK'
  <2> DEFINE task == [carrying[c] EXCEPT !.ts = clock]
  <2>1. c \in Agents /\ c \notin Workers /\ c # Timer
    BY ConstantsAssumption DEF Agents, Threads
  <2>2. carrying[c] \in Task
    BY <1>0, <1>5, <2>1 DEF SubmitRows, CallsOK, PoolOK
  <2>3. task \in Task
    BY <1>0, <2>2 DEF Task, ControlOK
  <2>4. /\ Submitted(task) \/ Refused(task)
        /\ carrying' = [carrying EXCEPT ![c] = NoTask]
        /\ GoTo(c, "idle")
        /\ UNCHANGED <<buffer, flushing, lastFlush, answer, stored, accepted,
                       control, timer, clock>>
    BY <1>5 DEF SubmitRows
  <2> HIDE DEF task
  <2>5. TablesOK' /\ queue' \in Seq(Task)
    BY <1>0, <2>3, <2>4, SubmitTypes DEF TablesOK
  <2>6. PoolOK'
    BY <1>0, <2>1, <2>4, <2>5 DEF PoolOK
  <2>7. CallsOK'
    <3>1. carrying'[c] = NoTask /\ \A d \in Callers \ {c} : carrying'[d] = carrying[d]
      BY <1>0, <2>1, <2>4 DEF PoolOK, Agents, Threads
    <3> QED
      BY <1>0, <2>4, <3>1, GoToKeepsCalls DEF Labels
  <2>8. TimerOK' /\ ControlOK'
    BY <1>0, <1>5, <2>1, <2>4
    DEF TimerOK, ControlOK, control, PoolOK, Agents, Threads, SubmitRows, Submitted, Refused
  <2> QED
    BY <2>5, <2>6, <2>7, <2>8 DEF TypeOK
<1>6. ASSUME NEW c \in Callers, SetClosed(c) PROVE TypeOK'
  <2>1. UNCHANGED carrying /\ carrying[c] = NoTask
    BY <1>0, <1>6 DEF SetClosed, CallsOK, data
  <2>2. CallsOK'
    BY <1>0, <1>6, <2>1, BeginFlushKeepsCalls DEF SetClosed
  <2> QED
    BY <1>0, <1>6, <2>2, TypeQuiet DEF SetClosed, ControlOK
<1>7. ASSUME NEW c \in Callers, FlushTop(c) PROVE TypeOK'
  <2>1. UNCHANGED carrying /\ carrying[c] = NoTask
    BY <1>0, <1>7 DEF FlushTop, CallsOK, data
  <2>2. CASE call[c].deadline = "passed"
    <3>1. CallsOK'
      BY <1>0, <1>7, <2>1, <2>2, LeaveFlushKeepsCalls DEF FlushTop
    <3> QED
      BY <1>0, <1>7, <3>1, TypeQuiet DEF FlushTop, ControlOK, control
  <2>3. CASE call[c].deadline # "passed"
    <3> DEFINE r == [call[c] EXCEPT !.pc = "scan", !.todo = Tables,
                                    !.pending = FALSE, !.futures = {}]
    <3>1. r \in CallState /\ r.pc = "scan"
      BY <1>0, ZenonT(60) DEF CallsOK, CallState
    <3>2. call' = [call EXCEPT ![c] = r]
      BY <1>7, <2>3 DEF FlushTop
    <3> HIDE DEF r
    <3>3. CallsOK'
      BY <1>0, <2>1, <3>1, <3>2, CallUpdate
    <3> QED
      BY <1>0, <1>7, <3>3, TypeQuiet DEF FlushTop, ControlOK, control
  <2> QED
    BY <2>2, <2>3
<1>8. ASSUME NEW c \in Callers, NEW t \in Tables, FlushTable(c, t)
      PROVE  TypeOK'
  <2> DEFINE task == [table |-> t, rows |-> buffer[t], ts |-> clock, by |-> c]
  <2>1. /\ call[c].pc = "scan" /\ UNCHANGED carrying /\ carrying[c] = NoTask
        /\ UNCHANGED <<lastFlush, answer, stored, accepted, control, timer, clock>>
    BY <1>0, <1>8 DEF FlushTable, CallsOK
  <2>2. ASSUME NEW pending \in BOOLEAN, NEW futures \in SUBSET Tables,
               Seen(c, t, pending, futures)
        PROVE  CallsOK'
    <3> DEFINE r == [call[c] EXCEPT !.todo = @ \ {t}, !.pending = @ \/ pending,
                                    !.futures = @ \cup futures]
    <3>1. r \in CallState /\ r.pc = "scan"
      BY <1>0, <2>1, ZenonT(60) DEF CallsOK, CallState
    <3>2. call' = [call EXCEPT ![c] = r]
      BY <2>2 DEF Seen
    <3> HIDE DEF r
    <3> QED
      BY <1>0, <2>1, <3>1, <3>2, CallUpdate
  <2>3. ControlOK' /\ TimerOK'
    BY <1>0, <2>1 DEF ControlOK, TimerOK, control
  <2>4. CASE MayTake(t)
    <3>1. task \in Task
      BY <1>0, <2>4 DEF Task, Threads, MayTake, TablesOK, ControlOK
    <3>2. /\ Take(t)
          /\ \/ Submitted(task) /\ Seen(c, t, TRUE, {t})
             \/ Refused(task) /\ LeaveFlush(c, TRUE)
      BY <1>8, <2>4 DEF FlushTable
    <3>3. CallsOK'
      BY <1>0, <2>1, <2>2, <3>2, LeaveFlushKeepsCalls
    <3> HIDE DEF task
    <3>4. queue' \in Seq(Task) /\ dropped' \in [Tables -> Seq(Rows)]
      BY <1>0, <3>1, <3>2, SubmitTypes
    <3>5. TablesOK'
      <4>1. buffer' \in [Tables -> Seq(Rows)] /\ flushing' \in [Tables -> BOOLEAN]
        BY <1>0, <3>2 DEF TablesOK, Take
      <4> QED
        BY <1>0, <2>1, <3>4, <4>1 DEF TablesOK
    <3> QED
      BY <1>0, <2>1, <2>3, <3>3, <3>4, <3>5 DEF TypeOK, PoolOK
  <2>5. CASE ~MayTake(t)
    <3>1. /\ Seen(c, t, flushing[t], {})
          /\ UNCHANGED <<buffer, flushing, queue, dropped>>
      BY <1>8, <2>5 DEF FlushTable
    <3>2. CallsOK'
      BY <1>0, <2>2, <3>1 DEF TablesOK
    <3> QED
      BY <1>0, <2>1, <2>3, <3>1, <3>2 DEF TypeOK, PoolOK, TablesOK
  <2> QED
    BY <2>4, <2>5
<1>9. ASSUME NEW c \in Callers, FlushDone(c) PROVE TypeOK'
  <2>1. UNCHANGED carrying /\ carrying[c] = NoTask
    BY <1>0, <1>9 DEF FlushDone, CallsOK, data
  <2>2. CallsOK'
    BY <1>0, <1>9, <2>1, LeaveFlushKeepsCalls DEF FlushDone
  <2> QED
    BY <1>0, <1>9, <2>2, TypeQuiet DEF FlushDone, ControlOK, control
<1>10. ASSUME NEW c \in Callers, FlushWait(c) PROVE TypeOK'
  <2>1. UNCHANGED carrying /\ carrying[c] = NoTask
    BY <1>0, <1>10 DEF FlushWait, CallsOK, data
  <2>2. CallsOK'
    BY <1>0, <1>10, <2>1, GoToKeepsCalls DEF FlushWait, Labels
  <2> QED
    BY <1>0, <1>10, <2>2, TypeQuiet DEF FlushWait, ControlOK, control
<1>11. ASSUME NEW c \in Callers, Shutdown(c) PROVE TypeOK'
  <2>1. UNCHANGED carrying /\ carrying[c] = NoTask
    BY <1>0, <1>11 DEF Shutdown, CallsOK, data
  <2>2. CallsOK'
    BY <1>0, <1>11, <2>1, GoToKeepsCalls DEF Shutdown, Labels
  <2> QED
    BY <1>0, <1>11, <2>2, TypeQuiet DEF Shutdown, ControlOK
<1>12. ASSUME NEW c \in Callers, CloseReturns(c) PROVE TypeOK'
  <2>1. UNCHANGED carrying /\ carrying[c] = NoTask
    BY <1>0, <1>12 DEF CloseReturns, CallsOK, data
  <2>2. CallsOK'
    BY <1>0, <1>12, <2>1, IdleType, CallUpdate DEF CloseReturns
  <2> QED
    BY <1>0, <1>12, <2>2, TypeQuiet DEF CloseReturns, ControlOK
<1>13. ASSUME NEW c \in Callers, Deadline(c) PROVE TypeOK'
  <2> DEFINE r == [call[c] EXCEPT !.deadline = "passed"]
  <2>1. /\ r \in CallState /\ r.pc = call[c].pc
        /\ r.table = call[c].table /\ r.rows = call[c].rows
    BY <1>0, ZenonT(60) DEF CallsOK, CallState
  <2>2. call' = [call EXCEPT ![c] = r] /\ UNCHANGED <<data, control, timer, clock>>
    BY <1>13 DEF Deadline
  <2> HIDE DEF r
  <2>3. CallsOK'
    BY <1>0, <2>1, <2>2 DEF CallsOK, data
  <2> QED
    BY <1>0, <2>2, <2>3, TypeQuiet DEF ControlOK, control
<1>14. CASE TimerWake
  <2>1. UNCHANGED <<data, control, call, clock>> /\ timer.pc = "scan"
    BY <1>14 DEF TimerWake
  <2>2. timer' \in TimerState /\ timer'.pc \in {"scan", "stopped"}
    BY <1>0, <1>14, ConstantsAssumption, ZenonT(60) DEF TimerWake, TimerOK, TimerState, ControlOK
  <2> QED
    BY <1>0, <2>1, <2>2
    DEF TypeOK, TablesOK, PoolOK, CallsOK, ControlOK, TimerOK, data, control
<1>15. ASSUME NEW t \in Tables, TimerPeek(t) PROVE TypeOK'
  <2>1. UNCHANGED <<data, control, call, clock>> /\ timer.pc = "scan"
    BY <1>15 DEF TimerPeek
  <2>2. TimerOK'
    <3>1. CASE MayTake(t)
      <4>1. timer' = [timer EXCEPT !.todo = @ \ {t}, !.pc = "lock", !.table = t]
        BY <1>15, <3>1 DEF TimerPeek
      <4> QED
        BY <1>0, <2>1, <4>1 DEF TimerOK, TimerState, data
    <3>2. CASE ~MayTake(t)
      <4>1. timer' = [timer EXCEPT !.todo = @ \ {t}]
        BY <1>15, <3>2 DEF TimerPeek
      <4> QED
        BY <1>0, <2>1, <4>1 DEF TimerOK, TimerState, data
    <3> QED
      BY <3>1, <3>2
  <2> QED
    BY <1>0, <2>1, <2>2
    DEF TypeOK, TablesOK, PoolOK, CallsOK, ControlOK, data, control
<1>16. CASE TimerLock
  <2> DEFINE t == timer.table
             task == [table |-> t, rows |-> buffer[t], ts |-> timer.now, by |-> Timer]
  <2>1. /\ timer.pc = "lock" /\ t \in Tables
        /\ UNCHANGED <<lastFlush, queue, answer, stored, accepted, dropped, control,
                       call, clock>>
    BY <1>0, <1>16 DEF TimerLock, TimerOK
  <2>2. Timer \in Agents /\ Timer \notin Workers /\ Timer \notin Callers
    BY ConstantsAssumption DEF Agents, Threads
  <2>3. CASE MayTake(t) /\ TimeIsUp(t)
    <3>1. /\ Take(t) /\ carrying' = [carrying EXCEPT ![Timer] = task]
          /\ timer' = [timer EXCEPT !.pc = "submit", !.table = NoTask]
      BY <1>16, <2>3 DEF TimerLock
    <3>2. task \in Task
      BY <1>0, <2>1, <2>3 DEF Task, Threads, MayTake, TablesOK, TimerOK, TimerState
    <3>3. timer' \in TimerState /\ timer'.pc = "submit"
      BY <1>0, <3>1 DEF TimerOK, TimerState
    <3> HIDE DEF t, task
    <3>4. TablesOK' /\ PoolOK'
      BY <1>0, <2>1, <2>2, <3>1, <3>2 DEF TablesOK, PoolOK, Take
    <3>5. TimerOK'
      BY <1>0, <2>2, <3>1, <3>2, <3>3, NoTaskAssumption DEF TimerOK, PoolOK
    <3>6. CallsOK' /\ ControlOK'
      BY <1>0, <2>1, <2>2, <3>1 DEF CallsOK, ControlOK, control, PoolOK, Agents, Threads
    <3> QED
      BY <3>4, <3>5, <3>6 DEF TypeOK
  <2>4. CASE ~(MayTake(t) /\ TimeIsUp(t))
    <3>1. /\ timer' = [timer EXCEPT !.pc = "scan", !.table = NoTask]
          /\ UNCHANGED <<buffer, flushing, carrying>>
      BY <1>16, <2>4 DEF TimerLock
    <3>2. timer' \in TimerState /\ timer'.pc = "scan"
      BY <1>0, <3>1 DEF TimerOK, TimerState
    <3> QED
      BY <1>0, <2>1, <3>1, <3>2
      DEF TypeOK, TablesOK, PoolOK, CallsOK, ControlOK, TimerOK, control
  <2> QED
    BY <2>3, <2>4
<1>17. CASE TimerSubmit
  <2> DEFINE task == carrying[Timer]
  <2>1. Timer \in Agents /\ Timer \notin Workers /\ Timer \notin Callers
    BY ConstantsAssumption DEF Agents, Threads
  <2>2. task \in Task
    BY <1>0, <1>17, <2>1 DEF TimerSubmit, TimerOK, PoolOK
  <2>3. /\ Submitted(task) \/ Refused(task)
        /\ carrying' = [carrying EXCEPT ![Timer] = NoTask]
        /\ UNCHANGED <<buffer, flushing, lastFlush, answer, stored, accepted,
                       control, call, clock>>
    BY <1>17 DEF TimerSubmit
  <2>4. timer' \in TimerState /\ timer'.pc = "scan"
    BY <1>0, <1>17 DEF TimerSubmit, TimerOK, TimerState
  <2> HIDE DEF task
  <2>5. TablesOK' /\ queue' \in Seq(Task)
    BY <1>0, <2>2, <2>3, SubmitTypes DEF TablesOK
  <2>6. PoolOK' /\ TimerOK'
    BY <1>0, <2>1, <2>3, <2>4, <2>5 DEF PoolOK, TimerOK
  <2>7. CallsOK' /\ ControlOK'
    BY <1>0, <2>1, <2>3 DEF CallsOK, ControlOK, control, PoolOK, Agents, Threads
  <2> QED
    BY <2>5, <2>6, <2>7 DEF TypeOK
<1>18. ASSUME NEW w \in Workers, NEW task \in Task \cup {NoTask},
              carrying' = [carrying EXCEPT ![w] = task],
              TablesOK', queue' \in Seq(Task),
              answer' \in [Workers -> {"none", "ok", "raised"}],
              \A v \in Workers : answer'[v] # "none" => carrying'[v] # NoTask,
              UNCHANGED <<control, call, timer, clock>>
       PROVE  TypeOK'
  <2>1. w \in Agents /\ w \notin Callers /\ w # Timer /\ Timer \in Agents
    BY ConstantsAssumption DEF Agents, Threads
  <2>2. PoolOK'
    BY <1>0, <1>18 DEF PoolOK
  <2>3. CallsOK' /\ ControlOK' /\ TimerOK'
    BY <1>0, <1>18, <2>1
    DEF CallsOK, ControlOK, TimerOK, control, PoolOK, Agents, Threads
  <2> QED
    BY <1>18, <2>2, <2>3 DEF TypeOK
<1>19. ASSUME NEW w \in Workers PROVE w \in Agents
  BY DEF Agents
<1>20. ASSUME NEW w \in Workers, WorkerTake(w) PROVE TypeOK'
  <2>1. Head(queue) \in Task /\ Tail(queue) \in Seq(Task)
    BY <1>0, <1>20 DEF WorkerTake, PoolOK
  <2> QED
    BY <1>0, <1>18, <1>19, <1>20, <2>1, NoTaskAssumption
    DEF WorkerTake, TablesOK, PoolOK
<1>21. ASSUME NEW w \in Workers, ConvertRaises(w) PROVE TypeOK'
  BY <1>0, <1>21
  DEF ConvertRaises, TypeOK, TablesOK, PoolOK, CallsOK, ControlOK, TimerOK, control
<1>22. ASSUME NEW w \in Workers, NEW o \in Outcomes, BackendAnswers(w, o)
       PROVE  TypeOK'
  <2>1. carrying[w] \in Task /\ carrying[w].table \in Tables
    BY <1>0, <1>19, <1>22 DEF BackendAnswers, PoolOK, Task
  <2>2. carrying[w].rows \in Seq(Rows)
    BY <2>1 DEF Task
  <2>3. TablesOK'
    BY <1>0, <1>22, <2>1, <2>2 DEF BackendAnswers, TablesOK
  <2> QED
    BY <1>0, <1>22, <2>3
    DEF BackendAnswers, TypeOK, PoolOK, CallsOK, ControlOK, TimerOK, control
<1>23. ASSUME NEW w \in Workers, FlushSucceeds(w) PROVE TypeOK'
  <2>1. carrying[w] \in Task
    BY <1>0, <1>19, <1>23 DEF FlushSucceeds, PoolOK
  <2>2. TablesOK'
    BY <1>0, <1>23, <2>1 DEF FlushSucceeds, Release, TablesOK, Task
  <2> QED
    BY <1>0, <1>18, <1>19, <1>23, <2>2 DEF FlushSucceeds, Release, PoolOK
<1>24. ASSUME NEW w \in Workers, FlushFails(w) PROVE TypeOK'
  <2>1. carrying[w] \in Task
    BY <1>0, <1>19, <1>24 DEF FlushFails, PoolOK
  <2>2. carrying[w].rows \in Seq(Rows) /\ carrying[w].table \in Tables
    BY <2>1 DEF Task
  <2>3. TablesOK'
    BY <1>0, <1>24, <2>2 DEF FlushFails, Release, TablesOK
  <2> QED
    BY <1>0, <1>18, <1>19, <1>24, <2>3 DEF FlushFails, Release, PoolOK
<1>25. CASE Tick
  BY <1>0, <1>25
  DEF Tick, TypeOK, TablesOK, PoolOK, CallsOK, ControlOK, TimerOK, data, control
<1>26. CASE UNCHANGED vars
  BY <1>0, <1>26
  DEF vars, TypeOK, TablesOK, PoolOK, CallsOK, ControlOK, TimerOK, data, control
<1>27. ASSUME NEW c \in Callers, CloseAgain(c) PROVE TypeOK'
  BY <1>0, <1>27, TypeQuiet DEF CloseAgain, ControlOK, CallsOK, data
<1> QED
  BY <1>1, <1>2, <1>3, <1>4, <1>5, <1>6, <1>7, <1>8, <1>9, <1>10, <1>11, <1>12,
     <1>13, <1>14, <1>15, <1>16, <1>17, <1>20, <1>21, <1>22, <1>23, <1>24, <1>25,
     <1>26, <1>27
  DEF Next, Call, CallStep, TimerStep, WorkerStep

THEOREM TypeCorrect == Spec => []TypeOK
  BY TypeInit, TypeStep, PTL DEF Spec

-----------------------------------------------------------------------------
(* One flush per table                                                     *)

LEMMA CarriesTask ==
  ASSUME TypeOK, NEW a \in Agents, carrying[a] # NoTask
  PROVE  /\ carrying[a] \in Task
         /\ carrying[a].table \in Tables
         /\ carrying[a].rows \in Seq(Rows) \ {<<>>}
<1>1. carrying[a] \in Task
  BY DEF TypeOK, PoolOK
<1> QED
  BY <1>1 DEF Task

LEMMA QueuesTask ==
  ASSUME TypeOK, NEW i \in DOMAIN queue
  PROVE  /\ queue[i] \in Task
         /\ queue[i].table \in Tables
         /\ queue[i].rows \in Seq(Rows) \ {<<>>}
<1>1. queue[i] \in Task
  BY DEF TypeOK, PoolOK
<1> QED
  BY <1>1 DEF Task

LEMMA IsTask ==
  ASSUME NEW task \in Task
  PROVE  task # NoTask /\ task.table \in Tables /\ task.rows \in Seq(Rows) \ {<<>>}
  BY NoTaskAssumption DEF Task

(* A thread takes the rows of a table that is not being flushed. *)
LEMMA TakeKeepsOneFlush ==
  ASSUME TypeOK, OneFlushPerTable, NEW t \in Tables, ~flushing[t], Take(t),
         NEW a \in Agents, NEW task \in Task, task.table = t,
         carrying[a] = NoTask, carrying' = [carrying EXCEPT ![a] = task],
         UNCHANGED <<queue, dropped>>
  PROVE  OneFlushPerTable'
<1>1. carrying \in [Agents -> Task \cup {NoTask}] /\ flushing \in [Tables -> BOOLEAN]
  BY DEF TypeOK, PoolOK, TablesOK
<1>2. carrying'[a] = task /\ task # NoTask
  BY <1>1, IsTask
<1>3. OneFlush(t)'
  <2>1. Carried(t) = {} /\ Queued(t) = {} /\ dropped[t] = <<>>
    BY DEF OneFlushPerTable, OneFlush
  <2>2. Carried(t)' = {a} /\ Queued(t)' = {} /\ flushing'[t]
    BY <1>1, <1>2, <2>1 DEF Carried, Queued, Take
  <2> QED
    BY <2>1, <2>2 DEF OneFlush
<1>4. ASSUME NEW u \in Tables \ {t} PROVE OneFlush(u)'
  <2>1. Carried(u)' = Carried(u) /\ Queued(u)' = Queued(u) /\ flushing'[u] = flushing[u]
    BY <1>1, <1>2 DEF Carried, Queued, Take
  <2> QED
    BY <2>1 DEF OneFlushPerTable, OneFlush
<1> QED
  BY <1>3, <1>4 DEF OneFlushPerTable

(* The queue gets one batch more, or one batch less. *)
LEMMA QueuedAfterAppend ==
  ASSUME TypeOK, NEW task \in Task, queue' = Append(queue, task), NEW u \in Tables
  PROVE  /\ task.table # u => Queued(u)' = Queued(u)
         /\ task.table = u => Queued(u)' = Queued(u) \cup {Len(queue) + 1}
         /\ \A i \in Queued(u) : queue'[i] = queue[i]
         /\ queue'[Len(queue) + 1] = task
<1>1. queue \in Seq(Task)
  BY DEF TypeOK, PoolOK
<1>2. /\ DOMAIN queue = 1 .. Len(queue) /\ DOMAIN queue' = 1 .. Len(queue) + 1
      /\ \A i \in 1 .. Len(queue) : queue'[i] = queue[i]
      /\ queue'[Len(queue) + 1] = task
      /\ Len(queue) \in Nat
  BY <1>1, AppendProperties, LenProperties
<1> HIDE DEF Task
<1> QED
  BY <1>2 DEF Queued

LEMMA QueuedAfterTail ==
  ASSUME TypeOK, queue # <<>>, queue' = Tail(queue), NEW u \in Tables
  PROVE  /\ \A i \in Queued(u)' : /\ i \in Nat \ {0} /\ i + 1 \in Queued(u)
                                  /\ queue'[i] = queue[i + 1]
         /\ \A i \in Queued(u) : i # 1 => i - 1 \in Queued(u)'
         /\ 1 \in Queued(u) <=> Head(queue).table = u
<1>1. queue \in Seq(Task)
  BY DEF TypeOK, PoolOK
<1>2. /\ DOMAIN queue = 1 .. Len(queue) /\ DOMAIN queue' = 1 .. Len(queue) - 1
      /\ \A i \in 1 .. Len(queue) - 1 : queue'[i] = queue[i + 1]
      /\ Len(queue) \in Nat \ {0}
      /\ Head(queue) = queue[1]
  BY <1>1, HeadTailProperties, LenProperties, EmptySeq
<1> QED
  BY <1>2 DEF Queued

(* A thread hands its batch to the executor, which may refuse it. *)
LEMMA SubmitKeepsOneFlush ==
  ASSUME TypeOK, OneFlushPerTable, NEW a \in Agents, carrying[a] # NoTask,
         NEW task \in Task, task.table = carrying[a].table,
         Submitted(task) \/ Refused(task),
         carrying' = [carrying EXCEPT ![a] = NoTask],
         UNCHANGED flushing
  PROVE  OneFlushPerTable'
<1> DEFINE t == task.table
<1>1. /\ carrying \in [Agents -> Task \cup {NoTask}]
      /\ dropped \in [Tables -> Seq(Rows)]
      /\ t \in Tables /\ task.rows # <<>> /\ carrying'[a] = NoTask
  BY IsTask DEF TypeOK, PoolOK, TablesOK
<1>2. Carried(t) = {a} /\ Queued(t) = {} /\ dropped[t] = <<>> /\ flushing[t]
  BY <1>1 DEF OneFlushPerTable, OneFlush, Carried
<1>3. /\ Carried(t)' = {}
      /\ \A u \in Tables \ {t} : Carried(u)' = Carried(u)
  BY <1>1, <1>2 DEF Carried
<1> HIDE DEF t
<1>4. CASE Submitted(task)
  <2>1. queue' = Append(queue, task) /\ dropped' = dropped
    BY <1>4 DEF Submitted
  <2>2. /\ Queued(t)' = {Len(queue) + 1}
        /\ \A u \in Tables \ {t} : Queued(u)' = Queued(u)
    BY <1>1, <1>2, <2>1, QueuedAfterAppend DEF t
  <2>3. OneFlush(t)'
    BY <1>1, <1>2, <1>3, <2>1, <2>2 DEF OneFlush
  <2>4. ASSUME NEW u \in Tables \ {t} PROVE OneFlush(u)'
    BY <1>3, <2>1, <2>2 DEF OneFlushPerTable, OneFlush
  <2> QED
    BY <2>3, <2>4 DEF OneFlushPerTable
<1>5. CASE Refused(task)
  <2>1. /\ dropped'[t] # <<>>
        /\ \A u \in Tables \ {t} : dropped'[u] = dropped[u]
        /\ \A u \in Tables : Queued(u)' = Queued(u)
    BY <1>1, <1>5 DEF Refused, Queued, t
  <2> QED
    BY <1>1, <1>2, <1>3, <2>1 DEF OneFlushPerTable, OneFlush
<1> QED
  BY <1>4, <1>5

(* flush() does both under the lock. *)
LEMMA TakeAndSubmitKeepsOneFlush ==
  ASSUME TypeOK, OneFlushPerTable, NEW t \in Tables, ~flushing[t], Take(t),
         NEW task \in Task, task.table = t,
         Submitted(task) \/ Refused(task), UNCHANGED carrying
  PROVE  OneFlushPerTable'
<1>1. /\ flushing \in [Tables -> BOOLEAN] /\ dropped \in [Tables -> Seq(Rows)]
      /\ task.rows # <<>>
  BY IsTask DEF TypeOK, TablesOK
<1>2. Carried(t) = {} /\ Queued(t) = {} /\ dropped[t] = <<>>
  BY DEF OneFlushPerTable, OneFlush
<1>3. /\ flushing'[t] /\ \A u \in Tables \ {t} : flushing'[u] = flushing[u]
      /\ \A u \in Tables : Carried(u)' = Carried(u)
  BY <1>1 DEF Take, Carried
<1>4. CASE Submitted(task)
  <2>1. queue' = Append(queue, task) /\ dropped' = dropped
    BY <1>4 DEF Submitted
  <2>2. /\ Queued(t)' = {Len(queue) + 1}
        /\ \A u \in Tables \ {t} : Queued(u)' = Queued(u)
    BY <1>1, <1>2, <2>1, QueuedAfterAppend
  <2>3. OneFlush(t)'
    BY <1>1, <1>2, <1>3, <2>1, <2>2 DEF OneFlush
  <2>4. ASSUME NEW u \in Tables \ {t} PROVE OneFlush(u)'
    BY <1>3, <2>1, <2>2 DEF OneFlushPerTable, OneFlush
  <2> QED
    BY <2>3, <2>4 DEF OneFlushPerTable
<1>5. CASE Refused(task)
  <2>1. /\ dropped'[t] # <<>>
        /\ \A u \in Tables \ {t} : dropped'[u] = dropped[u]
        /\ \A u \in Tables : Queued(u)' = Queued(u)
    BY <1>1, <1>5 DEF Refused, Queued
  <2> QED
    BY <1>1, <1>2, <1>3, <2>1 DEF OneFlushPerTable, OneFlush
<1> QED
  BY <1>4, <1>5

LEMMA WorkerTakeKeepsOneFlush ==
  ASSUME TypeOK, OneFlushPerTable, NEW w \in Workers, WorkerTake(w)
  PROVE  OneFlushPerTable'
<1>1. /\ w \in Agents /\ carrying[w] = NoTask /\ queue # <<>>
      /\ carrying' = [carrying EXCEPT ![w] = Head(queue)]
      /\ queue' = Tail(queue) /\ UNCHANGED <<flushing, dropped>>
  BY DEF WorkerTake, Agents
<1>2. carrying \in [Agents -> Task \cup {NoTask}] /\ queue \in Seq(Task)
  BY DEF TypeOK, PoolOK
<1>3. Head(queue) \in Task
  BY <1>1, <1>2
<1>4. carrying'[w] = Head(queue) /\ Head(queue) # NoTask
  BY <1>1, <1>2, <1>3, IsTask
<1>t. PICK t \in Tables : t = Head(queue).table
  BY <1>3, IsTask
<1>5. OneFlush(t)'
  <2>1. 1 \in Queued(t)
    BY <1>1, <1>4, <1>t, QueuedAfterTail
  <2>2. OneFlush(t)
    BY <1>4 DEF OneFlushPerTable
  <2>3. /\ \A i \in Queued(t) : i = 1
        /\ Carried(t) = {} /\ dropped[t] = <<>> /\ flushing[t]
    BY <2>1, <2>2 DEF OneFlush
  <2>4. Queued(t)' = {}
    <3>1. ASSUME NEW i \in Queued(t)' PROVE FALSE
      BY <1>1, <1>4, <2>3, QueuedAfterTail
    <3> QED
      BY <3>1
  <2>5. Carried(t)' = {w}
    BY <1>1, <1>2, <1>4, <1>t, <2>3 DEF Carried
  <2> QED
    BY <1>1, <2>3, <2>4, <2>5 DEF OneFlush
<1>6. ASSUME NEW u \in Tables \ {t} PROVE OneFlush(u)'
  <2>1. Carried(u)' = Carried(u)
    BY <1>1, <1>2, <1>4, <1>t DEF Carried
  <2>2. /\ \A i \in Queued(u)' : i \in Nat /\ i + 1 \in Queued(u)
        /\ \A i \in Queued(u) : i - 1 \in Queued(u)'
    BY <1>1, <1>t, QueuedAfterTail
  <2>3. Queued(u)' = {} <=> Queued(u) = {}
    BY <2>2
  <2>4. OneFlush(u)
    BY DEF OneFlushPerTable
  <2>5. \A i, j \in Queued(u)' : i = j
    BY <2>2, <2>4 DEF OneFlush
  <2> QED
    BY <1>1, <2>1, <2>3, <2>4, <2>5 DEF OneFlush
<1> QED
  BY <1>5, <1>6 DEF OneFlushPerTable

LEMMA ReleaseKeepsOneFlush ==
  ASSUME TypeOK, OneFlushPerTable, NEW w \in Workers, carrying[w] # NoTask, Release(w)
  PROVE  OneFlushPerTable'
<1>1. w \in Agents
  BY DEF Agents
<1>t. PICK t \in Tables : t = carrying[w].table
  BY <1>1, CarriesTask
<1>2. /\ carrying \in [Agents -> Task \cup {NoTask}]
      /\ flushing \in [Tables -> BOOLEAN]
  BY DEF TypeOK, PoolOK, TablesOK
<1>3. Carried(t) = {w} /\ Queued(t) = {} /\ dropped[t] = <<>>
  BY <1>1, <1>t DEF OneFlushPerTable, OneFlush, Carried
<1>4. /\ carrying' = [carrying EXCEPT ![w] = NoTask]
      /\ flushing' = [flushing EXCEPT ![t] = FALSE]
      /\ UNCHANGED <<queue, dropped>>
  BY <1>t DEF Release
<1>5. ASSUME NEW u \in Tables PROVE Queued(u)' = Queued(u)
  BY <1>4 DEF Queued
<1>6. OneFlush(t)'
  <2>1. Carried(t)' = {} /\ ~flushing'[t]
    BY <1>1, <1>2, <1>3, <1>4 DEF Carried
  <2> QED
    BY <1>1, <1>3, <1>4, <1>5, <2>1 DEF OneFlush
<1>7. ASSUME NEW u \in Tables \ {t} PROVE OneFlush(u)'
  <2>1. Carried(u)' = Carried(u) /\ flushing'[u] = flushing[u]
    BY <1>1, <1>2, <1>4, <1>t DEF Carried
  <2> QED
    BY <1>4, <1>5, <2>1 DEF OneFlushPerTable, OneFlush
<1> QED
  BY <1>6, <1>7 DEF OneFlushPerTable

(* Any other step leaves the batches and the flags alone. *)
LEMMA QuietKeepsOneFlush ==
  ASSUME OneFlushPerTable, UNCHANGED <<flushing, queue, carrying, dropped>>
  PROVE  OneFlushPerTable'
  BY DEF OneFlushPerTable, OneFlush, Carried, Queued

LEMMA OneFlushStep == TypeOK /\ OneFlushPerTable /\ [Next]_vars => OneFlushPerTable'
<1> SUFFICES ASSUME TypeOK, OneFlushPerTable, [Next]_vars PROVE OneFlushPerTable'
  OBVIOUS
<1>1. ASSUME NEW c \in Callers, NEW th \in RowThresholds, AppendRows(c, th)
      PROVE  OneFlushPerTable'
  <2>1. c \in Agents /\ carrying[c] = NoTask
    BY <1>1 DEF Agents, Threads, AppendRows, TypeOK, CallsOK
  <2>2. PICK t \in Tables : t = call[c].table
    BY <1>1 DEF AppendRows, TypeOK, CallsOK
  <2>3. PICK rows : rows = buffer[t] \o call[c].rows
    OBVIOUS
  <2>4. rows \in Seq(Rows) \ {<<>>}
    BY <1>1, <2>2, <2>3, ConstantsAssumption DEF AppendRows, TypeOK, CallsOK, TablesOK
  <2>5. [table |-> t, rows |-> rows, ts |-> 0, by |-> c] \in Task
    BY <2>4 DEF Task, Threads
  <2>6. CASE ~flushing[t] /\ Len(rows) >= th
    BY <1>1, <2>1, <2>2, <2>3, <2>5, <2>6, TakeKeepsOneFlush DEF AppendRows
  <2>7. CASE ~(~flushing[t] /\ Len(rows) >= th)
    BY <1>1, <2>2, <2>3, <2>7, QuietKeepsOneFlush DEF AppendRows
  <2> QED
    BY <2>6, <2>7
<1>2. ASSUME NEW c \in Callers, SubmitRows(c) PROVE OneFlushPerTable'
  <2>1. c \in Agents /\ carrying[c] # NoTask
    BY <1>2 DEF Agents, Threads, SubmitRows, TypeOK, CallsOK
  <2>2. PICK task : task = [carrying[c] EXCEPT !.ts = clock]
    OBVIOUS
  <2>3. task \in Task /\ task.table = carrying[c].table
    BY <2>1, <2>2, CarriesTask DEF Task, TypeOK, ControlOK
  <2> QED
    BY <1>2, <2>1, <2>2, <2>3, SubmitKeepsOneFlush DEF SubmitRows
<1>3. ASSUME NEW c \in Callers, NEW t \in Tables, FlushTable(c, t)
      PROVE  OneFlushPerTable'
  <2>1. CASE MayTake(t)
    <3>1. PICK task : task = [table |-> t, rows |-> buffer[t], ts |-> clock, by |-> c]
      OBVIOUS
    <3>2. task \in Task /\ task.table = t /\ ~flushing[t]
      BY <2>1, <3>1 DEF Task, Threads, MayTake, TypeOK, TablesOK, ControlOK
    <3>3. Take(t) /\ (Submitted(task) \/ Refused(task)) /\ UNCHANGED carrying
      BY <1>3, <2>1, <3>1 DEF FlushTable
    <3> QED
      BY <3>2, <3>3, TakeAndSubmitKeepsOneFlush
  <2>2. CASE ~MayTake(t)
    BY <1>3, <2>2, QuietKeepsOneFlush DEF FlushTable
  <2> QED
    BY <2>1, <2>2
<1>4. CASE TimerLock
  <2>1. Timer \in Agents /\ carrying[Timer] = NoTask
    BY <1>4 DEF Agents, Threads, TimerLock, TypeOK, TimerOK
  <2>2. PICK t \in Tables : t = timer.table
    BY <1>4 DEF TimerLock, TypeOK, TimerOK
  <2>3. CASE MayTake(t) /\ TimeIsUp(t)
    <3>1. PICK task : task = [table |-> t, rows |-> buffer[t], ts |-> timer.now,
                              by |-> Timer]
      OBVIOUS
    <3>2. task \in Task /\ task.table = t /\ ~flushing[t]
      BY <2>3, <3>1 DEF Task, Threads, MayTake, TypeOK, TablesOK, TimerOK, TimerState
    <3> QED
      BY <1>4, <2>1, <2>2, <2>3, <3>1, <3>2, TakeKeepsOneFlush DEF TimerLock
  <2>4. CASE ~(MayTake(t) /\ TimeIsUp(t))
    BY <1>4, <2>2, <2>4, QuietKeepsOneFlush DEF TimerLock
  <2> QED
    BY <2>3, <2>4
<1>5. CASE TimerSubmit
  <2>1. Timer \in Agents /\ carrying[Timer] # NoTask
    BY <1>5 DEF Agents, Threads, TimerSubmit, TypeOK, TimerOK
  <2>2. PICK task : task = carrying[Timer]
    OBVIOUS
  <2>3. task \in Task /\ task.table = carrying[Timer].table
    BY <2>1, <2>2, CarriesTask
  <2> QED
    BY <1>5, <2>1, <2>2, <2>3, SubmitKeepsOneFlush DEF TimerSubmit
<1>6. ASSUME NEW w \in Workers, WorkerTake(w) PROVE OneFlushPerTable'
  BY <1>6, WorkerTakeKeepsOneFlush
<1>7. ASSUME NEW w \in Workers, FlushSucceeds(w) \/ FlushFails(w)
      PROVE  OneFlushPerTable'
  BY <1>7, ReleaseKeepsOneFlush DEF FlushSucceeds, FlushFails, TypeOK, PoolOK
<1>8. ASSUME NEW c \in Callers,
             \/ Call(c) \/ SetClosed(c) \/ FlushTop(c) \/ FlushDone(c) \/ FlushWait(c)
             \/ Shutdown(c) \/ CloseReturns(c) \/ Deadline(c)
      PROVE  OneFlushPerTable'
  <2>1. UNCHANGED data
    BY <1>8 DEF Call, AddRows, Flush, Close, CloseAgain, SetClosed, FlushTop, FlushDone,
                FlushWait, Shutdown, CloseReturns, Deadline
  <2> QED
    BY <2>1, QuietKeepsOneFlush DEF data
<1>9. ASSUME NEW w \in Workers, NEW o \in Outcomes,
             ConvertRaises(w) \/ BackendAnswers(w, o)
      PROVE  OneFlushPerTable'
  BY <1>9, QuietKeepsOneFlush DEF ConvertRaises, BackendAnswers
<1>10. ASSUME NEW w \in Workers, ConvertRaises(w) PROVE OneFlushPerTable'
  BY <1>10, QuietKeepsOneFlush DEF ConvertRaises
<1>11. CASE TimerWake \/ (\E t \in Tables : TimerPeek(t)) \/ Tick \/ UNCHANGED vars
  <2>1. UNCHANGED data
    BY <1>11 DEF TimerWake, TimerPeek, Tick, vars
  <2> QED
    BY <2>1, QuietKeepsOneFlush DEF data
<1> QED
  BY <1>1, <1>2, <1>3, <1>4, <1>5, <1>6, <1>7, <1>8, <1>9, <1>10, <1>11
  DEF Next, CallStep, TimerStep, WorkerStep

LEMMA OneFlushInit == Init => OneFlushPerTable
  BY NoTaskAssumption
  DEF Init, OneFlushPerTable, OneFlush, Carried, Queued, Agents

(* A table has at most one batch that has left its buffer and not finished *)
(* its flush, and is_flushing says whether there is one.                   *)
THEOREM Exclusive == Spec => []OneFlushPerTable
<1>1. TypeOK /\ OneFlushPerTable /\ [Next]_vars => (TypeOK /\ OneFlushPerTable)'
  BY TypeStep, OneFlushStep
<1> QED
  BY <1>1, TypeInit, OneFlushInit, PTL DEF Spec

-----------------------------------------------------------------------------
(* The rows of a table: stored, between, buffered                          *)

LEMMA ConcatThrice ==
  ASSUME NEW s \in Seq(Rows), NEW x \in Seq(Rows), NEW b \in Seq(Rows), NEW n \in Seq(Rows)
  PROVE  ((s \o x) \o b) \o n = (s \o x) \o (b \o n)
<1> DEFINE y == s \o x
<1>1. y \in Seq(Rows)
  BY ConcatProperties
<1> HIDE DEF y
<1>2. (y \o b) \o n = y \o (b \o n)
  BY <1>1, ConcatAssociative, SMTT(60)
<1> QED
  BY <1>2 DEF y

LEMMA Regroup ==
  ASSUME NEW s \in Seq(Rows), NEW x \in Seq(Rows), NEW b \in Seq(Rows), NEW n \in Seq(Rows)
  PROVE  /\ ((s \o <<>>) \o b) \o n = (s \o (b \o n)) \o <<>>
         /\ (s \o x) \o b = ((s \o x) \o <<>>) \o b
         /\ (s \o x) \o b = (s \o <<>>) \o (x \o b)
<1>1. s \o x \in Seq(Rows) /\ b \o n \in Seq(Rows)
  BY ConcatProperties
<1>2. s \o (b \o n) \in Seq(Rows)
  BY <1>1, ConcatProperties
<1>3. s \o <<>> = s /\ (s \o x) \o <<>> = s \o x
  BY <1>1, ConcatEmptySeq
<1>4. (s \o (b \o n)) \o <<>> = s \o (b \o n)
  BY <1>2, ConcatEmptySeq
<1>5. (s \o b) \o n = s \o (b \o n)
  BY ConcatAssociative
<1>6. (s \o x) \o b = s \o (x \o b)
  BY ConcatAssociative
<1> QED
  BY <1>3, <1>4, <1>5, <1>6

(* A table that a step does not touch. *)
LEMMA OtherTable ==
  ASSUME NEW u \in Tables, RowsConserved(u),
         flushing'[u] = flushing[u], buffer'[u] = buffer[u],
         stored'[u] = stored[u], accepted'[u] = accepted[u], dropped'[u] = dropped[u],
         \A a \in Carried(u)' : a \in Carried(u) /\ Unstored(a)' = Unstored(a),
         \A i \in Queued(u)' : \E j \in Queued(u) : queue'[i] = queue[j]
  PROVE  RowsConserved(u)'
<1>1. ASSUME NEW rows PROVE Between(u, rows)' <=> Between(u, rows)
  BY DEF Between
<1>2. ASSUME NEW a \in Carried(u)' PROVE Between(u, Unstored(a))'
  <2>1. PICK rows : rows = Unstored(a)
    OBVIOUS
  <2> QED
    BY <1>1, <1>2, <2>1 DEF RowsConserved, Between
<1>3. ASSUME NEW i \in Queued(u)' PROVE Between(u, queue[i].rows)'
  <2>1. PICK j \in Queued(u) : queue'[i] = queue[j]
    OBVIOUS
  <2> QED
    BY <2>1 DEF RowsConserved, Between
<1> QED
  BY <1>2, <1>3 DEF RowsConserved, Between

(* add_rows() appends: the same rows are between, whatever they are. *)
LEMMA AppendKeepsBetween ==
  ASSUME TypeOK, NEW t \in Tables, NEW new \in Seq(Rows), NEW rows \in Seq(Rows),
         Between(t, rows), UNCHANGED stored,
         accepted'[t] = accepted[t] \o new, buffer'[t] = buffer[t] \o new
  PROVE  Between(t, rows)'
<1>1. PICK s \in Seq(Rows), b \in Seq(Rows) : s = stored[t] /\ b = buffer[t]
  BY DEF TypeOK, TablesOK
<1>2. ((s \o rows) \o b) \o new = (s \o rows) \o (b \o new)
  BY ConcatThrice, ZenonT(60)
<1> QED
  BY <1>1, <1>2 DEF Between

(* A batch is taken out of the buffer of a table that is not being flushed: *)
(* by add_rows() with the rows it has just appended, by others with none.  *)
LEMMA TakeMakesBetween ==
  ASSUME TypeOK, NEW t \in Tables, NEW new \in Seq(Rows), NEW full,
         full = buffer[t] \o new,
         ~flushing[t], RowsConserved(t), UNCHANGED stored,
         accepted'[t] = accepted[t] \o new, buffer'[t] = <<>>
  PROVE  Between(t, full)'
<1>1. PICK s \in Seq(Rows), b \in Seq(Rows) : s = stored[t] /\ b = buffer[t]
  BY DEF TypeOK, TablesOK
<1>2. ((s \o <<>>) \o b) \o new = (s \o (b \o new)) \o <<>>
  BY Regroup
<1> QED
  BY <1>1, <1>2 DEF Between, RowsConserved

LEMMA TakeKeepsConserved ==
  ASSUME TypeOK, OneFlushPerTable, \A u \in Tables : RowsConserved(u),
         NEW t \in Tables, ~flushing[t], Take(t),
         NEW a \in Agents, a \notin Workers, NEW task \in Task, task.table = t,
         carrying[a] = NoTask, carrying' = [carrying EXCEPT ![a] = task],
         NEW new \in Seq(Rows), task.rows = buffer[t] \o new,
         accepted' = [accepted EXCEPT ![t] = @ \o new],
         UNCHANGED <<queue, dropped, stored, answer>>
  PROVE  \A u \in Tables : RowsConserved(u)'
<1>1. /\ carrying \in [Agents -> Task \cup {NoTask}]
      /\ buffer \in [Tables -> Seq(Rows)] /\ accepted \in [Tables -> Seq(Rows)]
      /\ flushing \in [Tables -> BOOLEAN]
  BY DEF TypeOK, PoolOK, TablesOK
<1>2. carrying'[a] = task /\ task # NoTask
  BY <1>1, IsTask
<1>3. RowsConserved(t)'
  <2>1. Carried(t) = {} /\ Queued(t) = {} /\ dropped[t] = <<>>
    BY DEF OneFlushPerTable, OneFlush
  <2>2. Carried(t)' = {a} /\ Queued(t)' = {} /\ flushing'[t]
    BY <1>1, <1>2, <2>1 DEF Carried, Queued, Take
  <2>3. Between(t, task.rows)'
    BY <1>1, TakeMakesBetween DEF Take
  <2>4. Unstored(a)' = task.rows
    BY <1>2 DEF Unstored
  <2>5. Between(t, Unstored(a))'
    BY <2>3, <2>4 DEF Between
  <2> QED
    BY <2>1, <2>2, <2>5 DEF RowsConserved
<1>4. ASSUME NEW u \in Tables \ {t} PROVE RowsConserved(u)'
  <2>1. /\ flushing'[u] = flushing[u] /\ buffer'[u] = buffer[u]
        /\ accepted'[u] = accepted[u] /\ Queued(u)' = Queued(u)
    BY <1>1 DEF Queued, Take
  <2>2. \A e \in Carried(u)' : e \in Carried(u) /\ Unstored(e)' = Unstored(e)
    BY <1>1, <1>2 DEF Carried, Unstored
  <2> QED
    BY <2>1, <2>2, OtherTable
<1> QED
  BY <1>3, <1>4

LEMMA SubmitKeepsConserved ==
  ASSUME TypeOK, OneFlushPerTable, \A u \in Tables : RowsConserved(u),
         NEW a \in Agents, a \notin Workers, carrying[a] # NoTask,
         NEW task \in Task, task.table = carrying[a].table,
         task.rows = carrying[a].rows, Submitted(task) \/ Refused(task),
         carrying' = [carrying EXCEPT ![a] = NoTask],
         UNCHANGED <<buffer, flushing, accepted, stored, answer>>
  PROVE  \A u \in Tables : RowsConserved(u)'
<1> DEFINE t == task.table
<1>1. /\ carrying \in [Agents -> Task \cup {NoTask}]
      /\ dropped \in [Tables -> Seq(Rows)]
      /\ t \in Tables /\ carrying'[a] = NoTask
  BY IsTask DEF TypeOK, PoolOK, TablesOK
<1>2. Carried(t) = {a} /\ Queued(t) = {} /\ dropped[t] = <<>> /\ flushing[t]
  BY <1>1 DEF OneFlushPerTable, OneFlush, Carried
<1>3. Carried(t)' = {}
  BY <1>1, <1>2 DEF Carried
<1>4. ASSUME NEW u \in Tables \ {t}, NEW e \in Carried(u)'
      PROVE  e \in Carried(u) /\ Unstored(e)' = Unstored(e)
  BY <1>1, <1>4 DEF Carried, Unstored
<1>5. Between(t, task.rows)'
  <2>1. a \in Carried(t) /\ Unstored(a) = task.rows
    BY <1>2 DEF Unstored
  <2> QED
    BY <1>1, <2>1 DEF RowsConserved, Between
<1> HIDE DEF t
<1>6. CASE Submitted(task)
  <2>1. queue' = Append(queue, task) /\ dropped' = dropped
    BY <1>6 DEF Submitted
  <2>2. RowsConserved(t)'
    <3>1. Queued(t)' = {Len(queue) + 1} /\ queue'[Len(queue) + 1] = task
      BY <1>1, <1>2, <2>1, QueuedAfterAppend DEF t
    <3>2. \A i \in Queued(t)' : Between(t, queue[i].rows)'
      BY <1>5, <3>1 DEF Between
    <3> QED
      BY <1>2, <1>3, <2>1, <3>2 DEF RowsConserved
  <2>3. ASSUME NEW u \in Tables \ {t} PROVE RowsConserved(u)'
    <3>1. \A i \in Queued(u)' : i \in Queued(u) /\ queue'[i] = queue[i]
      BY <2>1, QueuedAfterAppend DEF t
    <3> QED
      BY <1>4, <2>1, <3>1, OtherTable
  <2> QED
    BY <2>2, <2>3
<1>7. CASE Refused(task)
  <2>1. /\ dropped'[t] = task.rows /\ queue' = queue
        /\ \A u \in Tables \ {t} : dropped'[u] = dropped[u]
        /\ \A u \in Tables : Queued(u)' = Queued(u)
    BY <1>1, <1>7 DEF Refused, Queued, t
  <2>2. RowsConserved(t)'
    <3>1. Between(t, dropped[t])'
      BY <1>5, <2>1 DEF Between
    <3>2. Carried(t)' = {} /\ Queued(t)' = {} /\ flushing'[t]
      BY <1>1, <1>2, <1>3, <2>1 DEF t
    <3> QED
      BY <3>1, <3>2 DEF RowsConserved
  <2>3. ASSUME NEW u \in Tables \ {t} PROVE RowsConserved(u)'
    BY <1>4, <2>1, OtherTable
  <2> QED
    BY <2>2, <2>3
<1> QED
  BY <1>6, <1>7

LEMMA TakeAndSubmitKeepsConserved ==
  ASSUME TypeOK, OneFlushPerTable, \A u \in Tables : RowsConserved(u),
         NEW t \in Tables, ~flushing[t], Take(t),
         NEW task \in Task, task.table = t, task.rows = buffer[t],
         Submitted(task) \/ Refused(task),
         UNCHANGED <<carrying, accepted, stored, answer>>
  PROVE  \A u \in Tables : RowsConserved(u)'
<1>1. /\ buffer \in [Tables -> Seq(Rows)] /\ flushing \in [Tables -> BOOLEAN]
      /\ dropped \in [Tables -> Seq(Rows)] /\ accepted \in [Tables -> Seq(Rows)]
  BY DEF TypeOK, TablesOK
<1>2. Carried(t) = {} /\ Queued(t) = {} /\ dropped[t] = <<>>
  BY DEF OneFlushPerTable, OneFlush
<1>3. /\ flushing'[t] /\ buffer'[t] = <<>>
      /\ \A u \in Tables \ {t} : flushing'[u] = flushing[u] /\ buffer'[u] = buffer[u]
      /\ \A u \in Tables : Carried(u)' = Carried(u)
      /\ \A a \in Agents : Unstored(a)' = Unstored(a)
  BY <1>1 DEF Take, Carried, Unstored
<1>4. Between(t, task.rows)'
  <2>1. PICK b \in Seq(Rows), r \in Seq(Rows) : b = buffer[t] /\ r = accepted[t]
    BY <1>1
  <2>2. task.rows = buffer[t] \o <<>> /\ accepted'[t] = accepted[t] \o <<>>
    BY <2>1, ConcatEmptySeq
  <2>3. PICK rows : rows = task.rows
    OBVIOUS
  <2>4. <<>> \in Seq(Rows) /\ rows = buffer[t] \o <<>>
    BY <2>2, <2>3
  <2>5. Between(t, rows)'
    BY <1>3, <2>2, <2>4, TakeMakesBetween
  <2> QED
    BY <2>3, <2>5
<1>5. \A u \in Tables : Carried(u) \subseteq Agents
  BY DEF Carried
<1>6. CASE Submitted(task)
  <2>1. queue' = Append(queue, task) /\ dropped' = dropped
    BY <1>6 DEF Submitted
  <2>2. RowsConserved(t)'
    <3>1. Queued(t)' = {Len(queue) + 1} /\ queue'[Len(queue) + 1] = task
      BY <1>1, <1>2, <2>1, QueuedAfterAppend
    <3>2. \A i \in Queued(t)' : Between(t, queue[i].rows)'
      BY <1>4, <3>1 DEF Between
    <3> QED
      BY <1>2, <1>3, <2>1, <3>2 DEF RowsConserved
  <2>3. ASSUME NEW u \in Tables \ {t} PROVE RowsConserved(u)'
    <3>1. \A i \in Queued(u)' : i \in Queued(u) /\ queue'[i] = queue[i]
      BY <2>1, QueuedAfterAppend, ZenonT(60)
    <3> QED
      BY <1>3, <1>5, <2>1, <3>1, OtherTable
  <2> QED
    BY <2>2, <2>3
<1>7. CASE Refused(task)
  <2>1. /\ dropped'[t] = task.rows /\ queue' = queue
        /\ \A u \in Tables \ {t} : dropped'[u] = dropped[u]
        /\ \A u \in Tables : Queued(u)' = Queued(u)
    BY <1>1, <1>7 DEF Refused, Queued
  <2>2. RowsConserved(t)'
    <3>1. Between(t, dropped[t])'
      BY <1>4, <2>1 DEF Between
    <3>2. Carried(t)' = {} /\ Queued(t)' = {} /\ flushing'[t]
      BY <1>2, <1>3, <2>1
    <3> QED
      BY <3>1, <3>2 DEF RowsConserved
  <2>3. ASSUME NEW u \in Tables \ {t} PROVE RowsConserved(u)'
    BY <1>3, <1>5, <2>1, OtherTable
  <2> QED
    BY <2>2, <2>3
<1> QED
  BY <1>6, <1>7

LEMMA WorkerTakeKeepsConserved ==
  ASSUME TypeOK, OneFlushPerTable, \A u \in Tables : RowsConserved(u),
         NEW w \in Workers, WorkerTake(w)
  PROVE  \A u \in Tables : RowsConserved(u)'
<1>1. /\ w \in Agents /\ carrying[w] = NoTask /\ queue # <<>>
      /\ carrying' = [carrying EXCEPT ![w] = Head(queue)]
      /\ queue' = Tail(queue)
      /\ UNCHANGED <<buffer, flushing, stored, accepted, dropped, answer>>
  BY DEF WorkerTake, Agents
<1>2. /\ carrying \in [Agents -> Task \cup {NoTask}] /\ queue \in Seq(Task)
      /\ answer[w] = "none"
  BY <1>1 DEF TypeOK, PoolOK
<1>3. Head(queue) \in Task /\ Head(queue) = queue[1]
  BY <1>1, <1>2
<1>4. carrying'[w] = Head(queue) /\ Head(queue) # NoTask
  BY <1>1, <1>2, <1>3, IsTask
<1>t. PICK t \in Tables : t = Head(queue).table
  BY <1>3, IsTask
<1>5. RowsConserved(t)'
  <2>1. 1 \in Queued(t)
    BY <1>1, <1>t, QueuedAfterTail
  <2>2. OneFlush(t) /\ OneFlush(t)'
    BY WorkerTakeKeepsOneFlush DEF OneFlushPerTable
  <2>3. w \in Carried(t)'
    BY <1>1, <1>4, <1>t DEF Carried
  <2>4. Carried(t)' = {w} /\ Queued(t)' = {} /\ dropped[t] = <<>> /\ flushing'[t]
    BY <1>1, <2>2, <2>3 DEF OneFlush
  <2>5. Unstored(w)' = queue[1].rows
    BY <1>1, <1>2, <1>3, <1>4 DEF Unstored
  <2>6. Between(t, Unstored(w))'
    BY <1>1, <2>1, <2>5 DEF RowsConserved, Between
  <2> QED
    BY <1>1, <2>4, <2>6 DEF RowsConserved
<1>6. ASSUME NEW u \in Tables \ {t} PROVE RowsConserved(u)'
  <2>1. \A a \in Carried(u)' : a \in Carried(u) /\ Unstored(a)' = Unstored(a)
    BY <1>1, <1>2, <1>4, <1>t DEF Carried, Unstored
  <2>2. \A i \in Queued(u)' : i + 1 \in Queued(u) /\ queue'[i] = queue[i + 1]
    BY <1>1, QueuedAfterTail
  <2> QED
    BY <1>1, <2>1, <2>2, OtherTable
<1> QED
  BY <1>5, <1>6

LEMMA ConvertKeepsConserved ==
  ASSUME TypeOK, \A u \in Tables : RowsConserved(u), NEW w \in Workers,
         answer[w] = "none", answer' = [answer EXCEPT ![w] = "raised"],
         UNCHANGED <<buffer, flushing, queue, carrying, stored, accepted, dropped>>
  PROVE  \A u \in Tables : RowsConserved(u)'
<1>1. \A a : Unstored(a)' = Unstored(a)
  BY DEF TypeOK, PoolOK, Unstored
<1>2. \A u \in Tables : Carried(u)' = Carried(u) /\ Queued(u)' = Queued(u)
  BY DEF Carried, Queued
<1> QED
  BY <1>1, <1>2, OtherTable

(* The backend stores a batch and says so. *)
LEMMA StoreKeepsConserved ==
  ASSUME TypeOK, OneFlushPerTable, \A u \in Tables : RowsConserved(u),
         NEW w \in Workers, BackendAnswers(w, "ok")
  PROVE  \A u \in Tables : RowsConserved(u)'
<1>1. /\ w \in Agents /\ carrying[w] # NoTask /\ answer[w] = "none"
      /\ answer' = [answer EXCEPT ![w] = "ok"]
      /\ UNCHANGED <<buffer, flushing, queue, carrying, accepted, dropped>>
  BY DEF BackendAnswers, Agents
<1>t. PICK t \in Tables, rows \in Seq(Rows) :
        t = carrying[w].table /\ rows = carrying[w].rows
  BY <1>1, CarriesTask
<1>2. stored' = [stored EXCEPT ![t] = @ \o rows]
  BY <1>t DEF BackendAnswers
<1>3. /\ answer \in [Workers -> {"none", "ok", "raised"}]
      /\ stored \in [Tables -> Seq(Rows)] /\ buffer \in [Tables -> Seq(Rows)]
  BY DEF TypeOK, PoolOK, TablesOK
<1>4. \A u \in Tables : Carried(u)' = Carried(u) /\ Queued(u)' = Queued(u)
  BY <1>1 DEF Carried, Queued
<1>5. RowsConserved(t)'
  <2>1. w \in Carried(t) /\ Unstored(w) = rows
    BY <1>1, <1>t DEF Carried, Unstored
  <2>2. /\ Carried(t) = {w} /\ Queued(t) = {} /\ dropped[t] = <<>> /\ flushing[t]
        /\ Between(t, rows)
    BY <2>1 DEF OneFlushPerTable, OneFlush, RowsConserved
  <2>3. PICK s \in Seq(Rows), b \in Seq(Rows) : s = stored[t] /\ b = buffer[t]
    BY <1>3
  <2>4. (s \o rows) \o b = ((s \o rows) \o <<>>) \o b
    BY Regroup
  <2>5. Unstored(w)' = <<>>
    BY <1>1, <1>3 DEF Unstored
  <2>6. Between(t, Unstored(w))'
    BY <1>1, <1>2, <1>3, <2>2, <2>3, <2>4, <2>5 DEF Between
  <2> QED
    BY <1>1, <1>4, <2>2, <2>6 DEF RowsConserved
<1>6. ASSUME NEW u \in Tables \ {t} PROVE RowsConserved(u)'
  <2>1. w \notin Carried(u)
    BY <1>t DEF Carried
  <2>2. \A a \in Carried(u)' : a \in Carried(u) /\ Unstored(a)' = Unstored(a)
    BY <1>1, <1>3, <1>4, <2>1 DEF Unstored
  <2>3. stored'[u] = stored[u]
    BY <1>2, <1>3
  <2> QED
    BY <1>1, <1>4, <2>2, <2>3, OtherTable
<1> QED
  BY <1>5, <1>6

(* The worker is done: the rows are stored, or back in the buffer. *)
LEMMA ReleaseKeepsConserved ==
  ASSUME TypeOK, OneFlushPerTable, \A u \in Tables : RowsConserved(u),
         NEW w \in Workers, FlushSucceeds(w) \/ FlushFails(w)
  PROVE  \A u \in Tables : RowsConserved(u)'
<1>1. w \in Agents /\ carrying[w] # NoTask /\ Release(w)
  BY DEF FlushSucceeds, FlushFails, TypeOK, PoolOK, Agents
<1>t. PICK t \in Tables, rows \in Seq(Rows) :
        t = carrying[w].table /\ rows = carrying[w].rows
  BY <1>1, CarriesTask
<1>2. /\ carrying' = [carrying EXCEPT ![w] = NoTask]
      /\ flushing' = [flushing EXCEPT ![t] = FALSE]
      /\ answer' = [answer EXCEPT ![w] = "none"]
      /\ UNCHANGED <<queue, stored, accepted, dropped>>
  BY <1>1, <1>t DEF Release
<1>3. /\ carrying \in [Agents -> Task \cup {NoTask}]
      /\ answer \in [Workers -> {"none", "ok", "raised"}]
      /\ stored \in [Tables -> Seq(Rows)] /\ buffer \in [Tables -> Seq(Rows)]
      /\ flushing \in [Tables -> BOOLEAN]
  BY DEF TypeOK, PoolOK, TablesOK
<1>4. /\ w \in Carried(t) /\ Carried(t) = {w} /\ Queued(t) = {} /\ dropped[t] = <<>>
  BY <1>1, <1>t DEF Carried, OneFlushPerTable, OneFlush
<1>5. \A u \in Tables : Queued(u)' = Queued(u)
  BY <1>2 DEF Queued
<1>6. Between(t, <<>>)'
  <2>1. Between(t, Unstored(w))
    BY <1>4 DEF RowsConserved
  <2>2. CASE FlushSucceeds(w)
    BY <1>2, <2>1, <2>2 DEF FlushSucceeds, Unstored, Between
  <2>3. CASE FlushFails(w)
    <3>1. Unstored(w) = rows /\ buffer'[t] = rows \o buffer[t]
      BY <1>3, <1>t, <2>3 DEF FlushFails, Unstored
    <3>2. PICK s \in Seq(Rows), b \in Seq(Rows) : s = stored[t] /\ b = buffer[t]
      BY <1>3
    <3>3. (s \o rows) \o b = (s \o <<>>) \o (rows \o b)
      BY Regroup
    <3> QED
      BY <1>2, <2>1, <3>1, <3>2, <3>3 DEF Between
  <2> QED
    BY <2>2, <2>3
<1>7. RowsConserved(t)'
  <2>1. Carried(t)' = {}
    BY <1>2, <1>3, <1>4 DEF Carried
  <2> QED
    BY <1>2, <1>4, <1>5, <1>6, <2>1 DEF RowsConserved
<1>8. ASSUME NEW u \in Tables \ {t} PROVE RowsConserved(u)'
  <2>1. \A a \in Carried(u)' : a \in Carried(u) /\ Unstored(a)' = Unstored(a)
    BY <1>1, <1>2, <1>3, <1>t DEF Carried, Unstored
  <2>2. flushing'[u] = flushing[u]
    BY <1>2, <1>3
  <2>3. buffer'[u] = buffer[u]
    BY <1>3, <1>t DEF FlushSucceeds, FlushFails
  <2> QED
    BY <1>2, <1>5, <2>1, <2>2, <2>3, OtherTable
<1> QED
  BY <1>7, <1>8

LEMMA QuietKeepsConserved ==
  ASSUME \A u \in Tables : RowsConserved(u),
         UNCHANGED <<buffer, flushing, queue, carrying, answer, stored, accepted, dropped>>
  PROVE  \A u \in Tables : RowsConserved(u)'
<1>1. \A a : Unstored(a)' = Unstored(a)
  BY DEF Unstored
<1>2. \A u \in Tables : Carried(u)' = Carried(u) /\ Queued(u)' = Queued(u)
  BY DEF Carried, Queued
<1> QED
  BY <1>1, <1>2, OtherTable

LEMMA ConservedStep ==
  TypeOK /\ OneFlushPerTable /\ Conserved /\ [Next]_vars => Conserved'
<1> SUFFICES ASSUME TypeOK, OneFlushPerTable, [Next]_vars, AtomicBackend,
                    \A u \in Tables : RowsConserved(u)
             PROVE  \A u \in Tables : RowsConserved(u)'
  BY DEF Conserved, AtomicBackend
<1>1. ASSUME NEW c \in Callers, NEW th \in RowThresholds, AppendRows(c, th)
      PROVE  \A u \in Tables : RowsConserved(u)'
  <2>1. c \in Agents /\ c \notin Workers /\ carrying[c] = NoTask
    BY <1>1, ConstantsAssumption DEF Agents, Threads, AppendRows, TypeOK, CallsOK
  <2>2. PICK t \in Tables, new \in Seq(Rows) \ {<<>>} :
          t = call[c].table /\ new = call[c].rows
    BY <1>1, ConstantsAssumption DEF AppendRows, TypeOK, CallsOK
  <2>3. PICK rows : rows = buffer[t] \o new
    OBVIOUS
  <2>4. rows \in Seq(Rows) \ {<<>>} /\ buffer \in [Tables -> Seq(Rows)]
    BY <2>2, <2>3 DEF TypeOK, TablesOK
  <2>5. accepted' = [accepted EXCEPT ![t] = @ \o new]
    BY <1>1, <2>2 DEF AppendRows
  <2>6. CASE ~flushing[t] /\ Len(rows) >= th
    <3>1. PICK task : task = [table |-> t, rows |-> rows, ts |-> 0, by |-> c]
      OBVIOUS
    <3>2. task \in Task /\ task.table = t /\ task.rows = buffer[t] \o new
      BY <2>3, <2>4, <3>1 DEF Task, Threads
    <3>3. /\ Take(t) /\ carrying' = [carrying EXCEPT ![c] = task]
          /\ UNCHANGED <<queue, dropped, stored, answer>>
      BY <1>1, <2>2, <2>3, <2>6, <3>1 DEF AppendRows
    <3> QED
      BY <2>1, <2>2, <2>5, <2>6, <3>2, <3>3, TakeKeepsConserved
  <2>7. CASE ~(~flushing[t] /\ Len(rows) >= th)
    <3>1. /\ buffer' = [buffer EXCEPT ![t] = rows]
          /\ UNCHANGED <<flushing, queue, carrying, answer, stored, dropped>>
      BY <1>1, <2>2, <2>3, <2>7 DEF AppendRows
    <3>2. /\ \A a : Unstored(a)' = Unstored(a)
          /\ \A u \in Tables : Carried(u)' = Carried(u) /\ Queued(u)' = Queued(u)
      BY <3>1 DEF Carried, Queued, Unstored
    <3>3. RowsConserved(t)'
      <4>1. /\ accepted'[t] = accepted[t] \o new /\ buffer'[t] = buffer[t] \o new
            /\ UNCHANGED stored /\ new \in Seq(Rows)
        BY <2>2, <2>3, <2>4, <2>5, <3>1 DEF TypeOK, TablesOK
      <4>2. ASSUME NEW x \in Seq(Rows), Between(t, x) PROVE Between(t, x)'
        BY <4>1, <4>2, AppendKeepsBetween
      <4>3. ~flushing'[t] => Between(t, <<>>)'
        <5>0. <<>> \in Seq(Rows)
          OBVIOUS
        <5>1. PICK x \in Seq(Rows) : x = <<>>
          BY <5>0, Zenon
        <5>2. ~flushing[t] => Between(t, x)'
          BY <4>2, <5>1 DEF RowsConserved
        <5> QED
          BY <3>1, <5>1, <5>2 DEF Between
      <4>4. ASSUME NEW a \in Carried(t)' PROVE Between(t, Unstored(a))'
        <5>0. a \in Carried(t)
          BY <3>2, <4>4
        <5>1. a \in Agents /\ carrying[a] # NoTask /\ a \in Carried(t)
          BY <5>0 DEF Carried
        <5>2. carrying[a].rows \in Seq(Rows)
          BY <5>1, CarriesTask
        <5>3. PICK x \in Seq(Rows) : x = Unstored(a)
          <6>1. Unstored(a) \in Seq(Rows)
            BY <5>2 DEF Unstored
          <6> QED
            BY <6>1, Zenon
        <5>4. Between(t, x)'
          BY <4>2, <5>1, <5>3 DEF RowsConserved
        <5> QED
          BY <3>2, <5>3, <5>4 DEF Between
      <4>5. ASSUME NEW i \in Queued(t)' PROVE Between(t, queue[i].rows)'
        <5>1. i \in DOMAIN queue /\ i \in Queued(t)
          BY <3>1, <4>5 DEF Queued
        <5>2. PICK x \in Seq(Rows) : x = queue[i].rows
          BY <5>1, QueuesTask
        <5>3. Between(t, x)'
          BY <4>2, <5>1, <5>2 DEF RowsConserved
        <5> QED
          BY <3>1, <5>2, <5>3 DEF Between
      <4>6. dropped'[t] # <<>> => Between(t, dropped[t])'
        <5>1. PICK x \in Seq(Rows) : x = dropped[t]
          BY DEF TypeOK, TablesOK
        <5>2. dropped[t] # <<>> => Between(t, x)'
          BY <4>2, <5>1 DEF RowsConserved
        <5> QED
          BY <3>1, <5>1, <5>2 DEF Between
      <4> QED
        BY <4>3, <4>4, <4>5, <4>6 DEF RowsConserved
    <3>4. ASSUME NEW u \in Tables \ {t} PROVE RowsConserved(u)'
      <4>1. buffer'[u] = buffer[u] /\ accepted'[u] = accepted[u]
        BY <2>4, <2>5, <3>1 DEF TypeOK, TablesOK
      <4> QED
        BY <3>1, <3>2, <4>1, OtherTable
    <3> QED
      BY <3>3, <3>4
  <2> QED
    BY <2>6, <2>7
<1>2. ASSUME NEW c \in Callers, SubmitRows(c)
      PROVE  \A u \in Tables : RowsConserved(u)'
  <2>1. c \in Agents /\ c \notin Workers /\ carrying[c] # NoTask
    BY <1>2, ConstantsAssumption DEF Agents, Threads, SubmitRows, TypeOK, CallsOK
  <2>2. PICK task : task = [carrying[c] EXCEPT !.ts = clock]
    OBVIOUS
  <2>3. task \in Task /\ task.table = carrying[c].table /\ task.rows = carrying[c].rows
    BY <2>1, <2>2, CarriesTask DEF Task, TypeOK, ControlOK
  <2> QED
    BY <1>2, <2>1, <2>2, <2>3, SubmitKeepsConserved DEF SubmitRows
<1>3. ASSUME NEW c \in Callers, NEW t \in Tables, FlushTable(c, t)
      PROVE  \A u \in Tables : RowsConserved(u)'
  <2>1. CASE MayTake(t)
    <3>1. PICK task : task = [table |-> t, rows |-> buffer[t], ts |-> clock, by |-> c]
      OBVIOUS
    <3>2. task \in Task /\ task.table = t /\ task.rows = buffer[t] /\ ~flushing[t]
      BY <2>1, <3>1 DEF Task, Threads, MayTake, TypeOK, TablesOK, ControlOK
    <3>3. /\ Take(t) /\ (Submitted(task) \/ Refused(task))
          /\ UNCHANGED <<carrying, accepted, stored, answer>>
      BY <1>3, <2>1, <3>1 DEF FlushTable
    <3> QED
      BY <3>2, <3>3, TakeAndSubmitKeepsConserved
  <2>2. CASE ~MayTake(t)
    BY <1>3, <2>2, QuietKeepsConserved DEF FlushTable
  <2> QED
    BY <2>1, <2>2
<1>4. CASE TimerLock
  <2>1. Timer \in Agents /\ Timer \notin Workers /\ carrying[Timer] = NoTask
    BY <1>4, ConstantsAssumption DEF Agents, Threads, TimerLock, TypeOK, TimerOK
  <2>2. PICK t \in Tables : t = timer.table
    BY <1>4 DEF TimerLock, TypeOK, TimerOK
  <2>3. CASE MayTake(t) /\ TimeIsUp(t)
    <3>1. PICK task : task = [table |-> t, rows |-> buffer[t], ts |-> timer.now,
                              by |-> Timer]
      OBVIOUS
    <3>2. task \in Task /\ task.table = t /\ task.rows = buffer[t] /\ ~flushing[t]
      BY <2>3, <3>1 DEF Task, Threads, MayTake, TypeOK, TablesOK, TimerOK, TimerState
    <3>3. /\ Take(t) /\ carrying' = [carrying EXCEPT ![Timer] = task]
          /\ UNCHANGED <<queue, dropped, stored, answer, accepted>>
      BY <1>4, <2>2, <2>3, <3>1 DEF TimerLock
    <3>4. /\ task.rows = buffer[t] \o <<>>
          /\ accepted' = [accepted EXCEPT ![t] = @ \o <<>>]
      BY <3>2, <3>3, ConcatEmptySeq DEF TypeOK, TablesOK
    <3>5. <<>> \in Seq(Rows)
      OBVIOUS
    <3> QED
      BY <2>1, <3>2, <3>3, <3>4, <3>5, TakeKeepsConserved, ZenonT(60)
  <2>4. CASE ~(MayTake(t) /\ TimeIsUp(t))
    BY <1>4, <2>2, <2>4, QuietKeepsConserved DEF TimerLock
  <2> QED
    BY <2>3, <2>4
<1>5. CASE TimerSubmit
  <2>1. Timer \in Agents /\ Timer \notin Workers /\ carrying[Timer] # NoTask
    BY <1>5, ConstantsAssumption DEF Agents, Threads, TimerSubmit, TypeOK, TimerOK
  <2>2. PICK task : task = carrying[Timer]
    OBVIOUS
  <2>3. task \in Task /\ task.table = carrying[Timer].table
        /\ task.rows = carrying[Timer].rows
    BY <2>1, <2>2, CarriesTask
  <2> QED
    BY <1>5, <2>1, <2>2, <2>3, SubmitKeepsConserved DEF TimerSubmit
<1>6. ASSUME NEW w \in Workers, WorkerTake(w)
      PROVE  \A u \in Tables : RowsConserved(u)'
  BY <1>6, WorkerTakeKeepsConserved
<1>7. ASSUME NEW w \in Workers, FlushSucceeds(w) \/ FlushFails(w)
      PROVE  \A u \in Tables : RowsConserved(u)'
  BY <1>7, ReleaseKeepsConserved
<1>8. ASSUME NEW w \in Workers, ConvertRaises(w)
      PROVE  \A u \in Tables : RowsConserved(u)'
  BY <1>8, ConvertKeepsConserved DEF ConvertRaises
<1>9. ASSUME NEW w \in Workers, NEW o \in Outcomes, BackendAnswers(w, o)
      PROVE  \A u \in Tables : RowsConserved(u)'
  <2>1. o \in {"ok", "rejected"}
    BY ConstantsAssumption DEF AtomicBackend
  <2>2. CASE o = "ok"
    BY <1>9, <2>2, StoreKeepsConserved
  <2>3. CASE o = "rejected"
    BY <1>9, <2>3, ConvertKeepsConserved DEF BackendAnswers
  <2> QED
    BY <2>1, <2>2, <2>3
<1>10. ASSUME NEW c \in Callers,
              \/ Call(c) \/ SetClosed(c) \/ FlushTop(c) \/ FlushDone(c) \/ FlushWait(c)
              \/ Shutdown(c) \/ CloseReturns(c) \/ Deadline(c)
       PROVE  \A u \in Tables : RowsConserved(u)'
  <2>1. UNCHANGED data
    BY <1>10 DEF Call, AddRows, Flush, Close, CloseAgain, SetClosed, FlushTop, FlushDone,
                 FlushWait, Shutdown, CloseReturns, Deadline
  <2> QED
    BY <2>1, QuietKeepsConserved DEF data
<1>11. CASE TimerWake \/ (\E t \in Tables : TimerPeek(t)) \/ Tick \/ UNCHANGED vars
  <2>1. UNCHANGED data
    BY <1>11 DEF TimerWake, TimerPeek, Tick, vars
  <2> QED
    BY <2>1, QuietKeepsConserved DEF data
<1> QED
  BY <1>1, <1>2, <1>3, <1>4, <1>5, <1>6, <1>7, <1>8, <1>9, <1>10, <1>11
  DEF Next, CallStep, TimerStep, WorkerStep

LEMMA ConservedInit == Init => Conserved
<1> SUFFICES ASSUME Init, NEW t \in Tables PROVE RowsConserved(t)
  BY DEF Conserved
<1>1. <<>> = (<<>> \o <<>>) \o <<>>
  BY ConcatEmptySeq
<1> QED
  BY <1>1, NoTaskAssumption
  DEF Init, RowsConserved, Between, Carried, Queued, Agents

(* With an atomic backend, no accepted row is lost, stored twice, or       *)
(* stored out of order: only a batch refused by a closed executor stays    *)
(* unstored for ever.                                                      *)
THEOREM Conservation == Spec => []Conserved
<1>1. TypeOK /\ OneFlushPerTable /\ Conserved /\ [Next]_vars
        => (TypeOK /\ OneFlushPerTable /\ Conserved)'
  BY TypeStep, OneFlushStep, ConservedStep
<1> QED
  BY <1>1, TypeInit, OneFlushInit, ConservedInit, PTL DEF Spec

-----------------------------------------------------------------------------
(* The writer implements a log per table                                   *)

LEMMA PrefixOfConcat ==
  ASSUME NEW s \in Seq(Rows), NEW b \in Seq(Rows), s # <<>>
  PROVE  SubSeq(s \o b, 1, Len(s)) = s /\ Len(s) <= Len(s \o b)
<1>1. Len(s) \in Nat \ {0} /\ Len(s \o b) = Len(s) + Len(b) /\ Len(b) \in Nat
  BY EmptySeq, ConcatProperties, LenProperties
<1>2. 1 \in 1 .. Len(s) /\ Len(s) \in 1 .. Len(s)
  BY <1>1
<1>3. SubSeq(s \o b, 1, Len(s)) = SubSeq(s, 1, Len(s))
  BY <1>2, SubSeqOfConcat1
<1>4. SubSeq(s, 1, Len(s)) = s
  BY SubSeqFull
<1> QED
  BY <1>1, <1>3, <1>4

LEMMA StoreExtends ==
  ASSUME NEW s \in Seq(Rows), NEW x \in Seq(Rows) \ {<<>>}, NEW b \in Seq(Rows)
  PROVE  \E n \in Len(s) + 1 .. Len((s \o x) \o b) :
           s \o x = SubSeq((s \o x) \o b, 1, n)
<1> DEFINE y == s \o x
<1>1. y \in Seq(Rows) /\ Len(y) = Len(s) + Len(x)
  BY ConcatProperties
<1>2. Len(x) \in Nat \ {0} /\ Len(s) \in Nat
  BY EmptySeq, LenProperties
<1>3. y # <<>>
  BY <1>1, <1>2
<1> HIDE DEF y
<1>4. SubSeq(y \o b, 1, Len(y)) = y /\ Len(y) <= Len(y \o b) /\ Len(y \o b) \in Nat
  BY <1>1, <1>3, PrefixOfConcat, ConcatProperties, LenProperties
<1>5. Len(y) \in Len(s) + 1 .. Len(y \o b)
  BY <1>1, <1>2, <1>4
<1>6. \E n \in Len(s) + 1 .. Len(y \o b) : y = SubSeq(y \o b, 1, n)
  BY <1>4, <1>5
<1> QED
  BY <1>6 DEF y

LEMMA LogStep ==
  ASSUME AtomicBackend, TypeOK, OneFlushPerTable, Conserved, [Next]_vars
  PROVE  [Log!Next]_<<accepted, stored>>
<1>1. ASSUME NEW c \in Callers, NEW th \in RowThresholds, AppendRows(c, th)
      PROVE  Log!Next
  <2>1. PICK t \in Tables, rows \in Batches : t = call[c].table /\ rows = call[c].rows
    BY <1>1 DEF AppendRows, TypeOK, CallsOK
  <2>2. Log!Accept(t)
    BY <1>1, <2>1 DEF AppendRows, Log!Accept
  <2> QED
    BY <2>2 DEF Log!Next
<1>2. ASSUME NEW w \in Workers, BackendAnswers(w, "ok") PROVE Log!Next
  <2>1. w \in Agents /\ carrying[w] # NoTask /\ answer[w] = "none"
    BY <1>2 DEF BackendAnswers, Agents
  <2>2. PICK t \in Tables, rows \in Seq(Rows) \ {<<>>} :
          t = carrying[w].table /\ rows = carrying[w].rows
    BY <2>1, CarriesTask
  <2>3. Between(t, rows)
    BY <2>1, <2>2 DEF Conserved, RowsConserved, Carried, Unstored
  <2>4. stored' = [stored EXCEPT ![t] = @ \o rows] /\ UNCHANGED accepted
    BY <1>2, <2>2 DEF BackendAnswers
  <2>5. \E n \in Len(stored[t]) + 1 .. Len(accepted[t]) :
          stored[t] \o rows = SubSeq(accepted[t], 1, n)
    <3>1. PICK s \in Seq(Rows), b \in Seq(Rows) : s = stored[t] /\ b = buffer[t]
      BY DEF TypeOK, TablesOK
    <3>2. \E n \in Len(s) + 1 .. Len((s \o rows) \o b) :
            s \o rows = SubSeq((s \o rows) \o b, 1, n)
      BY StoreExtends
    <3> QED
      BY <2>3, <3>1, <3>2 DEF Between
  <2>6. Log!Store(t)
    BY <2>4, <2>5 DEF Log!Store
  <2> QED
    BY <2>6 DEF Log!Next
<1>3. ASSUME NEW w \in Workers, NEW o \in Outcomes, BackendAnswers(w, o), o # "ok"
      PROVE  UNCHANGED <<accepted, stored>>
  BY <1>3, ConstantsAssumption DEF BackendAnswers, AtomicBackend
<1>4. ASSUME NEW c \in Callers,
             \/ Call(c) \/ SetClosed(c) \/ FlushTop(c) \/ FlushDone(c) \/ FlushWait(c)
             \/ Shutdown(c) \/ CloseReturns(c) \/ Deadline(c) \/ SubmitRows(c)
             \/ \E t \in Tables : FlushTable(c, t)
      PROVE  UNCHANGED <<accepted, stored>>
  BY <1>4 DEF Call, AddRows, Flush, Close, CloseAgain, SetClosed, FlushTop, FlushDone, FlushWait,
              Shutdown, CloseReturns, Deadline, SubmitRows, FlushTable, data
<1>5. ASSUME TimerStep \/ Tick \/ UNCHANGED vars PROVE UNCHANGED <<accepted, stored>>
  BY <1>5 DEF TimerStep, TimerWake, TimerPeek, TimerLock, TimerSubmit, Tick, vars, data
<1>6. ASSUME NEW w \in Workers,
             WorkerTake(w) \/ ConvertRaises(w) \/ FlushSucceeds(w) \/ FlushFails(w)
      PROVE  UNCHANGED <<accepted, stored>>
  BY <1>6 DEF WorkerTake, ConvertRaises, FlushSucceeds, FlushFails, Release
<1> QED
  BY <1>1, <1>2, <1>3, <1>4, <1>5, <1>6 DEF Next, CallStep, WorkerStep

(* The writer with an atomic backend implements TableLog: in each table,   *)
(* what is stored only ever grows to a longer prefix of what was accepted. *)
THEOREM Refinement == ASSUME AtomicBackend PROVE Spec => ImplementsLog
<1>1. Init => Log!Init
  BY DEF Init, Log!Init
<1>2. TypeOK /\ OneFlushPerTable /\ Conserved /\ [Next]_vars
        => [Log!Next]_<<accepted, stored>>
  BY LogStep
<1>3. Spec => [](TypeOK /\ OneFlushPerTable /\ Conserved)
  BY TypeCorrect, Exclusive, Conservation, PTL
<1> QED
  BY <1>1, <1>2, <1>3, PTL DEF Spec, ImplementsLog, Log!Spec, Log!vars

-----------------------------------------------------------------------------
(***************************************************************************)
(* What flush() covers, the silence after close(), the order of            *)
(* last_flush_ts and the order in which rows are stored, for any writer    *)
(* and any backend, also one that stores a batch and raises.               *)
(***************************************************************************)

(* Where a row is                                                          *)

InTask(x, t, r) == x # NoTask /\ x.table = t /\ r \in Range(x.rows)
Flying(t, r) == \E a \in Agents : InTask(carrying[a], t, r)
Waiting(t, r) == \E i \in DOMAIN queue : InTask(queue[i], t, r)

Has(t, r) == \/ r \in Range(stored[t]) \/ r \in Range(buffer[t]) \/ r \in Range(dropped[t])
             \/ Flying(t, r) \/ Waiting(t, r)

(* The inductive form of NoRowLost; what a worker is told is stored, is.   *)
AllHeld == \A t \in Tables : \A r : r \in Range(accepted[t]) <=> Has(t, r)
AnswersTrue == \A w \in Workers : answer[w] = "ok" =>
  \A r : r \in Range(carrying[w].rows) => r \in Range(stored[carrying[w].table])

WriterInv == TypeOK /\ OneFlushPerTable /\ AllHeld /\ AnswersTrue

LEMMA RangeOfConcat ==
  ASSUME NEW s \in Seq(Rows), NEW u \in Seq(Rows)
  PROVE  \A r : r \in Range(s \o u) <=> r \in Range(s) \/ r \in Range(u)
  BY RangeConcatenation

LEMMA RangeOfEmpty == \A r : r \notin Range(<<>>)
  BY DEF Range

LEMMA FlyingChanges ==
  ASSUME TypeOK, NEW a \in Agents, NEW x, carrying' = [carrying EXCEPT ![a] = x],
         NEW t, NEW r
  PROVE  \E other \in BOOLEAN : /\ Flying(t, r) <=> other \/ InTask(carrying[a], t, r)
                                /\ Flying(t, r)' <=> other \/ InTask(x, t, r)
<1> DEFINE other == \E b \in Agents \ {a} : InTask(carrying[b], t, r)
<1>1. carrying'[a] = x /\ \A b \in Agents \ {a} : carrying'[b] = carrying[b]
  BY DEF TypeOK, PoolOK
<1>2. Flying(t, r) <=> other \/ InTask(carrying[a], t, r)
  BY DEF Flying
<1>3. Flying(t, r)' <=> other \/ InTask(x, t, r)
  BY <1>1 DEF Flying, InTask
<1>4. other \in BOOLEAN
  OBVIOUS
<1> HIDE DEF other
<1> QED
  BY <1>2, <1>3, <1>4

LEMMA WaitingAppended ==
  ASSUME TypeOK, NEW task \in Task, queue' = Append(queue, task), NEW t, NEW r
  PROVE  Waiting(t, r)' <=> Waiting(t, r) \/ InTask(task, t, r)
<1>1. queue \in Seq(Task)
  BY DEF TypeOK, PoolOK
<1>2. /\ DOMAIN queue = 1 .. Len(queue) /\ DOMAIN queue' = 1 .. Len(queue) + 1
      /\ \A i \in 1 .. Len(queue) : queue'[i] = queue[i]
      /\ queue'[Len(queue) + 1] = task
      /\ Len(queue) \in Nat
  BY <1>1, AppendProperties, LenProperties
<1> HIDE DEF Task
<1>3. /\ \A i \in DOMAIN queue : i \in DOMAIN queue' /\ queue'[i] = queue[i]
      /\ Len(queue) + 1 \in DOMAIN queue'
      /\ \A i \in DOMAIN queue' : i \in DOMAIN queue \/ i = Len(queue) + 1
  BY <1>2
<1> QED
  BY <1>2, <1>3 DEF Waiting, InTask

LEMMA WaitingTaken ==
  ASSUME TypeOK, queue # <<>>, queue' = Tail(queue), NEW t, NEW r
  PROVE  Waiting(t, r) <=> Waiting(t, r)' \/ InTask(Head(queue), t, r)
<1>1. queue \in Seq(Task)
  BY DEF TypeOK, PoolOK
<1>2. /\ DOMAIN queue = 1 .. Len(queue) /\ DOMAIN queue' = 1 .. Len(queue) - 1
      /\ \A i \in 1 .. Len(queue) - 1 : queue'[i] = queue[i + 1]
      /\ Len(queue) \in Nat \ {0}
      /\ Head(queue) = queue[1]
  BY <1>1, HeadTailProperties, LenProperties, EmptySeq
<1>3. /\ \A i \in DOMAIN queue' : i + 1 \in DOMAIN queue /\ queue'[i] = queue[i + 1]
      /\ 1 \in DOMAIN queue
  BY <1>2
<1>4. \A i \in DOMAIN queue :
        i = 1 \/ (i - 1 \in DOMAIN queue' /\ queue'[i - 1] = queue[i])
  BY <1>2
<1>5. Waiting(t, r) => Waiting(t, r)' \/ InTask(Head(queue), t, r)
  BY <1>2, <1>4 DEF Waiting, InTask
<1>6. Waiting(t, r)' \/ InTask(Head(queue), t, r) => Waiting(t, r)
  BY <1>2, <1>3 DEF Waiting, InTask
<1> QED
  BY <1>5, <1>6

-----------------------------------------------------------------------------
(* No row is lost                                                          *)

(* A thread takes a buffer, to which it may have added rows.               *)
LEMMA TakeKeepsHeld ==
  ASSUME TypeOK, AllHeld, NEW t \in Tables, Take(t), NEW new \in Seq(Rows),
         NEW a \in Agents, NEW task \in Task, task.table = t,
         task.rows = buffer[t] \o new, accepted' = [accepted EXCEPT ![t] = @ \o new],
         carrying[a] = NoTask, carrying' = [carrying EXCEPT ![a] = task],
         UNCHANGED <<queue, dropped, stored>>
  PROVE  AllHeld'
<1>1. /\ buffer \in [Tables -> Seq(Rows)] /\ accepted \in [Tables -> Seq(Rows)]
      /\ buffer' = [buffer EXCEPT ![t] = <<>>]
  BY DEF TypeOK, TablesOK, Take
<1> SUFFICES ASSUME NEW u \in Tables, NEW r
             PROVE  r \in Range(accepted[u])' <=> Has(u, r)'
  BY DEF AllHeld
<1>2. r \in Range(accepted[u]) <=> Has(u, r)
  BY DEF AllHeld
<1>3. PICK other \in BOOLEAN : /\ Flying(u, r) <=> other \/ InTask(carrying[a], u, r)
                               /\ Flying(u, r)' <=> other \/ InTask(task, u, r)
  BY FlyingChanges
<1>4. Waiting(u, r)' <=> Waiting(u, r)
  BY DEF Waiting
<1>5. ~InTask(carrying[a], u, r)
  BY DEF InTask
<1>6. CASE u = t
  <2>1. accepted'[u] = accepted[u] \o new /\ buffer'[u] = <<>>
    BY <1>1, <1>6
  <2>2. /\ r \in Range(accepted'[u]) <=> r \in Range(accepted[u]) \/ r \in Range(new)
        /\ r \in Range(task.rows) <=> r \in Range(buffer[u]) \/ r \in Range(new)
    BY <1>1, <1>6, <2>1, RangeOfConcat
  <2>3. InTask(task, u, r) <=> r \in Range(task.rows)
    BY <1>6, IsTask DEF InTask
  <2> QED
    BY <1>2, <1>3, <1>4, <1>5, <2>1, <2>2, <2>3, RangeOfEmpty DEF Has
<1>7. CASE u # t
  <2>1. accepted'[u] = accepted[u] /\ buffer'[u] = buffer[u] /\ ~InTask(task, u, r)
    BY <1>1, <1>7 DEF InTask
  <2> QED
    BY <1>2, <1>3, <1>4, <1>5, <2>1 DEF Has
<1> QED
  BY <1>6, <1>7

(* A batch is handed to the executor, or lost.                             *)
LEMMA SubmitKeepsHeld ==
  ASSUME TypeOK, OneFlushPerTable, AllHeld, NEW a \in Agents, carrying[a] # NoTask,
         NEW task \in Task, task.table = carrying[a].table, task.rows = carrying[a].rows,
         Submitted(task) \/ Refused(task), carrying' = [carrying EXCEPT ![a] = NoTask],
         UNCHANGED <<buffer, stored, accepted>>
  PROVE  AllHeld'
<1> SUFFICES ASSUME NEW u \in Tables, NEW r
             PROVE  r \in Range(accepted[u])' <=> Has(u, r)'
  BY DEF AllHeld
<1>1. r \in Range(accepted[u]) <=> Has(u, r)
  BY DEF AllHeld
<1>2. PICK other \in BOOLEAN : /\ Flying(u, r) <=> other \/ InTask(carrying[a], u, r)
                               /\ Flying(u, r)' <=> other \/ InTask(NoTask, u, r)
  BY FlyingChanges
<1>3. /\ ~InTask(NoTask, u, r)
      /\ InTask(carrying[a], u, r) <=> InTask(task, u, r)
  BY IsTask DEF InTask
<1>4. CASE Submitted(task)
  <2>1. queue' = Append(queue, task) /\ dropped' = dropped
    BY <1>4 DEF Submitted
  <2>2. Waiting(u, r)' <=> Waiting(u, r) \/ InTask(task, u, r)
    BY <2>1, WaitingAppended
  <2> QED
    BY <1>1, <1>2, <1>3, <2>1, <2>2 DEF Has
<1>5. CASE Refused(task)
  <2>1. /\ dropped \in [Tables -> Seq(Rows)] /\ task.table \in Tables /\ queue' = queue
        /\ dropped' = [dropped EXCEPT ![task.table] = task.rows]
    BY <1>5, IsTask DEF Refused, TypeOK, TablesOK
  <2>2. Waiting(u, r)' <=> Waiting(u, r)
    BY <2>1 DEF Waiting
  <2>3. CASE u = task.table
    <3>1. dropped[u] = <<>>
      BY <2>1, <2>3 DEF OneFlushPerTable, OneFlush, Carried
    <3>2. dropped'[u] = task.rows /\ (InTask(task, u, r) <=> r \in Range(task.rows))
      BY <2>1, <2>3, IsTask DEF InTask
    <3> QED
      BY <1>1, <1>2, <1>3, <2>2, <3>1, <3>2, RangeOfEmpty DEF Has
  <2>4. CASE u # task.table
    <3>1. dropped'[u] = dropped[u] /\ ~InTask(task, u, r)
      BY <2>1, <2>4 DEF InTask
    <3> QED
      BY <1>1, <1>2, <1>3, <2>2, <3>1 DEF Has
  <2> QED
    BY <2>3, <2>4
<1> QED
  BY <1>4, <1>5

(* flush() takes and hands over under the lock.                            *)
LEMMA TakeAndSubmitKeepsHeld ==
  ASSUME TypeOK, OneFlushPerTable, AllHeld, NEW t \in Tables, ~flushing[t], Take(t),
         NEW task \in Task, task.table = t, task.rows = buffer[t],
         Submitted(task) \/ Refused(task), UNCHANGED <<carrying, stored, accepted>>
  PROVE  AllHeld'
<1> SUFFICES ASSUME NEW u \in Tables, NEW r
             PROVE  r \in Range(accepted[u])' <=> Has(u, r)'
  BY DEF AllHeld
<1>1. r \in Range(accepted[u]) <=> Has(u, r)
  BY DEF AllHeld
<1>2. /\ buffer \in [Tables -> Seq(Rows)] /\ dropped \in [Tables -> Seq(Rows)]
      /\ buffer' = [buffer EXCEPT ![t] = <<>>] /\ dropped[t] = <<>>
  BY DEF TypeOK, TablesOK, Take, OneFlushPerTable, OneFlush
<1>3. Flying(u, r)' <=> Flying(u, r)
  BY DEF Flying
<1>4. /\ u = t => (InTask(task, u, r) <=> r \in Range(buffer[u])) /\ buffer'[u] = <<>>
      /\ u # t => ~InTask(task, u, r) /\ buffer'[u] = buffer[u]
  BY <1>2, IsTask DEF InTask
<1>5. CASE Submitted(task)
  <2>1. queue' = Append(queue, task) /\ dropped' = dropped
    BY <1>5 DEF Submitted
  <2>2. Waiting(u, r)' <=> Waiting(u, r) \/ InTask(task, u, r)
    BY <2>1, WaitingAppended
  <2> QED
    BY <1>1, <1>3, <1>4, <2>1, <2>2, RangeOfEmpty DEF Has
<1>6. CASE Refused(task)
  <2>1. queue' = queue /\ dropped' = [dropped EXCEPT ![t] = buffer[t]]
    BY <1>6 DEF Refused
  <2>2. Waiting(u, r)' <=> Waiting(u, r)
    BY <2>1 DEF Waiting
  <2>3. IF u = t THEN dropped'[u] = buffer[u] ELSE dropped'[u] = dropped[u]
    BY <1>2, <2>1
  <2> QED
    BY <1>1, <1>2, <1>3, <1>4, <2>2, <2>3, RangeOfEmpty DEF Has
<1> QED
  BY <1>5, <1>6

LEMMA WorkerTakeKeepsHeld ==
  ASSUME TypeOK, AllHeld, NEW w \in Workers, WorkerTake(w)
  PROVE  AllHeld'
<1>1. /\ w \in Agents /\ carrying[w] = NoTask /\ queue # <<>>
      /\ carrying' = [carrying EXCEPT ![w] = Head(queue)]
      /\ queue' = Tail(queue) /\ UNCHANGED <<stored, buffer, dropped, accepted>>
  BY DEF WorkerTake, Agents
<1> SUFFICES ASSUME NEW u \in Tables, NEW r
             PROVE  r \in Range(accepted[u])' <=> Has(u, r)'
  BY DEF AllHeld
<1>2. r \in Range(accepted[u]) <=> Has(u, r)
  BY DEF AllHeld
<1>3. PICK other \in BOOLEAN : /\ Flying(u, r) <=> other \/ InTask(carrying[w], u, r)
                               /\ Flying(u, r)' <=> other \/ InTask(Head(queue), u, r)
  BY <1>1, FlyingChanges
<1>4. Waiting(u, r) <=> Waiting(u, r)' \/ InTask(Head(queue), u, r)
  BY <1>1, WaitingTaken
<1>5. ~InTask(carrying[w], u, r)
  BY <1>1 DEF InTask
<1> QED
  BY <1>1, <1>2, <1>3, <1>4, <1>5 DEF Has

LEMMA StoreKeepsHeld ==
  ASSUME TypeOK, AllHeld, NEW w \in Workers, NEW o, BackendAnswers(w, o)
  PROVE  AllHeld'
<1>1. /\ w \in Agents /\ carrying[w] # NoTask
      /\ UNCHANGED <<buffer, queue, carrying, accepted, dropped>>
  BY DEF BackendAnswers, Agents
<1>2. PICK t \in Tables, rows \in Seq(Rows) :
        t = carrying[w].table /\ rows = carrying[w].rows
  BY <1>1, CarriesTask
<1> SUFFICES ASSUME NEW u \in Tables, NEW r
             PROVE  r \in Range(accepted[u])' <=> Has(u, r)'
  BY DEF AllHeld
<1>3. r \in Range(accepted[u]) <=> Has(u, r)
  BY DEF AllHeld
<1>4. (Flying(u, r)' <=> Flying(u, r)) /\ (Waiting(u, r)' <=> Waiting(u, r))
  BY <1>1 DEF Flying, Waiting
<1>5. stored \in [Tables -> Seq(Rows)]
      /\ (stored' = stored \/ stored' = [stored EXCEPT ![t] = @ \o rows])
  BY <1>2 DEF BackendAnswers, TypeOK, TablesOK
<1>6. u = t /\ r \in Range(rows) => Flying(u, r)
  BY <1>1, <1>2 DEF Flying, InTask
<1>7. \/ stored'[u] = stored[u]
      \/ u = t /\ (r \in Range(stored'[u]) <=> r \in Range(stored[u]) \/ r \in Range(rows))
  BY <1>5, RangeOfConcat
<1> QED
  BY <1>1, <1>3, <1>4, <1>6, <1>7 DEF Has

LEMMA FinishKeepsHeld ==
  ASSUME TypeOK, AllHeld, AnswersTrue, NEW w \in Workers, FlushSucceeds(w) \/ FlushFails(w)
  PROVE  AllHeld'
<1>1. /\ w \in Agents /\ carrying[w] # NoTask
      /\ UNCHANGED <<queue, stored, accepted, dropped>>
      /\ carrying' = [carrying EXCEPT ![w] = NoTask]
  BY DEF FlushSucceeds, FlushFails, Release, Agents, TypeOK, PoolOK
<1>2. PICK t \in Tables, rows \in Seq(Rows) :
        t = carrying[w].table /\ rows = carrying[w].rows
  BY <1>1, CarriesTask
<1> SUFFICES ASSUME NEW u \in Tables, NEW r
             PROVE  r \in Range(accepted[u])' <=> Has(u, r)'
  BY DEF AllHeld
<1>3. r \in Range(accepted[u]) <=> Has(u, r)
  BY DEF AllHeld
<1>4. PICK other \in BOOLEAN : /\ Flying(u, r) <=> other \/ InTask(carrying[w], u, r)
                               /\ Flying(u, r)' <=> other \/ InTask(NoTask, u, r)
  BY <1>1, FlyingChanges
<1>5. /\ ~InTask(NoTask, u, r) /\ (Waiting(u, r)' <=> Waiting(u, r))
      /\ InTask(carrying[w], u, r) <=> u = t /\ r \in Range(rows)
  BY <1>1, <1>2 DEF InTask, Waiting
<1>6. CASE FlushSucceeds(w)
  <2>1. buffer' = buffer /\ (u = t /\ r \in Range(rows) => r \in Range(stored[u]))
    BY <1>2, <1>6 DEF FlushSucceeds, AnswersTrue
  <2> QED
    BY <1>1, <1>3, <1>4, <1>5, <2>1 DEF Has
<1>7. CASE FlushFails(w)
  <2>1. buffer \in [Tables -> Seq(Rows)] /\ buffer' = [buffer EXCEPT ![t] = rows \o @]
    BY <1>2, <1>7 DEF FlushFails, TypeOK, TablesOK
  <2>2. IF u = t THEN r \in Range(buffer'[u]) <=> r \in Range(rows) \/ r \in Range(buffer[u])
        ELSE buffer'[u] = buffer[u]
    BY <2>1, RangeOfConcat
  <2> QED
    BY <1>1, <1>3, <1>4, <1>5, <2>2 DEF Has
<1> QED
  BY <1>6, <1>7

LEMMA AppendKeepsHeld ==
  ASSUME TypeOK, AllHeld, NEW t \in Tables, NEW new \in Seq(Rows),
         accepted' = [accepted EXCEPT ![t] = @ \o new],
         buffer' = [buffer EXCEPT ![t] = @ \o new],
         UNCHANGED <<queue, carrying, stored, dropped>>
  PROVE  AllHeld'
<1> SUFFICES ASSUME NEW u \in Tables, NEW r
             PROVE  r \in Range(accepted[u])' <=> Has(u, r)'
  BY DEF AllHeld
<1>1. r \in Range(accepted[u]) <=> Has(u, r)
  BY DEF AllHeld
<1>2. (Flying(u, r)' <=> Flying(u, r)) /\ (Waiting(u, r)' <=> Waiting(u, r))
  BY DEF Flying, Waiting
<1>3. buffer \in [Tables -> Seq(Rows)] /\ accepted \in [Tables -> Seq(Rows)]
  BY DEF TypeOK, TablesOK
<1>4. CASE u = t
  <2>1. accepted'[u] = accepted[u] \o new /\ buffer'[u] = buffer[u] \o new
    BY <1>3, <1>4
  <2>2. /\ r \in Range(accepted'[u]) <=> r \in Range(accepted[u]) \/ r \in Range(new)
        /\ r \in Range(buffer'[u]) <=> r \in Range(buffer[u]) \/ r \in Range(new)
    BY <1>3, <2>1, RangeOfConcat
  <2> QED
    BY <1>1, <1>2, <2>2 DEF Has
<1>5. CASE u # t
  BY <1>1, <1>2, <1>3, <1>5 DEF Has
<1> QED
  BY <1>4, <1>5

LEMMA QuietKeepsHeld ==
  ASSUME AllHeld, UNCHANGED <<buffer, queue, carrying, stored, accepted, dropped>>
  PROVE  AllHeld'
  BY DEF AllHeld, Has, Flying, Waiting

LEMMA HeldStep == TypeOK /\ OneFlushPerTable /\ AllHeld /\ AnswersTrue /\ [Next]_vars => AllHeld'
<1> SUFFICES ASSUME TypeOK, OneFlushPerTable, AllHeld, AnswersTrue, [Next]_vars
             PROVE  AllHeld'
  OBVIOUS
<1>1. ASSUME NEW c \in Callers, NEW th \in RowThresholds, AppendRows(c, th)
      PROVE  AllHeld'
  <2>1. c \in Agents /\ carrying[c] = NoTask
    BY <1>1 DEF Agents, Threads, AppendRows, TypeOK, CallsOK
  <2>2. PICK t \in Tables, new \in Seq(Rows) \ {<<>>} :
          t = call[c].table /\ new = call[c].rows
    BY <1>1, ConstantsAssumption DEF AppendRows, TypeOK, CallsOK
  <2>3. /\ accepted' = [accepted EXCEPT ![t] = @ \o new]
        /\ UNCHANGED <<queue, dropped, stored>>
    BY <1>1, <2>2 DEF AppendRows
  <2>4. CASE ~flushing[t] /\ Len(buffer[t] \o new) >= th
    <3>1. PICK task : task = [table |-> t, rows |-> buffer[t] \o new, ts |-> 0, by |-> c]
      OBVIOUS
    <3>2. buffer[t] \o new \in Seq(Rows) \ {<<>>}
      BY <2>2 DEF TypeOK, TablesOK
    <3>3. task \in Task /\ task.table = t /\ task.rows = buffer[t] \o new
      BY <3>1, <3>2 DEF Task, Threads
    <3>4. Take(t) /\ carrying' = [carrying EXCEPT ![c] = task]
      BY <1>1, <2>2, <2>4, <3>1 DEF AppendRows
    <3> QED
      BY <2>1, <2>2, <2>3, <3>3, <3>4, TakeKeepsHeld
  <2>5. CASE ~(~flushing[t] /\ Len(buffer[t] \o new) >= th)
    <3>1. buffer' = [buffer EXCEPT ![t] = buffer[t] \o new] /\ UNCHANGED carrying
      BY <1>1, <2>2, <2>5 DEF AppendRows
    <3> QED
      BY <2>2, <2>3, <3>1, AppendKeepsHeld
  <2> QED
    BY <2>4, <2>5
<1>2. ASSUME NEW c \in Callers, SubmitRows(c) PROVE AllHeld'
  <2>1. c \in Agents /\ carrying[c] # NoTask
    BY <1>2 DEF Agents, Threads, SubmitRows, TypeOK, CallsOK
  <2>2. PICK task : task = [carrying[c] EXCEPT !.ts = clock]
    OBVIOUS
  <2>3. task \in Task /\ task.table = carrying[c].table /\ task.rows = carrying[c].rows
    BY <2>1, <2>2, CarriesTask DEF Task, TypeOK, ControlOK
  <2> QED
    BY <1>2, <2>1, <2>2, <2>3, SubmitKeepsHeld DEF SubmitRows
<1>3. ASSUME NEW c \in Callers, NEW t \in Tables, FlushTable(c, t) PROVE AllHeld'
  <2>1. CASE MayTake(t)
    <3>1. PICK task : task = [table |-> t, rows |-> buffer[t], ts |-> clock, by |-> c]
      OBVIOUS
    <3>2. task \in Task /\ task.table = t /\ task.rows = buffer[t] /\ ~flushing[t]
      BY <2>1, <3>1 DEF Task, Threads, MayTake, TypeOK, TablesOK, ControlOK
    <3>3. /\ Take(t) /\ (Submitted(task) \/ Refused(task))
          /\ UNCHANGED <<carrying, accepted, stored>>
      BY <1>3, <2>1, <3>1 DEF FlushTable
    <3> QED
      BY <3>2, <3>3, TakeAndSubmitKeepsHeld
  <2>2. CASE ~MayTake(t)
    BY <1>3, <2>2, QuietKeepsHeld DEF FlushTable
  <2> QED
    BY <2>1, <2>2
<1>4. CASE TimerLock
  <2>1. Timer \in Agents /\ carrying[Timer] = NoTask
    BY <1>4 DEF Agents, Threads, TimerLock, TypeOK, TimerOK
  <2>2. PICK t \in Tables : t = timer.table
    BY <1>4 DEF TimerLock, TypeOK, TimerOK
  <2>3. CASE MayTake(t) /\ TimeIsUp(t)
    <3>1. PICK task : task = [table |-> t, rows |-> buffer[t], ts |-> timer.now,
                              by |-> Timer]
      OBVIOUS
    <3>2. task \in Task /\ task.table = t /\ task.rows = buffer[t]
      BY <2>3, <3>1 DEF Task, Threads, MayTake, TypeOK, TablesOK, TimerOK, TimerState
    <3>3. /\ Take(t) /\ carrying' = [carrying EXCEPT ![Timer] = task]
          /\ UNCHANGED <<queue, dropped, stored, accepted>>
      BY <1>4, <2>2, <2>3, <3>1 DEF TimerLock
    <3>4. /\ task.rows = buffer[t] \o <<>>
          /\ accepted' = [accepted EXCEPT ![t] = @ \o <<>>]
      BY <3>2, <3>3, ConcatEmptySeq DEF TypeOK, TablesOK
    <3>5. <<>> \in Seq(Rows)
      OBVIOUS
    <3> QED
      BY <2>1, <3>2, <3>3, <3>4, <3>5, TakeKeepsHeld, ZenonT(60)
  <2>4. CASE ~(MayTake(t) /\ TimeIsUp(t))
    BY <1>4, <2>2, <2>4, QuietKeepsHeld DEF TimerLock
  <2> QED
    BY <2>3, <2>4
<1>5. CASE TimerSubmit
  <2>1. Timer \in Agents /\ carrying[Timer] # NoTask
    BY <1>5 DEF Agents, Threads, TimerSubmit, TypeOK, TimerOK
  <2>2. PICK task : task = carrying[Timer]
    OBVIOUS
  <2>3. task \in Task /\ task.table = carrying[Timer].table
        /\ task.rows = carrying[Timer].rows
    BY <2>1, <2>2, CarriesTask
  <2> QED
    BY <1>5, <2>1, <2>2, <2>3, SubmitKeepsHeld DEF TimerSubmit
<1>6. ASSUME NEW w \in Workers, WorkerTake(w) PROVE AllHeld'
  BY <1>6, WorkerTakeKeepsHeld
<1>7. ASSUME NEW w \in Workers, FlushSucceeds(w) \/ FlushFails(w) PROVE AllHeld'
  BY <1>7, FinishKeepsHeld
<1>8. ASSUME NEW w \in Workers, ConvertRaises(w) PROVE AllHeld'
  BY <1>8, QuietKeepsHeld DEF ConvertRaises
<1>9. ASSUME NEW w \in Workers, NEW o \in Outcomes, BackendAnswers(w, o)
      PROVE  AllHeld'
  BY <1>9, StoreKeepsHeld
<1>10. ASSUME NEW c \in Callers,
              \/ Call(c) \/ SetClosed(c) \/ FlushTop(c) \/ FlushDone(c) \/ FlushWait(c)
              \/ Shutdown(c) \/ CloseReturns(c) \/ Deadline(c)
       PROVE  AllHeld'
  <2>1. UNCHANGED data
    BY <1>10 DEF Call, AddRows, Flush, Close, CloseAgain, SetClosed, FlushTop, FlushDone,
                 FlushWait, Shutdown, CloseReturns, Deadline
  <2> QED
    BY <2>1, QuietKeepsHeld DEF data
<1>11. CASE TimerWake \/ (\E t \in Tables : TimerPeek(t)) \/ Tick \/ UNCHANGED vars
  <2>1. UNCHANGED data
    BY <1>11 DEF TimerWake, TimerPeek, Tick, vars
  <2> QED
    BY <2>1, QuietKeepsHeld DEF data
<1> QED
  BY <1>1, <1>2, <1>3, <1>4, <1>5, <1>6, <1>7, <1>8, <1>9, <1>10, <1>11
  DEF Next, CallStep, TimerStep, WorkerStep

(* stored and accepted only ever grow, at their end.                       *)
Grows ==
  /\ \A t \in Tables : \A r : r \in Range(stored[t]) => r \in Range(stored'[t])
  /\ \A t \in Tables : /\ Len(accepted[t]) <= Len(accepted'[t])
                       /\ \A i \in 1 .. Len(accepted[t]) : accepted'[t][i] = accepted[t][i]

LEMMA StepGrows == TypeOK /\ [Next]_vars => Grows
<1> SUFFICES ASSUME TypeOK, [Next]_vars PROVE Grows
  OBVIOUS
<1>0. stored \in [Tables -> Seq(Rows)] /\ accepted \in [Tables -> Seq(Rows)]
  BY DEF TypeOK, TablesOK
<1>1. ASSUME UNCHANGED <<stored, accepted>> PROVE Grows
  BY <1>0, <1>1, LenProperties DEF Grows
<1>2. ASSUME NEW c \in Callers, NEW th \in RowThresholds, AppendRows(c, th)
      PROVE  Grows
  <2>1. PICK t \in Tables, new \in Seq(Rows) : t = call[c].table /\ new = call[c].rows
    BY <1>2, ConstantsAssumption DEF AppendRows, TypeOK, CallsOK
  <2>2. accepted' = [accepted EXCEPT ![t] = @ \o new] /\ stored' = stored
    BY <1>2, <2>1 DEF AppendRows
  <2>3. /\ accepted'[t] = accepted[t] \o new
        /\ \A u \in Tables \ {t} : accepted'[u] = accepted[u]
        /\ \A u \in Tables : Len(accepted[u]) \in Nat
    BY <1>0, <2>2, LenProperties
  <2>4. /\ Len(accepted[t]) <= Len(accepted[t] \o new)
        /\ \A i \in 1 .. Len(accepted[t]) : (accepted[t] \o new)[i] = accepted[t][i]
    <3>1. PICK s \in Seq(Rows) : s = accepted[t]
      BY <1>0
    <3>2. /\ Len(s \o new) = Len(s) + Len(new) /\ Len(s) \in Nat /\ Len(new) \in Nat
          /\ \A i \in 1 .. Len(s) + Len(new) :
               (s \o new)[i] = IF i <= Len(s) THEN s[i] ELSE new[i - Len(s)]
      BY <2>1, ConcatProperties, LenProperties
    <3>3. Len(s) <= Len(s \o new) /\ \A i \in 1 .. Len(s) : (s \o new)[i] = s[i]
      BY <3>2
    <3> QED
      BY <3>1, <3>3
  <2> QED
    BY <2>2, <2>3, <2>4 DEF Grows
<1>3. ASSUME NEW w \in Workers, NEW o \in Outcomes, BackendAnswers(w, o) PROVE Grows
  <2>1. w \in Agents /\ carrying[w] # NoTask /\ UNCHANGED accepted
    BY <1>3 DEF BackendAnswers, Agents
  <2>2. PICK t \in Tables, rows \in Seq(Rows) :
          t = carrying[w].table /\ rows = carrying[w].rows
    BY <2>1, CarriesTask
  <2>3. stored' = stored \/ stored' = [stored EXCEPT ![t] = @ \o rows]
    BY <1>3, <2>2 DEF BackendAnswers
  <2>4. ASSUME NEW u \in Tables
        PROVE  stored'[u] = stored[u] \/ stored'[u] = stored[u] \o rows
    BY <1>0, <2>3
  <2>5. ASSUME NEW u \in Tables, NEW r, r \in Range(stored[u])
        PROVE  r \in Range(stored'[u])
    BY <1>0, <2>4, <2>5, RangeOfConcat
  <2>6. \A u \in Tables : Len(accepted[u]) \in Nat
    BY <1>0, LenProperties
  <2> QED
    BY <2>1, <2>5, <2>6 DEF Grows
<1>4. ASSUME NEW c \in Callers,
             \/ Call(c) \/ SetClosed(c) \/ FlushTop(c) \/ FlushDone(c) \/ FlushWait(c)
             \/ Shutdown(c) \/ CloseReturns(c) \/ Deadline(c) \/ SubmitRows(c)
             \/ \E t \in Tables : FlushTable(c, t)
      PROVE  UNCHANGED <<stored, accepted>>
  BY <1>4 DEF Call, AddRows, Flush, Close, CloseAgain, SetClosed, FlushTop, FlushDone, FlushWait,
              Shutdown, CloseReturns, Deadline, SubmitRows, FlushTable, data
<1>5. ASSUME TimerStep \/ Tick \/ UNCHANGED vars
      PROVE  UNCHANGED <<stored, accepted>>
  BY <1>5 DEF TimerStep, TimerWake, TimerPeek, TimerLock, TimerSubmit, Tick, vars, data
<1>6. ASSUME NEW w \in Workers,
             WorkerTake(w) \/ ConvertRaises(w) \/ FlushSucceeds(w) \/ FlushFails(w)
      PROVE  UNCHANGED <<stored, accepted>>
  BY <1>6 DEF WorkerTake, ConvertRaises, FlushSucceeds, FlushFails, Release
<1> QED
  BY <1>1, <1>2, <1>3, <1>4, <1>5, <1>6 DEF Next, CallStep, WorkerStep

LEMMA AnswersStep == TypeOK /\ AnswersTrue /\ [Next]_vars => AnswersTrue'
<1> SUFFICES ASSUME TypeOK, AnswersTrue, [Next]_vars, NEW w \in Workers, answer'[w] = "ok",
                    NEW r, r \in Range(carrying'[w].rows)
             PROVE  r \in Range(stored'[carrying'[w].table])
  BY DEF AnswersTrue
<1>0. /\ Grows /\ w \in Agents /\ \A a \in Threads : a # w
      /\ carrying \in [Agents -> Task \cup {NoTask}]
      /\ answer \in [Workers -> {"none", "ok", "raised"}]
      /\ \A v \in Workers : answer[v] # "none" => carrying[v] # NoTask
  BY StepGrows, ConstantsAssumption DEF Agents, TypeOK, PoolOK
<1>1. ASSUME answer'[w] = answer[w], carrying'[w] = carrying[w]
      PROVE  r \in Range(stored'[carrying'[w].table])
  <2>1. carrying[w].table \in Tables
    BY <1>0, <1>1, CarriesTask
  <2> QED
    BY <1>0, <1>1, <2>1 DEF AnswersTrue, Grows
<1>2. ASSUME NEW c \in Callers, CallStep(c) \/ Call(c) \/ Deadline(c)
      PROVE  answer'[w] = answer[w] /\ carrying'[w] = carrying[w]
  <2>1. c \in Threads
    BY DEF Threads
  <2>2. /\ answer' = answer
        /\ carrying' = carrying \/ (\E x : carrying' = [carrying EXCEPT ![c] = x])
    BY <1>2 DEF Call, AddRows, Flush, Close, CloseAgain, CallStep, AppendRows, SubmitRows, SetClosed,
                FlushTop, FlushTable, FlushDone, FlushWait, Shutdown, CloseReturns,
                Deadline, data
  <2> QED
    BY <1>0, <2>1, <2>2
<1>3. ASSUME TimerStep \/ Tick \/ UNCHANGED vars
      PROVE  answer'[w] = answer[w] /\ carrying'[w] = carrying[w]
  <2>1. Timer \in Threads
    BY DEF Threads
  <2>2. /\ answer' = answer
        /\ carrying' = carrying \/ (\E x : carrying' = [carrying EXCEPT ![Timer] = x])
    BY <1>3 DEF TimerStep, TimerWake, TimerPeek, TimerLock, TimerSubmit, Tick, vars, data
  <2> QED
    BY <1>0, <2>1, <2>2
<1>4. ASSUME NEW v \in Workers, WorkerTake(v)
      PROVE  answer'[w] = answer[w] /\ carrying'[w] = carrying[w]
  <2>1. /\ carrying[v] = NoTask /\ answer' = answer
        /\ carrying' = [carrying EXCEPT ![v] = Head(queue)]
    BY <1>4 DEF WorkerTake
  <2>2. v # w
    BY <1>0, <2>1
  <2> QED
    BY <1>0, <2>1, <2>2
<1>5. ASSUME NEW v \in Workers, ConvertRaises(v)
      PROVE  answer'[w] = answer[w] /\ carrying'[w] = carrying[w]
  <2>1. answer' = [answer EXCEPT ![v] = "raised"] /\ carrying' = carrying
    BY <1>5 DEF ConvertRaises
  <2> QED
    BY <1>0, <2>1
<1>6. ASSUME NEW v \in Workers, FlushSucceeds(v) \/ FlushFails(v)
      PROVE  answer'[w] = answer[w] /\ carrying'[w] = carrying[w]
  <2>1. /\ answer' = [answer EXCEPT ![v] = "none"]
        /\ carrying' = [carrying EXCEPT ![v] = NoTask]
    BY <1>6 DEF FlushSucceeds, FlushFails, Release
  <2> QED
    BY <1>0, <2>1
<1>7. ASSUME NEW v \in Workers, NEW o \in Outcomes, BackendAnswers(v, o)
      PROVE  r \in Range(stored'[carrying'[w].table])
  <2>1. /\ carrying' = carrying /\ carrying[v] # NoTask
        /\ answer' = [answer EXCEPT ![v] = IF o = "ok" THEN "ok" ELSE "raised"]
        /\ stored' = IF o = "rejected" THEN stored
                     ELSE [stored EXCEPT ![carrying[v].table] = @ \o carrying[v].rows]
    BY <1>7 DEF BackendAnswers
  <2>2. CASE v # w
    BY <1>0, <1>1, <2>1, <2>2
  <2>3. CASE v = w
    <3>1. PICK t \in Tables, rows \in Seq(Rows) :
            t = carrying[w].table /\ rows = carrying[w].rows
      BY <1>0, <2>1, <2>3, CarriesTask
    <3>2. o = "ok"
      BY <1>0, <2>1, <2>3
    <3>3. stored \in [Tables -> Seq(Rows)] /\ stored' = [stored EXCEPT ![t] = @ \o rows]
      BY <2>1, <2>3, <3>1, <3>2 DEF TypeOK, TablesOK
    <3>4. stored[t] \in Seq(Rows) /\ stored'[t] = stored[t] \o rows
      BY <3>3
    <3> QED
      BY <2>1, <3>1, <3>4, RangeOfConcat
  <2> QED
    BY <2>2, <2>3
<1> QED
  BY <1>1, <1>2, <1>3, <1>4, <1>5, <1>6, <1>7 DEF Next, WorkerStep

LEMMA WriterInit == Init => WriterInv
<1> SUFFICES ASSUME Init PROVE AllHeld /\ AnswersTrue
  BY TypeInit, OneFlushInit DEF WriterInv
<1>1. AnswersTrue
  BY DEF Init, AnswersTrue
<1>2. ASSUME NEW t \in Tables, NEW r PROVE r \in Range(accepted[t]) <=> Has(t, r)
  BY RangeOfEmpty DEF Init, Has, Flying, Waiting, InTask
<1> QED
  BY <1>1, <1>2 DEF AllHeld

LEMMA WriterStep == WriterInv /\ [Next]_vars => WriterInv'
  BY TypeStep, OneFlushStep, HeldStep, AnswersStep DEF WriterInv

LEMMA HeldIsNoRowLost == TypeOK /\ AllHeld => NoRowLost
<1> SUFFICES ASSUME TypeOK, AllHeld, NEW t \in Tables
             PROVE  Range(accepted[t]) = Range(stored[t]) \cup Range(buffer[t])
                         \cup Range(dropped[t])
                         \cup (UNION {Range(carrying[a].rows) : a \in Carried(t)})
                         \cup (UNION {Range(queue[i].rows) : i \in Queued(t)})
  BY DEF NoRowLost
<1>1. ASSUME NEW r
      PROVE  Flying(t, r) <=> r \in UNION {Range(carrying[a].rows) : a \in Carried(t)}
  BY DEF Flying, InTask, Carried
<1>2. ASSUME NEW r
      PROVE  Waiting(t, r) <=> r \in UNION {Range(queue[i].rows) : i \in Queued(t)}
  <2>1. \A i \in DOMAIN queue : queue[i] # NoTask
    BY QueuesTask, IsTask
  <2> QED
    BY <2>1 DEF Waiting, InTask, Queued
<1>3. ASSUME NEW r
      PROVE  r \in Range(accepted[t]) <=>
               \/ r \in Range(stored[t]) \/ r \in Range(buffer[t]) \/ r \in Range(dropped[t])
               \/ r \in UNION {Range(carrying[a].rows) : a \in Carried(t)}
               \/ r \in UNION {Range(queue[i].rows) : i \in Queued(t)}
  BY <1>1, <1>2 DEF AllHeld, Has
<1> QED
  BY <1>3

(* Whatever the backend does, an accepted row is stored, buffered, or in a *)
(* batch in between: also when a batch is stored and put back.             *)
THEOREM RowsHeld == Spec => []NoRowLost
  BY WriterInit, WriterStep, HeldIsNoRowLost, PTL DEF Spec, WriterInv

-----------------------------------------------------------------------------
(* What flush() covers                                                     *)

(* What one step may do to a call, as far as flush() is concerned: the     *)
(* rows that it stands for, the tables that it has still to see, and       *)
(* whether one of those seen had a flush under way.                        *)
Keeps(c) ==
  /\ call'[c].mark = call[c].mark
  /\ \/ call'[c].pc # "scan"
     \/ call'[c].todo = Tables
     \/ /\ call[c].pc = "scan"
        /\ call'[c].todo = call[c].todo
        /\ call'[c].pending = call[c].pending

Begins(c) ==
  /\ call'[c].pc # "scan"
  /\ \A t \in Tables : call'[c].mark[t] \in {0, Len(accepted[t])}

Sees(c, t) ==
  /\ call[c].pc = "scan"
  /\ call'[c].mark = call[c].mark
  /\ call'[c].todo = call[c].todo \ {t}
  /\ ~call'[c].pending =>
       /\ ~call[c].pending /\ ~flushing[t] /\ buffer[t] = <<>>
       /\ UNCHANGED <<stored, accepted>>

Moves(c) ==
  /\ Keeps(c) \/ Begins(c) \/ \E t \in Tables : Sees(c, t)
  /\ call[c].pc = "scan" /\ call[c].todo = {} /\ call'[c].pc \in {"idle", "shutdown"}
       => ~call[c].pending

LEMMA OneMoves ==
  ASSUME TypeOK, NEW c \in Callers, NEW r, call' = [call EXCEPT ![c] = r],
         call'[c] = r => Moves(c)
  PROVE  \A d \in Callers : Moves(d)
<1>1. call'[c] = r /\ \A d \in Callers \ {c} : call'[d] = call[d]
  BY DEF TypeOK, CallsOK
<1>2. ASSUME NEW d \in Callers \ {c} PROVE Moves(d)
  BY <1>1 DEF Moves, Keeps
<1> QED
  BY <1>1, <1>2

LEMMA StillMoves ==
  ASSUME UNCHANGED call PROVE \A d \in Callers : Moves(d)
  BY DEF Moves, Keeps

LEMMA BeginMoves ==
  ASSUME TypeOK, NEW c \in Callers, NEW r \in CallState, call' = [call EXCEPT ![c] = r],
         r.pc # "scan", \A t \in Tables : r.mark[t] \in {0, Len(accepted[t])},
         call[c].pc # "scan" \/ call[c].todo # {} \/ ~call[c].pending
  PROVE  \A d \in Callers : Moves(d)
<1>1. call'[c] = r => Moves(c)
  BY DEF Moves, Begins
<1> QED
  BY <1>1, OneMoves

LEMMA GoToMoves ==
  ASSUME TypeOK, NEW c \in Callers, NEW l \in Labels \ {"scan"}, GoTo(c, l),
         call[c].pc # "scan" \/ l \notin {"idle", "shutdown"}
  PROVE  \A d \in Callers : Moves(d)
<1> DEFINE r == [call[c] EXCEPT !.pc = l]
<1>1. call[c] \in CallState
  BY DEF TypeOK, CallsOK
<1>2. r.pc = l /\ r.mark = call[c].mark
  BY <1>1 DEF CallState
<1>3. call' = [call EXCEPT ![c] = r]
  BY DEF GoTo
<1> HIDE DEF r
<1>4. call'[c] = r => Moves(c)
  BY <1>2 DEF Moves, Keeps
<1> QED
  BY <1>3, <1>4, OneMoves

LEMMA LeaveMoves ==
  ASSUME TypeOK, NEW c \in Callers, NEW pending \in BOOLEAN, LeaveFlush(c, pending),
         call[c].pc # "scan" \/ call[c].todo # {} \/ ~call[c].pending
  PROVE  \A d \in Callers : Moves(d)
<1> DEFINE r == [Idle EXCEPT !.pc = "shutdown", !.closing = TRUE, !.pending = pending]
<1>1. /\ r \in CallState /\ r.pc = "shutdown" /\ \A t \in Tables : r.mark[t] = 0
      /\ Idle \in CallState /\ Idle.pc = "idle" /\ \A t \in Tables : Idle.mark[t] = 0
  BY IdleType DEF CallState, Idle
<1>2. call' = [call EXCEPT ![c] = r] \/ call' = [call EXCEPT ![c] = Idle]
  BY DEF LeaveFlush
<1> HIDE DEF r
<1> QED
  BY <1>1, <1>2, BeginMoves

LEMMA SeenMoves ==
  ASSUME TypeOK, NEW c \in Callers, NEW t \in Tables, NEW pending \in BOOLEAN,
         NEW futures \in SUBSET Tables, Seen(c, t, pending, futures), call[c].pc = "scan",
         ~pending => ~flushing[t] /\ buffer[t] = <<>> /\ UNCHANGED <<stored, accepted>>
  PROVE  \A d \in Callers : Moves(d)
<1> DEFINE r == [call[c] EXCEPT !.todo = @ \ {t}, !.pending = @ \/ pending,
                                !.futures = @ \cup futures]
<1>1. call[c] \in CallState
  BY DEF TypeOK, CallsOK
<1>2. /\ r.pc = call[c].pc /\ r.mark = call[c].mark /\ r.todo = call[c].todo \ {t}
      /\ r.pending = (call[c].pending \/ pending)
  BY <1>1, ZenonT(60) DEF CallState
<1>3. call' = [call EXCEPT ![c] = r]
  BY DEF Seen
<1> HIDE DEF r
<1>4. call'[c] = r => Moves(c)
  BY <1>2 DEF Moves, Sees
<1> QED
  BY <1>3, <1>4, OneMoves

LEMMA CallsMove == TypeOK /\ [Next]_vars => \A c \in Callers : Moves(c)
<1> SUFFICES ASSUME TypeOK, [Next]_vars PROVE \A c \in Callers : Moves(c)
  OBVIOUS
<1>0. /\ \A c \in Callers : call[c] \in CallState
      /\ Idle \in CallState /\ Idle.pc = "idle" /\ \A t \in Tables : Idle.mark[t] = 0
  BY IdleType DEF TypeOK, CallsOK, Idle
<1>1. ASSUME NEW c \in Callers, NEW t \in Tables, NEW rows \in Batches, AddRows(c, t, rows)
      PROVE  \A d \in Callers : Moves(d)
  <2> DEFINE r == [Idle EXCEPT !.pc = "append", !.table = t, !.rows = rows]
  <2>1. r \in CallState /\ r.pc = "append" /\ r.mark = Idle.mark
    BY <1>0, ConstantsAssumption DEF CallState
  <2>2. call' = [call EXCEPT ![c] = r] /\ call[c].pc = "idle"
    BY <1>1 DEF AddRows
  <2> HIDE DEF r
  <2> QED
    BY <1>0, <2>1, <2>2, BeginMoves
<1>2. ASSUME NEW c \in Callers, NEW th \in RowThresholds, AppendRows(c, th)
      PROVE  \A d \in Callers : Moves(d)
  <2> DEFINE r == [Idle EXCEPT !.pc = "submit"]
  <2>1. r \in CallState /\ r.pc = "submit" /\ r.mark = Idle.mark
    BY <1>0 DEF CallState
  <2>2. call[c].pc = "append"
        /\ (call' = [call EXCEPT ![c] = r] \/ call' = [call EXCEPT ![c] = Idle])
    BY <1>2 DEF AppendRows
  <2> HIDE DEF r
  <2> QED
    BY <1>0, <2>1, <2>2, BeginMoves
<1>3. ASSUME NEW c \in Callers, NEW closing \in BOOLEAN, NEW deadline \in {"none", "ahead"},
             BeginFlush(c, closing, deadline), call[c].pc # "scan"
      PROVE  \A d \in Callers : Moves(d)
  <2> DEFINE m == [t \in Tables |-> Len(accepted[t])]
             r == [Idle EXCEPT !.pc = "top", !.closing = closing, !.deadline = deadline,
                               !.mark = m]
  <2>1. m \in [Tables -> Nat] /\ \A t \in Tables : m[t] = Len(accepted[t])
    BY LenProperties DEF TypeOK, TablesOK
  <2>2. call' = [call EXCEPT ![c] = r]
    BY <1>3 DEF BeginFlush
  <2> HIDE DEF m
  <2>3. r \in CallState /\ r.pc = "top" /\ r.mark = m
    BY <1>0, <2>1 DEF CallState
  <2> HIDE DEF r
  <2> QED
    BY <1>3, <2>1, <2>2, <2>3, BeginMoves
<1>4. ASSUME NEW c \in Callers, NEW d \in {"none", "ahead"}, Flush(c, d)
      PROVE  \A e \in Callers : Moves(e)
  BY <1>3, <1>4 DEF Flush
<1>5. ASSUME NEW c \in Callers, SetClosed(c) PROVE \A d \in Callers : Moves(d)
  BY <1>3, <1>5 DEF SetClosed
<1>6. ASSUME NEW c \in Callers, Close(c) \/ SubmitRows(c) \/ FlushWait(c) \/ Shutdown(c)
      PROVE  \A d \in Callers : Moves(d)
  BY <1>6, GoToMoves DEF Close, SubmitRows, FlushWait, Shutdown, Labels
<1>7. ASSUME NEW c \in Callers, CloseReturns(c) PROVE \A d \in Callers : Moves(d)
  BY <1>0, <1>7, BeginMoves DEF CloseReturns
<1>8. ASSUME NEW c \in Callers, FlushTop(c) PROVE \A d \in Callers : Moves(d)
  <2>1. CASE call[c].deadline = "passed"
    BY <1>8, <2>1, LeaveMoves DEF FlushTop
  <2>2. CASE call[c].deadline # "passed"
    <3> DEFINE r == [call[c] EXCEPT !.pc = "scan", !.todo = Tables, !.pending = FALSE,
                                    !.futures = {}]
    <3>1. r.pc = "scan" /\ r.todo = Tables /\ r.mark = call[c].mark
      BY <1>0, ZenonT(60) DEF CallState
    <3>2. call' = [call EXCEPT ![c] = r]
      BY <1>8, <2>2 DEF FlushTop
    <3> HIDE DEF r
    <3>3. call'[c] = r => Moves(c)
      BY <1>8, <3>1 DEF Moves, Keeps, FlushTop
    <3> QED
      BY <3>2, <3>3, OneMoves
  <2> QED
    BY <2>1, <2>2
<1>9. ASSUME NEW c \in Callers, FlushDone(c) PROVE \A d \in Callers : Moves(d)
  BY <1>9, LeaveMoves DEF FlushDone
<1>10. ASSUME NEW c \in Callers, Deadline(c) PROVE \A d \in Callers : Moves(d)
  <2> DEFINE r == [call[c] EXCEPT !.deadline = "passed"]
  <2>1. /\ r.pc = call[c].pc /\ r.mark = call[c].mark /\ r.todo = call[c].todo
        /\ r.pending = call[c].pending
    BY <1>0, ZenonT(60) DEF CallState
  <2>2. call' = [call EXCEPT ![c] = r]
    BY <1>10 DEF Deadline
  <2> HIDE DEF r
  <2>3. call'[c] = r => Moves(c)
    BY <2>1 DEF Moves, Keeps
  <2> QED
    BY <2>2, <2>3, OneMoves
<1>11. ASSUME NEW c \in Callers, NEW t \in Tables, FlushTable(c, t)
       PROVE  \A d \in Callers : Moves(d)
  <2>1. call[c].pc = "scan" /\ call[c].todo # {}
    BY <1>11 DEF FlushTable
  <2>2. CASE Seen(c, t, TRUE, {t})
    BY <2>1, <2>2, SeenMoves
  <2>3. CASE LeaveFlush(c, TRUE)
    BY <2>1, <2>3, LeaveMoves
  <2>4. CASE ~MayTake(t)
    <3>1. Seen(c, t, flushing[t], {}) /\ UNCHANGED <<stored, accepted>> /\ flushing[t] \in BOOLEAN
      BY <1>11, <2>4 DEF FlushTable, TypeOK, TablesOK
    <3>2. ~flushing[t] => buffer[t] = <<>>
      BY <2>4 DEF MayTake
    <3> QED
      BY <2>1, <3>1, <3>2, SeenMoves
  <2> QED
    BY <1>11, <2>2, <2>3, <2>4 DEF FlushTable
<1>12. ASSUME TimerStep \/ Tick \/ UNCHANGED vars \/ (\E c \in Callers : CloseAgain(c))
       PROVE  \A d \in Callers : Moves(d)
  <2>1. UNCHANGED call
    BY <1>12 DEF CloseAgain, TimerStep, TimerWake, TimerPeek, TimerLock, TimerSubmit, Tick, vars
  <2> QED
    BY <2>1, StillMoves
<1>13. ASSUME NEW w \in Workers, WorkerStep(w) PROVE \A d \in Callers : Moves(d)
  <2>1. UNCHANGED call
    BY <1>13 DEF WorkerStep, WorkerTake, ConvertRaises, BackendAnswers, FlushSucceeds,
                 FlushFails, Release
  <2> QED
    BY <2>1, StillMoves
<1> QED
  BY <1>1, <1>2, <1>4, <1>5, <1>6, <1>7, <1>8, <1>9, <1>10, <1>11, <1>12, <1>13
  DEF Next, Call, CallStep

(* The rows that a pass of flush() has found nothing pending for.          *)
Covers(c, t) == \A i \in 1 .. call[c].mark[t] : accepted[t][i] \in Range(stored[t])

MarksOK == \A c \in Callers : \A t \in Tables : call[c].mark[t] <= Len(accepted[t])
PassesOK == \A c \in Callers :
  call[c].pc = "scan" /\ ~call[c].pending =>
    \A t \in Tables \ call[c].todo : Covers(c, t)

FlushInv == WriterInv /\ MarksOK /\ PassesOK

(* A table without a flush and with an empty buffer has all its rows       *)
(* stored: nothing of it is anywhere else.                                 *)
LEMMA QuietTableStored ==
  ASSUME WriterInv, NEW t \in Tables, ~flushing[t], buffer[t] = <<>>
  PROVE  \A r \in Range(accepted[t]) : r \in Range(stored[t])
<1>1. Carried(t) = {} /\ Queued(t) = {} /\ dropped[t] = <<>>
  BY DEF WriterInv, OneFlushPerTable, OneFlush
<1>2. ASSUME NEW r PROVE ~Flying(t, r) /\ ~Waiting(t, r)
  BY <1>1 DEF Flying, Waiting, InTask, Carried, Queued
<1> QED
  BY <1>1, <1>2, RangeOfEmpty DEF WriterInv, AllHeld, Has

LEMMA FlushStep == FlushInv /\ [Next]_vars => FlushInv'
<1> SUFFICES ASSUME FlushInv, [Next]_vars PROVE MarksOK' /\ PassesOK'
  BY WriterStep DEF FlushInv
<1>0. WriterInv /\ TypeOK /\ TypeOK' /\ MarksOK /\ PassesOK
  BY TypeStep DEF FlushInv, WriterInv
<1>1. Grows /\ \A c \in Callers : Moves(c)
  BY <1>0, StepGrows, CallsMove
<1>2. /\ \A c \in Callers : call[c] \in CallState /\ call'[c] \in CallState
      /\ \A t \in Tables : Len(accepted[t]) \in Nat /\ Len(accepted'[t]) \in Nat
      /\ \A t \in Tables : accepted[t] \in Seq(Rows)
  BY <1>0, LenProperties DEF TypeOK, CallsOK, TablesOK
<1>3. \A c \in Callers : \A t \in Tables : call[c].mark[t] \in Nat /\ call'[c].mark[t] \in Nat
  BY <1>2 DEF CallState
<1>4. ASSUME NEW c \in Callers, NEW t \in Tables
      PROVE  call'[c].mark[t] <= Len(accepted'[t])
  <2>1. \/ call'[c].mark[t] = call[c].mark[t]
        \/ call'[c].mark[t] \in {0, Len(accepted[t])}
    BY <1>1 DEF Moves, Keeps, Begins, Sees
  <2>2. call[c].mark[t] <= Len(accepted[t]) /\ Len(accepted[t]) <= Len(accepted'[t])
    BY <1>0, <1>1 DEF MarksOK, Grows
  <2> QED
    BY <1>2, <1>3, <2>1, <2>2
<1>5. ASSUME NEW c \in Callers, NEW t \in Tables, Covers(c, t), call'[c].mark = call[c].mark
      PROVE  Covers(c, t)'
  <2> SUFFICES ASSUME NEW i \in 1 .. call[c].mark[t]
               PROVE  accepted'[t][i] \in Range(stored'[t])
    BY <1>5 DEF Covers
  <2>1. i \in 1 .. Len(accepted[t])
    BY <1>0, <1>2, <1>3 DEF MarksOK
  <2>2. accepted'[t][i] = accepted[t][i] /\ accepted[t][i] \in Range(stored[t])
    BY <1>1, <1>5, <2>1 DEF Grows, Covers
  <2> QED
    BY <1>1, <2>2 DEF Grows
<1>6. ASSUME NEW c \in Callers, call'[c].pc = "scan", ~call'[c].pending,
             NEW t \in Tables \ call'[c].todo
      PROVE  Covers(c, t)'
  <2>1. CASE Keeps(c)
    <3>1. t \notin call[c].todo /\ call[c].pc = "scan" /\ ~call[c].pending
      BY <1>6, <2>1 DEF Keeps
    <3> QED
      BY <1>0, <1>5, <2>1, <3>1 DEF PassesOK, Keeps
  <2>2. CASE Begins(c)
    BY <1>6, <2>2 DEF Begins
  <2>3. ASSUME NEW u \in Tables, Sees(c, u) PROVE Covers(c, t)'
    <3>1. /\ call[c].pc = "scan" /\ call'[c].mark = call[c].mark
          /\ call'[c].todo = call[c].todo \ {u}
          /\ ~call[c].pending /\ ~flushing[u] /\ buffer[u] = <<>>
      BY <1>6, <2>3 DEF Sees
    <3>2. CASE t = u
      <4>1. \A r \in Range(accepted[t]) : r \in Range(stored[t])
        BY <1>0, <3>1, <3>2, QuietTableStored
      <4>2. ASSUME NEW i \in 1 .. call[c].mark[t]
            PROVE  accepted[t][i] \in Range(accepted[t])
        <5>1. i \in 1 .. Len(accepted[t]) /\ DOMAIN accepted[t] = 1 .. Len(accepted[t])
          BY <1>0, <1>2, <1>3, LenProperties DEF MarksOK
        <5> QED
          BY <5>1 DEF Range
      <4>3. Covers(c, t)
        BY <4>1, <4>2 DEF Covers
      <4> QED
        BY <1>5, <3>1, <4>3
    <3>3. CASE t # u
      <4>1. Covers(c, t)
        BY <1>0, <1>6, <3>1, <3>3 DEF PassesOK
      <4> QED
        BY <1>5, <3>1, <4>1
    <3> QED
      BY <3>2, <3>3
  <2> QED
    BY <1>1, <2>1, <2>2, <2>3 DEF Moves
<1>7. MarksOK'
  BY <1>4 DEF MarksOK
<1>8. PassesOK'
  BY <1>6 DEF PassesOK
<1> QED
  BY <1>7, <1>8

LEMMA FlushInit == Init => FlushInv
<1> SUFFICES ASSUME Init PROVE MarksOK /\ PassesOK
  BY WriterInit DEF FlushInv
<1>1. \A c \in Callers : call[c].pc = "idle" /\ \A t \in Tables : call[c].mark[t] = 0
  BY DEF Init, Idle
<1>2. \A t \in Tables : Len(accepted[t]) = 0
  BY EmptySeq DEF Init
<1> QED
  BY <1>1, <1>2 DEF MarksOK, PassesOK

(* A flush() that returns without a timeout has stored, in every table,    *)
(* each row that had been accepted when it was called, whatever the other  *)
(* threads, the timer and failed batches did meanwhile.                    *)
THEOREM Covering == Spec => FlushCovers
<1>1. ASSUME FlushInv, [Next]_vars
      PROVE  [\A c \in Callers :
                /\ call[c].pc = "scan"
                /\ call[c].todo = {}
                /\ call'[c].pc \in {"idle", "shutdown"}
                => \A t \in Tables : \A i \in 1 .. call[c].mark[t] :
                     accepted[t][i] \in Range(stored[t])]_vars
  <2> SUFFICES ASSUME NEW c \in Callers, call[c].pc = "scan", call[c].todo = {},
                      call'[c].pc \in {"idle", "shutdown"}, NEW t \in Tables
               PROVE  Covers(c, t)
    BY DEF Covers
  <2>1. Moves(c)
    BY <1>1, CallsMove DEF FlushInv, WriterInv
  <2> QED
    BY <1>1, <2>1 DEF Moves, FlushInv, PassesOK
<1> QED
  BY <1>1, FlushInit, FlushStep, PTL DEF Spec, FlushCovers

-----------------------------------------------------------------------------
(* After close()                                                           *)

(* A close() that waits for the executor has shut it down, and once it has *)
(* returned there is nothing for a worker to do.  Until one has, the call  *)
(* that has set _closed is under way, from flush() to the wait: it is what *)
(* a close() that returns at once, as _closed is set, relies on.           *)
NoWork == queue = <<>> /\ \A w \in Workers : carrying[w] = NoTask

CloseCall(c) ==
  /\ call[c].closing => call[c].pc \in {"top", "scan", "shutdown", "join"}
  /\ call[c].pc \in {"shutdown", "join"} => call[c].closing

SilentInv == /\ \A c \in Callers : CloseCall(c)
             /\ \A c \in Callers : call[c].pc = "join" => shutdown
             /\ Waited => shutdown /\ NoWork
             /\ "early" \in closeResult => closed
             /\ closed => Waited \/ \E c \in Callers : call[c].closing

LEMMA NoWorkKept ==
  ASSUME TypeOK, [Next]_vars, shutdown, NoWork
  PROVE  NoWork' /\ shutdown' /\ UNCHANGED stored
<1>0. /\ carrying \in [Agents -> Task \cup {NoTask}]
      /\ queue = <<>> /\ \A w \in Workers : carrying[w] = NoTask /\ answer[w] = "none"
      /\ \A a \in Threads : a \notin Workers
  BY ConstantsAssumption DEF NoWork, TypeOK, PoolOK
<1>1. ASSUME shutdown', UNCHANGED <<queue, stored>>, NEW a \in Threads,
             carrying' = carrying \/ \E x : carrying' = [carrying EXCEPT ![a] = x]
      PROVE  NoWork' /\ shutdown' /\ UNCHANGED stored
  <2>1. ASSUME NEW w \in Workers PROVE carrying'[w] = NoTask
    <3>1. w # a /\ w \in Agents
      BY <1>0 DEF Agents
    <3> QED
      BY <1>0, <1>1, <3>1
  <2> QED
    BY <1>0, <1>1, <2>1 DEF NoWork
<1>2. ASSUME NEW c \in Callers, CallStep(c) \/ Call(c) \/ Deadline(c)
      PROVE  NoWork' /\ shutdown' /\ UNCHANGED stored
  <2>1. c \in Threads
    BY DEF Threads
  <2>2. /\ shutdown' /\ UNCHANGED <<queue, stored>>
        /\ carrying' = carrying \/ (\E x : carrying' = [carrying EXCEPT ![c] = x])
    BY <1>2 DEF Call, AddRows, Flush, Close, CloseAgain, CallStep, AppendRows, SubmitRows, SetClosed,
                FlushTop, FlushTable, FlushDone, FlushWait, Shutdown, CloseReturns,
                Deadline, data, control, Submitted, Refused
  <2> QED
    BY <1>1, <2>1, <2>2
<1>3. ASSUME TimerStep \/ Tick \/ UNCHANGED vars
      PROVE  NoWork' /\ shutdown' /\ UNCHANGED stored
  <2>1. Timer \in Threads
    BY DEF Threads
  <2>2. /\ shutdown' /\ UNCHANGED <<queue, stored>>
        /\ carrying' = carrying \/ (\E x : carrying' = [carrying EXCEPT ![Timer] = x])
    BY <1>3 DEF TimerStep, TimerWake, TimerPeek, TimerLock, TimerSubmit, Tick, vars, data,
                control, Submitted, Refused
  <2> QED
    BY <1>1, <2>1, <2>2
<1>4. ASSUME NEW w \in Workers, WorkerStep(w) PROVE FALSE
  BY <1>0, <1>4 DEF WorkerStep, WorkerTake, ConvertRaises, BackendAnswers, FlushSucceeds,
                    FlushFails
<1> QED
  BY <1>2, <1>3, <1>4 DEF Next

(* How a call comes to be in add_rows(), and in close() behind shutdown(). *)
Stays(c) == call[c].pc = call'[c].pc /\ call[c].rows = call'[c].rows

LEMMA ArriveStep ==
  ASSUME TypeOK, [Next]_vars, NEW c \in Callers, call'[c].pc \in {"append", "join"}
  PROVE  \/ Stays(c)
         \/ call'[c].pc = "join" /\ shutdown'
         \/ call'[c].pc = "append" /\ \E t \in Tables, rows \in Batches : AddRows(c, t, rows)
<1>0. /\ call \in [Callers -> CallState] /\ Idle \in CallState /\ Idle.pc = "idle"
      /\ \A d \in Callers : call[d] \in CallState
  BY IdleType DEF TypeOK, CallsOK
<1>1. ASSUME NEW d \in Callers, NEW r \in CallState, call' = [call EXCEPT ![d] = r],
             r.pc \notin {"append", "join"} \/ (r.pc = call[d].pc /\ r.rows = call[d].rows)
      PROVE  Stays(c)
  BY <1>0, <1>1 DEF Stays
<1>2. ASSUME NEW d \in Callers, NEW l \in Labels \ {"append", "join"}, GoTo(d, l)
      PROVE  Stays(c)
  <2> DEFINE r == [call[d] EXCEPT !.pc = l]
  <2>1. r \in CallState /\ r.pc = l /\ call' = [call EXCEPT ![d] = r]
    BY <1>0, <1>2, LabelType DEF GoTo
  <2> HIDE DEF r
  <2> QED
    BY <1>1, <2>1
<1>3. ASSUME NEW d \in Callers, NEW closing \in BOOLEAN, NEW deadline \in {"none", "ahead"},
             BeginFlush(d, closing, deadline)
      PROVE  Stays(c)
  <2> DEFINE m == [t \in Tables |-> Len(accepted[t])]
             r == [Idle EXCEPT !.pc = "top", !.closing = closing, !.deadline = deadline,
                               !.mark = m]
  <2>1. m \in [Tables -> Nat]
    BY DEF TypeOK, TablesOK
  <2>2. call' = [call EXCEPT ![d] = r]
    BY <1>3 DEF BeginFlush
  <2> HIDE DEF m
  <2>3. r \in CallState /\ r.pc = "top"
    BY <1>0, <2>1 DEF CallState
  <2> HIDE DEF r
  <2> QED
    BY <1>1, <2>2, <2>3
<1>4. ASSUME NEW d \in Callers, NEW pending \in BOOLEAN, LeaveFlush(d, pending)
      PROVE  Stays(c)
  <2> DEFINE r == [Idle EXCEPT !.pc = "shutdown", !.closing = TRUE, !.pending = pending]
  <2>1. r \in CallState /\ r.pc = "shutdown"
    BY <1>0 DEF CallState
  <2>2. call' = [call EXCEPT ![d] = r] \/ call' = [call EXCEPT ![d] = Idle]
    BY <1>4 DEF LeaveFlush
  <2> HIDE DEF r
  <2> QED
    BY <1>0, <1>1, <2>1, <2>2
<1>5. ASSUME NEW d \in Callers, NEW t \in Tables, NEW rows \in Batches, AddRows(d, t, rows),
             d # c
      PROVE  Stays(c)
  <2> DEFINE r == [Idle EXCEPT !.pc = "append", !.table = t, !.rows = rows]
  <2>1. call' = [call EXCEPT ![d] = r]
    BY <1>5 DEF AddRows
  <2> HIDE DEF r
  <2> QED
    BY <1>0, <1>5, <2>1 DEF Stays
<1>6. ASSUME NEW d \in Callers, NEW th \in RowThresholds, AppendRows(d, th)
      PROVE  Stays(c)
  <2> DEFINE r == [Idle EXCEPT !.pc = "submit"]
  <2>1. r \in CallState /\ r.pc = "submit"
    BY <1>0 DEF CallState
  <2>2. call' = [call EXCEPT ![d] = r] \/ call' = [call EXCEPT ![d] = Idle]
    BY <1>6 DEF AppendRows
  <2> HIDE DEF r
  <2> QED
    BY <1>0, <1>1, <2>1, <2>2
<1>7. ASSUME NEW d \in Callers,
             (\E e \in {"none", "ahead"} : Flush(d, e)) \/ SetClosed(d)
      PROVE  Stays(c)
  BY <1>3, <1>7 DEF Flush, SetClosed
<1>8. ASSUME NEW d \in Callers, Close(d) \/ SubmitRows(d) \/ FlushWait(d)
      PROVE  Stays(c)
  BY <1>2, <1>8 DEF Close, SubmitRows, FlushWait, Labels
<1>9. ASSUME NEW d \in Callers, Shutdown(d) PROVE shutdown'
  BY <1>9 DEF Shutdown
<1>10. ASSUME NEW d \in Callers, CloseReturns(d) PROVE Stays(c)
  BY <1>0, <1>1, <1>10 DEF CloseReturns
<1>11. ASSUME NEW d \in Callers, FlushTop(d) PROVE Stays(c)
  <2>1. CASE call[d].deadline = "passed"
    BY <1>4, <1>11, <2>1 DEF FlushTop
  <2>2. CASE call[d].deadline # "passed"
    <3> DEFINE r == [call[d] EXCEPT !.pc = "scan", !.todo = Tables, !.pending = FALSE,
                                    !.futures = {}]
    <3>1. r \in CallState /\ r.pc = "scan"
      BY <1>0, ZenonT(60) DEF CallState
    <3>2. call' = [call EXCEPT ![d] = r]
      BY <1>11, <2>2 DEF FlushTop
    <3> HIDE DEF r
    <3> QED
      BY <1>1, <3>1, <3>2
  <2> QED
    BY <2>1, <2>2
<1>12. ASSUME NEW d \in Callers, FlushDone(d) PROVE Stays(c)
  BY <1>4, <1>12 DEF FlushDone
<1>13. ASSUME NEW d \in Callers, Deadline(d) PROVE Stays(c)
  <2> DEFINE r == [call[d] EXCEPT !.deadline = "passed"]
  <2>1. r \in CallState /\ r.pc = call[d].pc /\ r.rows = call[d].rows
    BY <1>0, ZenonT(60) DEF CallState
  <2>2. call' = [call EXCEPT ![d] = r]
    BY <1>13 DEF Deadline
  <2> HIDE DEF r
  <2> QED
    BY <1>1, <2>1, <2>2
<1>14. ASSUME NEW d \in Callers, NEW t \in Tables, FlushTable(d, t)
       PROVE  Stays(c)
  <2>1. ASSUME NEW pending \in BOOLEAN, NEW futures \in SUBSET Tables,
               Seen(d, t, pending, futures)
        PROVE  Stays(c)
    <3> DEFINE r == [call[d] EXCEPT !.todo = @ \ {t}, !.pending = @ \/ pending,
                                    !.futures = @ \cup futures]
    <3>1. r \in CallState /\ r.pc = call[d].pc /\ r.rows = call[d].rows
      BY <1>0, ZenonT(60) DEF CallState
    <3>2. call' = [call EXCEPT ![d] = r]
      BY <2>1 DEF Seen
    <3> HIDE DEF r
    <3> QED
      BY <1>1, <3>1, <3>2
  <2>2. flushing[t] \in BOOLEAN
    BY DEF TypeOK, TablesOK
  <2>3. \/ Seen(d, t, TRUE, {t}) \/ LeaveFlush(d, TRUE) \/ Seen(d, t, flushing[t], {})
    BY <1>14 DEF FlushTable
  <2>4. CASE Seen(d, t, TRUE, {t})
    BY <2>1, <2>4
  <2>5. CASE LeaveFlush(d, TRUE)
    BY <1>4, <2>5
  <2>6. CASE Seen(d, t, flushing[t], {})
    BY <2>1, <2>2, <2>6
  <2> QED
    BY <2>3, <2>4, <2>5, <2>6
<1>15. ASSUME \/ TimerStep \/ Tick \/ UNCHANGED vars \/ \E w \in Workers : WorkerStep(w)
              \/ \E d \in Callers : CloseAgain(d)
       PROVE  Stays(c)
  <2>1. UNCHANGED call
    BY <1>15 DEF CloseAgain, TimerStep, TimerWake, TimerPeek, TimerLock, TimerSubmit, Tick, vars,
                 WorkerStep, WorkerTake, ConvertRaises, BackendAnswers, FlushSucceeds,
                 FlushFails, Release
  <2> QED
    BY <2>1 DEF Stays
<1>16. ASSUME NEW d \in Callers, NEW t \in Tables, NEW rows \in Batches, AddRows(d, t, rows)
       PROVE  \/ Stays(c)
              \/ call'[c].pc = "append" /\ AddRows(c, t, rows)
  <2> DEFINE r == [Idle EXCEPT !.pc = "append", !.table = t, !.rows = rows]
  <2>1. r.pc = "append" /\ call' = [call EXCEPT ![d] = r]
    BY <1>0, <1>16 DEF AddRows, CallState
  <2> HIDE DEF r
  <2> QED
    BY <1>0, <1>5, <1>16, <2>1
<1>17. ASSUME NEW d \in Callers, Shutdown(d), c = d PROVE call'[c].pc = "join"
  <2>1. call' = [call EXCEPT ![d] = [call[d] EXCEPT !.pc = "join"]]
    BY <1>17 DEF Shutdown, GoTo
  <2> QED
    BY <1>0, <1>17, <2>1, LabelType DEF Labels
<1>18. ASSUME NEW d \in Callers, Shutdown(d), c # d PROVE Stays(c)
  BY <1>0, <1>18 DEF Shutdown, GoTo, Stays
<1> QED
  BY <1>6, <1>7, <1>8, <1>9, <1>10, <1>11, <1>12, <1>13, <1>14, <1>15, <1>16, <1>17, <1>18
  DEF Next, Call, CallStep

(* A close() stays one, through flush() and the wait, until it returns.    *)
ClosesOn(c) == /\ CloseCall(c)'
               /\ call[c].closing => call'[c].closing \/ CloseReturns(c)

LEMMA OneClosesOn ==
  ASSUME TypeOK, \A c \in Callers : CloseCall(c), NEW d \in Callers, NEW r,
         call' = [call EXCEPT ![d] = r],
         r.closing => r.pc \in {"top", "scan", "shutdown", "join"},
         r.pc \in {"shutdown", "join"} => r.closing,
         call[d].closing => r.closing \/ CloseReturns(d)
  PROVE  \A c \in Callers : ClosesOn(c)
<1>1. call'[d] = r /\ \A c \in Callers \ {d} : call'[c] = call[c]
  BY DEF TypeOK, CallsOK
<1>2. ASSUME NEW c \in Callers \ {d} PROVE ClosesOn(c)
  BY <1>1, <1>2 DEF ClosesOn, CloseCall
<1>3. ClosesOn(d)
  BY <1>1 DEF ClosesOn, CloseCall
<1> QED
  BY <1>2, <1>3

LEMMA CloseCallStep ==
  ASSUME TypeOK, \A c \in Callers : CloseCall(c), [Next]_vars
  PROVE  \A c \in Callers : ClosesOn(c)
<1>0. /\ \A d \in Callers : call[d] \in CallState
      /\ Idle \in CallState /\ Idle.pc = "idle" /\ ~Idle.closing
  BY IdleType DEF TypeOK, CallsOK, Idle
<1>1. ASSUME NEW d \in Callers, NEW r, call' = [call EXCEPT ![d] = r], ~r.closing,
             r.pc \notin {"shutdown", "join"}, ~call[d].closing \/ CloseReturns(d)
      PROVE  \A c \in Callers : ClosesOn(c)
  BY <1>1, OneClosesOn
<1>2. ASSUME NEW d \in Callers, NEW l \in Labels, GoTo(d, l),
             call[d].closing => l \in {"top", "scan", "shutdown", "join"},
             l \in {"shutdown", "join"} => call[d].closing
      PROVE  \A c \in Callers : ClosesOn(c)
  <2> DEFINE r == [call[d] EXCEPT !.pc = l]
  <2>1. r.pc = l /\ r.closing = call[d].closing /\ call' = [call EXCEPT ![d] = r]
    BY <1>0, <1>2 DEF GoTo, CallState
  <2> HIDE DEF r
  <2> QED
    BY <1>2, <2>1, OneClosesOn
<1>3. ASSUME NEW d \in Callers, NEW closing \in BOOLEAN, NEW deadline \in {"none", "ahead"},
             BeginFlush(d, closing, deadline), ~call[d].closing
      PROVE  \A c \in Callers : ClosesOn(c)
  <2> DEFINE m == [t \in Tables |-> Len(accepted[t])]
             r == [Idle EXCEPT !.pc = "top", !.closing = closing, !.deadline = deadline,
                               !.mark = m]
  <2>1. call' = [call EXCEPT ![d] = r]
    BY <1>3 DEF BeginFlush
  <2> HIDE DEF m
  <2>2. r.pc = "top" /\ r.closing = closing
    BY <1>0 DEF CallState
  <2> HIDE DEF r
  <2> QED
    BY <1>3, <2>1, <2>2, OneClosesOn
<1>4. ASSUME NEW d \in Callers, NEW pending \in BOOLEAN, LeaveFlush(d, pending)
      PROVE  \A c \in Callers : ClosesOn(c)
  <2> DEFINE r == [Idle EXCEPT !.pc = "shutdown", !.closing = TRUE, !.pending = pending]
  <2>1. r.pc = "shutdown" /\ r.closing
    BY <1>0 DEF CallState
  <2>2. \/ call[d].closing /\ call' = [call EXCEPT ![d] = r]
        \/ ~call[d].closing /\ call' = [call EXCEPT ![d] = Idle]
    BY <1>4 DEF LeaveFlush
  <2> HIDE DEF r
  <2>3. CASE call[d].closing /\ call' = [call EXCEPT ![d] = r]
    BY <2>1, <2>3, OneClosesOn
  <2>4. CASE ~call[d].closing /\ call' = [call EXCEPT ![d] = Idle]
    BY <1>0, <1>1, <2>4
  <2> QED
    BY <2>2, <2>3, <2>4
<1>5. ASSUME NEW d \in Callers, NEW r \in CallState, call' = [call EXCEPT ![d] = r],
             r.closing = call[d].closing,
             r.pc = call[d].pc \/ (call[d].pc = "top" /\ r.pc = "scan")
      PROVE  \A c \in Callers : ClosesOn(c)
  <2>1. CloseCall(d)
    OBVIOUS
  <2>2. /\ r.closing => r.pc \in {"top", "scan", "shutdown", "join"}
        /\ r.pc \in {"shutdown", "join"} => r.closing
    BY <1>5, <2>1 DEF CloseCall
  <2> QED
    BY <1>5, <2>2, OneClosesOn
<1>6. ASSUME NEW d \in Callers, call[d].pc \in {"idle", "append", "submit", "closing"}
      PROVE  ~call[d].closing
  BY <1>6 DEF CloseCall
<1>7. ASSUME NEW d \in Callers, NEW t \in Tables, NEW rows \in Batches, AddRows(d, t, rows)
      PROVE  \A c \in Callers : ClosesOn(c)
  <2> DEFINE r == [Idle EXCEPT !.pc = "append", !.table = t, !.rows = rows]
  <2>1. r.pc = "append" /\ ~r.closing /\ call' = [call EXCEPT ![d] = r]
    BY <1>0, <1>7 DEF AddRows, CallState
  <2> HIDE DEF r
  <2>2. ~call[d].closing
    BY <1>6, <1>7 DEF AddRows
  <2> QED
    BY <1>1, <2>1, <2>2
<1>8. ASSUME NEW d \in Callers, NEW th \in RowThresholds, AppendRows(d, th)
      PROVE  \A c \in Callers : ClosesOn(c)
  <2> DEFINE r == [Idle EXCEPT !.pc = "submit"]
  <2>1. r.pc = "submit" /\ ~r.closing
    BY <1>0 DEF CallState
  <2>2. call' = [call EXCEPT ![d] = r] \/ call' = [call EXCEPT ![d] = Idle]
    BY <1>8 DEF AppendRows
  <2> HIDE DEF r
  <2>3. ~call[d].closing
    BY <1>6, <1>8 DEF AppendRows
  <2> QED
    BY <1>0, <1>1, <2>1, <2>2, <2>3
<1>9. ASSUME NEW d \in Callers, Close(d) \/ SubmitRows(d)
      PROVE  \A c \in Callers : ClosesOn(c)
  <2>1. ~call[d].closing
    BY <1>6, <1>9 DEF Close, SubmitRows
  <2> QED
    BY <1>2, <1>9, <2>1 DEF Close, SubmitRows, Labels
<1>10. ASSUME NEW d \in Callers, (\E e \in {"none", "ahead"} : Flush(d, e)) \/ SetClosed(d)
       PROVE  \A c \in Callers : ClosesOn(c)
  <2>1. ~call[d].closing
    BY <1>6, <1>10 DEF Flush, SetClosed
  <2> QED
    BY <1>3, <1>10, <2>1 DEF Flush, SetClosed
<1>11. ASSUME NEW d \in Callers, FlushWait(d) \/ Shutdown(d)
       PROVE  \A c \in Callers : ClosesOn(c)
  BY <1>2, <1>11 DEF FlushWait, Shutdown, Labels, CloseCall
<1>12. ASSUME NEW d \in Callers, CloseReturns(d) PROVE \A c \in Callers : ClosesOn(c)
  BY <1>0, <1>1, <1>12 DEF CloseReturns
<1>13. ASSUME NEW d \in Callers, FlushTop(d) PROVE \A c \in Callers : ClosesOn(c)
  <2>1. CASE call[d].deadline = "passed"
    BY <1>4, <1>13, <2>1 DEF FlushTop
  <2>2. CASE call[d].deadline # "passed"
    <3> DEFINE r == [call[d] EXCEPT !.pc = "scan", !.todo = Tables, !.pending = FALSE,
                                    !.futures = {}]
    <3>1. r \in CallState /\ r.pc = "scan" /\ r.closing = call[d].closing
      BY <1>0, ZenonT(60) DEF CallState
    <3>2. call' = [call EXCEPT ![d] = r] /\ call[d].pc = "top"
      BY <1>13, <2>2 DEF FlushTop
    <3> HIDE DEF r
    <3> QED
      BY <1>5, <3>1, <3>2
  <2> QED
    BY <2>1, <2>2
<1>14. ASSUME NEW d \in Callers, FlushDone(d) PROVE \A c \in Callers : ClosesOn(c)
  BY <1>4, <1>14 DEF FlushDone
<1>15. ASSUME NEW d \in Callers, Deadline(d) PROVE \A c \in Callers : ClosesOn(c)
  <2> DEFINE r == [call[d] EXCEPT !.deadline = "passed"]
  <2>1. r \in CallState /\ r.pc = call[d].pc /\ r.closing = call[d].closing
    BY <1>0, ZenonT(60) DEF CallState
  <2>2. call' = [call EXCEPT ![d] = r]
    BY <1>15 DEF Deadline
  <2> HIDE DEF r
  <2> QED
    BY <1>5, <2>1, <2>2
<1>16. ASSUME NEW d \in Callers, NEW t \in Tables, FlushTable(d, t)
       PROVE  \A c \in Callers : ClosesOn(c)
  <2>1. ASSUME NEW pending \in BOOLEAN, NEW futures \in SUBSET Tables,
               Seen(d, t, pending, futures)
        PROVE  \A c \in Callers : ClosesOn(c)
    <3> DEFINE r == [call[d] EXCEPT !.todo = @ \ {t}, !.pending = @ \/ pending,
                                    !.futures = @ \cup futures]
    <3>1. r \in CallState /\ r.pc = call[d].pc /\ r.closing = call[d].closing
      BY <1>0, ZenonT(60) DEF CallState
    <3>2. call' = [call EXCEPT ![d] = r]
      BY <2>1 DEF Seen
    <3> HIDE DEF r
    <3> QED
      BY <1>5, <3>1, <3>2
  <2>2. flushing[t] \in BOOLEAN
    BY DEF TypeOK, TablesOK
  <2>3. \/ Seen(d, t, TRUE, {t}) \/ LeaveFlush(d, TRUE) \/ Seen(d, t, flushing[t], {})
    BY <1>16 DEF FlushTable
  <2>4. CASE Seen(d, t, TRUE, {t})
    BY <2>1, <2>4
  <2>5. CASE LeaveFlush(d, TRUE)
    BY <1>4, <2>5
  <2>6. CASE Seen(d, t, flushing[t], {})
    BY <2>1, <2>2, <2>6
  <2> QED
    BY <2>3, <2>4, <2>5, <2>6
<1>17. ASSUME \/ TimerStep \/ Tick \/ UNCHANGED vars \/ \E w \in Workers : WorkerStep(w)
              \/ \E d \in Callers : CloseAgain(d)
       PROVE  \A c \in Callers : ClosesOn(c)
  <2>1. UNCHANGED call
    BY <1>17 DEF CloseAgain, TimerStep, TimerWake, TimerPeek, TimerLock, TimerSubmit, Tick,
                 vars, WorkerStep, WorkerTake, ConvertRaises, BackendAnswers,
                 FlushSucceeds, FlushFails, Release
  <2> QED
    BY <2>1 DEF ClosesOn, CloseCall
<1> QED
  BY <1>7, <1>8, <1>9, <1>10, <1>11, <1>12, <1>13, <1>14, <1>15, <1>16, <1>17
  DEF Next, Call, CallStep

(* What a step does to the flags of the writer.                            *)
LEMMA ClosingStep ==
  ASSUME TypeOK, [Next]_vars
  PROVE  /\ UNCHANGED shutdown \/ shutdown'
         /\ \/ UNCHANGED closeResult
            \/ \E c \in Callers : CloseReturns(c)
            \/ \E c \in Callers : CloseAgain(c)
         /\ \/ UNCHANGED closed
            \/ \E c \in Callers : SetClosed(c)
<1>1. ASSUME NEW c \in Callers, CallStep(c) \/ Call(c) \/ Deadline(c)
      PROVE  \/ UNCHANGED control \/ Shutdown(c) \/ CloseReturns(c) \/ CloseAgain(c)
             \/ SetClosed(c)
  <2>1. CASE Call(c) \/ Deadline(c)
    BY <2>1 DEF Call, AddRows, Flush, Close, Deadline
  <2>2. ASSUME NEW th \in RowThresholds, AppendRows(c, th)
        PROVE  UNCHANGED control
    BY <2>2 DEF AppendRows
  <2>3. ASSUME NEW t \in Tables, FlushTable(c, t)
        PROVE  UNCHANGED control
    BY <2>3 DEF FlushTable
  <2>4. CASE SubmitRows(c) \/ FlushTop(c) \/ FlushDone(c) \/ FlushWait(c)
    BY <2>4 DEF SubmitRows, FlushTop, FlushDone, FlushWait
  <2> QED
    BY <1>1, <2>1, <2>2, <2>3, <2>4 DEF CallStep
<1>2. ASSUME \/ TimerStep \/ Tick \/ UNCHANGED vars \/ \E w \in Workers : WorkerStep(w)
      PROVE  UNCHANGED control
  BY <1>2 DEF TimerStep, TimerWake, TimerPeek, TimerLock, TimerSubmit, Tick, vars,
              WorkerStep, WorkerTake, ConvertRaises, BackendAnswers, FlushSucceeds,
              FlushFails, Release
<1>3. ASSUME NEW c \in Callers, Shutdown(c)
      PROVE  shutdown' /\ UNCHANGED <<closed, closeResult>>
  BY <1>3 DEF Shutdown
<1>4. ASSUME NEW c \in Callers, CloseReturns(c) \/ CloseAgain(c)
      PROVE  UNCHANGED <<closed, shutdown>>
  BY <1>4 DEF CloseReturns, CloseAgain
<1>5. ASSUME NEW c \in Callers, SetClosed(c) PROVE UNCHANGED <<shutdown, closeResult>>
  BY <1>5 DEF SetClosed
<1> QED
  BY <1>1, <1>2, <1>3, <1>4, <1>5 DEF Next, control

LEMMA SilentStep == TypeOK /\ SilentInv /\ [Next]_vars => SilentInv'
<1> SUFFICES ASSUME TypeOK, SilentInv, [Next]_vars PROVE SilentInv'
  OBVIOUS
<1>1. \A c \in Callers : call'[c].pc = "join" => shutdown'
  BY ArriveStep, ClosingStep DEF SilentInv, Stays
<1>2. \A c \in Callers : ClosesOn(c)
  BY CloseCallStep DEF SilentInv
<1>3. ASSUME NEW c \in Callers, CloseReturns(c) PROVE Waited' /\ shutdown' /\ NoWork'
  <2>1. shutdown /\ NoWork
    BY <1>3 DEF CloseReturns, SilentInv, NoWork
  <2>2. Waited'
    BY <1>3 DEF CloseReturns, Waited
  <2> QED
    BY <2>1, <2>2, NoWorkKept
<1>4. ASSUME NEW c \in Callers, CloseAgain(c) PROVE (Waited' <=> Waited) /\ closed /\ closed'
  BY <1>4 DEF CloseAgain, Waited
<1>5. ASSUME NEW c \in Callers, SetClosed(c) PROVE closed' /\ call'[c].closing
  <2>1. Idle \in CallState /\ call \in [Callers -> CallState]
    BY IdleType DEF TypeOK, CallsOK
  <2>2. call'[c] = [Idle EXCEPT !.pc = "top", !.closing = TRUE, !.deadline = "ahead",
                                !.mark = [t \in Tables |-> Len(accepted[t])]]
    BY <1>5, <2>1 DEF SetClosed, BeginFlush
  <2>3. call'[c].closing
    BY <2>1, <2>2 DEF CallState
  <2> QED
    BY <1>5, <2>3 DEF SetClosed
<1>6. Waited' => shutdown' /\ NoWork'
  <2>1. CASE Waited
    BY <2>1, NoWorkKept DEF SilentInv
  <2>2. CASE ~Waited
    BY <1>3, <1>4, <2>2, ClosingStep DEF Waited
  <2> QED
    BY <2>1, <2>2
<1>7. "early" \in closeResult' => closed'
  <2>1. closed \/ "early" \notin closeResult
    BY DEF SilentInv
  <2>2. closed => closed'
    BY <1>5, ClosingStep
  <2>3. ASSUME NEW c \in Callers, CloseReturns(c) PROVE "early" \in closeResult' => "early" \in closeResult
    BY <2>3 DEF CloseReturns
  <2> QED
    BY <1>4, <2>1, <2>2, <2>3, ClosingStep
<1>8. Waited => Waited'
  BY <1>3, <1>4, ClosingStep DEF Waited
<1>9. closed' => Waited' \/ \E c \in Callers : call'[c].closing
  <2>1. CASE \E c \in Callers : SetClosed(c)
    BY <1>5, <2>1
  <2>2. CASE UNCHANGED closed
    <3>1. ASSUME NEW c \in Callers, call[c].closing PROVE Waited' \/ call'[c].closing
      BY <1>2, <1>3, <3>1 DEF ClosesOn
    <3> QED
      BY <1>8, <2>2, <3>1 DEF SilentInv
  <2> QED
    BY <2>1, <2>2, ClosingStep
<1> QED
  BY <1>1, <1>2, <1>6, <1>7, <1>9 DEF SilentInv, ClosesOn

(* Once a close() that waited has returned, no thread of the writer stores *)
(* a row any more, although callers may still be inside add_rows(),        *)
(* flush() or another close(), and the timer in its pass; and a close()    *)
(* that returned at once leaves it silent when no other is under way.      *)
THEOREM Silence == Spec => StoreFrozenAfterClose
<1>1. Init => SilentInv
  <2>1. Idle.pc = "idle" /\ ~Idle.closing
    BY IdleType DEF Idle
  <2> QED
    BY <2>1 DEF Init, SilentInv, CloseCall, Waited
<1>2. TypeOK /\ SilentInv /\ [Next]_vars
      => [Waited \/ ("early" \in closeResult /\ \A c \in Callers : ~call[c].closing)
            => UNCHANGED stored]_vars
  <2> SUFFICES ASSUME TypeOK, SilentInv, [Next]_vars,
                      \/ Waited
                      \/ "early" \in closeResult /\ \A c \in Callers : ~call[c].closing
               PROVE  UNCHANGED stored
    OBVIOUS
  <2>1. shutdown /\ NoWork
    BY DEF SilentInv
  <2> QED
    BY <2>1, NoWorkKept
<1> QED
  BY <1>1, <1>2, SilentStep, TypeInit, TypeStep, PTL DEF Spec, StoreFrozenAfterClose

-----------------------------------------------------------------------------
(* The order of last_flush_ts                                              *)

(* The time that a batch will leave as last_flush_ts is not before the one *)
(* that is there, and is no time to come.                                  *)
Dated(x) == lastFlush[x.table] <= x.ts /\ x.ts <= clock

(* A batch of add_rows() gets its time when it is submitted.               *)
Stamping == Workers \cup {Timer}

TimeInv == /\ \A t \in Tables : lastFlush[t] <= clock
           /\ timer.now <= clock
           /\ \A a \in Stamping : carrying[a] # NoTask => Dated(carrying[a])
           /\ \A i \in DOMAIN queue : Dated(queue[i])

LEMMA DatedKept ==
  ASSUME TypeOK, UNCHANGED lastFlush, clock' \in Nat, clock <= clock',
         NEW x \in Task, Dated(x)
  PROVE  lastFlush'[x.table] <= x.ts /\ x.ts <= clock'
<1>1. x.ts \in Nat /\ clock \in Nat
  BY DEF TypeOK, ControlOK, Task
<1> QED
  BY <1>1 DEF Dated

(* A step that stamps no batch and ends no flush.                          *)
LEMMA QuietKeepsTime ==
  ASSUME TypeOK, TimeInv, UNCHANGED <<lastFlush, queue>>, clock' \in Nat, clock <= clock',
         timer'.now = timer.now \/ timer'.now = clock,
         \A a \in Stamping : carrying'[a] = carrying[a] \/ carrying'[a] = NoTask
  PROVE  TimeInv'
<1>0. /\ \A t \in Tables : lastFlush[t] \in Nat
      /\ clock \in Nat /\ timer.now \in Nat
      /\ Stamping \subseteq Agents
  BY DEF TypeOK, TablesOK, ControlOK, TimerOK, TimerState, Stamping, Agents, Threads
<1>1. \A t \in Tables : lastFlush'[t] <= clock'
  BY <1>0 DEF TimeInv
<1>2. timer'.now <= clock'
  BY <1>0 DEF TimeInv
<1>3. ASSUME NEW a \in Stamping, carrying'[a] # NoTask PROVE Dated(carrying[a])'
  <2>1. carrying'[a] = carrying[a] /\ carrying[a] \in Task /\ Dated(carrying[a])
    BY <1>0, <1>3, CarriesTask DEF TimeInv
  <2> QED
    BY <2>1, DatedKept DEF Dated
<1>4. ASSUME NEW i \in DOMAIN queue PROVE Dated(queue[i])'
  <2>1. queue[i] \in Task /\ Dated(queue[i])
    BY QueuesTask DEF TimeInv
  <2> QED
    BY <2>1, DatedKept DEF Dated
<1> QED
  BY <1>1, <1>2, <1>3, <1>4 DEF TimeInv

(* A batch goes to the executor, or is lost.                               *)
LEMMA SubmitKeepsTime ==
  ASSUME TypeOK, TimeInv, NEW task \in Task, Dated(task), Submitted(task) \/ Refused(task),
         UNCHANGED <<lastFlush, clock>>, timer'.now = timer.now,
         \A a \in Stamping : carrying'[a] = carrying[a] \/ carrying'[a] = NoTask
  PROVE  TimeInv'
<1>0. clock \in Nat /\ Stamping \subseteq Agents /\ queue \in Seq(Task)
  BY DEF TypeOK, PoolOK, ControlOK, Stamping, Agents, Threads
<1>1. CASE Refused(task)
  BY <1>0, <1>1, QuietKeepsTime DEF Refused
<1>2. CASE Submitted(task)
  <2>1. /\ \A t \in Tables : lastFlush'[t] <= clock'
        /\ timer'.now <= clock'
    BY DEF TimeInv
  <2>2. ASSUME NEW a \in Stamping, carrying'[a] # NoTask PROVE Dated(carrying[a])'
    BY <2>2 DEF TimeInv, Dated
  <2>3. ASSUME NEW i \in DOMAIN queue' PROVE Dated(queue[i])'
    <3>1. queue' = Append(queue, task)
      BY <1>2 DEF Submitted
    <3>2. /\ DOMAIN queue = 1 .. Len(queue) /\ DOMAIN queue' = 1 .. Len(queue) + 1
          /\ \A j \in 1 .. Len(queue) : queue'[j] = queue[j]
          /\ queue'[Len(queue) + 1] = task /\ Len(queue) \in Nat
      BY <1>0, <3>1, AppendProperties, LenProperties
    <3>3. (i \in DOMAIN queue /\ queue'[i] = queue[i]) \/ queue'[i] = task
      BY <3>2
    <3> QED
      BY <3>3 DEF TimeInv, Dated
  <2> QED
    BY <2>1, <2>2, <2>3 DEF TimeInv
<1> QED
  BY <1>1, <1>2

LEMMA TimeStep == TypeOK /\ OneFlushPerTable /\ TimeInv /\ [Next]_vars => TimeInv'
<1> SUFFICES ASSUME TypeOK, OneFlushPerTable, TimeInv, [Next]_vars PROVE TimeInv'
  OBVIOUS
<1>0. /\ \A t \in Tables : lastFlush[t] \in Nat
      /\ lastFlush \in [Tables -> Nat]
      /\ clock \in Nat /\ timer.now \in Nat /\ timer.thresh \in Nat
      /\ timer \in TimerState
      /\ carrying \in [Agents -> Task \cup {NoTask}]
      /\ Stamping \subseteq Agents /\ \A c \in Callers : c \notin Stamping /\ c \in Agents
      /\ \A a \in Workers : a \in Stamping /\ a # Timer
      /\ Timer \in Stamping
  BY ConstantsAssumption
  DEF TypeOK, TablesOK, PoolOK, ControlOK, TimerOK, TimerState, Stamping, Agents, Threads
<1>1. ASSUME UNCHANGED <<lastFlush, queue, carrying, clock>>,
             timer'.now = timer.now \/ timer'.now = clock
      PROVE  TimeInv'
  BY <1>0, <1>1, QuietKeepsTime
<1>2. ASSUME NEW c \in Callers, NEW th \in RowThresholds, AppendRows(c, th)
      PROVE  TimeInv'
  <2>1. /\ UNCHANGED <<lastFlush, queue, clock, timer>>
        /\ carrying' = carrying \/ \E x : carrying' = [carrying EXCEPT ![c] = x]
    BY <1>2 DEF AppendRows
  <2>2. \A a \in Stamping : carrying'[a] = carrying[a]
    BY <1>0, <2>1
  <2> QED
    BY <1>0, <2>1, <2>2, QuietKeepsTime
<1>3. ASSUME NEW c \in Callers, SubmitRows(c) PROVE TimeInv'
  <2>1. carrying[c] # NoTask /\ carrying[c] \in Task
    BY <1>0, <1>3 DEF SubmitRows, TypeOK, CallsOK
  <2>2. PICK task : task = [carrying[c] EXCEPT !.ts = clock]
    OBVIOUS
  <2>3. task \in Task /\ task.table \in Tables /\ task.ts = clock
    BY <1>0, <2>1, <2>2 DEF Task
  <2>4. Dated(task)
    BY <1>0, <2>3 DEF Dated, TimeInv
  <2>5. /\ Submitted(task) \/ Refused(task)
        /\ UNCHANGED <<lastFlush, clock, timer>>
        /\ carrying' = [carrying EXCEPT ![c] = NoTask]
    BY <1>3, <2>2 DEF SubmitRows
  <2>6. \A a \in Stamping : carrying'[a] = carrying[a]
    BY <1>0, <2>5
  <2> QED
    BY <2>3, <2>4, <2>5, <2>6, SubmitKeepsTime
<1>4. ASSUME NEW c \in Callers, NEW t \in Tables, FlushTable(c, t) PROVE TimeInv'
  <2>1. UNCHANGED <<lastFlush, carrying, clock, timer>>
    BY <1>4 DEF FlushTable
  <2>2. CASE MayTake(t)
    <3>1. PICK task : task = [table |-> t, rows |-> buffer[t], ts |-> clock, by |-> c]
      OBVIOUS
    <3>2. task \in Task /\ task.table = t /\ task.ts = clock
      BY <2>2, <3>1 DEF Task, Threads, MayTake, TypeOK, TablesOK, ControlOK
    <3>3. Submitted(task) \/ Refused(task)
      BY <1>4, <2>2, <3>1 DEF FlushTable
    <3>4. Dated(task)
      BY <1>0, <3>2 DEF Dated, TimeInv
    <3> QED
      BY <2>1, <3>2, <3>3, <3>4, SubmitKeepsTime
  <2>3. CASE ~MayTake(t)
    BY <1>1, <1>4, <2>1, <2>3 DEF FlushTable
  <2> QED
    BY <2>2, <2>3
<1>5. CASE TimerWake
  <2>1. UNCHANGED <<data, clock>>
    BY <1>5 DEF TimerWake
  <2>2. timer'.now = timer.now \/ timer'.now = clock
    BY <1>0, <1>5, ZenonT(60) DEF TimerWake, TimerState
  <2> QED
    BY <1>1, <2>1, <2>2 DEF data
<1>6. ASSUME NEW t \in Tables, TimerPeek(t) PROVE TimeInv'
  <2>1. UNCHANGED <<data, clock>>
    BY <1>6 DEF TimerPeek
  <2>2. timer'.now = timer.now
    BY <1>0, <1>6, ZenonT(60) DEF TimerPeek, TimerState
  <2> QED
    BY <1>1, <2>1, <2>2 DEF data
<1>7. CASE TimerLock
  <2>1. PICK t \in Tables : t = timer.table
    BY <1>7 DEF TimerLock, TypeOK, TimerOK
  <2>2. UNCHANGED <<lastFlush, queue, clock>>
    BY <1>7 DEF TimerLock
  <2>3. timer'.now = timer.now
    BY <1>0, <1>7, ZenonT(60) DEF TimerLock, TimerState
  <2>4. CASE MayTake(t) /\ TimeIsUp(t)
    <3>1. PICK task : task = [table |-> t, rows |-> buffer[t], ts |-> timer.now,
                              by |-> Timer]
      OBVIOUS
    <3>2. task.table = t /\ task.ts = timer.now
      BY <3>1
    <3>3. Dated(task)
      BY <1>0, <2>4, <3>2 DEF Dated, TimeIsUp, TimeInv
    <3>4. carrying' = [carrying EXCEPT ![Timer] = task]
      BY <1>7, <2>1, <2>4, <3>1 DEF TimerLock
    <3>5. ASSUME NEW a \in Stamping, carrying'[a] # NoTask PROVE Dated(carrying[a])'
      <4>1. carrying'[a] = task \/ (carrying'[a] = carrying[a])
        BY <1>0, <3>4
      <4> QED
        BY <2>2, <3>3, <3>5, <4>1 DEF Dated, TimeInv
    <3> QED
      BY <2>2, <2>3, <3>5 DEF TimeInv, Dated
  <2>5. CASE ~(MayTake(t) /\ TimeIsUp(t))
    BY <1>1, <1>7, <2>1, <2>2, <2>3, <2>5 DEF TimerLock
  <2> QED
    BY <2>4, <2>5
<1>8. CASE TimerSubmit
  <2>1. PICK task : task = carrying[Timer]
    OBVIOUS
  <2>2. task # NoTask /\ task \in Task /\ Dated(task)
    BY <1>0, <1>8, <2>1 DEF TimerSubmit, TypeOK, TimerOK, TimeInv
  <2>3. /\ Submitted(task) \/ Refused(task)
        /\ UNCHANGED <<lastFlush, clock>>
        /\ carrying' = [carrying EXCEPT ![Timer] = NoTask]
    BY <1>8, <2>1 DEF TimerSubmit
  <2>4. timer'.now = timer.now
    BY <1>0, <1>8, ZenonT(60) DEF TimerSubmit, TimerState
  <2>5. \A a \in Stamping : carrying'[a] = carrying[a] \/ carrying'[a] = NoTask
    BY <1>0, <2>3
  <2> QED
    BY <2>2, <2>3, <2>4, <2>5, SubmitKeepsTime
<1>9. ASSUME NEW w \in Workers, WorkerTake(w) PROVE TimeInv'
  <2>1. /\ UNCHANGED <<lastFlush, clock, timer>> /\ queue # <<>>
        /\ carrying' = [carrying EXCEPT ![w] = Head(queue)]
        /\ queue' = Tail(queue) /\ queue \in Seq(Task)
    BY <1>9 DEF WorkerTake, TypeOK, PoolOK
  <2>2. /\ DOMAIN queue = 1 .. Len(queue) /\ DOMAIN queue' = 1 .. Len(queue) - 1
        /\ \A i \in 1 .. Len(queue) - 1 : queue'[i] = queue[i + 1]
        /\ Len(queue) \in Nat \ {0}
        /\ Head(queue) = queue[1]
    BY <2>1, HeadTailProperties, LenProperties, EmptySeq
  <2>3. 1 \in DOMAIN queue /\ \A i \in DOMAIN queue' :
          i + 1 \in DOMAIN queue /\ queue'[i] = queue[i + 1]
    BY <2>2
  <2>4. Dated(Head(queue))
    BY <2>2, <2>3 DEF TimeInv
  <2>5. ASSUME NEW a \in Stamping, carrying'[a] # NoTask PROVE Dated(carrying[a])'
    <3>1. carrying'[a] = Head(queue) \/ carrying'[a] = carrying[a]
      BY <1>0, <2>1
    <3> QED
      BY <2>1, <2>4, <2>5, <3>1 DEF Dated, TimeInv
  <2>6. ASSUME NEW i \in DOMAIN queue' PROVE Dated(queue[i])'
    BY <2>1, <2>3 DEF Dated, TimeInv
  <2> QED
    BY <2>1, <2>5, <2>6 DEF TimeInv
<1>10. ASSUME NEW w \in Workers,
              ConvertRaises(w) \/ \E o \in Outcomes : BackendAnswers(w, o)
       PROVE  TimeInv'
  BY <1>1, <1>10 DEF ConvertRaises, BackendAnswers
<1>11. ASSUME NEW w \in Workers, FlushFails(w) PROVE TimeInv'
  <2>1. /\ UNCHANGED <<lastFlush, queue, clock, timer>>
        /\ carrying' = [carrying EXCEPT ![w] = NoTask]
    BY <1>11 DEF FlushFails, Release
  <2>2. \A a \in Stamping : carrying'[a] = carrying[a] \/ carrying'[a] = NoTask
    BY <1>0, <2>1
  <2> QED
    BY <1>0, <2>1, <2>2, QuietKeepsTime
<1>12. ASSUME NEW w \in Workers, FlushSucceeds(w) PROVE TimeInv'
  <2>1. carrying[w] # NoTask /\ w \in Agents
    BY <1>0, <1>12 DEF FlushSucceeds, TypeOK, PoolOK, Agents
  <2>2. PICK t \in Tables : t = carrying[w].table
    BY <2>1, CarriesTask
  <2>3. PICK ts \in Nat : ts = carrying[w].ts
    BY <2>1, CarriesTask DEF Task
  <2>4. /\ UNCHANGED <<queue, clock, timer>>
        /\ carrying' = [carrying EXCEPT ![w] = NoTask]
        /\ lastFlush' = [lastFlush EXCEPT ![t] = ts]
    BY <1>12, <2>2, <2>3 DEF FlushSucceeds, Release
  <2>5. ts <= clock
    BY <1>0, <2>1, <2>3 DEF TimeInv, Dated
  <2>6. \A u \in Tables : lastFlush'[u] <= clock' /\ (u # t => lastFlush'[u] = lastFlush[u])
    BY <1>0, <2>4, <2>5 DEF TimeInv
  <2>7. (\A a \in Carried(t) : a = w) /\ Queued(t) = {}
    BY <2>1, <2>2 DEF OneFlushPerTable, OneFlush, Carried
  <2>8. ASSUME NEW a \in Stamping, carrying'[a] # NoTask PROVE Dated(carrying[a])'
    <3>1. a # w /\ carrying'[a] = carrying[a] /\ carrying[a] # NoTask /\ a \in Agents
      BY <1>0, <2>4, <2>8
    <3>2. carrying[a].table \in Tables /\ carrying[a].table # t
      BY <2>7, <3>1, CarriesTask DEF Carried
    <3> QED
      BY <2>4, <2>6, <3>1, <3>2 DEF Dated, TimeInv
  <2>9. ASSUME NEW i \in DOMAIN queue PROVE Dated(queue[i])'
    <3>1. queue[i].table \in Tables /\ queue[i].table # t
      BY <2>7, QueuesTask DEF Queued
    <3> QED
      BY <2>4, <2>6, <3>1 DEF Dated, TimeInv
  <2> QED
    BY <2>4, <2>6, <2>8, <2>9 DEF TimeInv
<1>13. CASE Tick
  <2>1. UNCHANGED <<lastFlush, queue, carrying, timer>> /\ clock' = clock + 1
    BY <1>13 DEF Tick, data
  <2> QED
    BY <1>0, <2>1, QuietKeepsTime
<1>14. CASE UNCHANGED vars
  BY <1>1, <1>14 DEF vars, data
<1>15. ASSUME NEW c \in Callers,
              \/ Call(c) \/ SetClosed(c) \/ FlushTop(c) \/ FlushDone(c) \/ FlushWait(c)
              \/ Shutdown(c) \/ CloseReturns(c) \/ Deadline(c)
       PROVE  TimeInv'
  <2>1. UNCHANGED <<data, timer, clock>>
    BY <1>15 DEF Call, AddRows, Flush, Close, CloseAgain, SetClosed, FlushTop, FlushDone,
                 FlushWait, Shutdown, CloseReturns, Deadline
  <2> QED
    BY <1>1, <2>1 DEF data
<1> QED
  BY <1>2, <1>3, <1>4, <1>5, <1>6, <1>7, <1>8, <1>9, <1>10, <1>11, <1>12, <1>13, <1>14, <1>15
  DEF Next, CallStep, TimerStep, WorkerStep

LEMMA TimeInit == Init => TimeInv
<1> SUFFICES ASSUME Init PROVE TimeInv
  OBVIOUS
<1>1. /\ \A t \in Tables : lastFlush[t] = 0
      /\ clock = 0 /\ timer.now = 0 /\ DOMAIN queue = {}
      /\ \A a \in Stamping : carrying[a] = NoTask
  BY DEF Init, Stamping, Agents, Threads
<1> QED
  BY <1>1 DEF TimeInv

LEMMA LastFlushStep ==
  ASSUME TypeOK, TimeInv, [Next]_vars, NEW t \in Tables
  PROVE  lastFlush[t] <= lastFlush'[t]
<1>0. lastFlush \in [Tables -> Nat]
  BY DEF TypeOK, TablesOK
<1>1. ASSUME UNCHANGED lastFlush PROVE lastFlush[t] <= lastFlush'[t]
  BY <1>0, <1>1
<1>2. ASSUME NEW w \in Workers, FlushSucceeds(w) PROVE lastFlush[t] <= lastFlush'[t]
  <2>1. carrying[w] # NoTask /\ w \in Agents /\ w \in Stamping
    BY <1>2 DEF FlushSucceeds, TypeOK, PoolOK, Agents, Stamping
  <2>2. Dated(carrying[w])
    BY <2>1 DEF TimeInv
  <2>3. lastFlush' = [lastFlush EXCEPT ![carrying[w].table] = carrying[w].ts]
    BY <1>2 DEF FlushSucceeds
  <2> QED
    BY <1>0, <2>2, <2>3 DEF Dated
<1>3. ASSUME NEW c \in Callers, CallStep(c) \/ Call(c) \/ Deadline(c)
      PROVE  UNCHANGED lastFlush
  BY <1>3 DEF Call, AddRows, Flush, Close, CloseAgain, CallStep, AppendRows, SubmitRows, SetClosed,
              FlushTop, FlushTable, FlushDone, FlushWait, Shutdown, CloseReturns,
              Deadline, data
<1>4. ASSUME TimerStep \/ Tick \/ UNCHANGED vars PROVE UNCHANGED lastFlush
  BY <1>4 DEF TimerStep, TimerWake, TimerPeek, TimerLock, TimerSubmit, Tick, vars, data
<1>5. ASSUME NEW w \in Workers,
             \/ WorkerTake(w) \/ ConvertRaises(w) \/ FlushFails(w)
             \/ \E o \in Outcomes : BackendAnswers(w, o)
      PROVE  UNCHANGED lastFlush
  BY <1>5 DEF WorkerTake, ConvertRaises, BackendAnswers, FlushFails
<1> QED
  BY <1>1, <1>2, <1>3, <1>4, <1>5 DEF Next, WorkerStep

(* last_flush_ts never goes back, although three kinds of threads read the *)
(* clock at three distances from the flush: before the lock is taken, under *)
(* it, and after it is released.                                           *)
THEOREM Monotone == Spec => LastFlushMonotone
<1>1. TypeOK /\ TimeInv /\ [Next]_vars
        => [\A t \in Tables : lastFlush[t] <= lastFlush'[t]]_vars
  BY LastFlushStep
<1> QED
  BY <1>1, TypeInit, TypeStep, OneFlushInit, OneFlushStep, TimeInit, TimeStep, PTL
  DEF Spec, LastFlushMonotone

-----------------------------------------------------------------------------
(***************************************************************************)
(* Proofs of the order in which rows are stored, for any backend, also one *)
(* that stores a batch and raises: the batch is then put back and stored   *)
(* again, and still no row overtakes one accepted before it.               *)
(***************************************************************************)

(* Each row is accepted once                                               *)

Distinct(s) == \A i, j \in DOMAIN s : s[i] = s[j] => i = j

(* Rows are told apart by their identity: no call passes one twice.        *)
DistinctBatches == \A b \in Batches : Distinct(b)

Apart(s, u) == \A r : ~(r \in Range(s) /\ r \in Range(u))

Adding(c) == call[c].pc = "append"

FreshInv ==
  /\ \A t \in Tables : Distinct(accepted[t])
  /\ \A c \in Callers : Adding(c) =>
       /\ Distinct(call[c].rows)
       /\ \A t \in Tables : Apart(call[c].rows, accepted[t])
       /\ \A d \in Callers \ {c} : Adding(d) => Apart(call[c].rows, call[d].rows)

LEMMA DistinctConcat ==
  ASSUME NEW s \in Seq(Rows), NEW u \in Seq(Rows), Distinct(s), Distinct(u), Apart(s, u)
  PROVE  Distinct(s \o u)
<1>1. /\ s \o u \in Seq(Rows) /\ Len(s \o u) = Len(s) + Len(u)
      /\ \A i \in 1 .. Len(s) + Len(u) :
           (s \o u)[i] = IF i <= Len(s) THEN s[i] ELSE u[i - Len(s)]
  BY ConcatProperties
<1>2. /\ DOMAIN s = 1 .. Len(s) /\ DOMAIN u = 1 .. Len(u)
      /\ DOMAIN (s \o u) = 1 .. Len(s) + Len(u) /\ Len(s) \in Nat /\ Len(u) \in Nat
  BY <1>1, LenProperties
<1> DEFINE v == s \o u
<1>3. ASSUME NEW i \in DOMAIN v
      PROVE  \/ i \in DOMAIN s /\ v[i] = s[i]
             \/ i - Len(s) \in DOMAIN u /\ v[i] = u[i - Len(s)]
  BY <1>1, <1>2
<1>4. \A i \in DOMAIN v : i \in Nat
  BY <1>2
<1>5. \A i \in DOMAIN s, j \in DOMAIN u : s[i] # u[j]
  BY DEF Apart, Range
<1> HIDE DEF v
<1>6. ASSUME NEW i \in DOMAIN v, NEW j \in DOMAIN v, v[i] = v[j] PROVE i = j
  <2>1. CASE i \in DOMAIN s /\ v[i] = s[i] /\ j \in DOMAIN s /\ v[j] = s[j]
    BY <1>6, <2>1 DEF Distinct
  <2>2. CASE /\ i - Len(s) \in DOMAIN u /\ v[i] = u[i - Len(s)]
             /\ j - Len(s) \in DOMAIN u /\ v[j] = u[j - Len(s)]
    <3>1. i - Len(s) = j - Len(s)
      BY <1>6, <2>2 DEF Distinct
    <3> QED
      BY <1>2, <1>4, <3>1
  <2> QED
    BY <1>3, <1>5, <1>6, <2>1, <2>2
<1> QED
  BY <1>6 DEF v, Distinct

LEMMA AcceptStep ==
  ASSUME [Next]_vars
  PROVE  \/ UNCHANGED accepted
         \/ \E c \in Callers, th \in RowThresholds : AppendRows(c, th)
<1>1. ASSUME NEW c \in Callers,
             \/ Call(c) \/ SetClosed(c) \/ FlushTop(c) \/ FlushDone(c) \/ FlushWait(c)
             \/ Shutdown(c) \/ CloseReturns(c) \/ Deadline(c) \/ SubmitRows(c)
             \/ \E t \in Tables : FlushTable(c, t)
      PROVE  UNCHANGED accepted
  BY <1>1 DEF Call, AddRows, Flush, Close, CloseAgain, SetClosed, FlushTop, FlushDone, FlushWait,
              Shutdown, CloseReturns, Deadline, SubmitRows, FlushTable, data
<1>2. ASSUME TimerStep \/ Tick \/ UNCHANGED vars PROVE UNCHANGED accepted
  BY <1>2 DEF TimerStep, TimerWake, TimerPeek, TimerLock, TimerSubmit, Tick, vars, data
<1>3. ASSUME NEW w \in Workers, WorkerStep(w) PROVE UNCHANGED accepted
  BY <1>3 DEF WorkerStep, WorkerTake, ConvertRaises, BackendAnswers, FlushSucceeds,
              FlushFails, Release
<1> QED
  BY <1>1, <1>2, <1>3 DEF Next, CallStep

LEMMA FreshAppend ==
  ASSUME TypeOK, FreshInv, NEW c \in Callers, NEW th \in RowThresholds, AppendRows(c, th)
  PROVE  FreshInv'
<1>0. /\ accepted \in [Tables -> Seq(Rows)] /\ call \in [Callers -> CallState]
      /\ Idle \in CallState /\ Idle.pc = "idle"
  BY IdleType DEF TypeOK, TablesOK, CallsOK
<1>1. PICK t \in Tables, new \in Seq(Rows) : t = call[c].table /\ new = call[c].rows
  BY ConstantsAssumption DEF AppendRows, TypeOK, CallsOK
<1>2. accepted' = [accepted EXCEPT ![t] = @ \o new] /\ Adding(c)
  BY <1>1 DEF AppendRows, Adding
<1>3. /\ accepted'[t] = accepted[t] \o new
      /\ \A u \in Tables \ {t} : accepted'[u] = accepted[u]
  BY <1>0, <1>2
<1>4. call'[c].pc # "append" /\ \A d \in Callers \ {c} : call'[d] = call[d]
  <2> DEFINE r == [Idle EXCEPT !.pc = "submit"]
  <2>1. r \in CallState /\ r.pc = "submit"
    BY <1>0 DEF CallState
  <2>2. call' = [call EXCEPT ![c] = r] \/ call' = [call EXCEPT ![c] = Idle]
    BY DEF AppendRows
  <2> HIDE DEF r
  <2> QED
    BY <1>0, <2>1, <2>2
<1>5. Distinct(new) /\ \A u \in Tables : Apart(new, accepted[u])
  BY <1>1, <1>2 DEF FreshInv
<1>6. ASSUME NEW u \in Tables PROVE Distinct(accepted'[u])
  <2>1. CASE u = t
    <3>1. Apart(accepted[t], new)
      BY <1>5 DEF Apart
    <3>2. PICK s \in Seq(Rows) : s = accepted[t]
      BY <1>0
    <3>3. Distinct(s \o new)
      BY <1>5, <3>1, <3>2, DistinctConcat DEF FreshInv
    <3> QED
      BY <1>3, <2>1, <3>2, <3>3
  <2>2. CASE u # t
    BY <1>3, <2>2 DEF FreshInv
  <2> QED
    BY <2>1, <2>2
<1>7. ASSUME NEW d \in Callers, Adding(d)'
      PROVE  /\ Distinct(call'[d].rows)
             /\ \A u \in Tables : Apart(call'[d].rows, accepted'[u])
             /\ \A e \in Callers \ {d} : Adding(e)' => Apart(call'[d].rows, call'[e].rows)
  <2>1. d # c /\ call'[d] = call[d] /\ Adding(d)
    BY <1>4, <1>7 DEF Adding
  <2>2. /\ Distinct(call[d].rows) /\ Apart(call[d].rows, new)
        /\ \A u \in Tables : Apart(call[d].rows, accepted[u])
    BY <1>1, <1>2, <2>1 DEF FreshInv
  <2>3. ASSUME NEW u \in Tables PROVE Apart(call[d].rows, accepted'[u])
    <3>1. CASE u = t
      <4>1. \A r : r \in Range(accepted'[u]) <=> r \in Range(accepted[u]) \/ r \in Range(new)
        BY <1>0, <1>3, <3>1, RangeOfConcat
      <4> QED
        BY <2>2, <4>1 DEF Apart
    <3>2. CASE u # t
      BY <1>3, <2>2, <3>2
    <3> QED
      BY <3>1, <3>2
  <2>4. ASSUME NEW e \in Callers \ {d}, Adding(e)'
        PROVE  Apart(call'[d].rows, call'[e].rows)
    <3>1. e # c /\ call'[e] = call[e] /\ Adding(e)
      BY <1>4, <2>4 DEF Adding
    <3> QED
      BY <2>1, <3>1 DEF FreshInv
  <2> QED
    BY <2>1, <2>2, <2>3, <2>4
<1> QED
  BY <1>6, <1>7 DEF FreshInv

LEMMA FreshStep ==
  ASSUME DistinctBatches, TypeOK, FreshInv, [Next]_vars
  PROVE  FreshInv'
<1>1. CASE \E c \in Callers, th \in RowThresholds : AppendRows(c, th)
  BY <1>1, FreshAppend
<1>2. CASE UNCHANGED accepted
  <2>1. ASSUME NEW c \in Callers, Adding(c)'
        PROVE  \/ Adding(c) /\ call'[c].rows = call[c].rows
               \/ \E t \in Tables, rows \in Batches : AddRows(c, t, rows)
    BY <2>1, ArriveStep DEF Adding, Stays
  <2>2. ASSUME NEW c \in Callers, NEW t \in Tables, NEW rows \in Batches, AddRows(c, t, rows)
        PROVE  /\ call'[c].rows = rows /\ Distinct(rows)
               /\ \A u \in Tables : Apart(rows, accepted[u])
               /\ \A d \in Callers : Apart(rows, call[d].rows)
               /\ \A d \in Callers \ {c} : call'[d] = call[d]
    <3>1. /\ call \in [Callers -> CallState] /\ Idle \in CallState
      BY IdleType DEF TypeOK, CallsOK
    <3> DEFINE r == [Idle EXCEPT !.pc = "append", !.table = t, !.rows = rows]
    <3>2. r.rows = rows
      BY <3>1 DEF CallState
    <3>3. call' = [call EXCEPT ![c] = r] /\ Range(rows) \cap Issued = {}
      BY <2>2 DEF AddRows
    <3> HIDE DEF r
    <3>4. \A u \in Tables : Apart(rows, accepted[u])
      BY <3>3 DEF Issued, Apart
    <3>5. \A d \in Callers : Apart(rows, call[d].rows)
      BY <3>3 DEF Issued, Apart
    <3> QED
      BY <3>1, <3>2, <3>3, <3>4, <3>5 DEF DistinctBatches
  <2>3. ASSUME NEW c \in Callers, Adding(c)'
        PROVE  /\ Distinct(call'[c].rows)
               /\ \A u \in Tables : Apart(call'[c].rows, accepted[u])
    BY <2>1, <2>2, <2>3 DEF FreshInv
  <2>4. ASSUME NEW c \in Callers, NEW d \in Callers \ {c}, Adding(c)', Adding(d)'
        PROVE  Apart(call'[c].rows, call'[d].rows)
    <3>1. CASE \E t \in Tables, rows \in Batches : AddRows(c, t, rows)
      BY <2>2, <3>1
    <3>2. CASE \E t \in Tables, rows \in Batches : AddRows(d, t, rows)
      BY <2>2, <3>2 DEF Apart
    <3>3. CASE /\ Adding(c) /\ call'[c].rows = call[c].rows
               /\ Adding(d) /\ call'[d].rows = call[d].rows
      BY <3>3 DEF FreshInv
    <3> QED
      BY <2>1, <2>4, <3>1, <3>2, <3>3
  <2>5. \A t \in Tables : Distinct(accepted'[t])
    BY <1>2 DEF FreshInv
  <2> QED
    BY <1>2, <2>3, <2>4, <2>5 DEF FreshInv
<1> QED
  BY <1>1, <1>2, AcceptStep

LEMMA FreshInit == Init => FreshInv
<1> SUFFICES ASSUME Init PROVE FreshInv
  OBVIOUS
<1>1. \A c \in Callers : ~Adding(c)
  BY IdleType DEF Init, Adding
<1>2. \A t \in Tables : DOMAIN accepted[t] = {}
  BY DEF Init
<1> QED
  BY <1>1, <1>2 DEF FreshInv, Distinct

-----------------------------------------------------------------------------
(* The rows accepted before a batch in flight                              *)

(* The batch of a table that is between its buffer and the end of a flush, *)
(* or lost; no rows when there is none.                                    *)
InFlight(t, rows) ==
  \/ \E a \in Carried(t) : rows = carrying[a].rows
  \/ \E i \in Queued(t) : rows = queue[i].rows
  \/ dropped[t] # <<>> /\ rows = dropped[t]
  \/ ~flushing[t] /\ rows = <<>>

(* The rows accepted before those of the batch and of the buffer are all   *)
(* stored; the batch may be as well, once or more often.                   *)
Settled(t, rows) ==
  \E done \in Seq(Rows) : /\ accepted[t] = (done \o rows) \o buffer[t]
                          /\ \A r \in Range(done) : r \in Range(stored[t])

SettledInv == \A t \in Tables : \A rows \in Seq(Rows) : InFlight(t, rows) => Settled(t, rows)

LEMMA SettledKept ==
  ASSUME Grows, NEW t \in Tables, NEW rows \in Seq(Rows), Settled(t, rows),
         accepted'[t] = accepted[t], buffer'[t] = buffer[t]
  PROVE  Settled(t, rows)'
  BY DEF Settled, Grows

(* A step that leaves the buffer alone and puts no new batch in flight.    *)
LEMMA FlightKept ==
  ASSUME Grows, SettledInv, UNCHANGED <<accepted, buffer>>,
         \A u \in Tables : \A rows \in Seq(Rows) : InFlight(u, rows)' => InFlight(u, rows)
  PROVE  SettledInv'
<1>1. ASSUME NEW u \in Tables, NEW rows \in Seq(Rows), InFlight(u, rows)'
      PROVE  Settled(u, rows)'
  BY <1>1, SettledKept DEF SettledInv
<1> QED
  BY <1>1 DEF SettledInv

LEMMA QuietFlight ==
  ASSUME Grows, SettledInv,
         UNCHANGED <<accepted, buffer, flushing, carrying, queue, dropped>>
  PROVE  SettledInv'
  BY FlightKept DEF InFlight, Carried, Queued

(* A thread takes the buffer of a table that is not being flushed: what    *)
(* was accepted before is stored.                                          *)
LEMMA TakeSettles ==
  ASSUME TypeOK, Grows, SettledInv, NEW t \in Tables, ~flushing[t],
         NEW new \in Seq(Rows), NEW full \in Seq(Rows), full = buffer[t] \o new,
         accepted'[t] = accepted[t] \o new, buffer'[t] = <<>>
  PROVE  Settled(t, full)'
<1>1. Settled(t, <<>>)
  <2>1. <<>> \in Seq(Rows) /\ InFlight(t, <<>>)
    BY DEF InFlight
  <2> QED
    BY <2>1 DEF SettledInv
<1>2. PICK done \in Seq(Rows) : /\ accepted[t] = (done \o <<>>) \o buffer[t]
                                /\ \A r \in Range(done) : r \in Range(stored[t])
  BY <1>1 DEF Settled
<1>3. PICK b \in Seq(Rows) : b = buffer[t]
  BY DEF TypeOK, TablesOK
<1>4. ((done \o <<>>) \o b) \o new = (done \o (b \o new)) \o <<>>
  BY Regroup
<1>5. accepted'[t] = (done \o full) \o buffer'[t]
  BY <1>2, <1>3, <1>4
<1>6. \A r \in Range(done) : r \in Range(stored'[t])
  BY <1>2 DEF Grows
<1> QED
  BY <1>5, <1>6 DEF Settled

(* add_rows() appends behind the rows that are not settled. *)
LEMMA AppendSettles ==
  ASSUME TypeOK, Grows, NEW t \in Tables, NEW rows \in Seq(Rows), Settled(t, rows),
         NEW new \in Seq(Rows), accepted'[t] = accepted[t] \o new,
         buffer'[t] = buffer[t] \o new
  PROVE  Settled(t, rows)'
<1>1. PICK done \in Seq(Rows) : /\ accepted[t] = (done \o rows) \o buffer[t]
                                /\ \A r \in Range(done) : r \in Range(stored[t])
  BY DEF Settled
<1>2. PICK b \in Seq(Rows) : b = buffer[t]
  BY DEF TypeOK, TablesOK
<1>3. ((done \o rows) \o b) \o new = (done \o rows) \o (b \o new)
  BY ConcatThrice, ZenonT(60)
<1>4. accepted'[t] = (done \o rows) \o buffer'[t]
  BY <1>1, <1>2, <1>3
<1>5. \A r \in Range(done) : r \in Range(stored'[t])
  BY <1>1 DEF Grows
<1> QED
  BY <1>4, <1>5 DEF Settled

LEMMA TakeKeepsSettled ==
  ASSUME TypeOK, OneFlushPerTable, Grows, SettledInv, NEW t \in Tables, ~flushing[t],
         Take(t), NEW a \in Agents, NEW task \in Task, task.table = t,
         carrying[a] = NoTask, carrying' = [carrying EXCEPT ![a] = task],
         NEW new \in Seq(Rows), task.rows = buffer[t] \o new,
         accepted' = [accepted EXCEPT ![t] = @ \o new], UNCHANGED <<queue, dropped>>
  PROVE  SettledInv'
<1>1. /\ carrying \in [Agents -> Task \cup {NoTask}]
      /\ buffer \in [Tables -> Seq(Rows)] /\ accepted \in [Tables -> Seq(Rows)]
      /\ flushing \in [Tables -> BOOLEAN]
      /\ task # NoTask /\ task.rows \in Seq(Rows)
  BY IsTask DEF TypeOK, PoolOK, TablesOK
<1>2. ASSUME NEW rows \in Seq(Rows), InFlight(t, rows)' PROVE Settled(t, rows)'
  <2>1. Carried(t) = {} /\ Queued(t) = {} /\ dropped[t] = <<>>
    BY DEF OneFlushPerTable, OneFlush
  <2>2. Carried(t)' = {a} /\ Queued(t)' = {} /\ flushing'[t] /\ dropped'[t] = <<>>
    BY <1>1, <2>1 DEF Carried, Queued, Take
  <2>3. rows = task.rows
    BY <1>1, <1>2, <2>2 DEF InFlight
  <2>4. accepted'[t] = accepted[t] \o new /\ buffer'[t] = <<>>
    BY <1>1 DEF Take
  <2> QED
    BY <2>3, <2>4, TakeSettles
<1>3. ASSUME NEW u \in Tables \ {t}, NEW rows \in Seq(Rows), InFlight(u, rows)'
      PROVE  Settled(u, rows)'
  <2>1. /\ Carried(u)' = Carried(u) /\ Queued(u)' = Queued(u)
        /\ \A e \in Carried(u) : carrying'[e] = carrying[e]
        /\ flushing'[u] = flushing[u]
    BY <1>1 DEF Carried, Queued, Take
  <2>2. InFlight(u, rows)
    BY <1>3, <2>1 DEF InFlight
  <2>3. accepted'[u] = accepted[u] /\ buffer'[u] = buffer[u]
    BY <1>1 DEF Take
  <2> QED
    BY <2>2, <2>3, SettledKept DEF SettledInv
<1> QED
  BY <1>2, <1>3 DEF SettledInv

(* flush() takes and hands over under the lock. *)
LEMMA TakeAndSubmitKeepsSettled ==
  ASSUME TypeOK, OneFlushPerTable, Grows, SettledInv, NEW t \in Tables, ~flushing[t],
         Take(t), NEW task \in Task, task.table = t, task.rows = buffer[t],
         Submitted(task) \/ Refused(task), UNCHANGED <<carrying, accepted>>
  PROVE  SettledInv'
<1>1. /\ dropped \in [Tables -> Seq(Rows)]
      /\ buffer \in [Tables -> Seq(Rows)] /\ accepted \in [Tables -> Seq(Rows)]
      /\ flushing \in [Tables -> BOOLEAN]
      /\ task.rows \in Seq(Rows)
  BY IsTask DEF TypeOK, PoolOK, TablesOK
<1>2. Carried(t) = {} /\ Queued(t) = {} /\ dropped[t] = <<>>
  BY DEF OneFlushPerTable, OneFlush
<1>3. /\ flushing'[t] /\ \A u \in Tables \ {t} : flushing'[u] = flushing[u]
      /\ \A u \in Tables : Carried(u)' = Carried(u)
      /\ buffer'[t] = <<>> /\ \A u \in Tables \ {t} : buffer'[u] = buffer[u]
  BY <1>1 DEF Take, Carried
<1>4. Settled(t, task.rows)'
  <2>1. /\ task.rows = buffer[t] \o <<>> /\ accepted'[t] = accepted[t] \o <<>>
        /\ <<>> \in Seq(Rows)
    BY <1>1, ConcatEmptySeq
  <2> QED
    BY <1>1, <1>3, <2>1, TakeSettles
<1>5. CASE Submitted(task)
  <2>1. queue' = Append(queue, task) /\ dropped' = dropped
    BY <1>5 DEF Submitted
  <2>2. /\ Queued(t)' = {Len(queue) + 1} /\ queue'[Len(queue) + 1] = task
        /\ \A u \in Tables \ {t} : /\ Queued(u)' = Queued(u)
                                   /\ \A i \in Queued(u) : queue'[i] = queue[i]
    BY <1>2, <2>1, QueuedAfterAppend
  <2>3. ASSUME NEW rows \in Seq(Rows), InFlight(t, rows)' PROVE rows = task.rows
    BY <1>2, <1>3, <2>1, <2>2, <2>3 DEF InFlight
  <2>4. ASSUME NEW u \in Tables \ {t}, NEW rows \in Seq(Rows), InFlight(u, rows)'
        PROVE  InFlight(u, rows)
    <3>1. CASE \E e \in Carried(u)' : rows = carrying'[e].rows
      BY <1>3, <3>1 DEF InFlight
    <3>2. CASE \E i \in Queued(u)' : rows = queue'[i].rows
      BY <2>2, <3>2 DEF InFlight
    <3>3. CASE (dropped[u] # <<>> /\ rows = dropped[u]) \/ (~flushing[u] /\ rows = <<>>)
      BY <3>3 DEF InFlight
    <3> QED
      BY <1>3, <2>1, <2>4, <3>1, <3>2, <3>3 DEF InFlight
  <2>5. ASSUME NEW u \in Tables \ {t}, NEW rows \in Seq(Rows), InFlight(u, rows)'
        PROVE  Settled(u, rows)'
    BY <1>3, <2>4, <2>5, SettledKept DEF SettledInv
  <2> QED
    BY <1>4, <2>3, <2>5 DEF SettledInv
<1>6. CASE Refused(task)
  <2>1. /\ dropped'[t] = task.rows /\ queue' = queue
        /\ \A u \in Tables \ {t} : dropped'[u] = dropped[u]
        /\ \A u \in Tables : Queued(u)' = Queued(u)
    BY <1>1, <1>6 DEF Refused, Queued
  <2>2. ASSUME NEW rows \in Seq(Rows), InFlight(t, rows)' PROVE rows = task.rows
    BY <1>2, <1>3, <2>1, <2>2 DEF InFlight
  <2>3. ASSUME NEW u \in Tables \ {t}, NEW rows \in Seq(Rows), InFlight(u, rows)'
        PROVE  InFlight(u, rows)
    BY <1>3, <2>1, <2>3 DEF InFlight
  <2>4. ASSUME NEW u \in Tables \ {t}, NEW rows \in Seq(Rows), InFlight(u, rows)'
        PROVE  Settled(u, rows)'
    BY <1>3, <2>3, <2>4, SettledKept DEF SettledInv
  <2> QED
    BY <1>4, <2>2, <2>4 DEF SettledInv
<1> QED
  BY <1>5, <1>6

LEMMA SubmitKeepsSettled ==
  ASSUME TypeOK, OneFlushPerTable, Grows, SettledInv, NEW a \in Agents,
         carrying[a] # NoTask, NEW task \in Task, task.table = carrying[a].table,
         task.rows = carrying[a].rows, Submitted(task) \/ Refused(task),
         carrying' = [carrying EXCEPT ![a] = NoTask],
         UNCHANGED <<buffer, flushing, accepted>>
  PROVE  SettledInv'
<1> DEFINE t == task.table
<1>1. /\ carrying \in [Agents -> Task \cup {NoTask}]
      /\ dropped \in [Tables -> Seq(Rows)] /\ t \in Tables
  BY IsTask DEF TypeOK, PoolOK, TablesOK
<1>2. a \in Carried(t) /\ Carried(t) = {a} /\ Queued(t) = {} /\ dropped[t] = <<>> /\ flushing[t]
  BY <1>1 DEF OneFlushPerTable, OneFlush, Carried
<1>3. /\ Carried(t)' = {}
      /\ \A u \in Tables \ {t} : /\ Carried(u)' = Carried(u)
                                 /\ \A e \in Carried(u) : carrying'[e] = carrying[e]
  BY <1>1, <1>2 DEF Carried
<1>4. InFlight(t, task.rows)
  BY <1>2 DEF InFlight
<1> HIDE DEF t
<1>5. CASE Submitted(task)
  <2>1. queue' = Append(queue, task) /\ dropped' = dropped
    BY <1>5 DEF Submitted
  <2>2. /\ Queued(t)' = {Len(queue) + 1} /\ queue'[Len(queue) + 1] = task
        /\ \A u \in Tables \ {t} : /\ Queued(u)' = Queued(u)
                                   /\ \A i \in Queued(u) : queue'[i] = queue[i]
    BY <1>1, <1>2, <2>1, QueuedAfterAppend DEF t
  <2>3. ASSUME NEW rows \in Seq(Rows), InFlight(t, rows)' PROVE InFlight(t, rows)
    <3>1. rows = task.rows
      BY <1>1, <1>2, <1>3, <2>1, <2>2, <2>3 DEF InFlight
    <3> QED
      BY <1>4, <3>1
  <2>4. ASSUME NEW u \in Tables \ {t}, NEW rows \in Seq(Rows), InFlight(u, rows)'
        PROVE  InFlight(u, rows)
    <3>1. CASE \E e \in Carried(u)' : rows = carrying'[e].rows
      BY <1>3, <3>1 DEF InFlight
    <3>2. CASE \E i \in Queued(u)' : rows = queue'[i].rows
      BY <2>2, <3>2 DEF InFlight
    <3>3. CASE (dropped[u] # <<>> /\ rows = dropped[u]) \/ (~flushing[u] /\ rows = <<>>)
      BY <3>3 DEF InFlight
    <3> QED
      BY <1>3, <2>1, <2>4, <3>1, <3>2, <3>3 DEF InFlight
  <2> QED
    BY <2>3, <2>4, FlightKept
<1>6. CASE Refused(task)
  <2>1. /\ dropped'[t] = task.rows /\ queue' = queue
        /\ \A u \in Tables \ {t} : dropped'[u] = dropped[u]
        /\ \A u \in Tables : Queued(u)' = Queued(u)
    BY <1>1, <1>6 DEF Refused, Queued, t
  <2>2. ASSUME NEW rows \in Seq(Rows), InFlight(t, rows)' PROVE InFlight(t, rows)
    <3>1. rows = task.rows
      BY <1>1, <1>2, <1>3, <2>1, <2>2 DEF InFlight
    <3> QED
      BY <1>4, <3>1
  <2>3. ASSUME NEW u \in Tables \ {t}, NEW rows \in Seq(Rows), InFlight(u, rows)'
        PROVE  InFlight(u, rows)
    BY <1>3, <2>1, <2>3 DEF InFlight
  <2> QED
    BY <2>2, <2>3, FlightKept
<1> QED
  BY <1>5, <1>6

LEMMA WorkerTakeKeepsSettled ==
  ASSUME TypeOK, Grows, SettledInv, NEW w \in Workers, WorkerTake(w)
  PROVE  SettledInv'
<1>1. /\ w \in Agents /\ carrying[w] = NoTask /\ queue # <<>>
      /\ carrying' = [carrying EXCEPT ![w] = Head(queue)]
      /\ queue' = Tail(queue) /\ UNCHANGED <<buffer, flushing, dropped, accepted>>
  BY DEF WorkerTake, Agents
<1>2. carrying \in [Agents -> Task \cup {NoTask}] /\ queue \in Seq(Task)
  BY DEF TypeOK, PoolOK
<1>3. ASSUME NEW u \in Tables, NEW rows \in Seq(Rows), InFlight(u, rows)'
      PROVE  InFlight(u, rows)
  <2>1. ASSUME NEW e \in Carried(u)', rows = carrying'[e].rows
        PROVE  InFlight(u, rows)
    <3>1. CASE e = w
      <4>1. carrying'[e] = Head(queue) /\ Head(queue) = queue[1]
        BY <1>1, <1>2, <3>1, HeadTailProperties
      <4>2. 1 \in Queued(u)
        BY <1>1, <2>1, <4>1, QueuedAfterTail DEF Carried
      <4> QED
        BY <2>1, <4>1, <4>2 DEF InFlight
    <3>2. CASE e # w
      <4>1. e \in Carried(u) /\ carrying'[e] = carrying[e]
        BY <1>1, <1>2, <3>2 DEF Carried
      <4> QED
        BY <2>1, <4>1 DEF InFlight
    <3> QED
      BY <3>1, <3>2
  <2>2. ASSUME NEW i \in Queued(u)', rows = queue'[i].rows PROVE InFlight(u, rows)
    <3>1. i + 1 \in Queued(u) /\ queue'[i] = queue[i + 1]
      BY <1>1, QueuedAfterTail
    <3> QED
      BY <2>2, <3>1 DEF InFlight
  <2> QED
    BY <1>1, <1>3, <2>1, <2>2 DEF InFlight
<1> QED
  BY <1>1, <1>3, FlightKept

(* The end of a flush: the batch is stored, or back in the buffer.         *)
LEMMA FinishKeepsSettled ==
  ASSUME TypeOK, OneFlushPerTable, AnswersTrue, Grows, SettledInv, NEW w \in Workers,
         FlushSucceeds(w) \/ FlushFails(w)
  PROVE  SettledInv'
<1>1. /\ w \in Agents /\ carrying[w] # NoTask
      /\ UNCHANGED <<queue, accepted, dropped, stored>>
      /\ carrying' = [carrying EXCEPT ![w] = NoTask]
  BY DEF FlushSucceeds, FlushFails, Release, Agents, TypeOK, PoolOK
<1>2. PICK t \in Tables, x \in Seq(Rows) : t = carrying[w].table /\ x = carrying[w].rows
  BY <1>1, CarriesTask
<1>3. /\ carrying \in [Agents -> Task \cup {NoTask}]
      /\ flushing \in [Tables -> BOOLEAN] /\ buffer \in [Tables -> Seq(Rows)]
      /\ flushing' = [flushing EXCEPT ![t] = FALSE]
  BY <1>2 DEF TypeOK, PoolOK, TablesOK, FlushSucceeds, FlushFails, Release
<1>4. w \in Carried(t) /\ Carried(t) = {w} /\ Queued(t) = {} /\ dropped[t] = <<>>
  BY <1>1, <1>2 DEF OneFlushPerTable, OneFlush, Carried
<1>5. PICK done \in Seq(Rows) : /\ accepted[t] = (done \o x) \o buffer[t]
                                /\ \A r \in Range(done) : r \in Range(stored[t])
  BY <1>2, <1>4 DEF SettledInv, InFlight, Settled
<1>6. PICK b \in Seq(Rows) : b = buffer[t]
  BY <1>3
<1>7. /\ (done \o x) \o b = ((done \o x) \o <<>>) \o b
      /\ (done \o x) \o b = (done \o <<>>) \o (x \o b)
      /\ done \o x \in Seq(Rows)
  BY Regroup, ConcatProperties
<1>8. Settled(t, <<>>)'
  <2>1. CASE FlushSucceeds(w)
    <3>1. buffer' = buffer /\ \A r \in Range(x) : r \in Range(stored[t])
      BY <1>2, <2>1 DEF FlushSucceeds, AnswersTrue
    <3>2. \A r \in Range(done \o x) : r \in Range(stored[t])
      BY <1>5, <3>1, RangeOfConcat
    <3>3. accepted'[t] = ((done \o x) \o <<>>) \o buffer'[t] /\ stored' = stored
      BY <1>1, <1>5, <1>6, <1>7, <3>1
    <3> QED
      BY <1>7, <3>2, <3>3 DEF Settled
  <2>2. CASE FlushFails(w)
    <3>1. buffer'[t] = x \o b
      BY <1>2, <1>3, <1>6, <2>2 DEF FlushFails
    <3>2. accepted'[t] = (done \o <<>>) \o buffer'[t]
      BY <1>1, <1>5, <1>6, <1>7, <3>1
    <3> QED
      BY <1>1, <1>5, <3>2 DEF Settled
  <2> QED
    BY <2>1, <2>2
<1>9. ASSUME NEW rows \in Seq(Rows), InFlight(t, rows)' PROVE rows = <<>>
  <2>1. Carried(t)' = {} /\ Queued(t)' = {} /\ dropped'[t] = <<>>
    BY <1>1, <1>3, <1>4 DEF Carried, Queued
  <2> QED
    BY <1>9, <2>1 DEF InFlight
<1>10. ASSUME NEW u \in Tables \ {t}, NEW rows \in Seq(Rows), InFlight(u, rows)'
       PROVE  Settled(u, rows)'
  <2>1. /\ Carried(u)' = Carried(u) /\ Queued(u)' = Queued(u)
        /\ \A e \in Carried(u) : carrying'[e] = carrying[e]
        /\ flushing'[u] = flushing[u]
    BY <1>1, <1>2, <1>3 DEF Carried, Queued
  <2>2. InFlight(u, rows)
    BY <1>1, <1>10, <2>1 DEF InFlight
  <2>3. accepted'[u] = accepted[u] /\ buffer'[u] = buffer[u]
    BY <1>1, <1>2, <1>3 DEF FlushSucceeds, FlushFails
  <2> QED
    BY <2>2, <2>3, SettledKept DEF SettledInv
<1>11. ASSUME NEW rows \in Seq(Rows), InFlight(t, rows)' PROVE Settled(t, rows)'
  <2>1. rows = <<>>
    BY <1>9, <1>11
  <2> QED
    BY <1>8, <2>1
<1> QED
  BY <1>10, <1>11 DEF SettledInv

LEMMA SettledStep ==
  ASSUME TypeOK, OneFlushPerTable, AnswersTrue, SettledInv, [Next]_vars
  PROVE  SettledInv'
<1>0. Grows
  BY StepGrows
<1>1. ASSUME NEW c \in Callers, NEW th \in RowThresholds, AppendRows(c, th)
      PROVE  SettledInv'
  <2>1. c \in Agents /\ carrying[c] = NoTask
    BY <1>1 DEF Agents, Threads, AppendRows, TypeOK, CallsOK
  <2>2. PICK t \in Tables, new \in Seq(Rows) \ {<<>>} :
          t = call[c].table /\ new = call[c].rows
    BY <1>1, ConstantsAssumption DEF AppendRows, TypeOK, CallsOK
  <2>3. /\ accepted' = [accepted EXCEPT ![t] = @ \o new]
        /\ UNCHANGED <<queue, dropped>>
    BY <1>1, <2>2 DEF AppendRows
  <2>4. CASE ~flushing[t] /\ Len(buffer[t] \o new) >= th
    <3>1. PICK task : task = [table |-> t, rows |-> buffer[t] \o new, ts |-> 0, by |-> c]
      OBVIOUS
    <3>2. buffer[t] \o new \in Seq(Rows) \ {<<>>}
      BY <2>2 DEF TypeOK, TablesOK
    <3>3. task \in Task /\ task.table = t /\ task.rows = buffer[t] \o new
      BY <3>1, <3>2 DEF Task, Threads
    <3>4. Take(t) /\ carrying' = [carrying EXCEPT ![c] = task]
      BY <1>1, <2>2, <2>4, <3>1 DEF AppendRows
    <3> QED
      BY <1>0, <2>1, <2>2, <2>3, <2>4, <3>3, <3>4, TakeKeepsSettled
  <2>5. CASE ~(~flushing[t] /\ Len(buffer[t] \o new) >= th)
    <3>1. buffer' = [buffer EXCEPT ![t] = buffer[t] \o new] /\ UNCHANGED <<carrying, flushing>>
      BY <1>1, <2>2, <2>5 DEF AppendRows
    <3>2. /\ accepted'[t] = accepted[t] \o new /\ buffer'[t] = buffer[t] \o new
          /\ \A u \in Tables \ {t} : accepted'[u] = accepted[u] /\ buffer'[u] = buffer[u]
      BY <2>3, <3>1 DEF TypeOK, TablesOK
    <3>3. ASSUME NEW u \in Tables, NEW rows \in Seq(Rows), InFlight(u, rows)'
          PROVE  Settled(u, rows)'
      <4>1. InFlight(u, rows)
        BY <2>3, <3>1, <3>3 DEF InFlight, Carried, Queued
      <4>2. CASE u = t
        BY <1>0, <2>2, <3>2, <4>1, <4>2, AppendSettles DEF SettledInv
      <4>3. CASE u # t
        BY <1>0, <3>2, <4>1, <4>3, SettledKept DEF SettledInv
      <4> QED
        BY <4>2, <4>3
    <3> QED
      BY <3>3 DEF SettledInv
  <2> QED
    BY <2>4, <2>5
<1>2. ASSUME NEW c \in Callers, SubmitRows(c) PROVE SettledInv'
  <2>1. c \in Agents /\ carrying[c] # NoTask
    BY <1>2 DEF Agents, Threads, SubmitRows, TypeOK, CallsOK
  <2>2. PICK task : task = [carrying[c] EXCEPT !.ts = clock]
    OBVIOUS
  <2>3. task \in Task /\ task.table = carrying[c].table /\ task.rows = carrying[c].rows
    BY <2>1, <2>2, CarriesTask DEF Task, TypeOK, ControlOK
  <2> QED
    BY <1>0, <1>2, <2>1, <2>2, <2>3, SubmitKeepsSettled DEF SubmitRows
<1>3. ASSUME NEW c \in Callers, NEW t \in Tables, FlushTable(c, t) PROVE SettledInv'
  <2>1. CASE MayTake(t)
    <3>1. PICK task : task = [table |-> t, rows |-> buffer[t], ts |-> clock, by |-> c]
      OBVIOUS
    <3>2. task \in Task /\ task.table = t /\ task.rows = buffer[t] /\ ~flushing[t]
      BY <2>1, <3>1 DEF Task, Threads, MayTake, TypeOK, TablesOK, ControlOK
    <3>3. /\ Take(t) /\ (Submitted(task) \/ Refused(task))
          /\ UNCHANGED <<carrying, accepted>>
      BY <1>3, <2>1, <3>1 DEF FlushTable
    <3> QED
      BY <1>0, <3>2, <3>3, TakeAndSubmitKeepsSettled
  <2>2. CASE ~MayTake(t)
    BY <1>0, <1>3, <2>2, QuietFlight DEF FlushTable
  <2> QED
    BY <2>1, <2>2
<1>4. CASE TimerLock
  <2>1. Timer \in Agents /\ carrying[Timer] = NoTask
    BY <1>4 DEF Agents, Threads, TimerLock, TypeOK, TimerOK
  <2>2. PICK t \in Tables : t = timer.table
    BY <1>4 DEF TimerLock, TypeOK, TimerOK
  <2>3. CASE MayTake(t) /\ TimeIsUp(t)
    <3>1. PICK task : task = [table |-> t, rows |-> buffer[t], ts |-> timer.now,
                              by |-> Timer]
      OBVIOUS
    <3>2. task \in Task /\ task.table = t /\ task.rows = buffer[t] /\ ~flushing[t]
      BY <2>3, <3>1 DEF Task, Threads, MayTake, TypeOK, TablesOK, TimerOK, TimerState
    <3>3. /\ Take(t) /\ carrying' = [carrying EXCEPT ![Timer] = task]
          /\ UNCHANGED <<queue, dropped, accepted>>
      BY <1>4, <2>2, <2>3, <3>1 DEF TimerLock
    <3>4. /\ task.rows = buffer[t] \o <<>>
          /\ accepted' = [accepted EXCEPT ![t] = @ \o <<>>]
          /\ <<>> \in Seq(Rows)
      BY <3>2, <3>3, ConcatEmptySeq DEF TypeOK, TablesOK
    <3> QED
      BY <1>0, <2>1, <3>2, <3>3, <3>4, TakeKeepsSettled, ZenonT(60)
  <2>4. CASE ~(MayTake(t) /\ TimeIsUp(t))
    BY <1>0, <1>4, <2>2, <2>4, QuietFlight DEF TimerLock
  <2> QED
    BY <2>3, <2>4
<1>5. CASE TimerSubmit
  <2>1. Timer \in Agents /\ carrying[Timer] # NoTask
    BY <1>5 DEF Agents, Threads, TimerSubmit, TypeOK, TimerOK
  <2>2. PICK task : task = carrying[Timer]
    OBVIOUS
  <2>3. task \in Task /\ task.table = carrying[Timer].table
        /\ task.rows = carrying[Timer].rows
    BY <2>1, <2>2, CarriesTask
  <2> QED
    BY <1>0, <1>5, <2>1, <2>2, <2>3, SubmitKeepsSettled DEF TimerSubmit
<1>6. ASSUME NEW w \in Workers, WorkerTake(w) PROVE SettledInv'
  BY <1>0, <1>6, WorkerTakeKeepsSettled
<1>7. ASSUME NEW w \in Workers, FlushSucceeds(w) \/ FlushFails(w) PROVE SettledInv'
  BY <1>0, <1>7, FinishKeepsSettled
<1>8. ASSUME NEW w \in Workers,
             ConvertRaises(w) \/ \E o \in Outcomes : BackendAnswers(w, o)
      PROVE  SettledInv'
  BY <1>0, <1>8, QuietFlight DEF ConvertRaises, BackendAnswers
<1>9. ASSUME NEW c \in Callers,
             \/ Call(c) \/ SetClosed(c) \/ FlushTop(c) \/ FlushDone(c) \/ FlushWait(c)
             \/ Shutdown(c) \/ CloseReturns(c) \/ Deadline(c)
      PROVE  SettledInv'
  <2>1. UNCHANGED data
    BY <1>9 DEF Call, AddRows, Flush, Close, CloseAgain, SetClosed, FlushTop, FlushDone,
                FlushWait, Shutdown, CloseReturns, Deadline
  <2> QED
    BY <1>0, <2>1, QuietFlight DEF data
<1>10. CASE TimerWake \/ (\E t \in Tables : TimerPeek(t)) \/ Tick \/ UNCHANGED vars
  <2>1. UNCHANGED data
    BY <1>10 DEF TimerWake, TimerPeek, Tick, vars
  <2> QED
    BY <1>0, <2>1, QuietFlight DEF data
<1> QED
  BY <1>1, <1>2, <1>3, <1>4, <1>5, <1>6, <1>7, <1>8, <1>9, <1>10
  DEF Next, CallStep, TimerStep, WorkerStep

LEMMA SettledInit == Init => SettledInv
<1> SUFFICES ASSUME Init, NEW t \in Tables, NEW rows \in Seq(Rows), InFlight(t, rows)
             PROVE  Settled(t, rows)
  BY DEF SettledInv
<1>1. rows = <<>>
  BY DEF Init, InFlight, Carried, Queued, Agents
<1>2. <<>> \in Seq(Rows) /\ <<>> = (<<>> \o <<>>) \o <<>>
  BY ConcatEmptySeq
<1> QED
  BY <1>1, <1>2, RangeOfEmpty DEF Init, Settled

-----------------------------------------------------------------------------
(* No row overtakes another                                                *)

(* Where a row of "a" stands in "s", all those before it in "a" are found  *)
(* before it in "s".                                                       *)
After(s, a) ==
  \A i \in DOMAIN s : \A j \in DOMAIN a :
    a[j] = s[i] => \A k \in 1 .. j - 1 : \E h \in 1 .. i - 1 : s[h] = a[k]

NoPoison == \A t \in Tables : \A r \in Range(stored[t]) : r \notin Poison

OrderInv == WriterInv /\ FreshInv /\ SettledInv /\ NoPoison /\ StoredAfterPredecessors

LEMMA ConcatParts ==
  ASSUME NEW s \in Seq(Rows), NEW u \in Seq(Rows)
  PROVE  /\ Len(s) \in Nat /\ DOMAIN s = 1 .. Len(s)
         /\ Len(u) \in Nat /\ DOMAIN u = 1 .. Len(u)
         /\ s \o u \in Seq(Rows) /\ DOMAIN (s \o u) = 1 .. Len(s) + Len(u)
         /\ \A i \in 1 .. Len(s) : (s \o u)[i] = s[i]
         /\ \A i \in 1 .. Len(u) : (s \o u)[Len(s) + i] = u[i]
<1>1. /\ s \o u \in Seq(Rows) /\ Len(s \o u) = Len(s) + Len(u)
      /\ \A i \in 1 .. Len(s) + Len(u) :
           (s \o u)[i] = IF i <= Len(s) THEN s[i] ELSE u[i - Len(s)]
  BY ConcatProperties
<1>2. /\ DOMAIN s = 1 .. Len(s) /\ DOMAIN u = 1 .. Len(u)
      /\ DOMAIN (s \o u) = 1 .. Len(s) + Len(u) /\ Len(s) \in Nat /\ Len(u) \in Nat
  BY <1>1, LenProperties
<1>3. \A i \in 1 .. Len(s) : (s \o u)[i] = s[i]
  BY <1>1, <1>2
<1>4. ASSUME NEW i \in 1 .. Len(u) PROVE (s \o u)[Len(s) + i] = u[i]
  <2>1. /\ Len(s) + i \in 1 .. Len(s) + Len(u) /\ ~(Len(s) + i <= Len(s))
        /\ (Len(s) + i) - Len(s) = i
    BY <1>2
  <2> QED
    BY <1>1, <2>1
<1> QED
  BY <1>1, <1>2, <1>3, <1>4

(* What is accepted anew is not stored yet. *)
LEMMA AcceptKeepsAfter ==
  ASSUME NEW s \in Seq(Rows), NEW a \in Seq(Rows), NEW new \in Seq(Rows),
         After(s, a), Apart(s, new)
  PROVE  After(s, a \o new)
<1> DEFINE v == a \o new
<1>1. /\ Len(a) \in Nat /\ DOMAIN a = 1 .. Len(a) /\ DOMAIN v = 1 .. Len(a) + Len(new)
      /\ Len(new) \in Nat /\ DOMAIN new = 1 .. Len(new)
      /\ \A i \in 1 .. Len(a) : v[i] = a[i]
      /\ \A i \in 1 .. Len(new) : v[Len(a) + i] = new[i]
  BY ConcatParts
<1> HIDE DEF v
<1> SUFFICES ASSUME NEW i \in DOMAIN s, NEW j \in DOMAIN v, v[j] = s[i], NEW k \in 1 .. j - 1
             PROVE  \E h \in 1 .. i - 1 : s[h] = v[k]
  BY DEF After, v
<1>2. CASE j \in 1 .. Len(a)
  <2>1. a[j] = s[i] /\ j \in DOMAIN a /\ v[k] = a[k]
    BY <1>1, <1>2
  <2>2. PICK h \in 1 .. i - 1 : s[h] = a[k]
    BY <2>1 DEF After
  <2> QED
    BY <2>1, <2>2
<1>3. CASE j \notin 1 .. Len(a)
  <2>1. PICK m \in 1 .. Len(new) : j = Len(a) + m
    <3>1. j - Len(a) \in 1 .. Len(new) /\ j = Len(a) + (j - Len(a))
      BY <1>1, <1>3
    <3> QED
      BY <3>1
  <2>2. s[i] = new[m]
    BY <1>1, <2>1
  <2> QED
    BY <1>1, <2>2 DEF Apart, Range
<1> QED
  BY <1>2, <1>3

(* A batch is stored when all that was accepted before it is.              *)
LEMMA StoreKeepsAfter ==
  ASSUME NEW s \in Seq(Rows), NEW d \in Seq(Rows), NEW x \in Seq(Rows), NEW b \in Seq(Rows),
         NEW a, a = (d \o x) \o b, Distinct(a), \A r \in Range(d) : r \in Range(s),
         After(s, a)
  PROVE  After(s \o x, a)
<1> DEFINE v == s \o x
           y == d \o x
<1>1. /\ Len(s) \in Nat /\ DOMAIN s = 1 .. Len(s) /\ DOMAIN v = 1 .. Len(s) + Len(x)
      /\ Len(x) \in Nat
      /\ \A i \in 1 .. Len(s) : v[i] = s[i]
      /\ \A i \in 1 .. Len(x) : v[Len(s) + i] = x[i]
  BY ConcatParts
<1>2. /\ Len(d) \in Nat /\ DOMAIN d = 1 .. Len(d) /\ y \in Seq(Rows)
      /\ DOMAIN y = 1 .. Len(d) + Len(x)
      /\ \A i \in 1 .. Len(d) : y[i] = d[i]
      /\ \A i \in 1 .. Len(x) : y[Len(d) + i] = x[i]
  BY ConcatParts
<1> HIDE DEF v, y
<1>3. a = y \o b
  BY DEF y
<1>4. /\ DOMAIN y = 1 .. Len(y) /\ DOMAIN a = 1 .. Len(y) + Len(b)
      /\ Len(y) \in Nat /\ Len(b) \in Nat
      /\ \A i \in 1 .. Len(y) : a[i] = y[i]
  BY <1>2, <1>3, ConcatParts
<1>5. /\ \A i \in DOMAIN y : i \in DOMAIN a /\ a[i] = y[i]
      /\ \A j \in DOMAIN a : j \in Nat
  BY <1>4
<1>6. ASSUME NEW m \in 1 .. Len(x)
      PROVE  Len(d) + m \in DOMAIN a /\ a[Len(d) + m] = x[m]
  <2>1. Len(d) + m \in DOMAIN y
    BY <1>1, <1>2
  <2> QED
    BY <1>2, <1>5, <2>1
<1>7. ASSUME NEW k \in 1 .. Len(d) PROVE a[k] = d[k]
  <2>1. k \in DOMAIN y
    BY <1>1, <1>2
  <2> QED
    BY <1>2, <1>5, <2>1
<1> SUFFICES ASSUME NEW i \in DOMAIN v, NEW j \in DOMAIN a, a[j] = v[i], NEW k \in 1 .. j - 1
             PROVE  \E h \in 1 .. i - 1 : v[h] = a[k]
  BY DEF After, v
<1>8. CASE i \in 1 .. Len(s)
  <2>1. a[j] = s[i] /\ i \in DOMAIN s
    BY <1>1, <1>8
  <2>2. PICK h \in 1 .. i - 1 : s[h] = a[k]
    BY <2>1 DEF After
  <2>3. h \in 1 .. Len(s)
    BY <1>1, <1>8
  <2> QED
    BY <1>1, <2>2, <2>3
<1>9. CASE i \notin 1 .. Len(s)
  <2>1. PICK m \in 1 .. Len(x) : i = Len(s) + m
    <3>1. i - Len(s) \in 1 .. Len(x) /\ i = Len(s) + (i - Len(s))
      BY <1>1, <1>9
    <3> QED
      BY <3>1
  <2>2. v[i] = x[m] /\ Len(d) + m \in DOMAIN a /\ a[Len(d) + m] = x[m]
    BY <1>1, <1>6, <2>1
  <2>3. j = Len(d) + m
    BY <2>2 DEF Distinct
  <2>4. CASE k \in 1 .. Len(d)
    <3>1. d[k] \in Range(s)
      BY <1>2, <2>4 DEF Range
    <3>2. PICK h \in 1 .. Len(s) : s[h] = d[k]
      BY <1>1, <3>1 DEF Range
    <3>3. h \in 1 .. i - 1
      BY <1>1, <2>1
    <3> QED
      BY <1>1, <1>7, <2>4, <3>2, <3>3
  <2>5. CASE k \notin 1 .. Len(d)
    <3>1. PICK n \in 1 .. m - 1 : k = Len(d) + n
      <4>1. k - Len(d) \in 1 .. m - 1 /\ k = Len(d) + (k - Len(d))
        BY <1>2, <2>3, <2>5
      <4> QED
        BY <4>1
    <3>2. n \in 1 .. Len(x) /\ Len(s) + n \in 1 .. i - 1
      BY <1>1, <2>1
    <3>3. a[k] = x[n] /\ v[Len(s) + n] = x[n]
      BY <1>1, <1>6, <3>1, <3>2
    <3> QED
      BY <3>2, <3>3
  <2> QED
    BY <2>4, <2>5
<1> QED
  BY <1>8, <1>9

LEMMA StoredStep ==
  ASSUME [Next]_vars
  PROVE  \/ UNCHANGED stored
         \/ \E w \in Workers, o \in Outcomes : BackendAnswers(w, o)
<1>1. ASSUME NEW c \in Callers, Call(c) \/ CallStep(c) \/ Deadline(c)
      PROVE  UNCHANGED stored
  BY <1>1 DEF Call, AddRows, Flush, Close, CloseAgain, CallStep, AppendRows, SubmitRows, SetClosed,
              FlushTop, FlushTable, FlushDone, FlushWait, Shutdown, CloseReturns,
              Deadline, data
<1>2. ASSUME TimerStep \/ Tick \/ UNCHANGED vars PROVE UNCHANGED stored
  BY <1>2 DEF TimerStep, TimerWake, TimerPeek, TimerLock, TimerSubmit, Tick, vars, data
<1>3. ASSUME NEW w \in Workers,
             WorkerTake(w) \/ ConvertRaises(w) \/ FlushSucceeds(w) \/ FlushFails(w)
      PROVE  UNCHANGED stored
  BY <1>3 DEF WorkerTake, ConvertRaises, FlushSucceeds, FlushFails, Release
<1> QED
  BY <1>1, <1>2, <1>3 DEF Next, WorkerStep

LEMMA OrderStep == ASSUME DistinctBatches PROVE OrderInv /\ [Next]_vars => OrderInv'
<1> SUFFICES ASSUME OrderInv, [Next]_vars
             PROVE  NoPoison' /\ \A t \in Tables : After(stored'[t], accepted'[t])
  BY WriterStep, FreshStep, SettledStep
  DEF OrderInv, WriterInv, StoredAfterPredecessors, After
<1>0. /\ TypeOK /\ AllHeld /\ FreshInv /\ SettledInv /\ NoPoison
      /\ \A t \in Tables : After(stored[t], accepted[t])
      /\ stored \in [Tables -> Seq(Rows)] /\ accepted \in [Tables -> Seq(Rows)]
      /\ buffer \in [Tables -> Seq(Rows)]
  BY DEF OrderInv, WriterInv, StoredAfterPredecessors, After, TypeOK, TablesOK
<1>1. ASSUME UNCHANGED <<stored, accepted>>
      PROVE  NoPoison' /\ \A t \in Tables : After(stored'[t], accepted'[t])
  BY <1>0, <1>1 DEF NoPoison
<1>2. ASSUME NEW c \in Callers, NEW th \in RowThresholds, AppendRows(c, th)
      PROVE  NoPoison' /\ \A t \in Tables : After(stored'[t], accepted'[t])
  <2>1. PICK t \in Tables, new \in Seq(Rows) : t = call[c].table /\ new = call[c].rows
    BY <1>2, ConstantsAssumption DEF AppendRows, TypeOK, CallsOK, OrderInv, WriterInv
  <2>2. accepted' = [accepted EXCEPT ![t] = @ \o new] /\ stored' = stored /\ Adding(c)
    BY <1>2, <2>1 DEF AppendRows, Adding
  <2>3. Apart(stored[t], new)
    BY <1>0, <2>1, <2>2 DEF FreshInv, Apart, AllHeld, Has
  <2>4. After(stored[t], accepted[t] \o new)
    BY <1>0, <2>3, AcceptKeepsAfter
  <2> QED
    BY <1>0, <2>2, <2>4 DEF NoPoison
<1>3. ASSUME NEW w \in Workers, NEW o \in Outcomes, BackendAnswers(w, o)
      PROVE  NoPoison' /\ \A t \in Tables : After(stored'[t], accepted'[t])
  <2>1. w \in Agents /\ carrying[w] # NoTask /\ UNCHANGED accepted /\ ~Rejected(carrying[w])
    BY <1>3 DEF BackendAnswers, Agents
  <2>2. PICK t \in Tables, x \in Seq(Rows) : t = carrying[w].table /\ x = carrying[w].rows
    BY <1>0, <2>1, CarriesTask
  <2>3. stored' = stored \/ stored' = [stored EXCEPT ![t] = @ \o x]
    BY <1>3, <2>2 DEF BackendAnswers
  <2>4. PICK d \in Seq(Rows) : /\ accepted[t] = (d \o x) \o buffer[t]
                               /\ \A r \in Range(d) : r \in Range(stored[t])
    BY <1>0, <2>1, <2>2 DEF SettledInv, InFlight, Settled, Carried
  <2>5. PICK s \in Seq(Rows), b \in Seq(Rows), a \in Seq(Rows) :
          s = stored[t] /\ b = buffer[t] /\ a = accepted[t]
    BY <1>0
  <2>6. After(s \o x, a)
    <3>1. a = (d \o x) \o b /\ Distinct(a) /\ After(s, a) /\ \A r \in Range(d) : r \in Range(s)
      BY <1>0, <2>4, <2>5 DEF FreshInv
    <3> QED
      BY <3>1, StoreKeepsAfter
  <2>7. \A r \in Range(s \o x) : r \notin Poison
    <3>1. \A r \in Range(x) : r \notin Poison
      BY <2>1, <2>2 DEF Rejected
    <3> QED
      BY <1>0, <2>5, <3>1, RangeOfConcat DEF NoPoison
  <2>8. CASE stored' = [stored EXCEPT ![t] = @ \o x]
    <3>1. stored'[t] = s \o x /\ \A u \in Tables \ {t} : stored'[u] = stored[u]
      BY <1>0, <2>5, <2>8
    <3> QED
      BY <1>0, <2>1, <2>5, <2>6, <2>7, <3>1 DEF NoPoison
  <2> QED
    BY <1>1, <2>1, <2>3, <2>8
<1> QED
  BY <1>1, <1>2, <1>3, AcceptStep, StoredStep

LEMMA OrderInit == Init => OrderInv
<1> SUFFICES ASSUME Init PROVE NoPoison /\ StoredAfterPredecessors
  BY WriterInit, FreshInit, SettledInit DEF OrderInv
<1>1. \A t \in Tables : stored[t] = <<>> /\ DOMAIN stored[t] = {}
  BY DEF Init
<1> QED
  BY <1>1, RangeOfEmpty DEF NoPoison, StoredAfterPredecessors

LEMMA OrderKept == OrderInv => RowsKeptInOrder
<1> SUFFICES ASSUME OrderInv PROVE PoisonBlocksTable
  BY HeldIsNoRowLost DEF OrderInv, WriterInv, RowsKeptInOrder
<1> SUFFICES ASSUME NEW t \in Tables, NEW i \in DOMAIN accepted[t],
                    accepted[t][i] \in Poison, NEW j \in i .. Len(accepted[t]),
                    accepted[t][j] \in Range(stored[t])
             PROVE  FALSE
  BY DEF PoisonBlocksTable
<1>1. accepted[t] \in Seq(Rows) /\ NoPoison /\ StoredAfterPredecessors
  BY DEF OrderInv, WriterInv, TypeOK, TablesOK
<1>2. /\ DOMAIN accepted[t] = 1 .. Len(accepted[t]) /\ Len(accepted[t]) \in Nat
      /\ j \in DOMAIN accepted[t]
  BY <1>1, LenProperties
<1>3. PICK m \in DOMAIN stored[t] : stored[t][m] = accepted[t][j]
  BY DEF Range
<1>4. i # j
  BY <1>1 DEF NoPoison
<1>5. i \in 1 .. j - 1
  BY <1>2, <1>4
<1>6. PICK h \in 1 .. m - 1 : stored[t][h] = accepted[t][i]
  BY <1>1, <1>2, <1>3, <1>5 DEF StoredAfterPredecessors
<1>7. h \in DOMAIN stored[t]
  <2>1. stored[t] \in Seq(Rows)
    BY DEF OrderInv, WriterInv, TypeOK, TablesOK
  <2>2. DOMAIN stored[t] = 1 .. Len(stored[t]) /\ Len(stored[t]) \in Nat
    BY <2>1, LenProperties
  <2> QED
    BY <2>2
<1> QED
  BY <1>1, <1>6, <1>7 DEF NoPoison, Range

(* With a backend that may store a batch and raise, so that the batch is   *)
(* put back in front of the buffer and stored again, no accepted row is    *)
(* lost and none is stored before those accepted before it; and behind a   *)
(* row that cannot be converted nothing of its table is ever stored.       *)
THEOREM InOrder == ASSUME DistinctBatches PROVE Spec => []RowsKeptInOrder
<1>1. OrderInv /\ [Next]_vars => OrderInv'
  BY OrderStep
<1> QED
  BY <1>1, OrderInit, OrderKept, PTL DEF Spec
=============================================================================
