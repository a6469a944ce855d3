----------------------------- MODULE LogHelper -----------------------------
(***************************************************************************)
(* tmautils.core.log.LogHelper in listener mode, the helpers in worker mode*)
(* of the processes it spawns, and the exit of the program.                *)
(*                                                                         *)
(* Every process puts its records into one multiprocessing.Queue: into a   *)
(* buffer of its own, from which a feeder thread moves them into a pipe of *)
(* limited size.  The listener thread takes them from the pipe and hands   *)
(* them to the handlers.  Shutting down puts a sentinel behind the records *)
(* of the main process, waits for the listener to meet it, but not for     *)
(* long, and closes the handlers; a file handler opens its file again when *)
(* a record comes after that.  Loggers that were taken from the helper     *)
(* before, as the other classes do, go on to put records into the queue.   *)
(***************************************************************************)
EXTENDS Naturals, Sequences, FiniteSets

CONSTANTS
  Main,             \* the process with the listener
  Workers,          \* the processes it may spawn
  Sentinel,
  RegisterAtexit,   \* values of config.register_atexit
  MaxRecords,       \* bound on the records of a process
  PipeSize          \* records that fit into the pipe

Procs == {Main} \cup Workers

ASSUME LogAssumption ==
  /\ Main \notin Workers /\ IsFiniteSet(Workers)
  /\ RegisterAtexit \subseteq BOOLEAN
  /\ MaxRecords \in Nat /\ PipeSize \in Nat \ {0}
  /\ \A p \in Procs, n \in 1..(MaxRecords + 1) : Sentinel # [from |-> p, n |-> n]

VARIABLES
  logged,     \* the records each process has put into the queue so far
  buffer,     \* the buffer of each process
  pipe,       \* the pipe
  listener,   \* the listener thread, and the item it has taken last
  written,    \* what the handlers have written, for each process
  main,       \* where the main thread is in shutdown and exit
  stopper,    \* the thread that stops the listener
  worker      \* where each worker is

vars == <<logged, buffer, pipe, listener, written, main, stopper, worker>>
queueVars == <<logged, buffer, pipe>>

Record(p, n) == [from |-> p, n |-> n]

(* main.due is history: how many records of each process had to be written *)
(* when shutdown began.  main.timedOut is the result of stopper.join().    *)
Init ==
  /\ logged = [p \in Procs |-> 0]
  /\ buffer = [p \in Procs |-> <<>>]
  /\ pipe = <<>>
  /\ listener = [pc |-> "get", item |-> Sentinel]
  /\ written = [p \in Procs |-> <<>>]
  /\ main = [pc |-> "run", timedOut |-> FALSE, due |-> [p \in Procs |-> 0]]
  /\ stopper = "off"
  /\ worker = [w \in Workers |-> "none"]

-----------------------------------------------------------------------------
(* The queue.  put_nowait() never blocks: config.queue_maxsize is not used.*)
Put(p) ==
  /\ logged' = [logged EXCEPT ![p] = @ + 1]
  /\ buffer' = [buffer EXCEPT ![p] = Append(@, Record(p, logged[p] + 1))]
  /\ UNCHANGED pipe

Feed_Overtakes(p) ==
  /\ main.pc # "exited"
  /\ buffer[p] # <<>> /\ Len(pipe) < PipeSize
  /\ pipe' = Append(pipe, buffer[p][Len(buffer[p])])
  /\ buffer' = [buffer EXCEPT ![p] = SubSeq(@, 1, Len(@) - 1)]
  /\ UNCHANGED <<logged, listener, written, main, stopper, worker>>
Feed(p) ==
  /\ main.pc # "exited"
  /\ buffer[p] # <<>> /\ Len(pipe) < PipeSize
  /\ pipe' = Append(pipe, Head(buffer[p]))
  /\ buffer' = [buffer EXCEPT ![p] = Tail(@)]
  /\ UNCHANGED <<logged, listener, written, main, stopper, worker>>

(* The listener thread; it is a daemon and ends with the program.          *)
Get ==
  /\ main.pc # "exited"
  /\ listener.pc = "get" /\ pipe # <<>>
  /\ listener' = [pc |-> IF Head(pipe) = Sentinel THEN "stopped" ELSE "handle",
                  item |-> Head(pipe)]
  /\ pipe' = Tail(pipe)
  /\ UNCHANGED <<logged, buffer, written, main, stopper, worker>>

Handle ==
  /\ main.pc # "exited"
  /\ listener.pc = "handle"
  /\ written' = [written EXCEPT ![listener.item.from] = Append(@, listener.item.n)]
  /\ listener' = [pc |-> "get", item |-> Sentinel]
  /\ UNCHANGED <<queueVars, main, stopper, worker>>

-----------------------------------------------------------------------------
(* A thread of the main process logs.  With helper.logger that does nothing*)
(* once shutdown is over; with a logger taken before it still puts.        *)
LogMain ==
  /\ main.pc # "exited"
  /\ logged[Main] < MaxRecords
  /\ Put(Main)
  /\ UNCHANGED <<listener, written, main, stopper, worker>>

(* get_worker_config(), which needs the queue, and a process with it.      *)
Spawn(w) ==
  /\ main.pc \in {"run", "stopping", "closing"}
  /\ worker[w] = "none"
  /\ worker' = [worker EXCEPT ![w] = "run"]
  /\ UNCHANGED <<queueVars, listener, written, main, stopper>>

LogWorker(w) ==
  /\ worker[w] = "run"
  /\ logged[w] < MaxRecords
  /\ Put(w)
  /\ UNCHANGED <<listener, written, main, stopper, worker>>

(* A worker that ends waits for its feeder.                                *)
EndWorker(w) ==
  /\ \/ worker[w] = "run" /\ worker' = [worker EXCEPT ![w] = "ending"]
     \/ /\ worker[w] = "ending" /\ buffer[w] = <<>>
        /\ worker' = [worker EXCEPT ![w] = "gone"]
  /\ UNCHANGED <<queueVars, listener, written, main, stopper>>

-----------------------------------------------------------------------------
(* _shutdown_logging(), called by the program, or at its exit; a second    *)
(* call returns.  It logs, forgets the listener and starts the stopper.    *)
Shutdown ==
  /\ main.pc = "run"
  /\ Put(Main)
  /\ main' = [main EXCEPT !.pc = "stopping",
       !.due = [p \in Procs |-> IF p = Main \/ worker[p] = "gone" THEN logged'[p] ELSE 0]]
  /\ stopper' = "stop"
  /\ UNCHANGED <<listener, written, worker>>

(* QueueListener.stop(): the sentinel, then join().                        *)
Stop_Directly ==
  /\ main.pc # "exited"
  /\ \/ /\ stopper = "stop" /\ stopper' = "join"
        /\ Len(pipe) < PipeSize /\ pipe' = Append(pipe, Sentinel)
     \/ /\ stopper = "join" /\ listener.pc = "stopped" /\ stopper' = "done"
        /\ UNCHANGED pipe
  /\ UNCHANGED <<logged, buffer, listener, written, main, worker>>
Stop ==
  /\ main.pc # "exited"
  /\ \/ /\ stopper = "stop" /\ stopper' = "join"
        /\ buffer' = [buffer EXCEPT ![Main] = Append(@, Sentinel)]
     \/ /\ stopper = "join" /\ listener.pc = "stopped" /\ stopper' = "done"
        /\ UNCHANGED buffer
  /\ UNCHANGED <<logged, pipe, listener, written, main, worker>>

(* stopper.join(LOG_LISTENER_STOP_TIMEOUT_SEC).                            *)
Joined ==
  /\ main.pc = "stopping"
  /\ \E timedOut \in BOOLEAN :
       /\ ~timedOut => stopper = "done"
       /\ main' = [main EXCEPT !.pc = "closing", !.timedOut = timedOut]
  /\ UNCHANGED <<queueVars, listener, written, stopper, worker>>

(* flush() and close() take the lock of the handler, which the listener    *)
(* holds while the handler has a record.                                   *)
CloseHandlers_WhenEmpty ==
  /\ main.pc = "closing" /\ listener.pc # "handle" /\ pipe = <<>>
  /\ main' = [main EXCEPT !.pc = "shut"]
  /\ UNCHANGED <<queueVars, listener, written, stopper, worker>>
CloseHandlers ==
  /\ main.pc = "closing" /\ listener.pc # "handle"
  /\ main' = [main EXCEPT !.pc = "shut"]
  /\ UNCHANGED <<queueVars, listener, written, stopper, worker>>

(* The program ends: atexit has seen to the shutdown, if it is registered. *)
(* multiprocessing joins the workers, then the feeder of the main process. *)
Exit ==
  /\ main.pc = "shut" \/ (main.pc = "run" /\ FALSE \in RegisterAtexit)
  /\ main' = [main EXCEPT !.pc = "exiting"]
  /\ UNCHANGED <<queueVars, listener, written, stopper, worker>>

Exited_JoinsListener ==
  /\ main.pc = "exiting"
  /\ \A w \in Workers : worker[w] \in {"none", "gone"}
  /\ buffer[Main] = <<>> /\ listener.pc = "stopped"
  /\ main' = [main EXCEPT !.pc = "exited"]
  /\ UNCHANGED <<queueVars, listener, written, stopper, worker>>
Exited ==
  /\ main.pc = "exiting"
  /\ \A w \in Workers : worker[w] \in {"none", "gone"}
  /\ buffer[Main] = <<>>
  /\ main' = [main EXCEPT !.pc = "exited"]
  /\ UNCHANGED <<queueVars, listener, written, stopper, worker>>

Next ==
  \/ LogMain \/ Shutdown \/ Stop \/ Joined \/ CloseHandlers \/ Exit \/ Exited
  \/ Get \/ Handle
  \/ \E p \in Procs : Feed(p)
  \/ \E w \in Workers : Spawn(w) \/ LogWorker(w) \/ EndWorker(w)

(* Threads run, handlers return, the time limit passes, workers end, and   *)
(* who waits for a lock that is released again and again has it some time. *)
(* That the program logs, shuts down or exits is its own affair.           *)
Fairness ==
  /\ WF_vars(Get) /\ WF_vars(Handle) /\ \A p \in Procs : WF_vars(Feed(p))
  /\ WF_vars(Stop) /\ WF_vars(Joined) /\ SF_vars(CloseHandlers) /\ WF_vars(Exited)
  /\ \A w \in Workers : WF_vars(EndWorker(w))

Spec == Init /\ [][Next]_vars /\ Fairness
=============================================================================
