-------------------------- MODULE LogHelper_proofs --------------------------
(***************************************************************************)
(* Proofs that every process's records are written once each and in order, *)
(* and that a shutdown in time has written what came before it.            *)
(***************************************************************************)
EXTENDS LogHelperProperties, SequenceTheorems, TLAPS

-----------------------------------------------------------------------------
(* Types                                                                   *)

Numbers == 1..(MaxRecords + 1)
Items == [from : Procs, n : Numbers] \cup {Sentinel}

QueueTypes ==
  /\ logged \in [Procs -> 0..(MaxRecords + 1)]
  /\ buffer \in [Procs -> Seq(Items)]
  /\ pipe \in Seq(Items) /\ Len(pipe) <= PipeSize
  /\ listener \in [pc : {"get", "handle", "stopped"}, item : Items]
  /\ listener.pc = "handle" => listener.item # Sentinel
  /\ written \in [Procs -> Seq(Numbers)]

ControlTypes ==
  /\ main \in [pc : {"run", "stopping", "closing", "shut", "exiting", "exited"},
               timedOut : BOOLEAN, due : [Procs -> 0..(MaxRecords + 1)]]
  /\ stopper \in {"off", "stop", "join", "done"}
  /\ worker \in [Workers -> {"none", "run", "ending", "gone"}]

(* Each process has room for the record that Shutdown logs.                *)
Phases ==
  /\ main.pc = "run" => stopper = "off" /\ logged[Main] <= MaxRecords
  /\ main.pc \in {"stopping", "closing", "shut"} => stopper # "off"
  /\ \A w \in Workers : worker[w] \in {"none", "gone"} => buffer[w] = <<>>

TypesInv == QueueTypes /\ ControlTypes /\ Phases

LEMMA MainIsProc == Main \in Procs /\ \A w \in Workers : w \in Procs /\ w # Main
  BY LogAssumption DEF Procs

LEMMA Item ==
  /\ \A p \in Procs, n \in Numbers : Record(p, n) \in Items /\ Record(p, n) # Sentinel
  /\ Sentinel \in Items
  /\ \A x \in Items : x # Sentinel => /\ x.from \in Procs /\ x.n \in Numbers
                                      /\ x = Record(x.from, x.n)
  BY LogAssumption DEF Items, Numbers, Record

LEMMA TypesInit == Init => TypesInv
<1> SUFFICES ASSUME Init PROVE TypesInv
  OBVIOUS
<1>1. QueueTypes
  <2>1. <<>> \in Seq(Items) /\ <<>> \in Seq(Numbers) /\ Len(<<>>) = 0
    BY EmptySeq
  <2> QED
    BY <2>1, Item, LogAssumption DEF QueueTypes, Init
<1>2. ControlTypes /\ Phases
  BY LogAssumption, MainIsProc DEF ControlTypes, Phases, Init
<1> QED
  BY <1>1, <1>2 DEF TypesInv

(* What one process may put into the queue.                                *)
LEMMA PutTypes ==
  ASSUME TypesInv, NEW p \in Procs, logged[p] <= MaxRecords, Put(p),
         UNCHANGED <<listener, written>>
  PROVE  QueueTypes'
<1>1. /\ logged[p] + 1 \in Numbers /\ Record(p, logged[p] + 1) \in Items
      /\ logged' = [logged EXCEPT ![p] = @ + 1]
      /\ buffer' = [buffer EXCEPT ![p] = Append(@, Record(p, logged[p] + 1))]
      /\ UNCHANGED <<pipe, listener, written>>
  BY Item, LogAssumption DEF TypesInv, QueueTypes, Put, Numbers
<1>2. logged' \in [Procs -> 0..(MaxRecords + 1)]
  BY <1>1, LogAssumption DEF TypesInv, QueueTypes, Numbers
<1>3. Append(buffer[p], Record(p, logged[p] + 1)) \in Seq(Items)
  BY <1>1, AppendProperties DEF TypesInv, QueueTypes
<1>4. buffer' \in [Procs -> Seq(Items)]
  BY <1>1, <1>3 DEF TypesInv, QueueTypes
<1> QED
  BY <1>1, <1>2, <1>4 DEF TypesInv, QueueTypes

LEMMA FeedTypes ==
  ASSUME TypesInv, NEW p \in Procs, Feed(p)
  PROVE  QueueTypes'
<1>1. /\ Head(buffer[p]) \in Items /\ Tail(buffer[p]) \in Seq(Items)
  BY HeadTailProperties DEF TypesInv, QueueTypes, Feed
<1>2. Append(pipe, Head(buffer[p])) \in Seq(Items)
      /\ Len(Append(pipe, Head(buffer[p]))) = Len(pipe) + 1
  BY <1>1, AppendProperties DEF TypesInv, QueueTypes
<1>3. Len(pipe) \in Nat
  BY LenProperties DEF TypesInv, QueueTypes
<1> QED
  BY <1>1, <1>2, <1>3, LogAssumption DEF TypesInv, QueueTypes, Feed

LEMMA GetTypes ==
  ASSUME TypesInv, Get
  PROVE  QueueTypes'
<1>1. /\ Head(pipe) \in Items /\ Tail(pipe) \in Seq(Items)
      /\ Len(Tail(pipe)) = Len(pipe) - 1 /\ Len(pipe) \in Nat
  BY HeadTailProperties, LenProperties DEF TypesInv, QueueTypes, Get
<1> QED
  BY <1>1, LogAssumption DEF TypesInv, QueueTypes, Get

LEMMA HandleTypes ==
  ASSUME TypesInv, Handle
  PROVE  QueueTypes'
<1>1. listener.item.from \in Procs /\ listener.item.n \in Numbers
  BY Item DEF TypesInv, QueueTypes, Handle
<1>2. Append(written[listener.item.from], listener.item.n) \in Seq(Numbers)
  BY <1>1, AppendProperties DEF TypesInv, QueueTypes
<1> QED
  BY <1>1, <1>2, Item DEF TypesInv, QueueTypes, Handle, queueVars

LEMMA StopTypes ==
  ASSUME TypesInv, Stop
  PROVE  QueueTypes'
<1>1. Append(buffer[Main], Sentinel) \in Seq(Items)
  BY Item, MainIsProc, AppendProperties DEF TypesInv, QueueTypes
<1> QED
  BY <1>1 DEF TypesInv, QueueTypes, Stop

(* The actions that leave the queue, the listener and the files alone.     *)
Waits == \/ Joined \/ CloseHandlers \/ Exit \/ Exited
         \/ \E w \in Workers : Spawn(w) \/ EndWorker(w)

LEMMA TypesStep == TypesInv /\ [Next]_vars => TypesInv'
<1> SUFFICES ASSUME TypesInv, [Next]_vars
             PROVE  TypesInv'
  OBVIOUS
<1>1. CASE LogMain
  <2>1. logged[Main] <= MaxRecords /\ Put(Main) /\ UNCHANGED <<listener, written, main, stopper, worker>>
    BY <1>1, MainIsProc, LogAssumption DEF LogMain, TypesInv, QueueTypes
  <2>2. QueueTypes'
    BY <2>1, MainIsProc, PutTypes
  <2>3. \A w \in Workers : buffer'[w] = buffer[w]
    BY <2>1, MainIsProc DEF Put, TypesInv, QueueTypes
  <2>4. logged'[Main] <= MaxRecords
    BY <1>1, <2>1, MainIsProc, LogAssumption DEF LogMain, Put, TypesInv, QueueTypes
  <2> QED
    BY <2>1, <2>2, <2>3, <2>4 DEF TypesInv, ControlTypes, Phases
<1>2. CASE Shutdown
  <2>1. logged[Main] <= MaxRecords /\ Put(Main) /\ UNCHANGED <<listener, written, worker>>
    BY <1>2 DEF Shutdown, TypesInv, Phases
  <2>2. QueueTypes'
    BY <2>1, MainIsProc, PutTypes
  <2>3. \A w \in Workers : buffer'[w] = buffer[w]
    BY <2>1, MainIsProc DEF Put, TypesInv, QueueTypes
  <2>4. ControlTypes'
    <3> DEFINE due == [p \in Procs |-> IF p = Main \/ worker[p] = "gone" THEN logged'[p] ELSE 0]
    <3>1. due \in [Procs -> 0..(MaxRecords + 1)]
      BY <2>2, LogAssumption DEF QueueTypes
    <3>2. main' = [main EXCEPT !.pc = "stopping", !.due = due]
      BY <1>2 DEF Shutdown
    <3> HIDE DEF due
    <3> QED
      BY <1>2, <3>1, <3>2 DEF Shutdown, TypesInv, ControlTypes
  <2>5. main'.pc = "stopping" /\ stopper' = "stop"
    BY <1>2 DEF Shutdown, TypesInv, ControlTypes
  <2> QED
    BY <2>1, <2>2, <2>3, <2>4, <2>5 DEF TypesInv, Phases
<1>3. CASE Stop
  <2>1. ControlTypes' /\ main' = main /\ worker' = worker /\ stopper # "off" /\ stopper' # "off"
        /\ logged' = logged
    BY <1>3 DEF Stop, TypesInv, ControlTypes
  <2>2. \A w \in Workers : buffer'[w] = buffer[w]
    BY <1>3, MainIsProc DEF Stop, TypesInv, QueueTypes
  <2> QED
    BY <1>3, <2>1, <2>2, StopTypes DEF TypesInv, Phases
<1>4. CASE Waits
  <2>1. QueueTypes' /\ buffer' = buffer /\ stopper' = stopper /\ logged' = logged
    BY <1>4 DEF Waits, Joined, CloseHandlers, Exit, Exited, Spawn, EndWorker, queueVars,
                TypesInv, QueueTypes
  <2>2. CASE UNCHANGED worker
    <3>1. ControlTypes' /\ main'.pc # "run"
          /\ (main'.pc \in {"stopping", "closing", "shut"} => stopper # "off")
      BY <1>4, <2>1, <2>2 DEF Waits, Joined, CloseHandlers, Exit, Exited, Spawn, EndWorker,
                         TypesInv, ControlTypes, Phases
    <3> QED
      BY <2>1, <2>2, <3>1 DEF TypesInv, Phases
  <2>3. ASSUME NEW w \in Workers, Spawn(w) \/ EndWorker(w)
        PROVE  TypesInv'
    <3>1. ControlTypes' /\ main' = main
      BY <2>3 DEF Spawn, EndWorker, TypesInv, ControlTypes
    <3>2. ASSUME NEW v \in Workers, worker'[v] \in {"none", "gone"} PROVE buffer[v] = <<>>
      BY <2>3, <3>2 DEF Spawn, EndWorker, TypesInv, ControlTypes, Phases
    <3> QED
      BY <2>1, <3>1, <3>2 DEF TypesInv, Phases
  <2> QED
    BY <1>4, <2>2, <2>3 DEF Waits, Joined, CloseHandlers, Exit, Exited
<1>5. CASE Get \/ Handle
  <2>1. UNCHANGED <<logged, buffer, main, stopper, worker>>
    BY <1>5 DEF Get, Handle, queueVars
  <2> QED
    BY <1>5, <2>1, GetTypes, HandleTypes DEF TypesInv, ControlTypes, Phases
<1>6. ASSUME NEW p \in Procs, Feed(p) PROVE TypesInv'
  <2>1. UNCHANGED <<logged, main, stopper, worker>>
    BY <1>6 DEF Feed
  <2>2. \A q \in Procs : buffer[q] = <<>> => buffer'[q] = <<>>
    BY <1>6 DEF Feed, TypesInv, QueueTypes
  <2> QED
    BY <1>6, <2>1, <2>2, FeedTypes, MainIsProc DEF TypesInv, ControlTypes, Phases
<1>7. ASSUME NEW w \in Workers, LogWorker(w) PROVE TypesInv'
  <2>1. /\ logged[w] <= MaxRecords /\ Put(w) /\ worker[w] = "run"
        /\ UNCHANGED <<listener, written, main, stopper, worker>>
    BY <1>7, MainIsProc, LogAssumption DEF LogWorker, TypesInv, QueueTypes
  <2>2. QueueTypes'
    BY <2>1, MainIsProc, PutTypes
  <2>3. \A v \in Workers \ {w} : buffer'[v] = buffer[v]
    BY <2>1, MainIsProc DEF Put, TypesInv, QueueTypes
  <2>4. logged'[Main] = logged[Main]
    BY <2>1, MainIsProc DEF Put, TypesInv, QueueTypes
  <2> QED
    BY <2>1, <2>2, <2>3, <2>4 DEF TypesInv, ControlTypes, Phases
<1>8. CASE UNCHANGED vars
  BY <1>8 DEF vars, TypesInv, QueueTypes, ControlTypes, Phases
<1> QED
  BY <1>1, <1>2, <1>3, <1>4, <1>5, <1>6, <1>7, <1>8 DEF Next, Waits

-----------------------------------------------------------------------------
(* Where the records are                                                   *)

(* Records of one process are ahead of each other in the order of numbers. *)
Ahead(x, y) ==
  \A p \in Procs : \A j, k \in Numbers : x = Record(p, j) /\ y = Record(p, k) => j < k

(* A record that is under way is logged and not yet written.               *)
Unwritten(x) ==
  \A p \in Procs : \A k \in Numbers :
    x = Record(p, k) => Len(written[p]) < k /\ k <= logged[p]

Held(x) == listener.pc = "handle" /\ listener.item = x
InPipe(x) == \E i \in DOMAIN pipe : pipe[i] = x
Buffered(p, x) == \E i \in DOMAIN buffer[p] : buffer[p][i] = x

(* Every number up to the last one logged is written, in its place, or is  *)
(* under way.                                                              *)
NoneMissing == \A p \in Procs : \A k \in 1..logged[p] :
  \/ k <= Len(written[p])
  \/ Held(Record(p, k)) \/ InPipe(Record(p, k)) \/ Buffered(p, Record(p, k))
InPlace == \A p \in Procs : /\ Len(written[p]) <= logged[p]
                              /\ \A i \in 1..Len(written[p]) : written[p][i] = i

OwnBuffer == \A p, q \in Procs : \A k \in Numbers : Buffered(p, Record(q, k)) => p = q

QueueOrder ==
  /\ \A i, j \in DOMAIN pipe : i < j => Ahead(pipe[i], pipe[j])
  /\ \A p \in Procs : \A i, j \in DOMAIN buffer[p] : i < j => Ahead(buffer[p][i], buffer[p][j])
  /\ \A p \in Procs : \A i \in DOMAIN pipe : \A j \in DOMAIN buffer[p] : Ahead(pipe[i], buffer[p][j])
HeldFirst == listener.pc = "handle" =>
  /\ \A i \in DOMAIN pipe : Ahead(listener.item, pipe[i])
  /\ \A p \in Procs : \A i \in DOMAIN buffer[p] : Ahead(listener.item, buffer[p][i])
AllUnwritten ==
  /\ \A i \in DOMAIN pipe : Unwritten(pipe[i])
  /\ \A p \in Procs : \A i \in DOMAIN buffer[p] : Unwritten(buffer[p][i])
  /\ listener.pc = "handle" => Unwritten(listener.item)

OrderInv == NoneMissing /\ InPlace /\ OwnBuffer /\ QueueOrder /\ HeldFirst /\ AllUnwritten

-----------------------------------------------------------------------------
(* What was due at the shutdown                                            *)

Due(x) == \E p \in Procs : \E k \in Numbers : x = Record(p, k) /\ k <= main.due[p]

NoneDueIn(s) == \A i \in DOMAIN s : ~Due(s[i])
(* Nothing that is due is behind a sentinel.                               *)
DueFirst(s) == \A i, j \in DOMAIN s : s[i] = Sentinel /\ i < j => ~Due(s[j])
Entered == listener.pc = "stopped" \/ InPipe(Sentinel)

DueInv ==
  /\ \A p \in Procs : main.due[p] <= logged[p]
  /\ \A w \in Workers : main.due[w] # 0 => worker[w] = "gone"
  /\ main.pc = "run" => \A p \in Procs : main.due[p] = 0
  /\ DueFirst(pipe) /\ DueFirst(buffer[Main])
  /\ Entered => NoneDueIn(buffer[Main])
  /\ listener.pc = "stopped" => NoneDueIn(pipe)
  /\ \A w \in Workers : ~Buffered(w, Sentinel)
  /\ stopper \in {"off", "stop"} => ~Entered /\ ~Buffered(Main, Sentinel)
  /\ stopper = "done" => listener.pc = "stopped"
  /\ main.pc \in {"closing", "shut"} /\ ~main.timedOut => stopper = "done"

-----------------------------------------------------------------------------
(* What a step does to the queue, item by item                             *)

LEMMA Shapes ==
  ASSUME TypesInv
  PROVE  /\ pipe \in Seq(Items) /\ Len(pipe) \in Nat /\ DOMAIN pipe = 1..Len(pipe)
         /\ \A p \in Procs :
              /\ buffer[p] \in Seq(Items) /\ Len(buffer[p]) \in Nat
              /\ DOMAIN buffer[p] = 1..Len(buffer[p])
              /\ written[p] \in Seq(Numbers) /\ Len(written[p]) \in Nat
              /\ logged[p] \in Nat /\ logged[p] <= MaxRecords + 1
         /\ MaxRecords \in Nat
<1>1. ASSUME NEW p \in Procs
      PROVE  buffer[p] \in Seq(Items) /\ written[p] \in Seq(Numbers)
             /\ logged[p] \in 0..(MaxRecords + 1)
  BY DEF TypesInv, QueueTypes
<1> QED
  BY <1>1, LenProperties, LogAssumption DEF TypesInv, QueueTypes

LEMMA SameRecord ==
  \A p, q, j, k : Record(p, j) = Record(q, k) => p = q /\ j = k
  BY DEF Record

(* The buffer of a process with one more item at its end.                  *)
Joins(p, x) ==
  /\ DOMAIN buffer'[p] = 1..(Len(buffer[p]) + 1)
  /\ \A i \in 1..Len(buffer[p]) : buffer'[p][i] = buffer[p][i]
  /\ buffer'[p][Len(buffer[p]) + 1] = x
  /\ \A q \in Procs \ {p} : buffer'[q] = buffer[q]

LEMMA BufferJoins ==
  ASSUME TypesInv, NEW p \in Procs, NEW x \in Items,
         buffer' = [buffer EXCEPT ![p] = Append(@, x)]
  PROVE  Joins(p, x)
<1>1. /\ buffer'[p] = Append(buffer[p], x) /\ \A q \in Procs \ {p} : buffer'[q] = buffer[q]
      /\ buffer[p] \in Seq(Items)
  BY DEF TypesInv, QueueTypes
<1>2. /\ buffer'[p] \in Seq(Items) /\ Len(buffer'[p]) = Len(buffer[p]) + 1
      /\ \A i \in 1..Len(buffer[p]) : buffer'[p][i] = buffer[p][i]
      /\ buffer'[p][Len(buffer[p]) + 1] = x
  BY <1>1, AppendProperties
<1>3. DOMAIN buffer'[p] = 1..Len(buffer'[p])
  BY <1>2, LenProperties
<1> QED
  BY <1>1, <1>2, <1>3 DEF Joins

LEMMA PutChange ==
  ASSUME TypesInv, NEW p \in Procs, logged[p] <= MaxRecords, Put(p)
  PROVE  /\ Joins(p, Record(p, logged[p] + 1)) /\ pipe' = pipe
         /\ logged[p] + 1 \in Numbers /\ logged'[p] = logged[p] + 1
         /\ \A q \in Procs \ {p} : logged'[q] = logged[q]
<1>1. logged[p] + 1 \in Numbers
  BY Shapes DEF Numbers
<1> QED
  BY <1>1, Item, BufferJoins DEF Put, TypesInv, QueueTypes

LEMMA FeedChange ==
  ASSUME TypesInv, NEW p \in Procs, Feed(p)
  PROVE  /\ 1 <= Len(buffer[p])
         /\ DOMAIN pipe' = 1..(Len(pipe) + 1)
         /\ \A i \in 1..Len(pipe) : pipe'[i] = pipe[i]
         /\ pipe'[Len(pipe) + 1] = buffer[p][1]
         /\ DOMAIN buffer'[p] = 1..(Len(buffer[p]) - 1)
         /\ \A i \in 1..(Len(buffer[p]) - 1) : buffer'[p][i] = buffer[p][i + 1]
         /\ \A q \in Procs \ {p} : buffer'[q] = buffer[q]
<1>1. /\ buffer[p] \in Seq(Items) /\ buffer[p] # <<>> /\ pipe \in Seq(Items)
      /\ pipe' = Append(pipe, Head(buffer[p]))
      /\ buffer'[p] = Tail(buffer[p]) /\ \A q \in Procs \ {p} : buffer'[q] = buffer[q]
  BY DEF Feed, TypesInv, QueueTypes
<1>2. /\ Head(buffer[p]) \in Items /\ Head(buffer[p]) = buffer[p][1]
      /\ Tail(buffer[p]) \in Seq(Items) /\ Len(Tail(buffer[p])) = Len(buffer[p]) - 1
      /\ \A i \in 1..(Len(buffer[p]) - 1) : Tail(buffer[p])[i] = buffer[p][i + 1]
  BY <1>1, HeadTailProperties
<1>3. /\ pipe' \in Seq(Items) /\ Len(pipe') = Len(pipe) + 1
      /\ \A i \in 1..Len(pipe) : pipe'[i] = pipe[i]
      /\ pipe'[Len(pipe) + 1] = Head(buffer[p])
  BY <1>1, <1>2, AppendProperties
<1>4. /\ DOMAIN pipe' = 1..Len(pipe') /\ DOMAIN buffer'[p] = 1..Len(buffer'[p])
      /\ Len(buffer[p]) \in Nat \ {0}
  BY <1>1, <1>2, <1>3, LenProperties, EmptySeq
<1> QED
  BY <1>1, <1>2, <1>3, <1>4

LEMMA GetChange ==
  ASSUME TypesInv, Get
  PROVE  /\ 1 <= Len(pipe)
         /\ DOMAIN pipe' = 1..(Len(pipe) - 1)
         /\ \A i \in 1..(Len(pipe) - 1) : pipe'[i] = pipe[i + 1]
         /\ listener.pc = "get" /\ listener'.item = pipe[1]
         /\ listener'.pc = IF pipe[1] = Sentinel THEN "stopped" ELSE "handle"
<1>1. /\ pipe \in Seq(Items) /\ pipe # <<>> /\ pipe' = Tail(pipe) /\ Head(pipe) = pipe[1]
      /\ listener.pc = "get" /\ listener'.item = Head(pipe)
      /\ listener'.pc = IF Head(pipe) = Sentinel THEN "stopped" ELSE "handle"
  BY DEF Get, TypesInv, QueueTypes
<1>2. /\ Tail(pipe) \in Seq(Items) /\ Len(Tail(pipe)) = Len(pipe) - 1
      /\ \A i \in 1..(Len(pipe) - 1) : Tail(pipe)[i] = pipe[i + 1]
  BY <1>1, HeadTailProperties
<1>3. DOMAIN pipe' = 1..Len(pipe') /\ Len(pipe) \in Nat \ {0}
  BY <1>1, <1>2, LenProperties, EmptySeq
<1> QED
  BY <1>1, <1>2, <1>3

LEMMA HandleChange ==
  ASSUME TypesInv, Handle, NEW p \in Procs, NEW k \in Numbers, listener.item = Record(p, k)
  PROVE  /\ written'[p] = Append(written[p], k)
         /\ Len(written'[p]) = Len(written[p]) + 1
         /\ \A i \in 1..Len(written[p]) : written'[p][i] = written[p][i]
         /\ written'[p][Len(written[p]) + 1] = k
         /\ \A q \in Procs \ {p} : written'[q] = written[q]
<1>1. listener.item.from = p /\ listener.item.n = k
  BY DEF Record
<1>2. /\ written'[p] = Append(written[p], k) /\ \A q \in Procs \ {p} : written'[q] = written[q]
      /\ written[p] \in Seq(Numbers)
  BY <1>1 DEF Handle, TypesInv, QueueTypes
<1> QED
  BY <1>2, AppendProperties

-----------------------------------------------------------------------------
(* Each step keeps the order                                               *)

LEMMA OrderInit == Init => OrderInv
<1> SUFFICES ASSUME Init PROVE OrderInv
  OBVIOUS
<1>1. /\ \A p \in Procs : buffer[p] = <<>> /\ written[p] = <<>> /\ logged[p] = 0
      /\ pipe = <<>> /\ listener.pc = "get"
  BY DEF Init
<1>2. DOMAIN pipe = {} /\ \A p \in Procs : DOMAIN buffer[p] = {} /\ Len(written[p]) = 0
  BY <1>1
<1>3. NoneMissing /\ InPlace
  BY <1>1, <1>2 DEF NoneMissing, InPlace
<1> QED
  BY <1>1, <1>2, <1>3 DEF OrderInv, OwnBuffer, Buffered, QueueOrder, HeldFirst, AllUnwritten

LEMMA OrderPut ==
  ASSUME TypesInv, OrderInv, NEW p \in Procs, logged[p] <= MaxRecords, Put(p),
         UNCHANGED <<listener, written>>
  PROVE  OrderInv'
<1>0. PICK n \in Numbers : n = logged[p] + 1
  BY PutChange
<1> DEFINE new == Record(p, n)
<1>1. /\ Joins(p, new) /\ pipe' = pipe
      /\ logged'[p] = n /\ \A q \in Procs \ {p} : logged'[q] = logged[q]
      /\ n = logged[p] + 1
  BY <1>0, PutChange
<1>2. ASSUME NEW x, Unwritten(x) PROVE Ahead(x, new) /\ Unwritten(x)'
  <2>1. Ahead(x, new)
    <3> SUFFICES ASSUME NEW q \in Procs, NEW j \in Numbers, NEW k \in Numbers,
                        x = Record(q, j), new = Record(q, k)
                 PROVE  j < k
      BY DEF Ahead
    <3>1. q = p /\ k = n
      BY SameRecord
    <3>2. j <= logged[p] /\ logged[p] \in Nat
      BY <1>2, <3>1, Shapes DEF Unwritten
    <3> QED
      BY <1>0, <3>1, <3>2 DEF Numbers
  <2>2. Unwritten(x)'
    <3> SUFFICES ASSUME NEW q \in Procs, NEW k \in Numbers, x = Record(q, k)
                 PROVE  Len(written[q]) < k /\ k <= logged'[q]
      BY DEF Unwritten
    <3>1. Len(written[q]) < k /\ k <= logged[q] /\ logged[q] \in Nat
      BY <1>2, Shapes DEF Unwritten
    <3> QED
      BY <1>1, <3>1 DEF Numbers
  <2> QED
    BY <2>1, <2>2
<1>3. Unwritten(new)'
  BY <1>1, Shapes, SameRecord DEF Unwritten, OrderInv, InPlace
<1>4. ASSUME NEW q \in Procs, NEW i \in DOMAIN buffer'[q]
      PROVE  \/ i \in DOMAIN buffer[q] /\ buffer'[q][i] = buffer[q][i]
             \/ q = p /\ i = Len(buffer[q]) + 1 /\ buffer'[q][i] = new
  <2>1. DOMAIN buffer[p] = 1..Len(buffer[p]) /\ Len(buffer[p]) \in Nat
    BY Shapes
  <2>2. CASE q = p
    BY <1>1, <2>1, <2>2 DEF Joins
  <2>3. CASE q # p
    BY <1>1, <2>3 DEF Joins
  <2> QED
    BY <2>2, <2>3
<1>5. \A q \in Procs : \A x : Buffered(q, x)' <=> Buffered(q, x) \/ (q = p /\ x = new)
  <2>1. DOMAIN buffer[p] = 1..Len(buffer[p]) /\ Len(buffer[p]) \in Nat
    BY Shapes
  <2>2. /\ Len(buffer[p]) + 1 \in DOMAIN buffer'[p] /\ buffer'[p][Len(buffer[p]) + 1] = new
        /\ \A i \in DOMAIN buffer[p] : i \in DOMAIN buffer'[p] /\ buffer'[p][i] = buffer[p][i]
    BY <1>1, <2>1 DEF Joins
  <2>3. \A q \in Procs \ {p} : buffer'[q] = buffer[q]
    BY <1>1 DEF Joins
  <2> QED
    BY <1>4, <2>2, <2>3 DEF Buffered
<1> HIDE DEF new
<1>6. NoneMissing'
  <2> SUFFICES ASSUME NEW q \in Procs, NEW k \in 1..logged'[q], k > Len(written[q])
               PROVE  Held(Record(q, k)) \/ InPipe(Record(q, k)) \/ Buffered(q, Record(q, k))'
    BY <1>1, Shapes DEF NoneMissing, Held, InPipe
  <2>1. CASE q = p /\ k = n
    BY <1>5, <2>1 DEF new
  <2>2. CASE k \in 1..logged[q]
    BY <1>5, <2>2, Shapes DEF OrderInv, NoneMissing
  <2> QED
    BY <1>1, <2>1, <2>2, Shapes
<1>7. InPlace'
  BY <1>1, Shapes DEF OrderInv, InPlace
<1>8. OwnBuffer'
  BY <1>5, SameRecord DEF OrderInv, OwnBuffer, new
<1>9. QueueOrder'
  <2>1. \A q \in Procs : \A i, j \in DOMAIN buffer'[q] : i < j =>
          Ahead(buffer'[q][i], buffer'[q][j])
    <3> SUFFICES ASSUME NEW q \in Procs, NEW i \in DOMAIN buffer'[q], NEW j \in DOMAIN buffer'[q], i < j
                 PROVE  Ahead(buffer'[q][i], buffer'[q][j])
      OBVIOUS
    <3>1. i \in DOMAIN buffer[q] /\ buffer'[q][i] = buffer[q][i]
      BY <1>1, <1>4, Shapes DEF Joins
    <3>2. Unwritten(buffer[q][i])
      BY <3>1 DEF OrderInv, AllUnwritten
    <3> QED
      BY <1>2, <1>4, <3>1, <3>2 DEF OrderInv, QueueOrder
  <2>2. \A q \in Procs : \A i \in DOMAIN pipe : \A j \in DOMAIN buffer'[q] :
          Ahead(pipe[i], buffer'[q][j])
    BY <1>2, <1>4 DEF OrderInv, QueueOrder, AllUnwritten
  <2> QED
    BY <1>1, <2>1, <2>2 DEF OrderInv, QueueOrder, Ahead
<1>10. HeldFirst'
  <2> SUFFICES ASSUME listener.pc = "handle" PROVE HeldFirst'
    BY DEF HeldFirst
  <2>1. \A q \in Procs : \A j \in DOMAIN buffer'[q] : Ahead(listener.item, buffer'[q][j])
    BY <1>2, <1>4 DEF OrderInv, HeldFirst, AllUnwritten
  <2> QED
    BY <1>1, <2>1 DEF OrderInv, HeldFirst, Ahead
<1>11. AllUnwritten'
  <2>1. ASSUME NEW x, Unwritten(x) \/ x = new PROVE Unwritten(x)'
    BY <1>2, <1>3, <2>1
  <2>2. ASSUME NEW i \in DOMAIN pipe' PROVE Unwritten(pipe[i])'
    <3>1. PICK x : x = pipe[i]
      OBVIOUS
    <3>2. Unwritten(x)' /\ pipe'[i] = x
      BY <1>1, <2>1, <3>1 DEF OrderInv, AllUnwritten
    <3> QED
      BY <3>2
  <2>3. ASSUME NEW q \in Procs, NEW i \in DOMAIN buffer'[q] PROVE Unwritten(buffer[q][i])'
    <3>1. PICK x : x = buffer'[q][i]
      OBVIOUS
    <3>2. Unwritten(x) \/ x = new
      BY <1>4, <3>1 DEF OrderInv, AllUnwritten
    <3> QED
      BY <2>1, <3>1, <3>2
  <2>4. ASSUME listener'.pc = "handle" PROVE Unwritten(listener.item)'
    <3>1. PICK x : x = listener.item
      OBVIOUS
    <3>2. Unwritten(x)' /\ listener'.item = x
      BY <2>1, <2>4, <3>1 DEF OrderInv, AllUnwritten
    <3> QED
      BY <3>2
  <2> QED
    BY <2>2, <2>3, <2>4 DEF AllUnwritten
<1> QED
  BY <1>6, <1>7, <1>8, <1>9, <1>10, <1>11 DEF OrderInv

LEMMA OrderFeed ==
  ASSUME TypesInv, OrderInv, NEW p \in Procs, Feed(p)
  PROVE  OrderInv'
<1> DEFINE x == buffer[p][1]
<1>1. /\ 1 \in DOMAIN buffer[p]
      /\ UNCHANGED <<logged, listener, written>>
  BY FeedChange, Shapes DEF Feed
<1>2. ASSUME NEW i \in DOMAIN pipe'
      PROVE  \/ i \in DOMAIN pipe /\ pipe'[i] = pipe[i]
             \/ i = Len(pipe) + 1 /\ pipe'[i] = x
  BY FeedChange, Shapes
<1>3. ASSUME NEW i \in DOMAIN buffer'[p]
      PROVE  i + 1 \in DOMAIN buffer[p] /\ i + 1 > 1 /\ buffer'[p][i] = buffer[p][i + 1]
  <2>1. /\ DOMAIN buffer[p] = 1..Len(buffer[p]) /\ Len(buffer[p]) \in Nat
        /\ DOMAIN buffer'[p] = 1..(Len(buffer[p]) - 1)
        /\ \A j \in 1..(Len(buffer[p]) - 1) : buffer'[p][j] = buffer[p][j + 1]
    BY FeedChange, Shapes
  <2> QED
    BY <2>1
<1>4. \A q \in Procs \ {p} : buffer'[q] = buffer[q]
  BY FeedChange
<1>5. \A y : InPipe(y)' <=> InPipe(y) \/ y = x
  <2>1. Len(pipe) + 1 \in DOMAIN pipe' /\ pipe'[Len(pipe) + 1] = x
        /\ \A i \in DOMAIN pipe : i \in DOMAIN pipe' /\ pipe'[i] = pipe[i]
    BY FeedChange, Shapes
  <2> QED
    BY <1>2, <2>1 DEF InPipe
<1>6. \A y : Buffered(p, y) <=> Buffered(p, y)' \/ y = x
  <2>1. \A i \in DOMAIN buffer[p] : i = 1 \/ (i - 1 \in DOMAIN buffer'[p] /\ buffer'[p][i - 1] = buffer[p][i])
    <3>1. /\ DOMAIN buffer[p] = 1..Len(buffer[p]) /\ Len(buffer[p]) \in Nat
          /\ DOMAIN buffer'[p] = 1..(Len(buffer[p]) - 1)
          /\ \A j \in 1..(Len(buffer[p]) - 1) : buffer'[p][j] = buffer[p][j + 1]
      BY FeedChange, Shapes
    <3> QED
      BY <3>1
  <2> QED
    BY <1>1, <1>3, <2>1 DEF Buffered
<1>7. NoneMissing'
  <2> SUFFICES ASSUME NEW q \in Procs, NEW k \in 1..logged[q], k > Len(written[q])
               PROVE  Held(Record(q, k)) \/ InPipe(Record(q, k))' \/ Buffered(q, Record(q, k))'
    BY <1>1, Shapes DEF NoneMissing, Held
  <2>1. Held(Record(q, k)) \/ InPipe(Record(q, k)) \/ Buffered(q, Record(q, k))
    BY Shapes DEF OrderInv, NoneMissing
  <2>2. CASE q = p
    BY <1>5, <1>6, <2>1, <2>2
  <2>3. CASE q # p
    <3>1. Buffered(q, Record(q, k))' <=> Buffered(q, Record(q, k))
      BY <1>4, <2>3 DEF Buffered
    <3> QED
      BY <1>5, <2>1, <3>1
  <2> QED
    BY <2>2, <2>3
<1>8. InPlace' /\ OwnBuffer'
  <2>1. \A q \in Procs : \A y : Buffered(q, y)' => Buffered(q, y)
    BY <1>4, <1>6 DEF Buffered
  <2>2. OwnBuffer'
    BY <2>1 DEF OrderInv, OwnBuffer
  <2>3. InPlace'
    BY <1>1 DEF OrderInv, InPlace
  <2> QED
    BY <2>2, <2>3
<1>9. QueueOrder'
  <2>1. \A i, j \in DOMAIN pipe' : i < j => Ahead(pipe'[i], pipe'[j])
    <3> SUFFICES ASSUME NEW i \in DOMAIN pipe', NEW j \in DOMAIN pipe', i < j
                 PROVE  Ahead(pipe'[i], pipe'[j])
      OBVIOUS
    <3>1. i \in DOMAIN pipe /\ pipe'[i] = pipe[i]
      BY FeedChange, Shapes
    <3> QED
      BY <1>1, <1>2, <3>1 DEF OrderInv, QueueOrder
  <2>2. \A q \in Procs : \A i, j \in DOMAIN buffer'[q] : i < j => Ahead(buffer'[q][i], buffer'[q][j])
    <3>1. \A i, j \in DOMAIN buffer'[p] : i < j => Ahead(buffer'[p][i], buffer'[p][j])
      <4> SUFFICES ASSUME NEW i \in DOMAIN buffer'[p], NEW j \in DOMAIN buffer'[p], i < j
                   PROVE  Ahead(buffer'[p][i], buffer'[p][j])
        OBVIOUS
      <4>1. DOMAIN buffer'[p] = 1..(Len(buffer[p]) - 1) /\ Len(buffer[p]) \in Nat
        BY FeedChange, Shapes
      <4>2. i + 1 < j + 1
        BY <4>1
      <4> QED
        BY <1>3, <4>2 DEF OrderInv, QueueOrder
    <3> QED
      BY <1>4, <3>1 DEF OrderInv, QueueOrder
  <2>3. ASSUME NEW q \in Procs, NEW i \in DOMAIN pipe', NEW j \in DOMAIN buffer'[q]
        PROVE  Ahead(pipe'[i], buffer'[q][j])
    <3>1. CASE q = p
      BY <1>1, <1>2, <1>3, <3>1 DEF OrderInv, QueueOrder
    <3>2. CASE q # p /\ pipe'[i] = x
      <4>1. j \in DOMAIN buffer[q] /\ buffer'[q][j] = buffer[q][j]
        BY <1>4, <3>2
      <4>2. \A k \in Numbers : \A r \in Procs : /\ x = Record(r, k) => r = p
                                                /\ buffer[q][j] = Record(r, k) => r = q
        BY <1>1, <4>1 DEF OrderInv, OwnBuffer, Buffered
      <4> QED
        BY <3>2, <4>1, <4>2 DEF Ahead
    <3>3. CASE q # p /\ i \in DOMAIN pipe /\ pipe'[i] = pipe[i]
      BY <1>4, <3>3 DEF OrderInv, QueueOrder
    <3> QED
      BY <1>2, <3>1, <3>2, <3>3
  <2> QED
    BY <2>1, <2>2, <2>3 DEF QueueOrder, Ahead
<1>10. HeldFirst'
  <2>1. listener.pc = "handle" => \A i \in DOMAIN pipe' : Ahead(listener.item, pipe'[i])
    BY <1>1, <1>2 DEF OrderInv, HeldFirst
  <2>2. listener.pc = "handle" => \A q \in Procs : \A i \in DOMAIN buffer'[q] : Ahead(listener.item, buffer'[q][i])
    BY <1>3, <1>4 DEF OrderInv, HeldFirst
  <2> QED
    BY <1>1, <2>1, <2>2 DEF HeldFirst, Ahead
<1>11. AllUnwritten'
  <2>1. \A i \in DOMAIN pipe' : Unwritten(pipe'[i])
    BY <1>1, <1>2 DEF OrderInv, AllUnwritten
  <2>2. \A q \in Procs : \A i \in DOMAIN buffer'[q] : Unwritten(buffer'[q][i])
    BY <1>3, <1>4 DEF OrderInv, AllUnwritten
  <2>3. listener.pc = "handle" => Unwritten(listener.item)
    BY DEF OrderInv, AllUnwritten
  <2> QED
    BY <1>1, <2>1, <2>2, <2>3 DEF AllUnwritten, Unwritten
<1> QED
  BY <1>7, <1>8, <1>9, <1>10, <1>11 DEF OrderInv

LEMMA OrderGet ==
  ASSUME TypesInv, OrderInv, Get
  PROVE  OrderInv'
<1> DEFINE x == pipe[1]
<1>1. /\ 1 \in DOMAIN pipe /\ listener.pc = "get" /\ UNCHANGED <<logged, buffer, written>>
      /\ listener'.pc = (IF x = Sentinel THEN "stopped" ELSE "handle") /\ listener'.item = x
  BY GetChange, Shapes DEF Get
<1>2. ASSUME NEW i \in DOMAIN pipe'
      PROVE  i + 1 \in DOMAIN pipe /\ i + 1 > 1 /\ pipe'[i] = pipe[i + 1]
  <2>1. /\ DOMAIN pipe = 1..Len(pipe) /\ Len(pipe) \in Nat
        /\ DOMAIN pipe' = 1..(Len(pipe) - 1)
        /\ \A j \in 1..(Len(pipe) - 1) : pipe'[j] = pipe[j + 1]
    BY GetChange, Shapes
  <2> QED
    BY <2>1
<1>3. \A y : InPipe(y) <=> InPipe(y)' \/ y = x
  <2>1. \A i \in DOMAIN pipe : i = 1 \/ (i - 1 \in DOMAIN pipe' /\ pipe'[i - 1] = pipe[i])
    <3>1. /\ DOMAIN pipe = 1..Len(pipe) /\ Len(pipe) \in Nat
          /\ DOMAIN pipe' = 1..(Len(pipe) - 1)
          /\ \A j \in 1..(Len(pipe) - 1) : pipe'[j] = pipe[j + 1]
      BY GetChange, Shapes
    <3> QED
      BY <3>1
  <2> QED
    BY <1>1, <1>2, <2>1 DEF InPipe
<1>4. NoneMissing'
  <2> SUFFICES ASSUME NEW q \in Procs, NEW k \in 1..logged[q], k > Len(written[q])
               PROVE  Held(Record(q, k))' \/ InPipe(Record(q, k))' \/ Buffered(q, Record(q, k))
    BY <1>1, Shapes DEF NoneMissing, Buffered
  <2>1. k \in Numbers
    BY Shapes DEF Numbers
  <2>2. InPipe(Record(q, k)) \/ Buffered(q, Record(q, k))
    BY <1>1, Shapes DEF OrderInv, NoneMissing, Held
  <2>3. Record(q, k) # Sentinel
    BY <2>1, Item
  <2> QED
    BY <1>1, <1>3, <2>2, <2>3 DEF Held
<1>5. InPlace' /\ OwnBuffer'
  BY <1>1 DEF OrderInv, InPlace, OwnBuffer, Buffered
<1>6. QueueOrder' /\ HeldFirst'
  <2>1. ASSUME NEW i \in DOMAIN pipe', NEW j \in DOMAIN pipe', i < j
        PROVE  Ahead(pipe'[i], pipe'[j])
    <3>1. DOMAIN pipe' = 1..(Len(pipe) - 1) /\ Len(pipe) \in Nat
      BY GetChange, Shapes
    <3>2. i + 1 < j + 1
      BY <2>1, <3>1
    <3> QED
      BY <1>2, <3>2 DEF OrderInv, QueueOrder
  <2>2. \A q \in Procs : \A i \in DOMAIN pipe' : \A j \in DOMAIN buffer[q] : Ahead(pipe'[i], buffer[q][j])
    BY <1>2 DEF OrderInv, QueueOrder
  <2>3. \A i \in DOMAIN pipe' : Ahead(x, pipe'[i])
    BY <1>1, <1>2 DEF OrderInv, QueueOrder
  <2>4. \A q \in Procs : \A i \in DOMAIN buffer[q] : Ahead(x, buffer[q][i])
    BY <1>1 DEF OrderInv, QueueOrder
  <2> QED
    BY <1>1, <2>1, <2>2, <2>3, <2>4 DEF OrderInv, QueueOrder, HeldFirst, Ahead
<1>7. AllUnwritten'
  <2>1. Unwritten(x) /\ \A i \in DOMAIN pipe' : Unwritten(pipe'[i])
    BY <1>1, <1>2 DEF OrderInv, AllUnwritten
  <2>2. \A q \in Procs : \A i \in DOMAIN buffer[q] : Unwritten(buffer[q][i])
    BY DEF OrderInv, AllUnwritten
  <2> QED
    BY <1>1, <2>1, <2>2 DEF AllUnwritten, Unwritten
<1> QED
  BY <1>4, <1>5, <1>6, <1>7 DEF OrderInv

(* The record in hand is the next one of its process.                      *)
LEMMA NextRecord ==
  ASSUME TypesInv, OrderInv, Handle
  PROVE  \E p \in Procs : \E k \in Numbers :
           listener.item = Record(p, k) /\ k = Len(written[p]) + 1 /\ k <= logged[p]
<1>1. listener.pc = "handle" /\ listener.item # Sentinel
  BY DEF Handle, TypesInv, QueueTypes
<1>2. PICK p \in Procs, k \in Numbers : listener.item = Record(p, k)
  BY <1>1, Item DEF TypesInv, QueueTypes
<1>3. Len(written[p]) < k /\ k <= logged[p]
  BY <1>1, <1>2 DEF OrderInv, AllUnwritten, Unwritten
<1> DEFINE n == Len(written[p]) + 1
<1>4. n \in Numbers /\ n \in 1..logged[p] /\ n <= k /\ ~(n <= Len(written[p]))
  BY <1>3, Shapes DEF Numbers
<1> HIDE DEF n
<1>5. Held(Record(p, n)) \/ InPipe(Record(p, n)) \/ Buffered(p, Record(p, n))
  BY <1>4 DEF OrderInv, NoneMissing
<1>6. CASE Held(Record(p, n))
  <2>1. n = k
    BY <1>2, <1>6, SameRecord DEF Held
  <2> QED
    BY <1>2, <1>3, <2>1 DEF n
<1>7. CASE InPipe(Record(p, n)) \/ Buffered(p, Record(p, n))
  <2>1. k < n
    BY <1>1, <1>2, <1>4, <1>7 DEF InPipe, Buffered, OrderInv, HeldFirst, Ahead
  <2> QED
    BY <1>4, <2>1 DEF Numbers
<1> QED
  BY <1>5, <1>6, <1>7

LEMMA OrderHandle ==
  ASSUME TypesInv, OrderInv, Handle
  PROVE  OrderInv'
<1>1. PICK p \in Procs, k \in Numbers :
        listener.item = Record(p, k) /\ k = Len(written[p]) + 1 /\ k <= logged[p]
  BY NextRecord
<1>2. /\ Len(written'[p]) = k /\ written'[p][k] = k
      /\ \A i \in 1..Len(written[p]) : written'[p][i] = written[p][i]
      /\ \A q \in Procs \ {p} : written'[q] = written[q]
      /\ Len(written[p]) \in Nat
  BY <1>1, HandleChange, Shapes
<1>3. listener.pc = "handle" /\ listener'.pc = "get" /\ UNCHANGED <<logged, buffer, pipe>>
  BY DEF Handle, queueVars
<1>4. NoneMissing'
  <2> SUFFICES ASSUME NEW q \in Procs, NEW j \in 1..logged[q], ~(j <= Len(written'[q]))
               PROVE  InPipe(Record(q, j)) \/ Buffered(q, Record(q, j))
    BY <1>3 DEF NoneMissing, InPipe, Buffered
  <2>1. ~(j <= Len(written[q])) /\ ~(q = p /\ j = k)
    BY <1>1, <1>2, Shapes
  <2>2. ~Held(Record(q, j))
    BY <1>1, <2>1, SameRecord DEF Held
  <2> QED
    BY <2>1, <2>2 DEF OrderInv, NoneMissing
<1>5. InPlace'
  <2>1. \A q \in Procs \ {p} : /\ Len(written'[q]) <= logged'[q]
                                /\ \A i \in 1..Len(written'[q]) : written'[q][i] = i
    BY <1>2, <1>3 DEF OrderInv, InPlace
  <2>2. \A i \in 1..k : i \in 1..Len(written[p]) \/ i = k
    BY <1>1, <1>2
  <2>3. \A i \in 1..Len(written[p]) : written[p][i] = i
    BY DEF OrderInv, InPlace
  <2>4. Len(written'[p]) <= logged'[p] /\ \A i \in 1..Len(written'[p]) : written'[p][i] = i
    BY <1>1, <1>2, <1>3, <2>2, <2>3
  <2> QED
    BY <2>1, <2>4 DEF InPlace
<1>6. OwnBuffer' /\ QueueOrder' /\ HeldFirst'
  BY <1>3 DEF OrderInv, OwnBuffer, Buffered, QueueOrder, HeldFirst, Ahead
<1>7. AllUnwritten'
  <2>1. ASSUME NEW x, Unwritten(x), Ahead(listener.item, x) PROVE Unwritten(x)'
    <3> SUFFICES ASSUME NEW q \in Procs, NEW j \in Numbers, x = Record(q, j)
                 PROVE  Len(written'[q]) < j /\ j <= logged[q]
      BY <1>3 DEF Unwritten
    <3>1. Len(written[q]) < j /\ j <= logged[q]
      BY <2>1 DEF Unwritten
    <3>2. q = p => k < j
      BY <1>1, <2>1 DEF Ahead
    <3> QED
      BY <1>2, <3>1, <3>2
  <2>2. ASSUME NEW i \in DOMAIN pipe PROVE Unwritten(pipe[i])'
    <3>1. PICK x : x = pipe[i]
      OBVIOUS
    <3>2. Unwritten(x)' /\ pipe'[i] = x
      BY <1>3, <2>1, <3>1 DEF OrderInv, AllUnwritten, HeldFirst
    <3> QED
      BY <3>2
  <2>3. ASSUME NEW q \in Procs, NEW i \in DOMAIN buffer[q] PROVE Unwritten(buffer[q][i])'
    <3>1. PICK x : x = buffer[q][i]
      OBVIOUS
    <3>2. Unwritten(x)' /\ buffer'[q][i] = x
      BY <1>3, <2>1, <3>1 DEF OrderInv, AllUnwritten, HeldFirst
    <3> QED
      BY <3>2
  <2> QED
    BY <1>3, <2>2, <2>3 DEF AllUnwritten
<1> QED
  BY <1>4, <1>5, <1>6, <1>7 DEF OrderInv

(* A sentinel is nobody's record.                                          *)
LEMMA OrderStop ==
  ASSUME TypesInv, OrderInv, Stop
  PROVE  OrderInv'
<1>1. UNCHANGED <<logged, pipe, listener, written>>
  BY DEF Stop
<1>2. ASSUME NEW q \in Procs, NEW i \in DOMAIN buffer'[q]
      PROVE  \/ i \in DOMAIN buffer[q] /\ buffer'[q][i] = buffer[q][i]
             \/ buffer'[q][i] = Sentinel
  <2>1. CASE buffer' = buffer
    BY <2>1
  <2>2. CASE buffer' = [buffer EXCEPT ![Main] = Append(@, Sentinel)]
    <3>1. Joins(Main, Sentinel)
      BY <2>2, BufferJoins, MainIsProc, Item
    <3>2. DOMAIN buffer[Main] = 1..Len(buffer[Main]) /\ Len(buffer[Main]) \in Nat
      BY MainIsProc, Shapes
    <3>3. CASE q = Main
      BY <3>1, <3>2, <3>3 DEF Joins
    <3>4. CASE q # Main
      BY <3>1, <3>4 DEF Joins
    <3> QED
      BY <3>3, <3>4
  <2> QED
    BY <2>1, <2>2 DEF Stop
<1>3. ASSUME NEW q \in Procs, NEW y, Buffered(q, y) PROVE Buffered(q, y)'
  <2>1. CASE buffer' = buffer
    BY <1>3, <2>1 DEF Buffered
  <2>2. CASE buffer' = [buffer EXCEPT ![Main] = Append(@, Sentinel)]
    <3>1. Joins(Main, Sentinel)
      BY <2>2, BufferJoins, MainIsProc, Item
    <3>2. DOMAIN buffer[Main] = 1..Len(buffer[Main]) /\ Len(buffer[Main]) \in Nat
      BY MainIsProc, Shapes
    <3>3. CASE q = Main
      BY <1>3, <3>1, <3>2, <3>3 DEF Joins, Buffered
    <3>4. CASE q # Main
      BY <1>3, <3>1, <3>4 DEF Joins, Buffered
    <3> QED
      BY <3>3, <3>4
  <2> QED
    BY <2>1, <2>2 DEF Stop
<1>4. \A q, r \in Procs, k \in Numbers : Record(r, k) # Sentinel
  BY Item
<1>5. \A x : Ahead(x, Sentinel) /\ Ahead(Sentinel, x) /\ Unwritten(Sentinel)
  BY <1>4 DEF Ahead, Unwritten
<1>6. NoneMissing' /\ InPlace'
  BY <1>1, <1>3 DEF OrderInv, NoneMissing, InPlace, Held, InPipe
<1>7. OwnBuffer'
  BY <1>2, <1>4 DEF OrderInv, OwnBuffer, Buffered
<1>8. QueueOrder' /\ HeldFirst' /\ AllUnwritten'
  <2>1. \A q \in Procs : \A i, j \in DOMAIN buffer'[q] : i < j => Ahead(buffer'[q][i], buffer'[q][j])
    BY <1>2, <1>5 DEF OrderInv, QueueOrder
  <2>2. \A q \in Procs : \A i \in DOMAIN pipe : \A j \in DOMAIN buffer'[q] : Ahead(pipe[i], buffer'[q][j])
    BY <1>2, <1>5 DEF OrderInv, QueueOrder
  <2>3. listener.pc = "handle" => \A q \in Procs : \A i \in DOMAIN buffer'[q] : Ahead(listener.item, buffer'[q][i])
    BY <1>2, <1>5 DEF OrderInv, HeldFirst
  <2>4. \A q \in Procs : \A i \in DOMAIN buffer'[q] : Unwritten(buffer'[q][i])
    BY <1>2, <1>5 DEF OrderInv, AllUnwritten
  <2> QED
    BY <1>1, <2>1, <2>2, <2>3, <2>4 DEF OrderInv, QueueOrder, HeldFirst, AllUnwritten, Ahead, Unwritten
<1> QED
  BY <1>6, <1>7, <1>8 DEF OrderInv

LEMMA OrderStep == TypesInv /\ OrderInv /\ [Next]_vars => OrderInv'
<1> SUFFICES ASSUME TypesInv, OrderInv, [Next]_vars
             PROVE  OrderInv'
  OBVIOUS
<1>1. CASE LogMain \/ Shutdown
  <2>1. logged[Main] <= MaxRecords /\ Put(Main) /\ UNCHANGED <<listener, written>>
    BY <1>1, MainIsProc, Shapes DEF LogMain, Shutdown, TypesInv, Phases
  <2> QED
    BY <2>1, MainIsProc, OrderPut
<1>2. ASSUME NEW w \in Workers, LogWorker(w) PROVE OrderInv'
  <2>1. logged[w] <= MaxRecords /\ Put(w) /\ UNCHANGED <<listener, written>>
    BY <1>2, MainIsProc, Shapes DEF LogWorker
  <2> QED
    BY <2>1, MainIsProc, OrderPut
<1>3. CASE Waits \/ UNCHANGED vars
  <2>1. UNCHANGED <<logged, buffer, pipe, listener, written>>
    BY <1>3 DEF Waits, Joined, CloseHandlers, Exit, Exited, Spawn, EndWorker, queueVars, vars
  <2> QED
    BY <2>1 DEF OrderInv, NoneMissing, InPlace, OwnBuffer, QueueOrder, HeldFirst, AllUnwritten,
                Held, InPipe, Buffered, Ahead, Unwritten
<1> QED
  BY <1>1, <1>2, <1>3, OrderFeed, OrderGet, OrderHandle, OrderStop DEF Next, Waits

-----------------------------------------------------------------------------
(* The shutdown                                                            *)

LEMMA DueInit == Init => DueInv
<1> SUFFICES ASSUME Init PROVE DueInv
  OBVIOUS
<1>1. /\ \A p \in Procs : buffer[p] = <<>> /\ logged[p] = 0 /\ main.due[p] = 0
      /\ pipe = <<>> /\ listener.pc = "get" /\ stopper = "off" /\ main.pc = "run"
  BY DEF Init
<1>2. DOMAIN pipe = {} /\ \A p \in Procs : DOMAIN buffer[p] = {}
  BY <1>1
<1> QED
  BY <1>1, <1>2, MainIsProc
     DEF DueInv, DueFirst, NoneDueIn, Entered, InPipe, Buffered

(* A process whose record is due and that has a buffer is the main one.    *)
LEMMA DueIsMain ==
  ASSUME TypesInv, OrderInv, DueInv, NEW p \in Procs, NEW x, Buffered(p, x), Due(x)
  PROVE  p = Main
<1>1. PICK q \in Procs, k \in Numbers : x = Record(q, k) /\ k <= main.due[q]
  BY DEF Due
<1>2. q = p
  BY <1>1 DEF OrderInv, OwnBuffer
<1>3. main.due[p] # 0
  BY <1>1, <1>2 DEF Numbers
<1>4. buffer[p] # <<>>
  BY DEF Buffered
<1> QED
  BY <1>3, <1>4 DEF DueInv, TypesInv, Phases, Procs

LEMMA DuePut ==
  ASSUME TypesInv, DueInv, NEW p \in Procs, logged[p] <= MaxRecords, Put(p),
         UNCHANGED <<listener, main, stopper, worker>>
  PROVE  DueInv'
<1>0. PICK n \in Numbers : n = logged[p] + 1
  BY PutChange
<1> DEFINE new == Record(p, n)
<1>1. /\ Joins(p, new) /\ pipe' = pipe
      /\ logged'[p] = n /\ \A q \in Procs \ {p} : logged'[q] = logged[q]
  BY <1>0, PutChange
<1>2. ASSUME NEW q \in Procs PROVE main.due[q] <= logged'[q]
  <2>1. main.due[q] <= logged[q] /\ main.due[q] \in Nat /\ logged[q] \in Nat
    BY Shapes DEF DueInv, TypesInv, ControlTypes
  <2>2. logged'[q] = logged[q] \/ logged'[q] = logged[q] + 1
    BY <1>0, <1>1
  <2> QED
    BY <2>1, <2>2
<1>3. ~Due(new) /\ new # Sentinel
  <2>1. main.due[p] < n
    BY <1>0, Shapes DEF DueInv, TypesInv, ControlTypes
  <2>2. ASSUME NEW q \in Procs, NEW k \in Numbers, new = Record(q, k)
        PROVE  ~(k <= main.due[q])
    <3>1. q = p /\ k = n
      BY <2>2, SameRecord
    <3> QED
      BY <2>1, <3>1 DEF Numbers, TypesInv, ControlTypes
  <2> QED
    BY <2>2, Item DEF Due
<1> HIDE DEF new
<1>4. ASSUME NEW q \in Procs, NEW i \in DOMAIN buffer'[q]
      PROVE  \/ i \in DOMAIN buffer[q] /\ buffer'[q][i] = buffer[q][i]
             \/ buffer'[q][i] = new /\ (\A j \in DOMAIN buffer'[q] : ~(i < j))
  <2>1. DOMAIN buffer[p] = 1..Len(buffer[p]) /\ Len(buffer[p]) \in Nat
    BY Shapes
  <2>2. CASE q = p
    BY <1>1, <2>1, <2>2 DEF Joins
  <2>3. CASE q # p
    BY <1>1, <2>3 DEF Joins
  <2> QED
    BY <2>2, <2>3
<1>5. \A x : Due(x)' <=> Due(x)
  BY DEF Due
<1>6. DueFirst(buffer[Main])'
  BY <1>3, <1>4, <1>5, MainIsProc DEF DueInv, DueFirst
<1>7. /\ \A q \in Procs : Buffered(q, Sentinel)' => Buffered(q, Sentinel)
      /\ NoneDueIn(buffer[Main]) => NoneDueIn(buffer[Main])'
  BY <1>3, <1>4, <1>5, MainIsProc DEF Buffered, NoneDueIn
<1>8. /\ Entered' <=> Entered
      /\ NoneDueIn(pipe)' <=> NoneDueIn(pipe)
      /\ DueFirst(pipe)' <=> DueFirst(pipe)
  BY <1>1, <1>5 DEF Entered, InPipe, NoneDueIn, DueFirst
<1> QED
  BY <1>2, <1>6, <1>7, <1>8, MainIsProc DEF DueInv

LEMMA DueFeed ==
  ASSUME TypesInv, OrderInv, DueInv, NEW p \in Procs, Feed(p)
  PROVE  DueInv'
<1> DEFINE x == buffer[p][1]
<1>1. /\ 1 \in DOMAIN buffer[p] /\ UNCHANGED <<logged, listener, main, stopper, worker>>
  BY FeedChange, Shapes DEF Feed
<1>2. \A y : Due(y)' <=> Due(y)
  BY <1>1 DEF Due
<1>3. ASSUME NEW i \in DOMAIN pipe'
      PROVE  \/ i \in DOMAIN pipe /\ pipe'[i] = pipe[i]
             \/ pipe'[i] = x /\ (\A j \in DOMAIN pipe' : ~(i < j))
  BY FeedChange, Shapes
<1>4. ASSUME NEW i \in DOMAIN buffer'[p]
      PROVE  i + 1 \in DOMAIN buffer[p] /\ 1 < i + 1 /\ buffer'[p][i] = buffer[p][i + 1]
  <2>1. /\ DOMAIN buffer[p] = 1..Len(buffer[p]) /\ Len(buffer[p]) \in Nat
        /\ DOMAIN buffer'[p] = 1..(Len(buffer[p]) - 1)
        /\ \A j \in 1..(Len(buffer[p]) - 1) : buffer'[p][j] = buffer[p][j + 1]
    BY FeedChange, Shapes
  <2> QED
    BY <2>1
<1>5. \A q \in Procs \ {p} : buffer'[q] = buffer[q]
  BY FeedChange
<1>6. Buffered(p, x)
  BY <1>1 DEF Buffered
<1>7. p # Main => x # Sentinel
  BY <1>6, MainIsProc DEF DueInv, Procs
<1>8. Entered => ~Due(x)
  BY <1>1, <1>6, DueIsMain DEF DueInv, NoneDueIn
<1>9. DueFirst(pipe)'
  <2> SUFFICES ASSUME NEW i \in DOMAIN pipe', NEW j \in DOMAIN pipe', pipe'[i] = Sentinel, i < j
               PROVE  ~Due(pipe'[j])
    BY <1>2 DEF DueFirst
  <2>1. i \in DOMAIN pipe /\ pipe'[i] = pipe[i]
    BY <1>3
  <2>2. Entered
    BY <2>1 DEF Entered, InPipe
  <2> QED
    BY <1>3, <1>8, <2>1, <2>2 DEF DueInv, DueFirst
<1>10. DueFirst(buffer[Main])' /\ (NoneDueIn(buffer[Main]) => NoneDueIn(buffer[Main])')
       /\ (p = Main /\ x = Sentinel => NoneDueIn(buffer[Main])')
  <2>1. CASE p = Main
    <3>1. ASSUME NEW i \in DOMAIN buffer'[p], NEW j \in DOMAIN buffer'[p], buffer'[p][i] = Sentinel, i < j
          PROVE  ~Due(buffer'[p][j])
      <4>1. DOMAIN buffer'[p] = 1..(Len(buffer[p]) - 1) /\ Len(buffer[p]) \in Nat
        BY FeedChange, Shapes
      <4>2. i + 1 < j + 1
        BY <3>1, <4>1
      <4> QED
        BY <1>4, <2>1, <3>1, <4>2 DEF DueInv, DueFirst
    <3>2. ASSUME NEW i \in DOMAIN buffer'[p], x = Sentinel \/ NoneDueIn(buffer[p])
          PROVE  ~Due(buffer'[p][i])
      BY <1>1, <1>4, <2>1, <3>2 DEF DueInv, DueFirst, NoneDueIn
    <3> QED
      BY <1>2, <2>1, <3>1, <3>2 DEF DueFirst, NoneDueIn
  <2>2. CASE p # Main
    BY <1>2, <1>5, <2>2, MainIsProc DEF DueInv, DueFirst, NoneDueIn
  <2> QED
    BY <2>1, <2>2
<1>11. Entered' => Entered \/ x = Sentinel
  BY <1>1, <1>3 DEF Entered, InPipe
<1>12. Entered' => NoneDueIn(buffer[Main])'
  BY <1>7, <1>10, <1>11 DEF DueInv
<1>13. listener'.pc = "stopped" => NoneDueIn(pipe)'
  <2> SUFFICES ASSUME listener.pc = "stopped", NEW i \in DOMAIN pipe'
               PROVE  ~Due(pipe'[i])
    BY <1>1, <1>2 DEF NoneDueIn
  <2> QED
    BY <1>3, <1>8 DEF DueInv, NoneDueIn, Entered
<1>14. \A q \in Procs : Buffered(q, Sentinel)' => Buffered(q, Sentinel)
  BY <1>4, <1>5 DEF Buffered
<1>15. stopper \in {"off", "stop"} => ~Entered' /\ ~Buffered(Main, Sentinel)'
  BY <1>6, <1>7, <1>11, <1>14, MainIsProc DEF DueInv
<1>16. \A w \in Workers : ~Buffered(w, Sentinel)'
  BY <1>14, MainIsProc DEF DueInv
<1> QED
  BY <1>1, <1>9, <1>10, <1>12, <1>13, <1>15, <1>16 DEF DueInv

LEMMA DueGet ==
  ASSUME TypesInv, DueInv, Get
  PROVE  DueInv'
<1>1. /\ 1 \in DOMAIN pipe /\ listener.pc = "get"
      /\ UNCHANGED <<logged, buffer, main, stopper, worker>>
      /\ listener'.pc = (IF pipe[1] = Sentinel THEN "stopped" ELSE "handle")
  BY GetChange, Shapes DEF Get
<1>2. /\ \A y : Due(y)' <=> Due(y)
      /\ \A p \in Procs : \A y : Buffered(p, y)' <=> Buffered(p, y)
      /\ NoneDueIn(buffer[Main])' <=> NoneDueIn(buffer[Main])
      /\ DueFirst(buffer[Main])' <=> DueFirst(buffer[Main])
  BY <1>1 DEF Due, Buffered, NoneDueIn, DueFirst
<1>3. /\ DOMAIN pipe = 1..Len(pipe) /\ Len(pipe) \in Nat
      /\ DOMAIN pipe' = 1..(Len(pipe) - 1)
      /\ \A j \in 1..(Len(pipe) - 1) : pipe'[j] = pipe[j + 1]
  BY GetChange, Shapes
<1>4. \A i \in DOMAIN pipe' : i + 1 \in DOMAIN pipe /\ 1 < i + 1 /\ pipe'[i] = pipe[i + 1]
  BY <1>3
<1>5. \A i, j \in DOMAIN pipe' : i < j => i + 1 < j + 1
  BY <1>3
<1>6. DueFirst(pipe)'
  BY <1>2, <1>4, <1>5 DEF DueInv, DueFirst
<1>7. Entered' => Entered
  BY <1>1, <1>4 DEF Entered, InPipe
<1>8. pipe[1] = Sentinel => NoneDueIn(pipe)'
  BY <1>1, <1>2, <1>4 DEF DueInv, DueFirst, NoneDueIn
<1> QED
  BY <1>1, <1>2, <1>6, <1>7, <1>8, MainIsProc DEF DueInv

LEMMA DueStop ==
  ASSUME TypesInv, DueInv, Stop
  PROVE  DueInv'
<1>1. UNCHANGED <<logged, pipe, listener, main, worker>>
  BY DEF Stop
<1>2. /\ \A y : Due(y)' <=> Due(y)
      /\ Entered' <=> Entered
      /\ NoneDueIn(pipe)' <=> NoneDueIn(pipe)
      /\ DueFirst(pipe)' <=> DueFirst(pipe)
  BY <1>1 DEF Due, Entered, InPipe, NoneDueIn, DueFirst
<1>3. CASE stopper = "stop"
  <2>1. Joins(Main, Sentinel) /\ stopper' = "join"
    BY <1>3, BufferJoins, MainIsProc, Item DEF Stop
  <2>2. DOMAIN buffer[Main] = 1..Len(buffer[Main]) /\ Len(buffer[Main]) \in Nat
    BY MainIsProc, Shapes
  <2>3. ~Entered /\ \A i \in DOMAIN buffer[Main] : buffer[Main][i] # Sentinel
    BY <1>3 DEF DueInv, Buffered
  <2>4. DueFirst(buffer[Main])'
    BY <2>1, <2>2, <2>3 DEF Joins, DueFirst
  <2>5. \A w \in Workers : Buffered(w, Sentinel)' <=> Buffered(w, Sentinel)
    BY <2>1, MainIsProc DEF Joins, Buffered
  <2> QED
    BY <1>1, <1>2, <1>3, <2>1, <2>3, <2>4, <2>5, MainIsProc DEF DueInv, Entered
<1>4. CASE stopper # "stop"
  <2>1. listener.pc = "stopped" /\ stopper' = "done" /\ buffer' = buffer
    BY <1>4 DEF Stop
  <2> QED
    BY <1>1, <1>2, <2>1 DEF DueInv, Buffered, NoneDueIn, DueFirst
<1> QED
  BY <1>3, <1>4

LEMMA DueHandle ==
  ASSUME DueInv, Handle
  PROVE  DueInv'
<1>1. /\ UNCHANGED <<logged, buffer, pipe, main, stopper, worker>>
      /\ listener.pc = "handle" /\ listener'.pc = "get"
  BY DEF Handle, queueVars
<1> QED
  BY <1>1 DEF DueInv, Due, DueFirst, NoneDueIn, Entered, InPipe, Buffered

(* What is due is fixed before the sentinel exists.                        *)
LEMMA DueShutdown ==
  ASSUME TypesInv, DueInv, Shutdown
  PROVE  DueInv'
<1>1. /\ logged[Main] <= MaxRecords /\ Put(Main) /\ stopper = "off" /\ stopper' = "stop"
      /\ UNCHANGED <<listener, written, worker>>
      /\ main'.pc = "stopping" /\ main'.due = [p \in Procs |->
           IF p = Main \/ worker[p] = "gone" THEN logged'[p] ELSE 0]
  BY DEF Shutdown, TypesInv, Phases, ControlTypes
<1>2. /\ Joins(Main, Record(Main, logged[Main] + 1)) /\ pipe' = pipe
      /\ Record(Main, logged[Main] + 1) # Sentinel
      /\ \A p \in Procs : logged'[p] \in Nat
  <2>1. \A p \in Procs : logged'[p] = logged[p] \/ logged'[p] = logged[p] + 1
    BY <1>1, PutChange, MainIsProc
  <2> QED
    BY <1>1, <2>1, PutChange, MainIsProc, Item, Shapes
<1>3. /\ \A p \in Procs : main'.due[p] <= logged'[p]
      /\ \A w \in Workers : main'.due[w] # 0 => worker[w] = "gone"
  BY <1>1, <1>2, MainIsProc
<1>4. ~Entered /\ ~Entered' /\ \A p \in Procs : ~Buffered(p, Sentinel)
  BY <1>1, <1>2 DEF DueInv, Entered, InPipe, Procs
<1>5. \A p \in Procs : ~Buffered(p, Sentinel)'
  <2>1. DOMAIN buffer[Main] = 1..Len(buffer[Main]) /\ Len(buffer[Main]) \in Nat
    BY MainIsProc, Shapes
  <2>2. \A i \in DOMAIN buffer'[Main] : buffer'[Main][i] # Sentinel
    BY <1>2, <1>4, <2>1, MainIsProc DEF Joins, Buffered
  <2> QED
    BY <1>2, <1>4, <2>2 DEF Joins, Buffered
<1>6. DueFirst(pipe)' /\ DueFirst(buffer[Main])'
  BY <1>4, <1>5, MainIsProc DEF DueFirst, Entered, InPipe, Buffered
<1> QED
  BY <1>1, <1>3, <1>4, <1>5, <1>6, MainIsProc DEF DueInv, Entered

LEMMA DueWaits ==
  ASSUME TypesInv, DueInv, Waits \/ UNCHANGED vars
  PROVE  DueInv'
<1>1. UNCHANGED <<logged, buffer, pipe, listener, stopper>>
  BY DEF Waits, Joined, CloseHandlers, Exit, Exited, Spawn, EndWorker, queueVars, vars
<1>2. main'.due = main.due
  BY DEF Waits, Joined, CloseHandlers, Exit, Exited, Spawn, EndWorker, vars, TypesInv, ControlTypes
<1>3. /\ \A y : Due(y)' <=> Due(y)
      /\ \A p \in Procs : \A y : Buffered(p, y)' <=> Buffered(p, y)
      /\ Entered' <=> Entered
      /\ NoneDueIn(pipe)' <=> NoneDueIn(pipe)
      /\ DueFirst(pipe)' <=> DueFirst(pipe)
      /\ NoneDueIn(buffer[Main])' <=> NoneDueIn(buffer[Main])
      /\ DueFirst(buffer[Main])' <=> DueFirst(buffer[Main])
  BY <1>1, <1>2 DEF Due, Buffered, Entered, InPipe, NoneDueIn, DueFirst
<1>4. main'.pc = "run" => main.pc = "run"
  BY DEF Waits, Joined, CloseHandlers, Exit, Exited, Spawn, EndWorker, vars, TypesInv, ControlTypes
<1>5. main'.pc \in {"closing", "shut"} /\ ~main'.timedOut => stopper = "done"
  BY DEF Waits, Joined, CloseHandlers, Exit, Exited, Spawn, EndWorker, vars, TypesInv, ControlTypes,
         DueInv
<1>6. \A w \in Workers : worker[w] = "gone" => worker'[w] = "gone"
  BY DEF Waits, Joined, CloseHandlers, Exit, Exited, Spawn, EndWorker, vars, TypesInv, ControlTypes
<1> QED
  BY <1>1, <1>2, <1>3, <1>4, <1>5, <1>6, MainIsProc DEF DueInv

LEMMA DueStep == TypesInv /\ OrderInv /\ DueInv /\ [Next]_vars => DueInv'
<1> SUFFICES ASSUME TypesInv, OrderInv, DueInv, [Next]_vars
             PROVE  DueInv'
  OBVIOUS
<1>1. CASE LogMain
  <2>1. logged[Main] <= MaxRecords /\ Put(Main) /\ UNCHANGED <<listener, main, stopper, worker>>
    BY <1>1, MainIsProc, Shapes DEF LogMain
  <2> QED
    BY <2>1, MainIsProc, DuePut
<1>2. ASSUME NEW w \in Workers, LogWorker(w) PROVE DueInv'
  <2>1. logged[w] <= MaxRecords /\ Put(w) /\ UNCHANGED <<listener, main, stopper, worker>>
    BY <1>2, MainIsProc, Shapes DEF LogWorker
  <2> QED
    BY <2>1, MainIsProc, DuePut
<1> QED
  BY <1>1, <1>2, DueFeed, DueGet, DueHandle, DueStop, DueShutdown, DueWaits DEF Next, Waits

LogInv == TypesInv /\ OrderInv /\ DueInv

LEMMA LogInvariant == Spec => []LogInv
<1>1. Init => LogInv
  BY TypesInit, OrderInit, DueInit DEF LogInv
<1>2. LogInv /\ [Next]_vars => LogInv'
  BY TypesStep, OrderStep, DueStep DEF LogInv
<1> QED
  BY <1>1, <1>2, PTL DEF Spec

(* A shutdown that does not run into its time limit has written what the   *)
(* main process had logged, and what workers had that were gone by then:   *)
(* for any number of workers, any pipe, and whoever else logs meanwhile.   *)
THEOREM Drains == Spec => []ShutdownDrains
<1>1. ASSUME LogInv PROVE ShutdownDrains
  <2> USE <1>1 DEF LogInv
  <2>1. LogTypeOK
    BY DEF LogTypeOK, TypesInv, QueueTypes, ControlTypes, Phases
  <2>2. ASSUME main.pc \in {"closing", "shut"}, ~main.timedOut, NEW p \in Procs,
               ~(Len(written[p]) >= main.due[p])
        PROVE  FALSE
    <3> DEFINE k == main.due[p]
    <3>1. k \in 0..(MaxRecords + 1) /\ k <= logged[p]
      BY DEF TypesInv, ControlTypes, DueInv
    <3>2. k \in Numbers /\ k \in 1..logged[p] /\ ~(k <= Len(written[p]))
      BY <2>2, <3>1, Shapes DEF Numbers
    <3>3. listener.pc = "stopped" /\ NoneDueIn(pipe) /\ NoneDueIn(buffer[Main])
      BY <2>2 DEF DueInv, Entered
    <3>4. Due(Record(p, k))
      BY <3>2 DEF Due, Numbers
    <3> HIDE DEF k
    <3>5. InPipe(Record(p, k)) \/ Buffered(p, Record(p, k))
      BY <3>2, <3>3 DEF OrderInv, NoneMissing, Held
    <3>6. ~InPipe(Record(p, k))
      BY <3>3, <3>4 DEF InPipe, NoneDueIn
    <3>7. p = Main
      BY <3>4, <3>5, <3>6, DueIsMain
    <3> QED
      BY <3>3, <3>4, <3>5, <3>6, <3>7 DEF Buffered, NoneDueIn
  <2> QED
    BY <2>1, <2>2 DEF ShutdownDrains
<1> QED
  BY <1>1, LogInvariant, PTL

-----------------------------------------------------------------------------
(* A TableLog with a table for each process                                *)

Logged(m) == [n \in 1..m |-> n]

LEMMA LoggedIsSeq ==
  ASSUME NEW m \in Nat
  PROVE  /\ Logged(m) \in Seq(Nat) /\ Len(Logged(m)) = m
         /\ \A i \in 1..m : Logged(m)[i] = i
  BY DEF Logged

LEMMA LoggedGrows ==
  ASSUME NEW m \in Nat
  PROVE  Logged(m + 1) = Logged(m) \o <<m + 1>>
<1> DEFINE s == Logged(m)
           u == <<m + 1>>
<1>1. /\ u \in Seq(Nat) /\ Len(u) = 1 /\ u[1] = m + 1
      /\ m + 1 \in Nat
  OBVIOUS
<1>2. s \in Seq(Nat) /\ Len(s) = m /\ \A i \in 1..m : s[i] = i
  BY LoggedIsSeq
<1> HIDE DEF s, u
<1>3. /\ s \o u \in Seq(Nat) /\ Len(s \o u) = Len(s) + Len(u)
      /\ \A i \in 1..(Len(s) + Len(u)) :
           (s \o u)[i] = IF i <= Len(s) THEN s[i] ELSE u[i - Len(s)]
  BY <1>1, <1>2, ConcatProperties
<1>4. Len(s \o u) = m + 1 /\ \A i \in 1..(m + 1) : (s \o u)[i] = i
  BY <1>1, <1>2, <1>3
<1>5. /\ Logged(m + 1) \in Seq(Nat) /\ Len(Logged(m + 1)) = m + 1
      /\ \A i \in 1..(m + 1) : Logged(m + 1)[i] = i
  BY <1>1, LoggedIsSeq
<1>6. Logged(m + 1) = s \o u
  BY <1>3, <1>4, <1>5, SeqEqual
<1> QED
  BY <1>6 DEF s, u

LEMMA LoggedPrefix ==
  ASSUME NEW s \in Seq(Numbers), NEW m \in Nat, Len(s) <= m,
         \A i \in 1..Len(s) : s[i] = i
  PROVE  s = SubSeq(Logged(m), 1, Len(s))
<1>1. Len(s) \in Nat /\ s \in Seq(Nat)
  BY LogAssumption DEF Numbers
<1>2. ASSUME NEW i \in 1..Len(s) PROVE Logged(m)[i] = i /\ Logged(m)[i] \in Nat
  <2>1. i \in 1..m /\ i \in Nat
    BY <1>1
  <2> QED
    BY <2>1, LoggedIsSeq
<1>3. /\ SubSeq(Logged(m), 1, Len(s)) \in Seq(Nat)
      /\ Len(SubSeq(Logged(m), 1, Len(s))) = Len(s)
      /\ \A i \in 1..Len(s) : SubSeq(Logged(m), 1, Len(s))[i] = i
  BY <1>1, <1>2, SubSeqProperties
<1> QED
  BY <1>1, <1>3, SeqEqual

RecordsOf == [p \in Procs |-> [n \in 1..logged[p] |-> n]]

(* Whatever the processes, the listener and the shutdown do, and in any    *)
(* order: each process's records are written once each, in the order in    *)
(* which they were logged.                                                 *)
THEOREM RecordsInOrder == Spec => ImplementsRecordLog
<1>1. Init => Records!Init
  <2> SUFFICES ASSUME Init PROVE Records!Init
    OBVIOUS
  <2>1. Logged(0) = <<>>
    BY LoggedIsSeq, EmptySeq
  <2> QED
    BY <2>1 DEF Init, Records!Init, Logged
<1>2. LogInv /\ LogInv' /\ [Next]_vars => [Records!Next]_(Records!vars)
  <2> SUFFICES ASSUME LogInv, LogInv', [Next]_vars
               PROVE  [Records!Next]_(Records!vars)
    OBVIOUS
  <2>0. \A p \in Procs : /\ RecordsOf[p] = Logged(logged[p])
                          /\ RecordsOf'[p] = Logged(logged'[p])
    BY DEF RecordsOf, Logged
  <2>1. ASSUME NEW p \in Procs, logged[p] <= MaxRecords, Put(p), UNCHANGED written
        PROVE  Records!Next
    <3>1. /\ logged[p] \in Nat /\ logged[p] + 1 \in 1..(MaxRecords + 1)
          /\ logged' = [logged EXCEPT ![p] = @ + 1] /\ logged'[p] = logged[p] + 1
          /\ \A q \in Procs \ {p} : logged'[q] = logged[q]
      BY <2>1, Shapes DEF LogInv, Put, TypesInv, QueueTypes
    <3>2. RecordsOf'[p] = RecordsOf[p] \o <<logged[p] + 1>>
      BY <2>0, <3>1, LoggedGrows
    <3>3. \A q \in Procs \ {p} : RecordsOf'[q] = RecordsOf[q]
      BY <2>0, <3>1
    <3>4. RecordsOf' = [RecordsOf EXCEPT ![p] = @ \o <<logged[p] + 1>>]
      BY <3>2, <3>3 DEF RecordsOf
    <3>5. Records!Accept(p)
      BY <2>1, <3>1, <3>4 DEF Records!Accept, RecordsOf
    <3> QED
      BY <3>5 DEF Records!Next
  <2>2. CASE LogMain \/ Shutdown
    <3>1. logged[Main] <= MaxRecords /\ Put(Main) /\ UNCHANGED written
      BY <2>2, MainIsProc, Shapes DEF LogMain, Shutdown, LogInv, TypesInv, Phases
    <3> QED
      BY <2>1, <3>1, MainIsProc
  <2>3. ASSUME NEW w \in Workers, LogWorker(w) PROVE Records!Next
    <3>1. logged[w] <= MaxRecords /\ Put(w) /\ UNCHANGED written
      BY <2>3, MainIsProc, Shapes DEF LogWorker, LogInv
    <3> QED
      BY <2>1, <3>1, MainIsProc
  <2>4. CASE Handle
    <3>1. PICK p \in Procs, k \in Numbers :
            listener.item = Record(p, k) /\ k = Len(written[p]) + 1 /\ k <= logged[p]
      BY <2>4, NextRecord DEF LogInv
    <3>2. /\ written' = [written EXCEPT ![p] = written'[p]] /\ Len(written'[p]) = k
          /\ written'[p] \in Seq(Numbers) /\ logged' = logged
      <4>1. /\ Len(written'[p]) = Len(written[p]) + 1
            /\ \A q \in Procs \ {p} : written'[q] = written[q]
        BY <2>4, <3>1, HandleChange DEF LogInv
      <4>2. written \in [Procs -> Seq(Numbers)] /\ written' \in [Procs -> Seq(Numbers)]
        BY DEF LogInv, TypesInv, QueueTypes
      <4>3. written' = [written EXCEPT ![p] = written'[p]]
        BY <4>1, <4>2
      <4> QED
        BY <2>4, <3>1, <4>1, <4>2, <4>3 DEF Handle, queueVars
    <3>3. \A i \in 1..k : written'[p][i] = i
      BY <3>2 DEF LogInv, OrderInv, InPlace
    <3>4. written'[p] = SubSeq(RecordsOf[p], 1, k) /\ Len(RecordsOf[p]) = logged[p]
      <4>1. logged[p] \in Nat /\ k <= logged[p] /\ RecordsOf[p] = Logged(logged[p])
        BY <2>0, <3>1, Shapes DEF LogInv
      <4>2. Len(Logged(logged[p])) = logged[p]
        BY <4>1, LoggedIsSeq
      <4>3. written'[p] = SubSeq(Logged(logged[p]), 1, k)
        BY <3>2, <3>3, <4>1, LoggedPrefix
      <4> QED
        BY <4>1, <4>2, <4>3
    <3>5. k \in Len(written[p]) + 1 .. Len(RecordsOf[p])
      BY <3>1, <3>4, Shapes DEF LogInv, Numbers
    <3>6. Records!Store(p)
      BY <3>2, <3>4, <3>5 DEF Records!Store, RecordsOf
    <3> QED
      BY <3>6 DEF Records!Next
  <2>5. CASE UNCHANGED <<logged, written>>
    BY <2>5 DEF Records!vars
  <2>6. ASSUME NEW p \in Procs, Feed(p) PROVE UNCHANGED <<logged, written>>
    BY <2>6 DEF Feed
  <2>7. CASE Stop \/ Get \/ Waits \/ UNCHANGED vars
    BY <2>5, <2>7 DEF Stop, Get, Waits, Joined, CloseHandlers, Exit, Exited, Spawn, EndWorker,
                      queueVars, vars
  <2> QED
    BY <2>2, <2>3, <2>4, <2>5, <2>6, <2>7 DEF Next, Waits
<1> QED
  BY <1>1, <1>2, LogInvariant, PTL DEF Spec, ImplementsRecordLog, Records!Spec
=============================================================================
