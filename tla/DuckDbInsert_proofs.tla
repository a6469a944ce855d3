------------------------- MODULE DuckDbInsert_proofs -------------------------
(***************************************************************************)
(* Proofs about the writes of a DuckDbStore, for any threads, tables, rows *)
(* and numbers of calls.                                                   *)
(***************************************************************************)
EXTENDS DuckDbInsertProperties, RowTable_proofs, SequenceTheorems

-----------------------------------------------------------------------------
(* The inductive invariant                                                 *)

Schemas == {"none", "plain", "unique"}
WriteRecord == [pc : {"idle", "run", "commit", "raised"},
                kind : {"none", "insert", "txn", "ensure"},
                mode : {"none", "append", "insert_ignore", "upsert"},
                table : Tables \cup {"none"}, batch : SUBSET Rows, statements : Seq(Rows),
                create : Schemas, removed : Table, added : Table,
                calls : Nat, result : {"none", "ok", "error"}]

(* What a call has asked for.                                              *)
CallOK(w) ==
  /\ w.pc = "idle" <=> w.kind = "none"
  /\ w.kind # "none" => w.table \in Tables /\ w.result = "none"
  /\ w.kind = "insert" => w.mode \in Modes /\ w.batch # {} /\ w.create = "none"
  /\ w.kind = "txn" => w.mode = "append" /\ w.batch # {} /\ w.create = "none"
  /\ w.kind = "ensure" => /\ w.removed = Nothing /\ w.added = Nothing
                          /\ w.pc = "run" => w.create # "none"

(* A transaction that still has statements has made the changes of the     *)
(* others.                                                                 *)
Running(w) ==
  (w.pc = "run" /\ w.kind = "txn") =>
    /\ w.statements # <<>> /\ IsInjective(w.statements)
    /\ Range(w.statements) \subseteq w.batch
    /\ w.removed = Nothing /\ w.added = Copies(w.batch \ Range(w.statements))

(* What waits for a COMMIT can still be what the write would do now.       *)
Waiting(w, how, table) ==
  w.pc = "commit" =>
    /\ w.create = "none" => how # "none"
    /\ w.kind # "ensure" =>
         /\ w.mode # "append" => how = "unique"
         /\ Prepared(w.mode, table, w.batch, w)

TableOK(how, table) ==
  /\ how = "none" => table = Nothing
  /\ how = "unique" => KeysUnique(table)

StoreInv ==
  /\ schema \in [Tables -> Schemas]
  /\ tables \in [Tables -> Table]
  /\ \A n \in Tables : TableOK(schema[n], tables[n])
  /\ write \in [Writers -> WriteRecord]
  /\ \A t \in Writers : /\ CallOK(write[t])
                        /\ Running(write[t])
  /\ \A t \in Writers, n \in Tables :
       write[t].table = n => Waiting(write[t], schema[n], tables[n])

-----------------------------------------------------------------------------
(* What becomes of a call                                                  *)

Becomes(t, w) ==
  /\ write' = [write EXCEPT ![t] = w]
  /\ w \in WriteRecord /\ CallOK(w) /\ Running(w)
Same(w, x) ==
  w.kind = x.kind /\ w.mode = x.mode /\ w.table = x.table /\ w.batch = x.batch
                  /\ w.result = x.result

LEMMA NoWriteIs ==
  /\ NoWrite \in WriteRecord
  /\ NoWrite.pc = "idle" /\ NoWrite.kind = "none" /\ NoWrite.mode = "none"
  /\ NoWrite.table = "none" /\ NoWrite.batch = {} /\ NoWrite.statements = <<>>
  /\ NoWrite.create = "none" /\ NoWrite.removed = Nothing /\ NoWrite.added = Nothing
  /\ NoWrite.calls = 0 /\ NoWrite.result = "none"
<1>1. Nothing \in Table
  BY CopiesIs
<1> QED
  BY <1>1 DEF NoWrite, WriteRecord, Schemas

LEMMA RaisedIs ==
  ASSUME NEW w \in WriteRecord
  PROVE  /\ Raised(w) \in WriteRecord /\ Same(Raised(w), w)
         /\ Raised(w).pc = "raised" /\ Raised(w).create = "none"
         /\ Raised(w).removed = Nothing /\ Raised(w).added = Nothing
<1> DEFINE z == Raised(w)
<1>1. Nothing \in Table /\ <<>> \in Seq(Rows)
  BY CopiesIs
<1>2. z = [w EXCEPT !.pc = "raised", !.statements = <<>>, !.create = "none",
                    !.removed = Nothing, !.added = Nothing]
  BY DEF Raised
<1> HIDE DEF z
<1>3. z \in WriteRecord
  BY <1>1, <1>2 DEF WriteRecord, Schemas
<1>4. z.pc = "raised" /\ z.create = "none" /\ z.removed = Nothing /\ z.added = Nothing
  BY <1>2 DEF WriteRecord
<1>5. Same(z, w)
  BY <1>2 DEF WriteRecord, Same
<1> QED
  BY <1>3, <1>4, <1>5 DEF z

LEMMA RaisedOK ==
  ASSUME NEW w \in WriteRecord, CallOK(w), w.pc # "idle"
  PROVE  CallOK(Raised(w)) /\ Running(Raised(w))
  BY RaisedIs DEF CallOK, Running, Same

LEMMA EndedIs ==
  ASSUME NEW w \in WriteRecord, NEW result \in {"ok", "error"}
  PROVE  /\ Ended(w, result) \in WriteRecord
         /\ Ended(w, result).pc = "idle" /\ Ended(w, result).kind = "none"
         /\ Ended(w, result).mode = "none" /\ Ended(w, result).result = result
         /\ CallOK(Ended(w, result)) /\ Running(Ended(w, result))
<1> DEFINE z == Ended(w, result)
<1>1. z = [NoWrite EXCEPT !.result = result, !.calls = w.calls]
  BY DEF Ended
<1>2. w.calls \in Nat
  BY DEF WriteRecord
<1> HIDE DEF z
<1>3. /\ z \in WriteRecord /\ z.pc = "idle" /\ z.kind = "none" /\ z.mode = "none"
      /\ z.result = result
  BY <1>1, <1>2, NoWriteIs DEF WriteRecord
<1> QED
  BY <1>3 DEF z, CallOK, Running

(* A call of some kind becomes a request.                                  *)
LEMMA CalledIs ==
  ASSUME StoreInv, NEW t \in Writers, NEW w \in WriteRecord,
         w.kind \in {"insert", "txn", "ensure"}, w.table \in Tables, w.result = "none",
         w.removed = Nothing, w.added = Nothing,
         w.kind = "insert" => w.mode \in Modes /\ w.batch # {} /\ w.create = "none",
         w.kind = "ensure" => w.create # "none",
         w.kind = "txn" => /\ w.mode = "append" /\ w.batch # {} /\ w.create = "none"
                           /\ w.statements # <<>> /\ IsInjective(w.statements)
                           /\ Range(w.statements) = w.batch,
         Called(t, w)
  PROVE  \E z : Becomes(t, z) /\ Same(z, w) /\ z.pc # "commit"
<1> DEFINE called == [w EXCEPT !.pc = "run", !.calls = write[t].calls + 1]
<1>1. write[t].calls + 1 \in Nat
  BY DEF StoreInv, WriteRecord
<1>2. /\ called \in WriteRecord /\ Same(called, w) /\ called.pc = "run"
      /\ called.create = w.create /\ called.statements = w.statements
      /\ called.removed = w.removed /\ called.added = w.added
  BY <1>1 DEF WriteRecord, Same
<1>3. write' = [write EXCEPT ![t] = called] \/ write' = [write EXCEPT ![t] = Raised(called)]
  BY DEF Called
<1> HIDE DEF called
<1>4. CallOK(called)
  BY <1>2 DEF CallOK, Same
<1>5. Running(called)
  <2>1. CASE w.kind = "txn"
    <3>1. Copies({}) = Nothing
      BY DEF Copies, Nothing
    <3>2. w.batch \ Range(w.statements) = {}
      BY <2>1
    <3> QED
      BY <1>2, <2>1, <3>1, <3>2 DEF Running, Same
  <2>2. CASE w.kind # "txn"
    BY <1>2, <2>2 DEF Running, Same
  <2> QED
    BY <2>1, <2>2
<1>6. Same(Raised(called), w) /\ Raised(called).pc = "raised"
  BY <1>2, RaisedIs DEF Same
<1>7. Raised(called) \in WriteRecord /\ CallOK(Raised(called)) /\ Running(Raised(called))
  BY <1>2, <1>4, RaisedIs, RaisedOK
<1>8. CASE write' = [write EXCEPT ![t] = called]
  BY <1>2, <1>4, <1>5, <1>8 DEF Becomes
<1>9. CASE write' = [write EXCEPT ![t] = Raised(called)]
  BY <1>6, <1>7, <1>9 DEF Becomes
<1> QED
  BY <1>3, <1>8, <1>9

LEMMA CallInsertIs ==
  ASSUME StoreInv, NEW t \in Writers, NEW n \in Tables, NEW m \in Modes, NEW batch \in Batches,
         CallInsert(t, n, m, batch)
  PROVE  \E z : /\ Becomes(t, z) /\ z.pc # "commit" /\ z.kind = "insert"
                /\ z.mode = m /\ z.table = n /\ z.batch = batch
<1> DEFINE w == [NoWrite EXCEPT !.kind = "insert", !.table = n, !.mode = m, !.batch = batch]
<1>1. m \in {"append", "insert_ignore", "upsert"} /\ batch \subseteq Rows /\ batch # {}
  BY DbAssumption DEF Batches
<1>2. /\ w \in WriteRecord /\ w.kind = "insert" /\ w.table = n /\ w.mode = m /\ w.batch = batch
      /\ w.result = "none" /\ w.removed = Nothing /\ w.added = Nothing /\ w.create = "none"
  BY <1>1, NoWriteIs DEF WriteRecord
<1>3. Called(t, w)
  BY DEF CallInsert
<1> HIDE DEF w
<1>4. PICK z : Becomes(t, z) /\ Same(z, w) /\ z.pc # "commit"
  BY <1>1, <1>2, <1>3, CalledIs
<1> QED
  BY <1>2, <1>4 DEF Same

LEMMA ScriptIs ==
  ASSUME NEW script \in Scripts
  PROVE  /\ script \in Seq(Rows) /\ script # <<>> /\ IsInjective(script)
         /\ Range(script) \in Batches
<1>1. PICK i \in 1..2 : script \in [1..i -> Rows]
  BY DEF Scripts
<1>2. script \in Seq(Rows) /\ script # <<>> /\ DOMAIN script = 1..i /\ 1 \in DOMAIN script
  BY <1>1
<1>3. Range(script) \subseteq Rows /\ script[1] \in Range(script)
  BY <1>1, <1>2 DEF Range
<1> QED
  BY <1>2, <1>3 DEF Scripts, Batches

LEMMA CallTransactionIs ==
  ASSUME StoreInv, NEW t \in Writers, NEW n \in Tables, NEW script \in Scripts,
         CallTransaction(t, n, script)
  PROVE  \E z : /\ Becomes(t, z) /\ z.pc # "commit" /\ z.kind = "txn"
                /\ z.mode = "append" /\ z.table = n /\ z.batch = Range(script)
<1> DEFINE w == [NoWrite EXCEPT !.kind = "txn", !.table = n, !.mode = "append",
                                !.batch = Range(script), !.statements = script]
<1>1. /\ script \in Seq(Rows) /\ script # <<>> /\ IsInjective(script)
      /\ Range(script) \subseteq Rows /\ Range(script) # {}
  BY ScriptIs DEF Batches
<1>2. /\ w \in WriteRecord /\ w.kind = "txn" /\ w.table = n /\ w.mode = "append"
      /\ w.batch = Range(script) /\ w.statements = script
      /\ w.result = "none" /\ w.removed = Nothing /\ w.added = Nothing /\ w.create = "none"
  BY <1>1, NoWriteIs DEF WriteRecord
<1>3. Called(t, w)
  BY DEF CallTransaction
<1> HIDE DEF w
<1>4. PICK z : Becomes(t, z) /\ Same(z, w) /\ z.pc # "commit"
  BY <1>1, <1>2, <1>3, CalledIs
<1> QED
  BY <1>2, <1>4 DEF Same

LEMMA CallEnsureIs ==
  ASSUME StoreInv, NEW t \in Writers, NEW n \in Tables, NEW create \in {"plain", "unique"},
         CallEnsure(t, n, create)
  PROVE  \E z : Becomes(t, z) /\ z.pc # "commit" /\ z.kind = "ensure" /\ z.result = "none"
<1> DEFINE w == [NoWrite EXCEPT !.kind = "ensure", !.table = n, !.create = create]
<1>1. /\ w \in WriteRecord /\ w.kind = "ensure" /\ w.table = n
      /\ w.result = "none" /\ w.removed = Nothing /\ w.added = Nothing /\ w.create # "none"
  BY NoWriteIs DEF WriteRecord, Schemas
<1>2. Called(t, w)
  BY DEF CallEnsure
<1> HIDE DEF w
<1>3. PICK z : Becomes(t, z) /\ Same(z, w) /\ z.pc # "commit"
  BY <1>1, <1>2, CalledIs
<1> QED
  BY <1>1, <1>3 DEF Same

-----------------------------------------------------------------------------
(* The statements of a call                                                *)

Ready(w) == \A n \in Tables : w.table = n => Waiting(w, schema[n], tables[n])

LEMMA RunIs ==
  ASSUME StoreInv, NEW t \in Writers, Run(t)
  PROVE  \E z : Becomes(t, z) /\ Same(z, write[t]) /\ Ready(z)
<1>1. PICK w \in WriteRecord : w = write[t]
  BY DEF StoreInv
<1>2. /\ w.kind = "insert" /\ w.table \in Tables /\ w.mode \in Modes
      /\ w.batch # {} /\ w.result = "none" /\ w.create = "none"
  BY <1>1 DEF StoreInv, CallOK, Run
<1>3. PICK n \in Tables : n = w.table
  BY <1>2
<1>4. /\ tables[n] \in Table /\ TableOK(schema[n], tables[n])
      /\ w.mode \in {"append", "insert_ignore", "upsert"} /\ w.batch \in SUBSET Rows
  BY <1>2, DbAssumption DEF StoreInv, WriteRecord
<1>5. schema[n] \in {"plain", "unique"} /\ (w.mode # "append" => schema[n] = "unique")
  BY <1>1, <1>3 DEF Run
<1>6. PICK c \in Changes(w.mode, tables[n], w.batch) :
        write' = [write EXCEPT ![t] =
          [w EXCEPT !.pc = "commit", !.removed = c.removed, !.added = c.added]]
  BY <1>1, <1>3 DEF Run
<1>7. c.removed \in Table /\ c.added \in Table
  BY <1>4, ChangeIs
<1>8. Prepared(w.mode, tables[n], w.batch, c)
  BY <1>4, <1>5, ChangePrepared DEF TableOK
<1> DEFINE z == [w EXCEPT !.pc = "commit", !.removed = c.removed, !.added = c.added]
<1>9. /\ z \in WriteRecord /\ Same(z, w) /\ z.pc = "commit" /\ z.create = w.create
      /\ z.removed = c.removed /\ z.added = c.added
  BY <1>7 DEF WriteRecord, Same
<1>10. write' = [write EXCEPT ![t] = z]
  BY <1>6
<1> HIDE DEF z
<1>11. Prepared(z.mode, tables[n], z.batch, z)
  BY <1>8, <1>9 DEF Prepared, Same
<1>12. CallOK(z) /\ Running(z)
  BY <1>2, <1>9 DEF CallOK, Running, Same
<1>13. Ready(z)
  BY <1>2, <1>3, <1>5, <1>9, <1>11 DEF Ready, Waiting, Same
<1> QED
  BY <1>1, <1>9, <1>10, <1>12, <1>13 DEF Becomes

LEMMA TailIs ==
  ASSUME NEW s \in Seq(Rows), s # <<>>, IsInjective(s)
  PROVE  /\ Head(s) \in Range(s) /\ Tail(s) \in Seq(Rows) /\ IsInjective(Tail(s))
         /\ Range(Tail(s)) = Range(s) \ {Head(s)}
<1>1. /\ Len(s) \in Nat /\ Len(s) > 0 /\ DOMAIN s = 1..Len(s) /\ Head(s) = s[1]
      /\ Tail(s) \in Seq(Rows) /\ DOMAIN Tail(s) = 1..(Len(s) - 1)
      /\ \A i \in 1..(Len(s) - 1) : Tail(s)[i] = s[i + 1]
  BY HeadTailProperties
<1> DEFINE z == Tail(s)
<1> HIDE DEF z
<1>2. \A i, j \in 1..Len(s) : s[i] = s[j] => i = j
  BY <1>1 DEF IsInjective
<1>3. IsInjective(z)
  BY <1>1, <1>2 DEF IsInjective, z
<1>4. ASSUME NEW r \in Range(z) PROVE r \in Range(s) /\ r # s[1]
  <2>1. PICK i \in 1..(Len(s) - 1) : r = s[i + 1]
    BY <1>1 DEF Range, z
  <2>2. i + 1 \in 1..Len(s) /\ i + 1 # 1 /\ 1 \in 1..Len(s)
    BY <1>1
  <2> QED
    BY <1>1, <1>2, <2>1, <2>2 DEF Range
<1>5. ASSUME NEW r \in Range(s), r # s[1] PROVE r \in Range(z)
  <2>1. PICK i \in 1..Len(s) : r = s[i]
    BY <1>1 DEF Range
  <2>2. i - 1 \in 1..(Len(s) - 1) /\ i - 1 + 1 = i
    BY <1>1, <1>5, <2>1
  <2> QED
    BY <1>1, <2>1, <2>2 DEF Range, z
<1>6. s[1] \in Range(s)
  BY <1>1 DEF Range
<1> QED
  BY <1>1, <1>3, <1>4, <1>5, <1>6 DEF z

LEMMA RunStatementIs ==
  ASSUME StoreInv, NEW t \in Writers, RunStatement(t)
  PROVE  \E z : Becomes(t, z) /\ Same(z, write[t]) /\ Ready(z)
<1>1. PICK w \in WriteRecord : w = write[t]
  BY DEF StoreInv
<1>2. /\ w.pc = "run" /\ w.kind = "txn" /\ w.table \in Tables /\ w.mode = "append"
      /\ w.batch # {} /\ w.result = "none" /\ w.create = "none"
  BY <1>1 DEF StoreInv, CallOK, RunStatement
<1>3. /\ w.statements \in Seq(Rows) /\ w.statements # <<>> /\ IsInjective(w.statements)
      /\ Range(w.statements) \subseteq w.batch
      /\ w.removed = Nothing /\ w.added = Copies(w.batch \ Range(w.statements))
      /\ w.batch \subseteq Rows
  BY <1>1, <1>2 DEF StoreInv, Running, WriteRecord
<1> DEFINE rest == Tail(w.statements)
           r == Head(w.statements)
           pc == IF rest = <<>> THEN "commit" ELSE "run"
           added == [w.added EXCEPT ![r] = @ + 1]
           z == [w EXCEPT !.statements = rest, !.added = added, !.pc = pc]
<1>4. /\ r \in Range(w.statements) /\ rest \in Seq(Rows) /\ IsInjective(rest)
      /\ Range(rest) = Range(w.statements) \ {r}
  BY <1>3, TailIs
<1>5. schema[w.table] # "none"
  BY <1>1 DEF RunStatement
<1>6. write' = [write EXCEPT ![t] = z]
  BY <1>1 DEF RunStatement
<1> HIDE DEF rest, r
<1>7. added = Copies(w.batch \ Range(rest))
  <2>1. /\ Copies(w.batch \ Range(rest)) \in Table
        /\ Copies(w.batch \ Range(w.statements)) \in Table
        /\ \A q \in Rows : /\ Copies(w.batch \ Range(rest))[q]
                                = (IF q \in w.batch \ Range(rest) THEN 1 ELSE 0)
                           /\ Copies(w.batch \ Range(w.statements))[q]
                                = (IF q \in w.batch \ Range(w.statements) THEN 1 ELSE 0)
    BY CopiesIs
  <2>2. r \in Rows /\ r \in w.batch /\ r \notin Range(rest)
    BY <1>3, <1>4
  <2>3. PICK f \in Table : f = w.added
    BY <1>3, <2>1
  <2>4. added \in Table /\ \A q \in Rows : added[q] = f[q] + IF q = r THEN 1 ELSE 0
    <3>1. added = [f EXCEPT ![r] = f[r] + 1]
      BY <2>3
    <3> HIDE DEF added
    <3> QED
      BY <2>2, <3>1 DEF Table
  <2>5. \A q \in Rows : f[q] = IF q \in w.batch \ Range(w.statements) THEN 1 ELSE 0
    BY <1>3, <2>1, <2>3
  <2>6. \A q \in Rows :
          (q \in w.batch \ Range(rest)) <=> (q \in w.batch \ Range(w.statements) \/ q = r)
    BY <1>4, <2>2
  <2>7. \A q \in Rows : added[q] = IF q \in w.batch \ Range(rest) THEN 1 ELSE 0
    BY <1>4, <2>4, <2>5, <2>6
  <2>8. \A q \in Rows : added[q] = Copies(w.batch \ Range(rest))[q]
    BY <2>1, <2>7
  <2> HIDE DEF added
  <2> QED
    BY <2>1, <2>4, <2>8, TableEqual
<1>8. added \in Table
  BY <1>7, CopiesIs
<1> HIDE DEF added
<1>9. pc \in {"commit", "run"}
  OBVIOUS
<1> HIDE DEF pc
<1>10. /\ z \in WriteRecord /\ Same(z, w) /\ z.pc = pc /\ z.create = w.create
       /\ z.statements = rest /\ z.added = added /\ z.removed = w.removed
  BY <1>4, <1>8, <1>9 DEF WriteRecord, Same
<1> HIDE DEF z
<1>11. CallOK(z)
  BY <1>2, <1>9, <1>10 DEF CallOK, Same
<1>12. Running(z)
  BY <1>3, <1>4, <1>7, <1>10 DEF Running, Same, pc
<1>13. Ready(z)
  <2> SUFFICES ASSUME NEW n \in Tables, z.table = n, z.pc = "commit"
               PROVE  Waiting(z, schema[n], tables[n])
    BY DEF Ready, Waiting
  <2>1. Range(<<>>) = {} /\ rest = <<>>
    BY <1>10 DEF Range, pc
  <2>2. z.added = Copies(z.batch) /\ z.removed = Nothing /\ z.mode = "append"
    BY <1>2, <1>3, <1>7, <1>10, <2>1 DEF Same
  <2>3. Prepared(z.mode, tables[n], z.batch, z)
    BY <2>2 DEF Prepared
  <2>4. schema[n] # "none"
    BY <1>5, <1>10 DEF Same
  <2> QED
    BY <2>2, <2>3, <2>4 DEF Waiting
<1> QED
  BY <1>1, <1>6, <1>10, <1>11, <1>12, <1>13 DEF Becomes

LEMMA RunCreateIs ==
  ASSUME StoreInv, NEW t \in Writers, RunCreate(t)
  PROVE  \E z : Becomes(t, z) /\ Same(z, write[t]) /\ Ready(z)
<1>1. PICK w \in WriteRecord : w = write[t]
  BY DEF StoreInv
<1>2. /\ w.pc = "run" /\ w.kind = "ensure" /\ w.table \in Tables /\ w.result = "none"
      /\ w.removed = Nothing /\ w.added = Nothing /\ w.create \in Schemas \ {"none"}
  BY <1>1 DEF StoreInv, CallOK, RunCreate, WriteRecord
<1> DEFINE create == IF schema[w.table] = "none" THEN w.create ELSE "none"
           z == [w EXCEPT !.pc = "commit", !.create = create]
<1>3. write' = [write EXCEPT ![t] = z]
  BY <1>1 DEF RunCreate
<1>4. create \in Schemas
  BY <1>2 DEF Schemas
<1>5. /\ z \in WriteRecord /\ Same(z, w) /\ z.pc = "commit" /\ z.create = create
      /\ z.removed = w.removed /\ z.added = w.added
  BY <1>4 DEF WriteRecord, Same
<1> HIDE DEF z
<1>6. CallOK(z) /\ Running(z)
  BY <1>2, <1>5 DEF CallOK, Running, Same
<1>7. Ready(z)
  BY <1>2, <1>5 DEF Ready, Waiting, Same
<1> QED
  BY <1>1, <1>3, <1>5, <1>6, <1>7 DEF Becomes

LEMMA FailIs ==
  ASSUME StoreInv, NEW t \in Writers, Fail(t)
  PROVE  \E z : Becomes(t, z) /\ Same(z, write[t]) /\ Ready(z)
<1>1. PICK w \in WriteRecord : w = write[t]
  BY DEF StoreInv
<1>2. CallOK(w) /\ w.pc = "run"
  BY <1>1 DEF StoreInv, Fail
<1>3. write' = [write EXCEPT ![t] = Raised(w)]
  BY <1>1 DEF Fail
<1>4. CallOK(Raised(w)) /\ Running(Raised(w))
  BY <1>2, RaisedOK
<1>5. Ready(Raised(w))
  BY RaisedIs DEF Ready, Waiting
<1> QED
  BY <1>1, <1>3, <1>4, <1>5, RaisedIs DEF Becomes

LEMMA EndedReady ==
  ASSUME NEW w \in WriteRecord, NEW result \in {"ok", "error"}
  PROVE  Ready(Ended(w, result))
  BY EndedIs DEF Ready, Waiting

LEMMA RaiseIs ==
  ASSUME StoreInv, NEW t \in Writers, Raise(t)
  PROVE  \E z : /\ Becomes(t, z) /\ Ready(z)
                /\ z.kind = "none" /\ z.result = "error"
<1>1. PICK w \in WriteRecord : w = write[t]
  BY DEF StoreInv
<1>2. write' = [write EXCEPT ![t] = Ended(w, "error")]
  BY <1>1 DEF Raise
<1> DEFINE z == Ended(w, "error")
<1>3. /\ z \in WriteRecord /\ z.kind = "none" /\ z.result = "error"
      /\ CallOK(z) /\ Running(z) /\ Ready(z)
  BY EndedIs, EndedReady
<1> HIDE DEF z
<1>4. Becomes(t, z)
  BY <1>2, <1>3 DEF Becomes, z
<1> QED
  BY <1>3, <1>4

-----------------------------------------------------------------------------
(* COMMIT                                                                  *)

How(w) == IF w.create = "none" THEN schema[w.table] ELSE w.create

LEMMA CommitApplies ==
  ASSUME StoreInv, NEW t \in Writers, NEW w \in WriteRecord, w = write[t],
         w.pc = "commit", Fits(w), NEW n \in Tables, n = w.table
  PROVE  /\ Changed(tables[n], w) \in Table
         /\ How(w) \in Schemas \ {"none"} /\ TableOK(How(w), Changed(tables[n], w))
         /\ schema[n] # "none" => How(w) = schema[n]
         /\ \A k \in Keys : HasKey(tables[n], k) => HasKey(Changed(tables[n], w), k)
         /\ w.kind = "ensure" => Changed(tables[n], w) = tables[n]
         /\ w.kind # "ensure" => \E c \in Changes(w.mode, tables[n], w.batch) :
              Changed(tables[n], w) = Changed(tables[n], c)
<1>1. PICK table \in Table : table = tables[n]
  BY DEF StoreInv
<1> DEFINE after == Changed(table, w)
<1>2. /\ TableOK(schema[n], table) /\ Waiting(w, schema[n], table) /\ CallOK(w)
      /\ schema[n] \in Schemas /\ w.create \in Schemas
      /\ w.removed \in Table /\ w.added \in Table /\ w.batch \in SUBSET Rows
      /\ w.kind \in {"none", "insert", "txn", "ensure"}
  BY <1>1 DEF StoreInv, WriteRecord
<1>3. /\ w.create # "none" => schema[n] = "none"
      /\ \A r \in Rows : w.removed[r] <= table[r]
      /\ schema[n] = "unique" => KeysUnique(after)
  BY <1>1 DEF Fits
<1>4. /\ after \in Table
      /\ \A r \in Rows : after[r] = table[r] - w.removed[r] + w.added[r]
  BY <1>2, <1>3, ChangedIs
<1> HIDE DEF after
<1>5. How(w) \in Schemas \ {"none"} /\ (schema[n] # "none" => How(w) = schema[n])
  BY <1>2, <1>3 DEF How, Waiting
<1>6. CASE w.kind = "ensure"
  <2>1. \A r \in Rows : after[r] = table[r]
    BY <1>2, <1>4, <1>6, CopiesIs DEF CallOK, Table
  <2>2. after = table
    BY <1>4, <2>1, TableEqual
  <2>3. KeysUnique(Nothing)
    BY CopiesIs DEF KeysUnique
  <2>4. TableOK(How(w), after)
    BY <1>2, <1>3, <1>5, <2>2, <2>3 DEF TableOK, Schemas
  <2> QED
    BY <1>1, <1>4, <1>5, <1>6, <2>2, <2>4 DEF after
<1>7. CASE w.kind # "ensure"
  <2>1. /\ w.create = "none" /\ schema[n] # "none" /\ Prepared(w.mode, table, w.batch, w)
        /\ w.mode \in {"append", "insert_ignore", "upsert"}
        /\ w.mode # "append" => schema[n] = "unique"
    BY <1>2, <1>7, DbAssumption DEF CallOK, Waiting
  <2>2. w.mode # "append" => KeysUnique(table) /\ KeysUnique(after)
    BY <1>2, <1>3, <2>1 DEF TableOK
  <2>3. PICK c \in Changes(w.mode, table, w.batch) : after = Changed(table, c)
    BY <1>2, <1>3, <2>1, <2>2, PreparedFits DEF after
  <2>4. \A k \in Keys : HasKey(table, k) => HasKey(after, k)
    <3>1. CASE w.mode = "append"
      <4>1. \A r \in Rows : after[r] >= table[r]
        BY <1>2, <1>4, <2>1, <3>1, CopiesIs DEF Prepared, Table
      <4>2. \A r \in Rows : table[r] \in Nat /\ after[r] \in Nat
        BY <1>4 DEF Table
      <4> QED
        BY <4>1, <4>2 DEF HasKey
    <3>2. CASE w.mode # "append"
      <4>1. w.mode \in {"insert_ignore", "upsert"}
        BY <2>1, <3>2
      <4>2. Left(w.mode, table, w.batch, after)
        BY <1>2, <2>2, <2>3, <3>2, <4>1, ChangeLeaves
      <4>3. PICK batch \in SUBSET Rows : batch = w.batch
        BY <1>2
      <4>4. PICK mode \in {"insert_ignore", "upsert"} : mode = w.mode
        BY <4>1
      <4>5. Left(mode, table, batch, after) /\ KeysUnique(table)
        BY <2>2, <3>2, <4>2, <4>3, <4>4
      <4>6. after \in Table
        BY <1>4
      <4> QED
        BY <4>5, <4>6, LeftKeeps
    <3> QED
      BY <3>1, <3>2
  <2>5. TableOK(How(w), after)
    BY <1>3, <1>5, <2>1 DEF TableOK
  <2> QED
    BY <1>1, <1>4, <1>5, <1>7, <2>3, <2>4, <2>5 DEF after
<1> QED
  BY <1>6, <1>7

LEMMA WaitingStays ==
  ASSUME NEW w \in WriteRecord, NEW how, NEW how2, NEW table \in Table, NEW table2 \in Table,
         Waiting(w, how, table), how # "none" => how2 = how,
         \A k \in Keys : HasKey(table, k) => HasKey(table2, k)
  PROVE  Waiting(w, how2, table2)
<1> SUFFICES ASSUME w.pc = "commit"
             PROVE  /\ w.create = "none" => how2 # "none"
                    /\ w.kind # "ensure" =>
                         /\ w.mode # "append" => how2 = "unique"
                         /\ Prepared(w.mode, table2, w.batch, w)
  BY DEF Waiting
<1>1. w.batch \in SUBSET Rows
  BY DEF WriteRecord
<1>2. w.kind # "ensure" => Prepared(w.mode, table2, w.batch, w)
  BY <1>1, PreparedStays DEF Waiting
<1> QED
  BY <1>2 DEF Waiting

(* A COMMIT that applies the changes changes one table as the write would  *)
(* have changed it in that moment.                                         *)
LEMMA CommitIs ==
  ASSUME StoreInv, NEW t \in Writers, NEW o \in CommitOutcomes, Commit(t, o)
  PROVE  /\ write[t].table \in Tables /\ write[t].kind # "none" /\ write[t].result = "none"
         /\ \E z : /\ Becomes(t, z) /\ Ready(z) /\ z.pc # "commit"
                   /\ o = "committed" => z.kind = "none" /\ z.result = "ok"
                   /\ o # "committed" => Same(z, write[t])
<1>1. PICK w \in WriteRecord : w = write[t]
  BY DEF StoreInv
<1>2. CallOK(w) /\ w.pc = "commit" /\ w.table \in Tables /\ w.kind # "none" /\ w.result = "none"
  BY <1>1 DEF StoreInv, Commit, CallOK
<1>3. CASE o = "committed"
  <2>1. write' = [write EXCEPT ![t] = Ended(w, "ok")]
    BY <1>1, <1>3 DEF Commit
  <2> QED
    BY <1>1, <1>2, <1>3, <2>1, EndedIs, EndedReady DEF Becomes
<1>4. CASE o # "committed"
  <2>1. write' = [write EXCEPT ![t] = Raised(w)]
    BY <1>1, <1>4 DEF Commit
  <2>2. Raised(w).pc = "raised"
    BY RaisedIs
  <2>3. CallOK(Raised(w)) /\ Running(Raised(w))
    BY <1>2, RaisedOK
  <2>4. Ready(Raised(w))
    BY <2>2 DEF Ready, Waiting
  <2> QED
    BY <1>1, <1>2, <1>4, <2>1, <2>2, <2>3, <2>4, RaisedIs DEF Becomes
<1> QED
  BY <1>3, <1>4

-----------------------------------------------------------------------------
(* The invariant holds                                                     *)

LEMMA Keeps ==
  ASSUME StoreInv, NEW t \in Writers, NEW z, Becomes(t, z), Ready(z),
         UNCHANGED <<schema, tables>>
  PROVE  StoreInv'
<1>1. /\ write' \in [Writers -> WriteRecord]
      /\ \A u \in Writers : write'[u] = IF u = t THEN z ELSE write[u]
  BY DEF Becomes, StoreInv
<1>2. \A u \in Writers : CallOK(write'[u]) /\ Running(write'[u])
  BY <1>1 DEF Becomes, StoreInv
<1>3. \A u \in Writers, n \in Tables :
        write'[u].table = n => Waiting(write'[u], schema[n], tables[n])
  BY <1>1 DEF Ready, StoreInv
<1>4. /\ schema \in [Tables -> Schemas] /\ tables \in [Tables -> Table]
      /\ \A n \in Tables : TableOK(schema[n], tables[n])
  BY DEF StoreInv
<1> QED
  BY <1>1, <1>2, <1>3, <1>4 DEF StoreInv

LEMMA CommitKeeps ==
  ASSUME StoreInv, NEW t \in Writers, NEW o \in CommitOutcomes, Commit(t, o)
  PROVE  StoreInv'
<1>1. PICK z : Becomes(t, z) /\ Ready(z) /\ z.pc # "commit"
  BY CommitIs
<1>2. CASE o = "rolledBack"
  BY <1>1, <1>2, Keeps DEF Commit
<1>3. CASE o # "rolledBack"
  <2>1. PICK w \in WriteRecord : w = write[t]
    BY DEF StoreInv
  <2>2. w.table \in Tables
    BY <2>1, CommitIs
  <2>3. PICK n \in Tables : n = w.table
    BY <2>2
  <2>4. /\ w.pc = "commit" /\ Fits(w)
        /\ schema' = [schema EXCEPT ![n] = How(w)]
        /\ tables' = [tables EXCEPT ![n] = Changed(tables[n], w)]
    BY <1>3, <2>1, <2>3 DEF Commit, How
  <2>5. PICK table \in Table : table = tables[n]
    BY DEF StoreInv
  <2>6. PICK after \in Table : after = Changed(table, w)
    BY <2>1, <2>3, <2>4, <2>5, CommitApplies
  <2>7. PICK how \in Schemas : how = How(w)
    BY <2>1, <2>3, <2>4, CommitApplies
  <2>8. /\ TableOK(how, after) /\ (schema[n] # "none" => how = schema[n])
        /\ \A k \in Keys : HasKey(table, k) => HasKey(after, k)
    BY <2>1, <2>3, <2>4, <2>5, <2>6, <2>7, CommitApplies
  <2>9. /\ schema' \in [Tables -> Schemas] /\ tables' \in [Tables -> Table]
        /\ \A m \in Tables : /\ schema'[m] = IF m = n THEN how ELSE schema[m]
                             /\ tables'[m] = IF m = n THEN after ELSE tables[m]
    BY <2>4, <2>5, <2>6, <2>7 DEF StoreInv
  <2>10. \A m \in Tables : TableOK(schema'[m], tables'[m])
    BY <2>8, <2>9 DEF StoreInv
  <2>11. /\ write' \in [Writers -> WriteRecord]
         /\ \A u \in Writers : write'[u] = IF u = t THEN z ELSE write[u]
    BY <1>1 DEF Becomes, StoreInv
  <2>12. \A u \in Writers : CallOK(write'[u]) /\ Running(write'[u])
    BY <1>1, <2>11 DEF Becomes, StoreInv
  <2>13. ASSUME NEW u \in Writers, NEW m \in Tables, write'[u].table = m
         PROVE  Waiting(write'[u], schema'[m], tables'[m])
    <3>1. PICK x \in WriteRecord : x = write'[u]
      BY <2>11
    <3>2. CASE u = t
      BY <1>1, <2>11, <3>2 DEF Waiting
    <3>3. CASE u # t
      <4>1. x = write[u] /\ Waiting(x, schema[m], tables[m])
        BY <2>11, <2>13, <3>1, <3>3 DEF StoreInv
      <4>2. CASE m = n
        <5>1. Waiting(x, how, after)
          BY <2>5, <2>6, <2>8, <4>1, <4>2, WaitingStays
        <5> QED
          BY <2>9, <3>1, <4>2, <5>1
      <4>3. CASE m # n
        BY <2>9, <3>1, <4>1, <4>3
      <4> QED
        BY <4>2, <4>3
    <3> QED
      BY <3>2, <3>3
  <2> QED
    BY <2>9, <2>10, <2>11, <2>12, <2>13 DEF StoreInv
<1> QED
  BY <1>2, <1>3

LEMMA StoreInvInit == Init => StoreInv
<1> SUFFICES ASSUME Init PROVE StoreInv
  OBVIOUS
<1>1. Nothing \in Table
  BY CopiesIs
<1>2. CallOK(NoWrite) /\ Running(NoWrite) /\ \A how, table : Waiting(NoWrite, how, table)
  BY NoWriteIs DEF CallOK, Running, Waiting
<1>3. write \in [Writers -> WriteRecord] /\ \A t \in Writers : write[t] = NoWrite
  BY NoWriteIs DEF Init
<1>4. /\ schema \in [Tables -> Schemas] /\ tables \in [Tables -> Table]
      /\ \A n \in Tables : schema[n] = "none" /\ tables[n] = Nothing
  BY <1>1 DEF Init, Schemas
<1>5. \A n \in Tables : TableOK(schema[n], tables[n])
  BY <1>4 DEF TableOK
<1> QED
  BY <1>2, <1>3, <1>4, <1>5 DEF StoreInv

(* A step by which a call goes on: nobody else sees it.                    *)
GoesOn(t) == Run(t) \/ RunStatement(t) \/ RunCreate(t) \/ Fail(t)
Calls(t) == \E n \in Tables :
  \/ \E m \in Modes, batch \in Batches : CallInsert(t, n, m, batch)
  \/ \E script \in Scripts : CallTransaction(t, n, script)
  \/ \E create \in {"plain", "unique"} : CallEnsure(t, n, create)

LEMMA NextIs ==
  ASSUME Next
  PROVE  Close \/ \E t \in Writers :
           Calls(t) \/ GoesOn(t) \/ Raise(t) \/ \E o \in CommitOutcomes : Commit(t, o)
  BY DEF Next, Step, GoesOn, Calls

LEMMA GoesOnIs ==
  ASSUME StoreInv, NEW t \in Writers, GoesOn(t)
  PROVE  /\ \E z : Becomes(t, z) /\ Same(z, write[t]) /\ Ready(z)
         /\ UNCHANGED <<schema, tables>>
<1>1. \E z : Becomes(t, z) /\ Same(z, write[t]) /\ Ready(z)
  BY RunIs, RunStatementIs, RunCreateIs, FailIs DEF GoesOn
<1>2. UNCHANGED <<schema, tables>>
  BY DEF GoesOn, Run, RunStatement, RunCreate, Fail
<1> QED
  BY <1>1, <1>2

LEMMA CallsIs ==
  ASSUME StoreInv, NEW t \in Writers, Calls(t)
  PROVE  /\ write[t].pc = "idle"
         /\ \E z : /\ Becomes(t, z) /\ z.pc # "commit"
                   /\ \/ z.kind = "ensure" /\ z.result = "none"
                      \/ /\ z.kind \in {"insert", "txn"} /\ z.table \in Tables
                         /\ z.mode \in Modes \cup {"append"} /\ z.batch \in Batches
         /\ UNCHANGED <<schema, tables>>
<1>1. PICK n \in Tables :
        \/ \E m \in Modes, batch \in Batches : CallInsert(t, n, m, batch)
        \/ \E script \in Scripts : CallTransaction(t, n, script)
        \/ \E create \in {"plain", "unique"} : CallEnsure(t, n, create)
  BY DEF Calls
<1>2. write[t].pc = "idle" /\ UNCHANGED <<schema, tables>>
  BY <1>1 DEF CallInsert, CallTransaction, CallEnsure, Called
<1>3. ASSUME NEW m \in Modes, NEW batch \in Batches, CallInsert(t, n, m, batch)
      PROVE  \E z : /\ Becomes(t, z) /\ z.pc # "commit" /\ z.kind = "insert"
                    /\ z.mode = m /\ z.table = n /\ z.batch = batch
  BY <1>3, CallInsertIs
<1>4. ASSUME NEW script \in Scripts, CallTransaction(t, n, script)
      PROVE  \E z : /\ Becomes(t, z) /\ z.pc # "commit" /\ z.kind = "txn"
                    /\ z.mode = "append" /\ z.table = n /\ z.batch \in Batches
  BY <1>4, CallTransactionIs, ScriptIs
<1>5. ASSUME NEW create \in {"plain", "unique"}, CallEnsure(t, n, create)
      PROVE  \E z : Becomes(t, z) /\ z.pc # "commit" /\ z.kind = "ensure" /\ z.result = "none"
  BY <1>5, CallEnsureIs
<1>6. \E z : /\ Becomes(t, z) /\ z.pc # "commit"
             /\ \/ z.kind = "ensure" /\ z.result = "none"
                \/ /\ z.kind \in {"insert", "txn"} /\ z.table \in Tables
                   /\ z.mode \in Modes \cup {"append"} /\ z.batch \in Batches
  <2>1. CASE \E m \in Modes, batch \in Batches : CallInsert(t, n, m, batch)
    <3>1. PICK m \in Modes, batch \in Batches : CallInsert(t, n, m, batch)
      BY <2>1
    <3>2. PICK z : /\ Becomes(t, z) /\ z.pc # "commit" /\ z.kind = "insert"
                   /\ z.mode = m /\ z.table = n /\ z.batch = batch
      BY <1>3, <3>1
    <3> QED
      BY <3>2
  <2>2. CASE \E script \in Scripts : CallTransaction(t, n, script)
    <3>1. PICK z : /\ Becomes(t, z) /\ z.pc # "commit" /\ z.kind = "txn"
                   /\ z.mode = "append" /\ z.table = n /\ z.batch \in Batches
      BY <1>4, <2>2
    <3> QED
      BY <3>1
  <2>3. CASE \E create \in {"plain", "unique"} : CallEnsure(t, n, create)
    BY <1>5, <2>3
  <2> QED
    BY <1>1, <2>1, <2>2, <2>3
<1> QED
  BY <1>2, <1>6

LEMMA StoreInvNext ==
  ASSUME StoreInv, [Next]_vars
  PROVE  StoreInv'
<1>1. CASE UNCHANGED vars
  <2>1. UNCHANGED <<schema, tables, write>>
    BY <1>1 DEF vars
  <2> QED
    BY <2>1 DEF StoreInv, CallOK, Running, Waiting
<1>2. CASE Close
  <2>1. UNCHANGED <<schema, tables, write>>
    BY <1>2 DEF Close
  <2> QED
    BY <2>1 DEF StoreInv, CallOK, Running, Waiting
<1>3. ASSUME NEW t \in Writers, Calls(t) PROVE StoreInv'
  <2>1. UNCHANGED <<schema, tables>> /\ \E z : Becomes(t, z) /\ z.pc # "commit"
    BY <1>3, CallsIs
  <2>2. PICK z : Becomes(t, z) /\ z.pc # "commit"
    BY <2>1
  <2>3. Ready(z)
    BY <2>2 DEF Ready, Waiting
  <2> QED
    BY <2>1, <2>2, <2>3, Keeps
<1>4. ASSUME NEW t \in Writers, GoesOn(t) PROVE StoreInv'
  BY <1>4, GoesOnIs, Keeps
<1>5. ASSUME NEW t \in Writers, Raise(t) PROVE StoreInv'
  BY <1>5, RaiseIs, Keeps DEF Raise
<1>6. ASSUME NEW t \in Writers, NEW o \in CommitOutcomes, Commit(t, o) PROVE StoreInv'
  BY <1>6, CommitKeeps
<1> QED
  BY <1>1, <1>2, <1>3, <1>4, <1>5, <1>6, NextIs

LEMMA StoreInvariant == Spec => []StoreInv
<1> QED
  BY StoreInvInit, StoreInvNext, PTL DEF Spec

-----------------------------------------------------------------------------
(* A write that returns is there                                           *)

LEMMA ChangeDelivers ==
  ASSUME NEW table \in Table, NEW w \in WriteRecord,
         w.mode \in {"append", "insert_ignore", "upsert"},
         w.mode # "append" => KeysUnique(table),
         NEW c \in Changes(w.mode, table, w.batch)
  PROVE  Delivered(w, table, Changed(table, c))
<1> DEFINE after == Changed(table, c)
<1>1. w.batch \in SUBSET Rows
  BY DEF WriteRecord
<1>2. /\ after \in Table
      /\ \A r \in Rows : after[r] = table[r] - c.removed[r] + c.added[r]
  BY <1>1, ChangeIs, ChangedIs
<1>3. CASE w.mode = "append"
  <2>1. c.removed = Nothing /\ c.added = Copies(w.batch)
    BY <1>1, <1>3, ChangeIs
  <2> HIDE DEF after
  <2>2. \A r \in Rows : after[r] - table[r] = IF r \in w.batch THEN 1 ELSE 0
    BY <1>2, <2>1, CopiesIs DEF Table
  <2> QED
    BY <1>3, <2>2 DEF Delivered, after
<1>4. CASE w.mode # "append"
  <2>1. w.mode \in {"insert_ignore", "upsert"}
    BY <1>4
  <2>2. Left(w.mode, table, w.batch, after)
    BY <1>1, <1>4, <2>1, ChangeLeaves
  <2> HIDE DEF after
  <2>3. ASSUME NEW k \in Keys, NEW r \in w.batch, r.key = k, Sole(after, k, r)
        PROVE  RowsOf(after, k) = {r} /\ after[r] = 1
    BY <1>1, <2>3 DEF Sole, RowsOf
  <2>4. ASSUME NEW k \in Keys
        PROVE  IF k \notin KeysOf(w.batch) \/ (w.mode = "insert_ignore" /\ HasKey(table, k))
               THEN \A r \in Rows : r.key = k => after[r] = table[r]
               ELSE \E r \in w.batch : r.key = k /\ RowsOf(after, k) = {r} /\ after[r] = 1
    <3>1. CASE Untouched(w.mode, table, w.batch, k)
      <4>1. \A r \in Rows : r.key = k => after[r] = table[r]
        BY <2>2, <3>1 DEF Left
      <4> QED
        BY <3>1, <4>1 DEF Untouched
    <3>2. CASE ~Untouched(w.mode, table, w.batch, k)
      <4>1. PICK r \in w.batch : r.key = k /\ Sole(after, k, r)
        BY <2>2, <3>2 DEF Left
      <4>2. RowsOf(after, k) = {r} /\ after[r] = 1
        BY <2>3, <4>1
      <4> QED
        BY <3>2, <4>1, <4>2 DEF Untouched
    <3> QED
      BY <3>1, <3>2
  <2> QED
    BY <1>4, <2>4 DEF Delivered, after
<1> QED
  BY <1>3, <1>4

(* Only the COMMIT of a call lets it return.                               *)
LEMMA ReturnsByCommit ==
  ASSUME StoreInv, Next, NEW t \in Writers,
         write[t].pc # "idle", write'[t].pc = "idle", write'[t].result = "ok"
  PROVE  "committed" \in CommitOutcomes /\ Commit(t, "committed")
<1>1. write \in [Writers -> WriteRecord]
  BY DEF StoreInv
<1>2. ASSUME NEW u \in Writers, NEW z, Becomes(u, z) PROVE u = t /\ z = write'[t]
  BY <1>1, <1>2 DEF Becomes
<1>3. ASSUME NEW z, Becomes(t, z), Same(z, write[t]) PROVE FALSE
  <2>1. CallOK(z) /\ z.pc = "idle" /\ CallOK(write[t])
    BY <1>2, <1>3 DEF Becomes, StoreInv
  <2> QED
    BY <1>3, <2>1 DEF CallOK, Same
<1>4. ~Close
  BY DEF Close
<1>5. ASSUME NEW u \in Writers, Calls(u) PROVE FALSE
  BY <1>2, <1>5, CallsIs
<1>6. ASSUME NEW u \in Writers, GoesOn(u) PROVE FALSE
  BY <1>2, <1>3, <1>6, GoesOnIs
<1>7. ASSUME NEW u \in Writers, Raise(u) PROVE FALSE
  <2>1. PICK z : Becomes(u, z) /\ z.result = "error"
    BY <1>7, RaiseIs
  <2> QED
    BY <1>2, <2>1
<1>8. PICK u \in Writers, o \in CommitOutcomes : Commit(u, o)
  BY <1>4, <1>5, <1>6, <1>7, NextIs
<1>9. PICK z : Becomes(u, z) /\ (o # "committed" => Same(z, write[u]))
  BY <1>8, CommitIs
<1>10. u = t /\ o = "committed"
  BY <1>2, <1>3, <1>9
<1> QED
  BY <1>8, <1>10

Returned ==
  \A t \in Writers : LET w == write[t] IN
    (w.pc # "idle" /\ write'[t].pc = "idle" /\ write'[t].result = "ok") =>
      IF w.kind = "ensure" THEN schema'[w.table] # "none"
      ELSE \E n \in Tables : n = w.table /\ Delivered(w, tables[n], tables'[n])

LEMMA ReturnedByInv ==
  ASSUME StoreInv, [Next]_vars
  PROVE  [Returned]_vars
<1> SUFFICES ASSUME Next, NEW t \in Writers,
                    write[t].pc # "idle", write'[t].pc = "idle", write'[t].result = "ok"
             PROVE  IF write[t].kind = "ensure" THEN schema'[write[t].table] # "none"
                    ELSE \E n \in Tables :
                      n = write[t].table /\ Delivered(write[t], tables[n], tables'[n])
  BY DEF Returned
<1>1. PICK w \in WriteRecord : w = write[t]
  BY DEF StoreInv
<1>2. "committed" \in CommitOutcomes /\ Commit(t, "committed")
  BY ReturnsByCommit
<1>3. w.table \in Tables
  BY <1>1, <1>2, CommitIs
<1>4. PICK n \in Tables : n = w.table
  BY <1>3
<1>5. /\ w.pc = "commit" /\ Fits(w)
      /\ schema' = [schema EXCEPT ![n] = How(w)]
      /\ tables' = [tables EXCEPT ![n] = Changed(tables[n], w)]
  BY <1>1, <1>2, <1>4 DEF Commit, How
<1>6. schema'[n] = How(w) /\ tables'[n] = Changed(tables[n], w)
  BY <1>5 DEF StoreInv
<1>7. CASE w.kind = "ensure"
  <2>1. How(w) # "none"
    BY <1>1, <1>4, <1>5, CommitApplies
  <2> QED
    BY <1>1, <1>4, <1>6, <1>7, <2>1
<1>8. CASE w.kind # "ensure"
  <2>1. PICK c \in Changes(w.mode, tables[n], w.batch) :
          Changed(tables[n], w) = Changed(tables[n], c)
    BY <1>1, <1>4, <1>5, <1>8, CommitApplies
  <2>2. /\ CallOK(w) /\ Waiting(w, schema[n], tables[n]) /\ TableOK(schema[n], tables[n])
        /\ tables[n] \in Table
    BY <1>1, <1>4 DEF StoreInv
  <2>3. w.kind \in {"insert", "txn"}
    BY <1>5, <1>8, <2>2 DEF CallOK, WriteRecord
  <2>4. /\ w.mode \in {"append", "insert_ignore", "upsert"}
        /\ w.mode # "append" => KeysUnique(tables[n])
    BY <1>5, <2>2, <2>3, DbAssumption DEF CallOK, Waiting, TableOK
  <2>5. Delivered(w, tables[n], Changed(tables[n], c))
    BY <2>2, <2>4, ChangeDelivers
  <2> QED
    BY <1>1, <1>4, <1>6, <1>8, <2>1, <2>5
<1> QED
  BY <1>7, <1>8

(* The action property of the run on insert_arrow(), execute_txn() and     *)
(* ensure_table(), for every interleaving: what a call that returns was    *)
(* asked for is in its table at its COMMIT, key by key, and nothing else   *)
(* of the table has changed.                                               *)
THEOREM ReturnStored == Spec => ReturnMeansStored
<1>1. StoreInv /\ [Next]_vars => [Returned]_vars
  BY ReturnedByInv
<1> QED
  BY <1>1, StoreInvariant, PTL DEF Spec, ReturnMeansStored, Returned

-----------------------------------------------------------------------------
(* A store is TableWrites                                                  *)

Requested == [t \in Writers |-> Asked(write[t])]

LEMMA RequestedBecomes ==
  ASSUME StoreInv, NEW t \in Writers, NEW z, Becomes(t, z)
  PROVE  Requested' = [Requested EXCEPT ![t] = Asked(z)] /\ Requested'[t] = Asked(z)
<1>1. \A u \in Writers : write'[u] = IF u = t THEN z ELSE write[u]
  BY DEF Becomes, StoreInv
<1>2. Requested' = [u \in Writers |-> Asked(write'[u])]
  BY DEF Requested, Asked
<1>3. \A u \in Writers : Asked(write'[u]) = IF u = t THEN Asked(z) ELSE Asked(write[u])
  BY <1>1
<1>4. [Requested EXCEPT ![t] = Asked(z)] = [u \in Writers |-> IF u = t THEN Asked(z) ELSE Asked(write[u])]
  BY DEF Requested
<1>5. Requested' = [u \in Writers |-> IF u = t THEN Asked(z) ELSE Asked(write[u])]
  BY <1>2, <1>3
<1> QED
  BY <1>4, <1>5

LEMMA RequestedSame ==
  ASSUME StoreInv, NEW t \in Writers, NEW z, Becomes(t, z), Same(z, write[t])
  PROVE  Requested' = Requested
<1>1. Asked(z) = Asked(write[t])
  BY DEF Asked, Same
<1>2. Requested' = [Requested EXCEPT ![t] = Asked(write[t])]
  BY <1>1, RequestedBecomes
<1>3. Requested = [Requested EXCEPT ![t] = Asked(write[t])]
  BY DEF Requested
<1> QED
  BY <1>2, <1>3

LEMMA AskedIs ==
  ASSUME NEW w
  PROVE  /\ w.kind \in {"insert", "txn"} =>
              /\ Asked(w) = [mode |-> w.mode, batch |-> w.batch,
                             where |-> {w.table}, result |-> "none"]
              /\ Asked(w).mode = w.mode /\ Asked(w).batch = w.batch
              /\ Asked(w).where = {w.table}
         /\ w.kind \notin {"insert", "txn"} =>
              /\ Asked(w) = Stores!Answer(w.result) /\ Asked(w).mode = "none"
  BY DEF Asked, Stores!Answer

(* The tables of both are those of RowTable.                               *)
LEMMA SameRows ==
  /\ Stores!Rows = Rows /\ Stores!Batches = Batches /\ Stores!Nothing = Nothing
  BY DEF Stores!Rows, Rows, Stores!Batches, Batches, Stores!Nothing, Nothing

LEMMA SameChanged ==
  ASSUME NEW table, NEW c
  PROVE  Stores!Changed(table, c) = Changed(table, c)
  BY DEF Stores!Changed, Changed, Stores!Rows, Rows

LEMMA SameChanges ==
  ASSUME NEW mode, NEW table, NEW batch
  PROVE  Stores!Changes(mode, table, batch) = Changes(mode, table, batch)
  BY DEF Stores!Changes, Changes, Stores!Inserted, Inserted,
         Stores!InsertedOrIgnored, InsertedOrIgnored, Stores!Upserted, Upserted,
         Stores!OneRowPerKey, OneRowPerKey, Stores!KeysOf, KeysOf, Stores!HasKey, HasKey,
         Stores!CopiesWith, CopiesWith, Stores!Copies, Copies, Stores!Nothing, Nothing,
         Stores!Rows, Rows

(* Asking, and an ensure_table() that ends, are of no concern to a table.  *)
LEMMA StepAsks ==
  ASSUME StoreInv, NEW t \in Writers, NEW z, Becomes(t, z),
         write[t].kind \in {"none", "ensure"}, UNCHANGED tables,
         \/ z.kind \in {"none", "ensure"} /\ z.result \in {"none", "ok", "error"}
         \/ /\ z.kind \in {"insert", "txn"} /\ z.table \in Tables
            /\ z.mode \in Modes \cup {"append"} /\ z.batch \in Batches
  PROVE  Stores!Next
<1>1. Requested' = [Requested EXCEPT ![t] = Requested'[t]] /\ Requested'[t] = Asked(z)
  BY RequestedBecomes
<1>2. Requested[t].mode = "none"
  BY AskedIs DEF Requested
<1>3. Asked(z) \in Stores!Requests \cup
                   {Stores!Answer(result) : result \in {"none", "ok", "error"}}
  <2>1. CASE z.kind \in {"none", "ensure"}
    BY <2>1, AskedIs
  <2>2. CASE z.kind \in {"insert", "txn"}
    BY <2>2, AskedIs, SameRows DEF Stores!Requests
  <2> QED
    BY <2>1, <2>2
<1>4. Stores!Asks(t)
  BY <1>1, <1>2, <1>3 DEF Stores!Asks, Requested
<1> QED
  BY <1>4 DEF Stores!Next, Stores!Certain

LEMMA StepStores ==
  ASSUME StoreInv, NEW t \in Writers, NEW o \in CommitOutcomes, Commit(t, o), o # "rolledBack",
         write[t].kind # "ensure"
  PROVE  Stores!Next
<1>1. PICK w \in WriteRecord : w = write[t]
  BY DEF StoreInv
<1>2. w.table \in Tables /\ w.kind # "none"
  BY <1>1, CommitIs
<1>3. PICK n \in Tables : n = w.table
  BY <1>2
<1>4. /\ w.pc = "commit" /\ Fits(w)
      /\ tables' = [tables EXCEPT ![n] = Changed(tables[n], w)]
  BY <1>1, <1>3 DEF Commit
<1>5. PICK c \in Changes(w.mode, tables[n], w.batch) :
        Changed(tables[n], w) = Changed(tables[n], c)
  BY <1>1, <1>3, <1>4, CommitApplies
<1>6. w.kind \in {"insert", "txn"}
  BY <1>1, <1>2 DEF WriteRecord
<1>7. /\ Requested[t] = Asked(w) /\ Asked(w).mode = w.mode /\ Asked(w).batch = w.batch
      /\ Asked(w).where = {n}
  BY <1>1, <1>3, <1>6, AskedIs DEF Requested
<1>8. w.mode # "none"
  BY <1>1, <1>6, DbAssumption DEF StoreInv, CallOK
<1>9. Stores!Stores(t)
  BY <1>4, <1>5, <1>7, SameChanges, SameChanged DEF Stores!Stores, Requested
<1>10. PICK z : /\ Becomes(t, z)
                /\ o = "committed" => z.kind = "none" /\ z.result = "ok"
                /\ o # "committed" => Same(z, write[t])
  BY CommitIs
<1>11. CASE o = "committed"
  <2>1. Requested' = [Requested EXCEPT ![t] = Stores!Answer("ok")]
    BY <1>10, <1>11, RequestedBecomes, AskedIs
  <2>2. Stores!Returns(t)
    BY <1>7, <1>8, <1>9, <2>1 DEF Stores!Returns, Requested
  <2> QED
    BY <2>2 DEF Stores!Next, Stores!Certain
<1>12. CASE o # "committed"
  <2>1. Requested' = Requested
    BY <1>10, <1>12, RequestedSame
  <2>2. Stores!StoresAndFails(t)
    BY <1>7, <1>8, <1>9, <2>1 DEF Stores!StoresAndFails, Requested
  <2> QED
    BY <2>2 DEF Stores!Next
<1> QED
  BY <1>11, <1>12

LEMMA StoreStep ==
  ASSUME StoreInv, [Next]_vars
  PROVE  [Stores!Next]_(Stores!vars)
<1> SUFFICES ASSUME Next
             PROVE  Stores!Next \/ (tables' = tables /\ Requested' = Requested)
  <2>1. UNCHANGED vars => UNCHANGED Stores!vars
    BY DEF vars, Stores!vars, Asked
  <2>2. tables' = tables /\ Requested' = Requested => UNCHANGED Stores!vars
    BY DEF Stores!vars, Requested
  <2> QED
    BY <2>1, <2>2
<1>1. CASE Close
  BY <1>1 DEF Close, Requested, Asked
<1>2. ASSUME NEW t \in Writers, Calls(t) PROVE Stores!Next
  <2>1. write[t].pc = "idle" /\ UNCHANGED tables
    BY <1>2, CallsIs
  <2>2. PICK z : /\ Becomes(t, z)
                 /\ \/ z.kind = "ensure" /\ z.result = "none"
                    \/ /\ z.kind \in {"insert", "txn"} /\ z.table \in Tables
                       /\ z.mode \in Modes \cup {"append"} /\ z.batch \in Batches
    BY <1>2, CallsIs
  <2>3. write[t].kind = "none"
    BY <2>1 DEF StoreInv, CallOK
  <2> QED
    BY <2>1, <2>2, <2>3, StepAsks
<1>3. ASSUME NEW t \in Writers, GoesOn(t) PROVE tables' = tables /\ Requested' = Requested
  BY <1>3, GoesOnIs, RequestedSame
<1>4. ASSUME NEW t \in Writers, Raise(t) PROVE Stores!Next
  <2>1. PICK z : Becomes(t, z) /\ z.kind = "none" /\ z.result = "error"
    BY <1>4, RaiseIs
  <2>2. UNCHANGED tables /\ write[t].pc = "raised" /\ CallOK(write[t])
        /\ write[t] \in WriteRecord
    BY <1>4 DEF Raise, StoreInv
  <2>3. CASE write[t].kind = "ensure"
    BY <2>1, <2>2, <2>3, StepAsks
  <2>4. CASE write[t].kind # "ensure"
    <3>1. write[t].kind \in {"insert", "txn"}
      BY <2>2, <2>4 DEF WriteRecord, CallOK
    <3>2. Requested[t].mode # "none"
      BY <2>2, <3>1, AskedIs, DbAssumption DEF Requested, CallOK
    <3>3. Requested' = [Requested EXCEPT ![t] = Stores!Answer("error")]
      BY <2>1, RequestedBecomes, AskedIs
    <3>4. Stores!Raises(t)
      BY <2>2, <3>2, <3>3 DEF Stores!Raises, Requested
    <3> QED
      BY <3>4 DEF Stores!Next, Stores!Certain
  <2> QED
    BY <2>3, <2>4
<1>5. ASSUME NEW t \in Writers, NEW o \in CommitOutcomes, Commit(t, o)
      PROVE  Stores!Next \/ (tables' = tables /\ Requested' = Requested)
  <2>1. PICK z : /\ Becomes(t, z)
                 /\ o = "committed" => z.kind = "none" /\ z.result = "ok"
                 /\ o # "committed" => Same(z, write[t])
    BY <1>5, CommitIs
  <2>2. CASE o = "rolledBack"
    BY <1>5, <2>1, <2>2, RequestedSame DEF Commit
  <2>3. CASE o # "rolledBack" /\ write[t].kind # "ensure"
    BY <1>5, <2>3, StepStores
  <2>4. CASE o # "rolledBack" /\ write[t].kind = "ensure"
    <3>1. UNCHANGED tables
      <4>1. PICK w \in WriteRecord : w = write[t]
        BY DEF StoreInv
      <4>2. w.table \in Tables
        BY <1>5, <4>1, CommitIs
      <4>3. PICK n \in Tables : n = w.table
        BY <4>2
      <4>4. /\ w.pc = "commit" /\ Fits(w)
            /\ tables' = [tables EXCEPT ![n] = Changed(tables[n], w)]
        BY <1>5, <2>4, <4>1, <4>3 DEF Commit
      <4>5. Changed(tables[n], w) = tables[n]
        BY <2>4, <4>1, <4>3, <4>4, CommitApplies
      <4> QED
        BY <4>4, <4>5 DEF StoreInv
    <3>2. CASE o = "committed"
      BY <2>1, <2>4, <3>1, <3>2, StepAsks
    <3>3. CASE o # "committed"
      BY <2>1, <3>1, <3>3, RequestedSame
    <3> QED
      BY <3>2, <3>3
  <2> QED
    BY <2>2, <2>3, <2>4
<1> QED
  BY <1>1, <1>2, <1>3, <1>4, <1>5, NextIs

LEMMA StoreInit == Init => Stores!Init
<1> SUFFICES ASSUME Init PROVE Stores!Init
  OBVIOUS
<1>1. \A t \in Writers : write[t] = NoWrite
  BY DEF Init
<1>2. Asked(NoWrite) = Stores!Answer("none")
  BY NoWriteIs, AskedIs
<1>3. [t \in Writers |-> Asked(write[t])] = [t \in Writers |-> Stores!Answer("none")]
  BY <1>1, <1>2
<1> QED
  BY <1>3, SameRows DEF Init, Stores!Init

(* The refinement that the run checks: every write, with the statement of  *)
(* an insert_ignore or an upsert that read the table before others changed *)
(* it, takes place at its COMMIT as a whole, or not at all.                *)
THEOREM StoreImplements == Spec => ImplementsWrites
<1>1. StoreInv /\ [Next]_vars => [Stores!Next]_(Stores!vars)
  BY StoreStep
<1> QED
  BY <1>1, StoreInit, StoreInvariant, PTL DEF Spec, ImplementsWrites, Stores!Spec
=============================================================================
