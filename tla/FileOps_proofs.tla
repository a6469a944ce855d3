--------------------------- MODULE FileOps_proofs ---------------------------
(***************************************************************************)
(* Proofs about the file operations, for any processes and versions and    *)
(* any number of calls: names and temporary files, then that the operations*)
(* implement FilePair, then what is lost and what a failure leaves.        *)
(***************************************************************************)
EXTENDS FileOpsProperties, FiniteSetTheorems, TLAPS

-----------------------------------------------------------------------------
(* The inductive invariant                                                 *)

Content == [1..2 -> Versions \cup {None}]
Call ==
  [pc : {"idle", "exists", "unlink", "skip", "openIn", "openOut", "copy",
         "replace", "delete", "cleanup"},
   op : {"none", "write", "gzip", "gunzip"}, version : Versions \cup {None, "torn"},
   force : BOOLEAN, delete : BOOLEAN, from : Inodes \cup {None},
   to : Inodes \cup {None}, n : 0..2, result : {"none", "ok", "error", "killed"},
   before : Versions \cup {None, "torn"}, calls : Nat]

(* A call has open handles exactly in the steps that use them; a written   *)
(* version is a version, and two chunks are copied, one after the other.   *)
CallOK(w) ==
  /\ (w.to # None) <=> (w.pc = "copy")
  /\ (w.from # None) <=> (w.pc \in {"openOut", "copy"} /\ w.op # "write")
  /\ w.pc # "idle" => w.op # "none"
  /\ w.op = "write" => /\ w.version \in Versions /\ ~w.delete
                       /\ w.pc \in {"openOut", "copy", "replace", "cleanup"}
  /\ w.pc \in {"exists", "unlink", "openIn", "openOut"} => w.n = 0
  /\ w.pc = "copy" => w.n \in {0, 1}

CallsOK == proc \in [Procs -> Call] /\ \A p \in Procs : CallOK(proc[p])
FilesOK == dir \in [Paths -> Inodes \cup {None}] /\ data \in [Inodes -> Content]

(* No inode has two names.                                                 *)
OneName == \A x, y \in Paths : dir[x] = dir[y] /\ dir[x] # None => x = y

(* No two calls have one temporary file, which "apart" asks of the callers;*)
(* and so whoever copies has the inode that its temporary name links.      *)
OwnTemp == \A p, q \in Procs :
  p # q /\ proc[p].pc # "idle" /\ proc[q].pc # "idle" => Temp(proc[p].op) # Temp(proc[q].op)
WritesTemp == \A p \in Procs : proc[p].pc = "copy" => dir[Temp(proc[p].op)] = proc[p].to

FilesInv == CallsOK /\ FilesOK /\ OneName /\ OwnTemp /\ WritesTemp

(* Its consequence: only temporary files are written to.                   *)
LEMMA FrozenByInv == FilesInv => PublishedFrozen
<1> SUFFICES ASSUME FilesInv PROVE PublishedFrozen
  OBVIOUS
<1>1. FilesTypeOK
  BY DEF FilesInv, FilesOK, CallsOK, CallOK, Call, Content, FilesTypeOK
<1>2. ASSUME NEW name \in {"file", "gz"}, NEW p \in Procs, dir[name] # None
      PROVE  proc[p].to # dir[name]
  <2>1. CASE proc[p].pc = "copy"
    <3>1. Temp(proc[p].op) \in Paths \ {"file", "gz"} /\ name \in Paths
      BY DEF Temp, Paths
    <3> QED
      BY <1>2, <2>1, <3>1 DEF FilesInv, OneName, WritesTemp
  <2>2. CASE proc[p].pc # "copy"
    BY <1>2, <2>2 DEF FilesInv, CallsOK, CallOK
  <2> QED
    BY <2>1, <2>2
<1> QED
  BY <1>1, <1>2 DEF PublishedFrozen

-----------------------------------------------------------------------------
(* Steps                                                                   *)

LEMMA NoneApart == None \notin Versions /\ None \notin Inodes
  BY FileAssumption DEF Inodes

LEMMA ShownType ==
  ASSUME FilesOK, NEW path \in Paths
  PROVE  Shown(path) \in Versions \cup {None, "torn"}
<1>1. CASE dir[path] # None /\ \E v \in Versions : data[dir[path]] = WholeOf(v)
  <2>1. PICK v \in Versions : data[dir[path]] = WholeOf(v)
    BY <1>1
  <2> QED
    BY <1>1, <2>1 DEF Shown, WholeOf
<1>2. CASE ~(dir[path] # None /\ \E v \in Versions : data[dir[path]] = WholeOf(v))
  BY <1>2 DEF Shown
<1> QED
  BY <1>1, <1>2

(* What every step has to show: the call's record is in order, the new     *)
(* directory has one name for each inode, other calls keep their temporary *)
(* names, and the call's own is not the one of another.                    *)
LEMMA StepKeepsInv ==
  ASSUME FilesInv, NEW p \in Procs, NEW w \in Call, CallOK(w),
         NEW d \in [Paths -> Inodes \cup {None}], NEW c \in [Inodes -> Content],
         Step(d, c, [proc EXCEPT ![p] = w]),
         \A x, y \in Paths : d[x] = d[y] /\ d[x] # None => x = y,
         w.pc # "idle" => \A q \in Procs \ {p} :
           proc[q].pc # "idle" => Temp(proc[q].op) # Temp(w.op),
         \A q \in Procs \ {p} : proc[q].pc = "copy" =>
           d[Temp(proc[q].op)] = dir[Temp(proc[q].op)],
         w.pc = "copy" => d[Temp(w.op)] = w.to
  PROVE  FilesInv'
<1>1. dir' = d /\ proc' = [proc EXCEPT ![p] = w]
  BY DEF Step
<1>2. proc \in [Procs -> Call]
  BY DEF FilesInv, CallsOK
<1>3. proc'[p] = w /\ \A q \in Procs \ {p} : proc'[q] = proc[q]
  BY <1>1, <1>2
<1>4. CallsOK'
  <2>1. proc' \in [Procs -> Call]
    BY <1>1, <1>2
  <2>2. \A q \in Procs : CallOK(proc'[q])
    BY <1>3 DEF FilesInv, CallsOK
  <2> QED
    BY <2>1, <2>2 DEF CallsOK, CallOK
<1>5. FilesOK'
  <2>1. Blank \in Content
    BY DEF Blank, Content
  <2>2. data' \in [Inodes -> Content]
    BY <2>1 DEF Step
  <2> QED
    BY <1>1, <2>2 DEF FilesOK, Inodes, Content
<1>6. OneName'
  BY <1>1 DEF OneName
<1>7. OwnTemp'
  BY <1>3 DEF FilesInv, OwnTemp, Temp
<1>8. WritesTemp'
  BY <1>1, <1>3 DEF FilesInv, WritesTemp, Temp
<1> QED
  BY <1>4, <1>5, <1>6, <1>7, <1>8 DEF FilesInv

(* A step that goes on with the same call and removes at most names that   *)
(* are nobody's temporary file but its own.                                *)
LEMMA QuietStepKeepsInv ==
  ASSUME FilesInv, NEW p \in Procs, NEW w \in Call, CallOK(w), w.pc # "copy",
         w.pc # "idle" => w.op = proc[p].op /\ proc[p].pc # "idle",
         NEW d \in [Paths -> Inodes \cup {None}],
         Step(d, data, [proc EXCEPT ![p] = w]),
         \A x \in Paths : d[x] \in {dir[x], None},
         \A q \in Procs \ {p} : proc[q].pc = "copy" =>
           d[Temp(proc[q].op)] = dir[Temp(proc[q].op)]
  PROVE  FilesInv'
<1>1. data \in [Inodes -> Content]
  BY DEF FilesInv, FilesOK
<1>2. \A x, y \in Paths : d[x] = d[y] /\ d[x] # None => x = y
  BY DEF FilesInv, OneName
<1>3. w.pc # "idle" => \A q \in Procs \ {p} :
        proc[q].pc # "idle" => Temp(proc[q].op) # Temp(w.op)
  BY DEF FilesInv, OwnTemp
<1> QED
  BY <1>1, <1>2, <1>3, StepKeepsInv

-----------------------------------------------------------------------------
(* Names, and records of calls                                             *)

LEMMA NamesApart ==
  ASSUME NEW op, NEW op2
  PROVE  /\ {Temp(op), Target(op), Source(op)} \subseteq Paths
         /\ Temp(op) \notin {Target(op2), Source(op2)}
  BY DEF Temp, Target, Source, Paths

LEMMA NoCallOK ==
  /\ NoCall \in Call /\ NoCall.pc = "idle" /\ NoCall.op = "none" /\ NoCall.n = 0
  /\ NoCall.from = None /\ NoCall.to = None /\ NoCall.delete = FALSE
  BY DEF NoCall, Call

LEMMA EndedOK ==
  ASSUME NEW w \in Call, NEW r \in {"ok", "error", "killed"}
  PROVE  Ended(w, r) \in Call /\ Ended(w, r).pc = "idle" /\ CallOK(Ended(w, r))
<1>1. w.calls \in Nat
  BY DEF Call
<1> QED
  BY <1>1, NoCallOK, ZenonT(60) DEF Ended, Call, CallOK

LEMMA RaisedOK ==
  ASSUME NEW w \in Call, CallOK(w), w.pc # "idle"
  PROVE  /\ Raised(w) \in Call /\ Raised(w).pc = "cleanup" /\ Raised(w).op = w.op
         /\ CallOK(Raised(w))
  BY ZenonT(60) DEF Raised, Call, CallOK

(* Calls end and raise, and go on without looking at the files. *)
LEMMA GoKeepsInv ==
  ASSUME FilesInv, NEW p \in Procs, NEW w \in Call, CallOK(w), w.pc # "copy",
         w.pc # "idle" => w.op = proc[p].op /\ proc[p].pc # "idle", Go(p, w)
  PROVE  FilesInv'
<1>1. dir \in [Paths -> Inodes \cup {None}]
  BY DEF FilesInv, FilesOK
<1>2. Step(dir, data, [proc EXCEPT ![p] = w])
  BY DEF Go
<1> QED
  BY <1>1, <1>2, QuietStepKeepsInv

LEMMA RaiseKeepsInv ==
  ASSUME FilesInv, NEW p \in Procs, proc[p].pc # "idle", Go(p, Raised(proc[p]))
  PROVE  FilesInv'
<1>1. proc[p] \in Call /\ CallOK(proc[p])
  BY DEF FilesInv, CallsOK
<1> QED
  BY <1>1, RaisedOK, GoKeepsInv

(* A name that is no call's temporary file, or the call's own, is removed. *)
LEMMA UnlinkKeepsInv ==
  ASSUME FilesInv, NEW p \in Procs, NEW path \in Paths, NEW w \in Call, CallOK(w),
         w.pc # "copy", proc[p].pc # "idle", w.op = proc[p].op \/ w.pc = "idle",
         path \in {Target(proc[p].op), Source(proc[p].op), Temp(proc[p].op)},
         Step(Unlinked(path), data, [proc EXCEPT ![p] = w])
  PROVE  FilesInv'
<1> DEFINE d == Unlinked(path)
<1>1. dir \in [Paths -> Inodes \cup {None}]
  BY DEF FilesInv, FilesOK
<1>2. /\ d \in [Paths -> Inodes \cup {None}]
      /\ \A x \in Paths : d[x] = IF x = path THEN None ELSE dir[x]
  BY <1>1 DEF Unlinked
<1>3. \A q \in Procs \ {p} : proc[q].pc = "copy" =>
        d[Temp(proc[q].op)] = dir[Temp(proc[q].op)]
  <2> SUFFICES ASSUME NEW q \in Procs \ {p}, proc[q].pc = "copy"
               PROVE  d[Temp(proc[q].op)] = dir[Temp(proc[q].op)]
    OBVIOUS
  <2>1. Temp(proc[q].op) # Temp(proc[p].op)
    BY DEF FilesInv, OwnTemp
  <2> QED
    BY <1>2, <2>1, NamesApart
<1> HIDE DEF d
<1>4. Step(d, data, [proc EXCEPT ![p] = w])
  BY DEF d
<1> QED
  BY <1>2, <1>3, <1>4, QuietStepKeepsInv

-----------------------------------------------------------------------------
(* One lemma for each action                                               *)

LEMMA StartedKeepsInv ==
  ASSUME FilesInv, NEW p \in Procs, NEW w \in Call, CallOK(w), w.pc \in {"openOut", "exists"},
         \A q \in Procs \ {p} : proc[q].pc # "idle" => Temp(proc[q].op) # Temp(w.op),
         Started(p, w)
  PROVE  FilesInv'
<1> DEFINE before == Shown(Target(w.op))
           n == proc[p].calls + 1
           x == [w EXCEPT !.calls = n, !.before = before]
<1>1. n \in Nat /\ before \in Versions \cup {None, "torn"}
  BY NamesApart, ShownType DEF FilesInv, CallsOK, Call
<1>2. Step(dir, data, [proc EXCEPT ![p] = x])
  BY DEF Started, Go
<1> HIDE DEF before, n
<1>3. x \in Call /\ x.pc = w.pc /\ x.op = w.op /\ x.to = w.to
  BY <1>1 DEF Call
<1>4. CallOK(x)
  BY <1>1 DEF Call, CallOK
<1> HIDE DEF x
<1> QED
  BY <1>2, <1>3, <1>4, StepKeepsInv DEF FilesInv, FilesOK, OneName

LEMMA CallWriteKeepsInv ==
  ASSUME FilesInv, "apart" \in Cautions, NEW p \in Procs, NEW v \in Versions, CallWrite(p, v)
  PROVE  FilesInv'
<1> DEFINE w == [NoCall EXCEPT !.pc = "openOut", !.op = "write", !.version = v]
<1>1. w \in Call /\ w.pc = "openOut" /\ w.op = "write" /\ CallOK(w)
  BY NoCallOK DEF Call, CallOK
<1>2. \A q \in Procs \ {p} : proc[q].pc # "idle" => Temp(proc[q].op) # Temp("write")
  BY DEF CallWrite, MayCall
<1>3. Started(p, w)
  BY DEF CallWrite
<1> HIDE DEF w
<1> QED
  BY <1>1, <1>2, <1>3, StartedKeepsInv

LEMMA CallCompressKeepsInv ==
  ASSUME FilesInv, "apart" \in Cautions, NEW p \in Procs, NEW op \in {"gzip", "gunzip"},
         NEW force \in BOOLEAN, NEW delete \in BOOLEAN, CallCompress(p, op, force, delete)
  PROVE  FilesInv'
<1> DEFINE v == [NoCall EXCEPT !.pc = "exists", !.op = op]
           w == [v EXCEPT !.force = force, !.delete = delete]
<1>1. w \in Call /\ w.pc = "exists" /\ w.op = op /\ CallOK(w)
  <2>1. /\ v \in Call /\ v.pc = "exists" /\ v.op = op /\ v.n = 0
        /\ v.from = None /\ v.to = None
    BY NoCallOK DEF Call
  <2> HIDE DEF v
  <2> QED
    BY <2>1, ZenonT(60) DEF Call, CallOK
<1>2. \A q \in Procs \ {p} : proc[q].pc # "idle" => Temp(proc[q].op) # Temp(op)
  BY DEF CallCompress, MayCall
<1>3. Started(p, w)
  BY DEF CallCompress
<1> HIDE DEF w
<1> QED
  BY <1>1, <1>2, <1>3, StartedKeepsInv

LEMMA LookForTargetKeepsInv ==
  ASSUME FilesInv, NEW p \in Procs, LookForTarget(p)
  PROVE  FilesInv'
<1>1. proc[p] \in Call /\ CallOK(proc[p]) /\ proc[p].pc = "exists"
  BY DEF FilesInv, CallsOK, LookForTarget
<1>2. ASSUME NEW pc \in {"openIn", "unlink", "skip"}, Go(p, [proc[p] EXCEPT !.pc = pc])
      PROVE  FilesInv'
  <2> DEFINE w == [proc[p] EXCEPT !.pc = pc]
  <2>1. w \in Call /\ w.pc = pc /\ w.op = proc[p].op /\ CallOK(w)
    BY <1>1 DEF Call, CallOK
  <2> HIDE DEF w
  <2> QED
    BY <1>1, <1>2, <2>1, GoKeepsInv DEF w
<1>3. CASE Go(p, Ended(proc[p], "ok"))
  BY <1>1, <1>3, EndedOK, GoKeepsInv
<1> QED
  BY <1>2, <1>3 DEF LookForTarget

LEMMA UnlinkTargetKeepsInv ==
  ASSUME FilesInv, NEW p \in Procs, UnlinkTarget(p)
  PROVE  FilesInv'
<1> DEFINE w == [proc[p] EXCEPT !.pc = "openIn"]
<1>1. proc[p] \in Call /\ CallOK(proc[p]) /\ proc[p].pc = "unlink"
  BY DEF FilesInv, CallsOK, UnlinkTarget
<1>2. w \in Call /\ w.pc = "openIn" /\ w.op = proc[p].op /\ CallOK(w)
  BY <1>1 DEF Call, CallOK
<1>3. Step(Unlinked(Target(proc[p].op)), data, [proc EXCEPT ![p] = w])
  BY DEF UnlinkTarget
<1> HIDE DEF w
<1> QED
  BY <1>1, <1>2, <1>3, NamesApart, UnlinkKeepsInv

LEMMA SkipAndDeleteKeepsInv ==
  ASSUME FilesInv, NEW p \in Procs, SkipAndDelete(p)
  PROVE  FilesInv'
<1>1. proc[p] \in Call /\ proc[p].pc = "skip"
  BY DEF FilesInv, CallsOK, SkipAndDelete
<1>2. Step(Unlinked(Source(proc[p].op)), data, [proc EXCEPT ![p] = Ended(proc[p], "ok")])
  BY DEF SkipAndDelete
<1> QED
  BY <1>1, <1>2, EndedOK, NamesApart, UnlinkKeepsInv

LEMMA OpenInKeepsInv ==
  ASSUME FilesInv, NEW p \in Procs, OpenIn(p)
  PROVE  FilesInv'
<1> DEFINE src == Source(proc[p].op)
           w == [proc[p] EXCEPT !.pc = "openOut", !.from = dir[src], !.version = Shown(src)]
<1>1. proc[p] \in Call /\ CallOK(proc[p]) /\ proc[p].pc = "openIn"
  BY DEF FilesInv, CallsOK, OpenIn
<1>2. CASE dir[src] = None
  BY <1>1, <1>2, RaiseKeepsInv DEF OpenIn
<1>3. CASE dir[src] # None
  <2>1. src \in Paths
    BY NamesApart
  <2>2. dir[src] \in Inodes /\ Shown(src) \in Versions \cup {None, "torn"}
    BY <1>3, <2>1, ShownType DEF FilesInv, FilesOK
  <2>3. w \in Call /\ w.pc = "openOut" /\ w.op = proc[p].op /\ CallOK(w)
    <3> HIDE DEF src
    <3> QED
      BY <1>1, <1>3, <2>2, ZenonT(60) DEF Call, CallOK
  <2>4. Go(p, w)
    BY <1>3 DEF OpenIn
  <2> HIDE DEF w
  <2> QED
    BY <1>1, <2>3, <2>4, GoKeepsInv
<1> QED
  BY <1>2, <1>3

LEMMA OpenOutKeepsInv ==
  ASSUME FilesInv, NEW p \in Procs, OpenOut(p)
  PROVE  FilesInv'
<1> DEFINE tmp == Temp(proc[p].op)
           free == Inodes \ Live(dir, proc)
           i == IF dir[tmp] # None THEN dir[tmp] ELSE CHOOSE j \in free : TRUE
           w == [proc[p] EXCEPT !.pc = "copy", !.to = i]
           d == [dir EXCEPT ![tmp] = i]
           c == [data EXCEPT ![i] = Blank]
<1>1. proc[p] \in Call /\ CallOK(proc[p]) /\ proc[p].pc = "openOut"
  BY DEF FilesInv, CallsOK, OpenOut
<1>2. tmp \in Paths
  BY NamesApart
<1>3. CASE Go(p, Raised(proc[p]))
  BY <1>1, <1>3, RaiseKeepsInv
<1>4. CASE (dir[tmp] # None \/ free # {}) /\ Step(d, c, [proc EXCEPT ![p] = w])
  <2>1. dir \in [Paths -> Inodes \cup {None}] /\ data \in [Inodes -> Content]
    BY DEF FilesInv, FilesOK
  <2>2. i \in Inodes /\ \A x \in Paths \ {tmp} : dir[x] # i
    <3>1. CASE dir[tmp] # None
      BY <1>2, <2>1, <3>1 DEF FilesInv, OneName
    <3>2. CASE dir[tmp] = None
      <4>1. i \in free
        BY <1>4, <3>2
      <4>2. \A x \in Paths : dir[x] \in Live(dir, proc)
        BY DEF Live
      <4> QED
        BY <4>1, <4>2
    <3> QED
      BY <3>1, <3>2
  <2>3. i # None
    BY <2>2, NoneApart
  <2> HIDE DEF i
  <2>4. w \in Call /\ w.pc = "copy" /\ w.op = proc[p].op /\ w.to = i /\ CallOK(w)
    BY <1>1, <2>2, <2>3 DEF Call, CallOK
  <2>5. /\ d \in [Paths -> Inodes \cup {None}]
        /\ \A x \in Paths : d[x] = IF x = tmp THEN i ELSE dir[x]
    BY <1>2, <2>1, <2>2
  <2>6. c \in [Inodes -> Content]
    BY <2>1, <2>2 DEF Blank, Content
  <2>7. \A x, y \in Paths : d[x] = d[y] /\ d[x] # None => x = y
    BY <2>2, <2>5 DEF FilesInv, OneName
  <2>8. \A q \in Procs \ {p} : proc[q].pc # "idle" => Temp(proc[q].op) # tmp
    BY <1>1 DEF FilesInv, OwnTemp
  <2> HIDE DEF w, d, c
  <2>9. \A q \in Procs \ {p} : proc[q].pc = "copy" =>
          d[Temp(proc[q].op)] = dir[Temp(proc[q].op)]
    BY <2>5, <2>8, NamesApart
  <2> QED
    BY <1>2, <1>4, <2>4, <2>5, <2>6, <2>7, <2>8, <2>9, StepKeepsInv
<1> QED
  BY <1>3, <1>4 DEF OpenOut

LEMMA CopyKeepsInv ==
  ASSUME FilesInv, NEW p \in Procs, Copy(p)
  PROVE  FilesInv'
<1> DEFINE w == proc[p]
           chunk == IF w.op = "write" THEN w.version ELSE data[w.from][w.n + 1]
           copied == [w EXCEPT !.n = @ + 1]
           last == [copied EXCEPT !.pc = "replace", !.from = None, !.to = None]
           x == IF w.n = 0 THEN copied ELSE last
           c == [data EXCEPT ![w.to][w.n + 1] = chunk]
<1>1. w \in Call /\ CallOK(w) /\ w.pc = "copy"
  BY DEF FilesInv, CallsOK, Copy
<1>2. CASE Go(p, Raised(w))
  BY <1>1, <1>2, RaiseKeepsInv
<1>3. CASE Step(dir, c, [proc EXCEPT ![p] = x])
  <2>1. dir \in [Paths -> Inodes \cup {None}] /\ data \in [Inodes -> Content]
    BY DEF FilesInv, FilesOK
  <2>2. w.n \in {0, 1} /\ w.n + 1 \in 1..2
    BY <1>1 DEF CallOK
  <2>3. chunk \in Versions \cup {None}
    BY <1>1, <2>1, <2>2 DEF Call, CallOK, Content
  <2>4. c \in [Inodes -> Content]
    <3>1. w.to \in Inodes
      BY <1>1 DEF Call, CallOK
    <3>2. data[w.to] \in Content
      BY <2>1, <3>1
    <3>3. [data[w.to] EXCEPT ![w.n + 1] = chunk] \in Content
      <4> HIDE DEF chunk
      <4> QED
        BY <2>2, <2>3, <3>2 DEF Content
    <3> QED
      BY <2>1, <3>1, <3>3
  <2>5. x \in Call /\ x.op = w.op /\ CallOK(x) /\ (x.pc = "copy" => x.to = w.to)
    <3>1. CASE w.n = 0
      <4>1. copied \in Call /\ copied.op = w.op /\ copied.pc = "copy" /\ copied.to = w.to
        BY <1>1, <2>2 DEF Call
      <4>2. copied.n = 1 /\ copied.from = w.from /\ copied.version = w.version
              /\ copied.delete = w.delete
        BY <1>1, <3>1 DEF Call
      <4>3. CallOK(copied)
        <5> HIDE DEF copied
        <5> QED
          BY <1>1, <4>1, <4>2 DEF CallOK
      <4> QED
        BY <3>1, <4>1, <4>3
    <3>2. CASE w.n = 1
      <4>1. copied \in Call /\ copied.op = w.op /\ copied.version = w.version
              /\ copied.delete = w.delete
        BY <1>1, <3>2 DEF Call
      <4> HIDE DEF copied
      <4>2. last \in Call /\ last.op = w.op /\ last.pc = "replace"
        BY <4>1 DEF Call
      <4>3. last.to = None /\ last.from = None /\ last.version = w.version
              /\ last.delete = w.delete
        BY <4>1 DEF Call
      <4>4. CallOK(last)
        <5> HIDE DEF last
        <5> QED
          BY <1>1, <4>2, <4>3 DEF CallOK
      <4> QED
        BY <3>2, <4>2, <4>4
    <3> QED
      BY <2>2, <3>1, <3>2
  <2>6. dir[Temp(w.op)] = w.to
    BY <1>1 DEF FilesInv, WritesTemp
  <2>7. \A q \in Procs \ {p} : proc[q].pc # "idle" => Temp(proc[q].op) # Temp(w.op)
    BY <1>1 DEF FilesInv, OwnTemp
  <2> HIDE DEF c, x
  <2> QED
    BY <1>3, <2>1, <2>4, <2>5, <2>6, <2>7, StepKeepsInv DEF FilesInv, OneName
<1> QED
  BY <1>2, <1>3 DEF Copy

LEMMA ReplaceKeepsInv ==
  ASSUME FilesInv, NEW p \in Procs, Replace(p)
  PROVE  FilesInv'
<1> DEFINE w == proc[p]
           tmp == Temp(w.op)
           x == IF w.delete THEN [w EXCEPT !.pc = "delete"] ELSE Ended(w, "ok")
           d == [dir EXCEPT ![Target(w.op)] = dir[tmp], ![tmp] = None]
<1>1. w \in Call /\ CallOK(w) /\ w.pc = "replace"
  BY DEF FilesInv, CallsOK, Replace
<1>2. CASE Go(p, Raised(w))
  BY <1>1, <1>2, RaiseKeepsInv
<1>3. CASE Step(d, data, [proc EXCEPT ![p] = x])
  <2>1. dir \in [Paths -> Inodes \cup {None}] /\ data \in [Inodes -> Content]
    BY DEF FilesInv, FilesOK
  <2>2. tmp \in Paths /\ Target(w.op) \in Paths /\ tmp # Target(w.op)
    BY NamesApart
  <2>3. /\ d \in [Paths -> Inodes \cup {None}]
        /\ \A y \in Paths : d[y] = IF y = tmp THEN None
                                   ELSE IF y = Target(w.op) THEN dir[tmp] ELSE dir[y]
    BY <2>1, <2>2
  <2>4. x \in Call /\ CallOK(x) /\ x.pc \in {"delete", "idle"} /\ (x.pc # "idle" => x.op = w.op)
    <3>1. CASE w.delete
      BY <1>1, <3>1 DEF Call, CallOK
    <3>2. CASE ~w.delete
      BY <1>1, <3>2, EndedOK
    <3> QED
      BY <3>1, <3>2
  <2>5. \A y, z \in Paths : d[y] = d[z] /\ d[y] # None => y = z
    BY <2>2, <2>3 DEF FilesInv, OneName
  <2>6. \A q \in Procs \ {p} : proc[q].pc # "idle" => Temp(proc[q].op) # tmp
    BY <1>1 DEF FilesInv, OwnTemp
  <2>7. \A q \in Procs \ {p} : proc[q].pc = "copy" =>
          d[Temp(proc[q].op)] = dir[Temp(proc[q].op)]
    BY <2>3, <2>6, NamesApart
  <2> HIDE DEF d, x
  <2> QED
    BY <1>3, <2>1, <2>3, <2>4, <2>5, <2>6, <2>7, StepKeepsInv
<1> QED
  BY <1>2, <1>3 DEF Replace

LEMMA DeleteSourceKeepsInv ==
  ASSUME FilesInv, NEW p \in Procs, DeleteSource(p)
  PROVE  FilesInv'
<1>1. proc[p] \in Call /\ proc[p].pc = "delete"
  BY DEF FilesInv, CallsOK, DeleteSource
<1>2. CASE Go(p, Raised(proc[p]))
  BY <1>1, <1>2, RaiseKeepsInv
<1>3. CASE Step(Unlinked(Source(proc[p].op)), data, [proc EXCEPT ![p] = Ended(proc[p], "ok")])
  BY <1>1, <1>3, EndedOK, NamesApart, UnlinkKeepsInv
<1> QED
  BY <1>2, <1>3 DEF DeleteSource

LEMMA CleanUpKeepsInv ==
  ASSUME FilesInv, NEW p \in Procs, CleanUp(p)
  PROVE  FilesInv'
<1>1. proc[p] \in Call /\ proc[p].pc = "cleanup"
  BY DEF FilesInv, CallsOK, CleanUp
<1>2. Step(Unlinked(Temp(proc[p].op)), data, [proc EXCEPT ![p] = Ended(proc[p], "error")])
  BY DEF CleanUp
<1> QED
  BY <1>1, <1>2, EndedOK, NamesApart, UnlinkKeepsInv

LEMMA KilledKeepsInv ==
  ASSUME FilesInv, NEW p \in Procs, Killed(p)
  PROVE  FilesInv'
<1>1. proc[p] \in Call
  BY DEF FilesInv, CallsOK
<1> QED
  BY <1>1, EndedOK, GoKeepsInv DEF Killed

-----------------------------------------------------------------------------
(* The theorem                                                             *)

LEMMA InvInit == Init => FilesInv
<1> SUFFICES ASSUME Init PROVE FilesInv
  OBVIOUS
<1>1. CallsOK
  BY NoCallOK DEF Init, CallsOK, CallOK
<1>2. dir \in [Paths -> Inodes \cup {None}] /\ OneName
  <2>1. {1, 2} \subseteq Inodes
    <3> DEFINE two == {"file", "gz"}
    <3>1. IsFiniteSet(two) /\ Cardinality(two) = 2
      <4>1. IsFiniteSet({"gz"}) /\ Cardinality({"gz"}) = 1
        BY FS_Singleton
      <4>2. two = {"gz"} \cup {"file"} /\ "file" \notin {"gz"}
        OBVIOUS
      <4> QED
        BY <4>1, <4>2, FS_AddElement
    <3>2. IsFiniteSet(Paths) /\ two \subseteq Paths
      <4>1. Paths = ((two \cup {"tmp"}) \cup {"gzTmp"})
        BY DEF Paths
      <4> HIDE DEF two
      <4> QED
        BY <3>1, <4>1, FS_AddElement
    <3>3. Cardinality(Paths) \in Nat /\ Cardinality(Paths) >= 2
      BY <3>1, <3>2, FS_Subset, FS_CardinalityType
    <3>4. Cardinality(Procs) \in Nat
      BY FileAssumption, FS_CardinalityType
    <3> QED
      BY <3>3, <3>4 DEF Inodes
  <2> QED
    BY <2>1 DEF Init, OneName, Paths
<1>3. data \in [Inodes -> Content]
  <2>1. PICK f \in [1..2 -> Versions] : data = [i \in Inodes |->
          IF i \in {dir["file"], dir["gz"]} THEN WholeOf(f[i]) ELSE Blank]
    BY DEF Init
  <2>2. \A i \in Inodes : i \in {dir["file"], dir["gz"]} => i \in 1..2
    BY NoneApart DEF Init
  <2>3. \A v \in Versions : WholeOf(v) \in Content
    BY DEF WholeOf, Content
  <2>4. Blank \in Content
    BY DEF Blank, Content
  <2> QED
    BY <2>1, <2>2, <2>3, <2>4
<1> QED
  BY <1>1, <1>2, <1>3, NoCallOK DEF FilesInv, FilesOK, OwnTemp, WritesTemp, Init

LEMMA InvNext ==
  ASSUME "apart" \in Cautions, FilesInv, [Next]_vars
  PROVE  FilesInv'
<1>1. CASE UNCHANGED vars
  BY <1>1 DEF vars, FilesInv, CallsOK, FilesOK, OneName, OwnTemp, WritesTemp, CallOK, Call,
              Content, Inodes, Temp
<1>2. ASSUME NEW p \in Procs, CallStep(p)
      PROVE  FilesInv'
  BY <1>2, LookForTargetKeepsInv, UnlinkTargetKeepsInv, SkipAndDeleteKeepsInv,
     OpenInKeepsInv, OpenOutKeepsInv, CopyKeepsInv, ReplaceKeepsInv, DeleteSourceKeepsInv,
     CleanUpKeepsInv DEF CallStep
<1> QED
  BY <1>1, <1>2, CallWriteKeepsInv, CallCompressKeepsInv, KilledKeepsInv DEF Next

(* With callers that keep calls of one path apart, killed calls included,  *)
(* nobody ever writes to a file that a reader can find under one of the two*)
(* names: what the temporary files of atomic_write(), gzip_file() and      *)
(* gunzip_file() are for.                                                  *)
THEOREM ReadersSafe == "apart" \in Cautions => (Spec => []PublishedFrozen)
<1> SUFFICES ASSUME "apart" \in Cautions PROVE Spec => []PublishedFrozen
  OBVIOUS
<1>1. Init => FilesInv
  BY InvInit
<1>2. FilesInv /\ [Next]_vars => FilesInv'
  BY InvNext
<1>3. FilesInv => PublishedFrozen
  BY FrozenByInv
<1> QED
  BY <1>1, <1>2, <1>3, PTL DEF Spec

-----------------------------------------------------------------------------
(***************************************************************************)
(* The file operations implement FilePair, for any processes and versions  *)
(* and any number of calls, when their callers keep all three Cautions.    *)
(***************************************************************************)

(* The inductive invariant.  Its parts are about a directory d and contents*)
(* c, so that they can speak of a step's before any dead inode is blanked. *)

Public == {"file", "gz"}
Careful == Cautions = {"apart", "sameContent", "sourceThere"}

Seen(d, c, path) ==
  IF d[path] = None THEN None
  ELSE IF \E v \in Versions : c[d[path]] = WholeOf(v) THEN c[d[path]][1] ELSE "torn"

(* A call that removes something is alone.                                 *)
Alone == \A p, q \in Procs :
  p # q /\ proc[p].pc # "idle" /\ proc[q].pc # "idle" => ~proc[p].force /\ ~proc[p].delete

(* The two names show whole versions.                                      *)
PublicWhole(d, c) == \A name \in Public :
  d[name] # None => \E v \in Versions : c[d[name]] = WholeOf(v)

(* How far a copy has come: it reads a whole version that no temporary name*)
(* leads to, it has written the first n chunks of it, and then all.        *)
Copying(d, c, w) ==
  /\ (w.pc \in {"openOut", "copy"} /\ w.op # "write") =>
       /\ w.version \in Versions /\ c[w.from] = WholeOf(w.version)
       /\ w.from \notin {d["tmp"], d["gzTmp"]}
  /\ w.pc = "copy" => c[w.to] = [k \in 1..2 |-> IF k <= w.n THEN w.version ELSE None]
  /\ w.pc = "replace" =>
       /\ w.version \in Versions
       /\ d[Temp(w.op)] # None => c[d[Temp(w.op)]] = WholeOf(w.version)

(* What a call that removes something may rely on, being alone: there is   *)
(* another copy of what it removes.                                        *)
Removing(d, c, w) ==
  /\ w.pc = "unlink" => w.force
  /\ w.pc \in {"skip", "delete"} => w.delete
  /\ (w.pc \in {"exists", "unlink"} /\ w.force) => d[Source(w.op)] # None
  /\ (w.pc = "skip" \/ (w.pc = "exists" /\ w.delete /\ ~w.force)) =>
       \/ Seen(d, c, Target(w.op)) \in {None, Seen(d, c, Source(w.op))}
       \/ d[Source(w.op)] = None
  /\ w.pc = "skip" => d[Target(w.op)] # None
  /\ (w.pc \in {"openOut", "copy", "replace", "delete"} /\ w.delete) =>
       Seen(d, c, Source(w.op)) = w.version
  /\ w.pc = "delete" => Seen(d, c, Target(w.op)) = w.version

PairInv == /\ Alone /\ PublicWhole(dir, data)
           /\ \A p \in Procs : /\ Copying(dir, data, proc[p])
                               /\ Removing(dir, data, proc[p])

-----------------------------------------------------------------------------
(* What the names show, and what has been read                             *)

LEMMA SeenWhole ==
  ASSUME NEW d, NEW c, PublicWhole(d, c), NEW name \in Public
  PROVE  /\ d[name] = None => Seen(d, c, name) = None
         /\ d[name] # None => /\ Seen(d, c, name) \in Versions
                              /\ c[d[name]] = WholeOf(Seen(d, c, name))
<1>1. CASE d[name] # None
  <2>1. PICK v \in Versions : c[d[name]] = WholeOf(v)
    BY <1>1 DEF PublicWhole
  <2>2. WholeOf(v)[1] = v
    BY DEF WholeOf
  <2> QED
    BY <1>1, <2>1, <2>2 DEF Seen
<1>2. CASE d[name] = None
  BY <1>2 DEF Seen
<1> QED
  BY <1>1, <1>2

Reads(w) == w.pc \in {"openOut", "copy", "replace"} /\ w.op # "write"
Readers(q, name) == {p \in Procs : Reads(q[p]) /\ Target(q[p].op) = name}
TakenIn(q, name) ==
  IF Readers(q, name) = {} THEN None ELSE q[CHOOSE p \in Readers(q, name) : TRUE].version
TempsDiffer(q) == \A p, r \in Procs :
  p # r /\ q[p].pc # "idle" /\ q[r].pc # "idle" => Temp(q[p].op) # Temp(q[r].op)

LEMMA TakenForIn ==
  ASSUME NEW name
  PROVE  TakenFor(name) = TakenIn(proc, name) /\ TakenFor(name)' = TakenIn(proc', name)
  BY DEF TakenFor, TakenIn, Readers, Reads, InFlight

(* Nobody else copies to the same name. *)
LEMMA OneReader ==
  ASSUME NEW q \in [Procs -> Call], TempsDiffer(q), \A p \in Procs : CallOK(q[p]),
         NEW name, NEW p \in Readers(q, name)
  PROVE  Readers(q, name) = {p} /\ TakenIn(q, name) = q[p].version
<1>1. \A r \in Readers(q, name) : r = p
  <2> SUFFICES ASSUME NEW r \in Readers(q, name) PROVE r = p
    OBVIOUS
  <2>1. q[p].op \in {"gzip", "gunzip"} /\ q[r].op \in {"gzip", "gunzip"}
    BY DEF Readers, Reads, CallOK, Call
  <2>2. q[p].op = q[r].op
    BY <2>1 DEF Readers, Target
  <2> QED
    BY <2>2 DEF Readers, Reads, TempsDiffer
<1>2. Readers(q, name) = {p}
  BY <1>1
<1>3. (CHOOSE r \in Readers(q, name) : TRUE) = p
  BY <1>1
<1> QED
  BY <1>2, <1>3 DEF TakenIn

LEMMA TakenStep ==
  ASSUME FilesInv, FilesInv', NEW p \in Procs, NEW w \in Call,
         proc' = [proc EXCEPT ![p] = w], NEW name
  PROVE  /\ TakenFor(name)' =
              IF Reads(w) /\ Target(w.op) = name THEN w.version
              ELSE IF Reads(proc[p]) /\ Target(proc[p].op) = name THEN None
              ELSE TakenFor(name)
         /\ (Reads(proc[p]) /\ Target(proc[p].op) = name) => TakenFor(name) = proc[p].version
         /\ ~Reads(proc[p]) /\ Reads(w) /\ Target(w.op) = name => TakenFor(name) = None
<1>1. /\ proc \in [Procs -> Call] /\ \A q \in Procs : CallOK(proc[q])
      /\ TempsDiffer(proc)
  BY DEF FilesInv, CallsOK, OwnTemp, TempsDiffer
<1>2. proc' \in [Procs -> Call] /\ \A q \in Procs : CallOK(proc'[q])
  BY DEF FilesInv, CallsOK, CallOK, Call, Inodes
<1>3. TempsDiffer(proc')
  BY DEF FilesInv, OwnTemp, TempsDiffer, Temp
<1>4. proc'[p] = w /\ \A q \in Procs \ {p} : proc'[q] = proc[q]
  BY <1>1
<1>5. \A q \in Procs \ {p} : q \in Readers(proc', name) <=> q \in Readers(proc, name)
  BY <1>4 DEF Readers
<1>6. CASE Reads(w) /\ Target(w.op) = name
  <2>1. p \in Readers(proc', name)
    BY <1>4, <1>6 DEF Readers
  <2>2. TakenIn(proc', name) = w.version /\ Readers(proc', name) = {p}
    BY <1>2, <1>3, <1>4, <2>1, OneReader
  <2>3. ~Reads(proc[p]) => Readers(proc, name) = {}
    BY <1>5, <2>2 DEF Readers
  <2>4. Reads(proc[p]) /\ Target(proc[p].op) = name => TakenIn(proc, name) = proc[p].version
    BY <1>1, OneReader DEF Readers
  <2> QED
    BY <1>6, <2>2, <2>3, <2>4, TakenForIn DEF TakenIn
<1>7. CASE ~(Reads(w) /\ Target(w.op) = name) /\ Reads(proc[p]) /\ Target(proc[p].op) = name
  <2>1. p \in Readers(proc, name)
    BY <1>7 DEF Readers
  <2>2. TakenIn(proc, name) = proc[p].version /\ Readers(proc, name) = {p}
    BY <1>1, <2>1, OneReader
  <2>3. Readers(proc', name) = {}
    BY <1>4, <1>5, <1>7, <2>2 DEF Readers
  <2> QED
    BY <1>7, <2>2, <2>3, TakenForIn DEF TakenIn
<1>8. CASE ~(Reads(w) /\ Target(w.op) = name) /\ ~(Reads(proc[p]) /\ Target(proc[p].op) = name)
  <2>1. Readers(proc', name) = Readers(proc, name) /\ p \notin Readers(proc, name)
    BY <1>4, <1>5, <1>8 DEF Readers
  <2>2. TakenIn(proc', name) = TakenIn(proc, name)
    <3>1. CASE Readers(proc, name) = {}
      BY <2>1, <3>1 DEF TakenIn
    <3>2. CASE Readers(proc, name) # {}
      <4>1. PICK q \in Readers(proc, name) : TRUE
        BY <3>2
      <4>2. q \in Procs \ {p} /\ q \in Readers(proc', name)
        BY <2>1, <4>1 DEF Readers
      <4>3. TakenIn(proc, name) = proc[q].version
        BY <1>1, <4>1, OneReader
      <4>4. TakenIn(proc', name) = proc'[q].version
        BY <1>2, <1>3, <4>2, OneReader
      <4> QED
        BY <1>4, <4>2, <4>3, <4>4
    <3> QED
      BY <3>1, <3>2
  <2> QED
    BY <1>8, <2>2, TakenForIn
<1> QED
  BY <1>6, <1>7, <1>8

(* A call that goes on with what it has read. *)
LEMMA TakenKept ==
  ASSUME FilesInv, FilesInv', NEW p \in Procs, NEW w \in Call, proc' = [proc EXCEPT ![p] = w],
         Reads(w) <=> Reads(proc[p]), w.op = proc[p].op, w.version = proc[p].version
  PROVE  \A m : TakenFor(m)' = TakenFor(m)
<1> SUFFICES ASSUME NEW m PROVE TakenFor(m)' = TakenFor(m)
  OBVIOUS
<1>1. CASE Reads(proc[p]) /\ Target(proc[p].op) = m
  <2>1. TakenFor(m)' = w.version
    BY <1>1, TakenStep
  <2>2. TakenFor(m) = proc[p].version
    BY <1>1, TakenStep
  <2> QED
    BY <2>1, <2>2
<1>2. CASE ~(Reads(proc[p]) /\ Target(proc[p].op) = m)
  BY <1>2, TakenStep
<1> QED
  BY <1>1, <1>2

-----------------------------------------------------------------------------
(* Steps                                                                   *)

LEMMA ShownStep ==
  ASSUME NEW d, NEW c, NEW q, Step(d, c, q), NEW path \in Paths, d[path] \in Inodes \cup {None}
  PROVE  /\ Shown(path)' = Seen(d, c, path) /\ Shown(path) = Seen(dir, data, path)
         /\ Seen(dir', data', path) = Seen(d, c, path)
         /\ d[path] # None => data'[d[path]] = c[d[path]]
<1>1. dir' = d /\ (d[path] # None => data'[d[path]] = c[d[path]])
  BY DEF Step, Live
<1> QED
  BY <1>1 DEF Shown, Seen

(* What every step has to show, beside what StepKeepsInv asks: it writes to*)
(* no file but the call's temporary one, which was not in use, leaves whole*)
(* versions under the two names, and is in order itself.                   *)
LEMMA StepKeepsPairInv ==
  ASSUME FilesInv, PairInv, FilesInv', NEW p \in Procs, NEW w \in Call, CallOK(w),
         NEW d \in [Paths -> Inodes \cup {None}], NEW c \in [Inodes -> Content],
         Step(d, c, [proc EXCEPT ![p] = w]),
         proc[p].pc # "idle" \/ w.pc # "idle",
         w.pc # "idle" => \A q \in Procs \ {p} : proc[q].pc # "idle" =>
           ~w.force /\ ~w.delete /\ ~proc[q].force /\ ~proc[q].delete,
         \A i \in Inodes : c[i] = data[i] \/ (w.pc # "idle" /\ i = d[Temp(w.op)]),
         \A x \in {"tmp", "gzTmp"} : d[x] \in {dir[x], None} \/ d[x] \notin Live(dir, proc),
         \A q \in Procs \ {p} : proc[q].pc # "idle" =>
           d[Temp(proc[q].op)] = dir[Temp(proc[q].op)],
         PublicWhole(d, c), Copying(d, c, w), Removing(d, c, w)
  PROVE  PairInv'
<1>1. dir' = d /\ proc' = [proc EXCEPT ![p] = w] /\ proc \in [Procs -> Call]
  BY DEF Step, FilesInv, CallsOK
<1>2. proc'[p] = w /\ \A q \in Procs \ {p} : proc'[q] = proc[q]
  BY <1>1
<1>3. \A i \in Inodes : i \in Live(d, proc') => data'[i] = c[i]
  BY <1>1 DEF Step
<1>4. \A path \in Paths : /\ Seen(dir', data', path) = Seen(d, c, path)
                          /\ d[path] # None => data'[d[path]] = c[d[path]]
  BY ShownStep
<1>5. Alone'
  BY <1>2 DEF PairInv, Alone
<1>6. PublicWhole(dir', data')
  BY <1>1, <1>4 DEF PublicWhole, Public, Paths
<1>7. ASSUME NEW q \in Procs, Copying(d, c, proc'[q]), CallOK(proc'[q]), proc'[q] \in Call
      PROVE  Copying(dir', data', proc'[q])
  <2>1. /\ proc'[q].from \in Live(d, proc') /\ proc'[q].to \in Live(d, proc')
        /\ d[Temp(proc'[q].op)] \in Live(d, proc')
    BY NamesApart DEF Live
  <2>2. (proc'[q].pc \in {"openOut", "copy"} /\ proc'[q].op # "write") => proc'[q].from \in Inodes
    BY <1>7 DEF CallOK, Call
  <2>3. proc'[q].pc = "copy" => proc'[q].to \in Inodes
    BY <1>7 DEF CallOK, Call
  <2> QED
    BY <1>1, <1>3, <1>4, <1>7, <2>1, <2>2, <2>3, NamesApart DEF Copying
<1>8. ASSUME NEW q \in Procs, Removing(d, c, proc'[q])
      PROVE  Removing(dir', data', proc'[q])
  BY <1>1, <1>4, <1>8, NamesApart DEF Removing
<1>9. ASSUME NEW q \in Procs \ {p}
      PROVE  Copying(d, c, proc[q]) /\ Removing(d, c, proc[q])
  <2>1. /\ Copying(dir, data, proc[q]) /\ Removing(dir, data, proc[q])
        /\ CallOK(proc[q]) /\ proc[q] \in Call
    BY DEF FilesInv, CallsOK, PairInv
  <2>2. proc[q].pc # "idle" => ~proc[q].force /\ ~proc[q].delete
    BY DEF PairInv, Alone
  <2>3. Removing(d, c, proc[q])
    BY <2>1, <2>2 DEF Removing
  <2>4. ASSUME proc[q].pc \in {"openOut", "copy"}, proc[q].op # "write"
        PROVE  /\ proc[q].version \in Versions /\ c[proc[q].from] = WholeOf(proc[q].version)
               /\ proc[q].from \notin {d["tmp"], d["gzTmp"]}
    <3> DEFINE i == proc[q].from
    <3>1. /\ i \in Inodes /\ i \in Live(dir, proc) /\ i \notin {dir["tmp"], dir["gzTmp"]}
          /\ data[i] = WholeOf(proc[q].version) /\ proc[q].version \in Versions
      BY <2>1, <2>4 DEF Copying, CallOK, Call, Live
    <3>2. i \notin {d["tmp"], d["gzTmp"]}
      BY <3>1, NoneApart
    <3>3. c[i] = data[i]
      BY <3>1, <3>2 DEF Temp
    <3> QED
      BY <3>1, <3>2, <3>3
  <2>5. ASSUME proc[q].pc \in {"copy", "replace"}
        PROVE  /\ proc[q].pc = "copy" => c[proc[q].to] = data[proc[q].to]
               /\ (proc[q].pc = "replace" /\ d[Temp(proc[q].op)] # None) =>
                    /\ dir[Temp(proc[q].op)] # None
                    /\ c[d[Temp(proc[q].op)]] = data[dir[Temp(proc[q].op)]]
    <3> DEFINE i == dir[Temp(proc[q].op)]
    <3>1. d[Temp(proc[q].op)] = i /\ (proc[q].pc = "copy" => i = proc[q].to)
      BY <2>5 DEF FilesInv, WritesTemp
    <3>2. w.pc # "idle" => Temp(w.op) # Temp(proc[q].op)
      BY <1>2, <2>5 DEF FilesInv, OwnTemp, Temp
    <3>3. \A x, y \in Paths : d[x] = d[y] /\ d[x] # None => x = y
      BY <1>1 DEF FilesInv, OneName
    <3>4. i # None => i \in Inodes /\ c[i] = data[i]
      BY <3>1, <3>2, <3>3, NamesApart DEF FilesInv, FilesOK
    <3>5. proc[q].pc = "copy" => i # None
      BY <2>1, <3>1 DEF CallOK
    <3> QED
      BY <3>1, <3>4, <3>5
  <2>6. Copying(d, c, proc[q])
    BY <2>1, <2>4, <2>5 DEF Copying
  <2> QED
    BY <2>3, <2>6
<1>10. \A q \in Procs : CallOK(proc'[q]) /\ proc'[q] \in Call
  BY <1>2 DEF FilesInv, CallsOK
<1>11. \A q \in Procs : Copying(dir', data', proc'[q]) /\ Removing(dir', data', proc'[q])
  BY <1>2, <1>7, <1>8, <1>9, <1>10
<1> QED
  BY <1>5, <1>6, <1>11 DEF PairInv, Copying, Removing, PublicWhole, Seen, Public

-----------------------------------------------------------------------------
(* The steps of FilePair, name by name                                     *)

LEMMA PairStutters ==
  ASSUME \A m \in Public : Shown(m)' = Shown(m) /\ TakenFor(m)' = TakenFor(m)
  PROVE  UNCHANGED Pair!vars
  BY DEF Pair!vars, Public

LEMMA PairWrites ==
  ASSUME NEW v \in Versions, Shown("file")' = v, Shown("gz")' = Shown("gz"),
         \A m \in Public : TakenFor(m)' = TakenFor(m)
  PROVE  Pair!Next
<1>1. Pair!Write(v)
  BY DEF Pair!Write, Public
<1> QED
  BY <1>1 DEF Pair!Next

LEMMA PairTakes ==
  ASSUME NEW n \in Public, TakenFor(n) = None, Shown(Pair!Other(n)) # None,
         \A m \in Public : /\ Shown(m)' = Shown(m)
                           /\ TakenFor(m)' = IF m = n THEN Shown(Pair!Other(n)) ELSE TakenFor(m)
  PROVE  Pair!Next
<1>1. Pair!Take(n)
  BY DEF Pair!Take, Pair!Other, Public
<1> QED
  BY <1>1 DEF Pair!Next, Pair!Names, Public

LEMMA PairPuts ==
  ASSUME NEW n \in Public, TakenFor(n) # None,
         \A m \in Public : /\ Shown(m)' = IF m = n THEN TakenFor(n) ELSE Shown(m)
                           /\ TakenFor(m)' = IF m = n THEN None ELSE TakenFor(m)
  PROVE  Pair!Next
<1>1. Pair!Put(n)
  BY DEF Pair!Put, Public
<1> QED
  BY <1>1 DEF Pair!Next, Pair!Names, Public

LEMMA PairGivesUp ==
  ASSUME NEW n \in Public,
         \A m \in Public : /\ Shown(m)' = Shown(m)
                           /\ TakenFor(m)' = IF m = n THEN None ELSE TakenFor(m)
  PROVE  Pair!Next
<1>1. Pair!GiveUp(n)
  BY DEF Pair!GiveUp, Public
<1> QED
  BY <1>1 DEF Pair!Next, Pair!Names, Public

LEMMA PairRemoves ==
  ASSUME NEW n \in Public, Shown(Pair!Other(n)) # None \/ Shown(Pair!Other(n)) = Shown(n),
         \A m \in Public : /\ Shown(m)' = IF m = n THEN None ELSE Shown(m)
                           /\ TakenFor(m)' = TakenFor(m)
  PROVE  Pair!Next
<1>1. Pair!Drop(n) \/ Pair!Clear(n)
  BY DEF Pair!Drop, Pair!Clear, Pair!Other, Public
<1> QED
  BY <1>1 DEF Pair!Next, Pair!Names, Public

PairStep == [Pair!Next]_(Pair!vars)
Quiet == \A m \in Public : Shown(m)' = Shown(m)

-----------------------------------------------------------------------------
(* Steps that write to no file                                             *)

LEMMA AloneGoes ==
  ASSUME PairInv, NEW p \in Procs, proc[p].pc # "idle", NEW w,
         w.force = proc[p].force, w.delete = proc[p].delete
  PROVE  \A q \in Procs \ {p} : proc[q].pc # "idle" =>
           ~w.force /\ ~w.delete /\ ~proc[q].force /\ ~proc[q].delete
  BY DEF PairInv, Alone

LEMMA GoKeepsPairInv ==
  ASSUME FilesInv, PairInv, FilesInv', NEW p \in Procs, NEW w \in Call, CallOK(w),
         Go(p, w), proc[p].pc # "idle" \/ w.pc # "idle",
         w.pc # "idle" => \A q \in Procs \ {p} : proc[q].pc # "idle" =>
           ~w.force /\ ~w.delete /\ ~proc[q].force /\ ~proc[q].delete,
         Copying(dir, data, w), Removing(dir, data, w)
  PROVE  PairInv' /\ \A m \in Public : Shown(m)' = Shown(m)
<1>1. dir \in [Paths -> Inodes \cup {None}] /\ data \in [Inodes -> Content]
  BY DEF FilesInv, FilesOK
<1>2. Step(dir, data, [proc EXCEPT ![p] = w])
  BY DEF Go
<1>3. PairInv'
  BY <1>1, <1>2, StepKeepsPairInv DEF PairInv
<1>4. \A m \in Public : Shown(m)' = Shown(m)
  BY <1>1, <1>2, ShownStep DEF Public, Paths
<1> QED
  BY <1>3, <1>4

(* A call ends, is killed or raises: what it has read is given up.         *)
LEMMA EndKeepsPairInv ==
  ASSUME FilesInv, PairInv, FilesInv', NEW p \in Procs, proc[p].pc # "idle",
         NEW w \in Call, CallOK(w), w.pc \in {"idle", "cleanup"},
         w.pc = "cleanup" => w.force = proc[p].force /\ w.delete = proc[p].delete, Go(p, w)
  PROVE  PairInv' /\ PairStep /\ Quiet
<1>1. Copying(dir, data, w) /\ Removing(dir, data, w)
  BY DEF Copying, Removing
<1>2. w.pc # "idle" => \A q \in Procs \ {p} : proc[q].pc # "idle" =>
        ~w.force /\ ~w.delete /\ ~proc[q].force /\ ~proc[q].delete
  BY AloneGoes
<1>3. PairInv' /\ \A m \in Public : Shown(m)' = Shown(m)
  BY <1>1, <1>2, GoKeepsPairInv
<1>4. proc' = [proc EXCEPT ![p] = w] /\ ~Reads(w)
  BY DEF Go, Step, Reads
<1>5. \A m \in Public : TakenFor(m)' =
        IF Reads(proc[p]) /\ Target(proc[p].op) = m THEN None ELSE TakenFor(m)
  BY <1>4, TakenStep
<1>6. CASE Reads(proc[p])
  <2>1. Target(proc[p].op) \in Public
    BY DEF Target, Public
  <2>2. Pair!Next
    BY <1>3, <1>5, <1>6, <2>1, PairGivesUp
  <2> QED
    BY <1>3, <2>2 DEF PairStep, Quiet
<1>7. CASE ~Reads(proc[p])
  BY <1>3, <1>5, <1>7, PairStutters DEF PairStep, Quiet
<1> QED
  BY <1>6, <1>7

LEMMA RaiseKeepsPairInv ==
  ASSUME FilesInv, PairInv, FilesInv', NEW p \in Procs, proc[p].pc # "idle",
         Go(p, Raised(proc[p]))
  PROVE  PairInv' /\ PairStep /\ Quiet
<1>1. proc[p] \in Call /\ CallOK(proc[p])
  BY DEF FilesInv, CallsOK
<1>2. Raised(proc[p]).force = proc[p].force /\ Raised(proc[p]).delete = proc[p].delete
  BY <1>1 DEF Raised, Call
<1> QED
  BY <1>1, <1>2, RaisedOK, EndKeepsPairInv

(* A call that neither was nor is copying goes on.                         *)
LEMMA AdvanceKeepsPairInv ==
  ASSUME FilesInv, PairInv, FilesInv', NEW p \in Procs, NEW w \in Call, CallOK(w),
         Go(p, w), proc[p].pc # "idle" \/ w.pc # "idle",
         w.pc # "idle" => \A q \in Procs \ {p} : proc[q].pc # "idle" =>
           ~w.force /\ ~w.delete /\ ~proc[q].force /\ ~proc[q].delete,
         ~Reads(proc[p]), ~Reads(w), w.pc # "copy", w.pc # "replace", Removing(dir, data, w)
  PROVE  PairInv' /\ PairStep
<1>1. Copying(dir, data, w)
  BY DEF Copying, Reads
<1>2. PairInv' /\ \A m \in Public : Shown(m)' = Shown(m)
  BY <1>1, GoKeepsPairInv
<1>3. proc' = [proc EXCEPT ![p] = w]
  BY DEF Go, Step
<1>4. \A m \in Public : TakenFor(m)' = TakenFor(m)
  BY <1>3, TakenStep
<1> QED
  BY <1>2, <1>4, PairStutters DEF PairStep

(* A call removes a name that is its own, or one of the two.               *)
LEMMA UnlinkStep ==
  ASSUME FilesInv, PairInv, FilesInv', NEW p \in Procs, proc[p].pc # "idle",
         NEW path \in {Target(proc[p].op), Source(proc[p].op), Temp(proc[p].op)},
         NEW w \in Call, CallOK(w), w.pc \in {"idle", "openIn"},
         w.pc = "openIn" => w.force = proc[p].force /\ w.delete = proc[p].delete,
         Step(Unlinked(path), data, [proc EXCEPT ![p] = w])
  PROVE  /\ PairInv'
         /\ \A m \in Public : Shown(m)' = IF m = path THEN None ELSE Shown(m)
<1> DEFINE d == Unlinked(path)
<1>1. dir \in [Paths -> Inodes \cup {None}] /\ data \in [Inodes -> Content] /\ path \in Paths
  BY NamesApart DEF FilesInv, FilesOK
<1>2. /\ d \in [Paths -> Inodes \cup {None}]
      /\ \A x \in Paths : d[x] = IF x = path THEN None ELSE dir[x]
  BY <1>1 DEF Unlinked
<1>3. Step(d, data, [proc EXCEPT ![p] = w])
  OBVIOUS
<1> HIDE DEF d
<1>4. \A q \in Procs \ {p} : proc[q].pc # "idle" => d[Temp(proc[q].op)] = dir[Temp(proc[q].op)]
  <2> SUFFICES ASSUME NEW q \in Procs \ {p}, proc[q].pc # "idle"
               PROVE  d[Temp(proc[q].op)] = dir[Temp(proc[q].op)]
    OBVIOUS
  <2>1. Temp(proc[q].op) # Temp(proc[p].op)
    BY DEF FilesInv, OwnTemp
  <2> QED
    BY <1>2, <2>1, NamesApart
<1>5. PublicWhole(d, data)
  BY <1>2 DEF PairInv, PublicWhole, Public, Paths
<1>6. Copying(d, data, w) /\ Removing(d, data, w)
  BY DEF Copying, Removing
<1>7. w.pc # "idle" => \A q \in Procs \ {p} : proc[q].pc # "idle" =>
        ~w.force /\ ~w.delete /\ ~proc[q].force /\ ~proc[q].delete
  BY AloneGoes
<1>8. \A x \in {"tmp", "gzTmp"} : d[x] \in {dir[x], None}
  BY <1>2 DEF Paths
<1>9. PairInv'
  BY <1>1, <1>2, <1>3, <1>4, <1>5, <1>6, <1>7, <1>8, StepKeepsPairInv
<1>10. \A m \in Public : Shown(m)' = IF m = path THEN None ELSE Shown(m)
  BY <1>2, <1>3, ShownStep DEF Public, Paths, Seen
<1> QED
  BY <1>9, <1>10

-----------------------------------------------------------------------------
(* One lemma for each action                                               *)

LEMMA ShownIsSeen ==
  ASSUME NEW path \in Paths
  PROVE  Shown(path) = Seen(dir, data, path)
  BY DEF Shown, Seen

LEMMA StartKeepsPairInv ==
  ASSUME FilesInv, PairInv, FilesInv', Careful, NEW p \in Procs, NEW v \in Call, CallOK(v),
         v.pc = "exists" \/ (v.pc = "openOut" /\ v.op = "write" /\ ~v.delete), proc[p].pc = "idle",
         MayCall(p, v.op, v.force, v.delete), Started(p, v)
  PROVE  PairInv' /\ PairStep
<1> DEFINE before == Shown(Target(v.op))
           n == proc[p].calls + 1
           w == [v EXCEPT !.calls = n, !.before = before]
<1>1. n \in Nat /\ before \in Versions \cup {None, "torn"}
  BY NamesApart, ShownType DEF FilesInv, CallsOK, Call
<1>2. Go(p, w)
  BY DEF Started
<1> HIDE DEF before, n
<1>3. /\ w \in Call /\ w.pc = v.pc /\ w.op = v.op /\ w.to = v.to /\ w.from = v.from
      /\ w.version = v.version /\ w.force = v.force /\ w.delete = v.delete /\ w.n = v.n
  BY <1>1 DEF Call
<1> HIDE DEF w
<1>4. CallOK(w)
  BY <1>3 DEF CallOK
<1>5. \A q \in Procs \ {p} : proc[q].pc # "idle" =>
        ~w.force /\ ~w.delete /\ ~proc[q].force /\ ~proc[q].delete
  BY <1>3 DEF MayCall, Careful
<1>6. Removing(dir, data, w)
  <2>1. CASE w.pc = "exists"
    <3>1. w.force => dir[Source(w.op)] # None
      BY <1>3 DEF MayCall, Careful
    <3>2. ~w.force /\ w.delete =>
            \/ Seen(dir, data, Target(w.op)) \in {None, Seen(dir, data, Source(w.op))}
            \/ Seen(dir, data, Source(w.op)) = None
      BY <1>3, ShownIsSeen, NamesApart DEF MayCall, Careful
    <3>3. Seen(dir, data, Source(w.op)) = None => dir[Source(w.op)] = None
      BY SeenWhole, NoneApart DEF PairInv, Source, Public
    <3> QED
      BY <2>1, <3>1, <3>2, <3>3 DEF Removing
  <2>2. CASE w.pc = "openOut"
    BY <1>3, <2>2 DEF Removing
  <2> QED
    BY <1>3, <2>1, <2>2
<1> QED
  BY <1>2, <1>3, <1>4, <1>5, <1>6, AdvanceKeepsPairInv DEF Reads

LEMMA CallWriteKeepsPairInv ==
  ASSUME FilesInv, PairInv, FilesInv', Careful, NEW p \in Procs, NEW v \in Versions,
         CallWrite(p, v)
  PROVE  PairInv' /\ PairStep
<1> DEFINE w == [NoCall EXCEPT !.pc = "openOut", !.op = "write", !.version = v]
<1>1. w \in Call /\ w.pc = "openOut" /\ w.op = "write" /\ CallOK(w) /\ w.delete = FALSE
  BY NoCallOK DEF Call, CallOK
<1>2. NoCall.force = FALSE
  BY DEF NoCall
<1>3. w.force = FALSE
  BY <1>2, NoCallOK DEF Call
<1>4. proc[p].pc = "idle" /\ MayCall(p, "write", FALSE, FALSE) /\ Started(p, w)
  BY DEF CallWrite
<1> HIDE DEF w
<1> QED
  BY <1>1, <1>3, <1>4, StartKeepsPairInv

LEMMA CallCompressKeepsPairInv ==
  ASSUME FilesInv, PairInv, FilesInv', Careful, NEW p \in Procs, NEW op \in {"gzip", "gunzip"},
         NEW force \in BOOLEAN, NEW delete \in BOOLEAN, CallCompress(p, op, force, delete)
  PROVE  PairInv' /\ PairStep
<1> DEFINE v == [NoCall EXCEPT !.pc = "exists", !.op = op]
           w == [v EXCEPT !.force = force, !.delete = delete]
<1>1. w \in Call /\ w.pc = "exists" /\ w.op = op /\ CallOK(w)
        /\ w.force = force /\ w.delete = delete
  <2>1. /\ v \in Call /\ v.pc = "exists" /\ v.op = op /\ v.n = 0
        /\ v.from = None /\ v.to = None
    BY NoCallOK DEF Call
  <2> HIDE DEF v
  <2> QED
    BY <2>1, ZenonT(60) DEF Call, CallOK
<1>2. proc[p].pc = "idle" /\ MayCall(p, op, force, delete) /\ Started(p, w)
  BY DEF CallCompress
<1> HIDE DEF w
<1> QED
  BY <1>1, <1>2, StartKeepsPairInv

LEMMA LookForTargetKeepsPairInv ==
  ASSUME FilesInv, PairInv, FilesInv', NEW p \in Procs, LookForTarget(p)
  PROVE  PairInv' /\ PairStep
<1>1. proc[p] \in Call /\ CallOK(proc[p]) /\ proc[p].pc = "exists" /\ Removing(dir, data, proc[p])
  BY DEF FilesInv, CallsOK, LookForTarget, PairInv
<1>2. ASSUME NEW pc \in {"openIn", "unlink", "skip"}, Go(p, [proc[p] EXCEPT !.pc = pc]),
             pc = "unlink" => proc[p].force,
             pc = "skip" => dir[Target(proc[p].op)] # None /\ proc[p].delete /\ ~proc[p].force
      PROVE  PairInv' /\ PairStep
  <2> DEFINE w == [proc[p] EXCEPT !.pc = pc]
  <2>1. /\ w \in Call /\ w.pc = pc /\ w.op = proc[p].op /\ CallOK(w)
        /\ w.force = proc[p].force /\ w.delete = proc[p].delete
    BY <1>1 DEF Call, CallOK
  <2> HIDE DEF w
  <2>2. Removing(dir, data, w)
    BY <1>1, <1>2, <2>1 DEF Removing
  <2>3. \A q \in Procs \ {p} : proc[q].pc # "idle" =>
          ~w.force /\ ~w.delete /\ ~proc[q].force /\ ~proc[q].delete
    BY <1>1, <2>1, AloneGoes
  <2> QED
    BY <1>1, <1>2, <2>1, <2>2, <2>3, AdvanceKeepsPairInv DEF w, Reads
<1>3. CASE Go(p, Ended(proc[p], "ok"))
  BY <1>1, <1>3, EndedOK, EndKeepsPairInv
<1> QED
  BY <1>2, <1>3 DEF LookForTarget

LEMMA UnlinkTargetKeepsPairInv ==
  ASSUME FilesInv, PairInv, FilesInv', NEW p \in Procs, UnlinkTarget(p)
  PROVE  PairInv' /\ PairStep
<1> DEFINE w == [proc[p] EXCEPT !.pc = "openIn"]
           n == Target(proc[p].op)
<1>1. /\ proc[p] \in Call /\ CallOK(proc[p]) /\ proc[p].pc = "unlink"
      /\ Removing(dir, data, proc[p])
  BY DEF FilesInv, CallsOK, UnlinkTarget, PairInv
<1>2. /\ w \in Call /\ w.pc = "openIn" /\ w.op = proc[p].op /\ CallOK(w)
      /\ w.force = proc[p].force /\ w.delete = proc[p].delete
  BY <1>1 DEF Call, CallOK
<1>3. Step(Unlinked(n), data, [proc EXCEPT ![p] = w])
  BY DEF UnlinkTarget
<1> HIDE DEF w
<1>4. PairInv' /\ \A m \in Public : Shown(m)' = IF m = n THEN None ELSE Shown(m)
  BY <1>1, <1>2, <1>3, UnlinkStep
<1>5. \A m \in Public : TakenFor(m)' = TakenFor(m)
  BY <1>1, <1>2, <1>3, TakenStep DEF Step, Reads
<1>6. n \in Public /\ Pair!Other(n) = Source(proc[p].op) /\ Source(proc[p].op) \in Public \cap Paths
  BY DEF Target, Source, Pair!Other, Public, Paths
<1>7. Shown(Source(proc[p].op)) # None
  <2>1. dir[Source(proc[p].op)] # None
    BY <1>1 DEF Removing
  <2> QED
    BY <1>6, <2>1, SeenWhole, ShownIsSeen, NoneApart DEF PairInv
<1>8. Pair!Next
  BY <1>4, <1>5, <1>6, <1>7, PairRemoves
<1> QED
  BY <1>4, <1>8 DEF PairStep

(* A source goes while its target shows the same. *)
LEMMA SourceGoes ==
  ASSUME FilesInv, PairInv, FilesInv', NEW p \in Procs, proc[p].pc \in {"skip", "delete"},
         Step(Unlinked(Source(proc[p].op)), data, [proc EXCEPT ![p] = Ended(proc[p], "ok")]),
         \/ Shown(Target(proc[p].op)) = Shown(Source(proc[p].op))
         \/ dir[Source(proc[p].op)] = None
  PROVE  PairInv' /\ PairStep
<1> DEFINE n == Source(proc[p].op)
           w == Ended(proc[p], "ok")
<1>1. w \in Call /\ CallOK(w) /\ w.pc = "idle"
  BY EndedOK DEF FilesInv, CallsOK
<1> HIDE DEF w
<1>2. PairInv' /\ \A m \in Public : Shown(m)' = IF m = n THEN None ELSE Shown(m)
  BY <1>1, UnlinkStep DEF w
<1>3. \A m \in Public : TakenFor(m)' = TakenFor(m)
  BY <1>1, TakenStep DEF Step, Reads, w
<1>4. n \in Public /\ Pair!Other(n) = Target(proc[p].op) /\ n \in Paths
  BY DEF Target, Source, Pair!Other, Public, Paths
<1>5. CASE Shown(Target(proc[p].op)) = Shown(n)
  BY <1>2, <1>3, <1>4, <1>5, PairRemoves DEF PairStep
<1>6. CASE dir[n] = None
  <2>1. Shown(n) = None
    BY <1>6 DEF Shown
  <2> QED
    BY <1>2, <1>3, <2>1, PairStutters DEF PairStep
<1> QED
  BY <1>5, <1>6

LEMMA SkipAndDeleteKeepsPairInv ==
  ASSUME FilesInv, PairInv, FilesInv', NEW p \in Procs, SkipAndDelete(p)
  PROVE  PairInv' /\ PairStep
<1>1. Removing(dir, data, proc[p]) /\ proc[p].pc = "skip"
  BY DEF PairInv, SkipAndDelete
<1>2. /\ Target(proc[p].op) \in Public \cap Paths /\ Source(proc[p].op) \in Paths
      /\ dir[Target(proc[p].op)] # None
  BY <1>1 DEF Removing, Target, Source, Public, Paths
<1>3. Shown(Target(proc[p].op)) # None
  BY <1>2, SeenWhole, ShownIsSeen, NoneApart DEF PairInv
<1>4. \/ Shown(Target(proc[p].op)) = Shown(Source(proc[p].op))
      \/ dir[Source(proc[p].op)] = None
  BY <1>1, <1>2, <1>3, ShownIsSeen DEF Removing
<1>5. Step(Unlinked(Source(proc[p].op)), data, [proc EXCEPT ![p] = Ended(proc[p], "ok")])
  BY DEF SkipAndDelete
<1> QED
  BY <1>1, <1>4, <1>5, SourceGoes

LEMMA DeleteSourceKeepsPairInv ==
  ASSUME FilesInv, PairInv, FilesInv', NEW p \in Procs, DeleteSource(p)
  PROVE  PairInv' /\ PairStep
<1>1. Removing(dir, data, proc[p]) /\ proc[p].pc = "delete"
  BY DEF PairInv, DeleteSource
<1>2. CASE Go(p, Raised(proc[p]))
  BY <1>1, <1>2, RaiseKeepsPairInv
<1>3. CASE Step(Unlinked(Source(proc[p].op)), data, [proc EXCEPT ![p] = Ended(proc[p], "ok")])
  <2>1. Shown(Target(proc[p].op)) = Shown(Source(proc[p].op))
    BY <1>1, ShownIsSeen, NamesApart DEF Removing
  <2> QED
    BY <1>1, <1>3, <2>1, SourceGoes
<1> QED
  BY <1>2, <1>3 DEF DeleteSource

LEMMA CleanUpKeepsPairInv ==
  ASSUME FilesInv, PairInv, FilesInv', NEW p \in Procs, CleanUp(p)
  PROVE  PairInv' /\ PairStep
<1> DEFINE w == Ended(proc[p], "error")
<1>1. w \in Call /\ CallOK(w) /\ w.pc = "idle" /\ proc[p].pc = "cleanup"
  BY EndedOK DEF FilesInv, CallsOK, CleanUp
<1>2. Step(Unlinked(Temp(proc[p].op)), data, [proc EXCEPT ![p] = w])
  BY DEF CleanUp
<1> HIDE DEF w
<1>3. PairInv' /\ \A m \in Public : Shown(m)' = Shown(m)
  BY <1>1, <1>2, UnlinkStep DEF Temp, Public
<1>4. \A m \in Public : TakenFor(m)' = TakenFor(m)
  BY <1>1, <1>2, TakenStep DEF Step, Reads
<1> QED
  BY <1>3, <1>4, PairStutters DEF PairStep

LEMMA KilledKeepsPairInv ==
  ASSUME FilesInv, PairInv, FilesInv', NEW p \in Procs, Killed(p)
  PROVE  PairInv' /\ PairStep
<1>1. proc[p] \in Call
  BY DEF FilesInv, CallsOK
<1> QED
  BY <1>1, EndedOK, EndKeepsPairInv DEF Killed

LEMMA OpenInKeepsPairInv ==
  ASSUME FilesInv, PairInv, FilesInv', NEW p \in Procs, OpenIn(p)
  PROVE  PairInv' /\ PairStep
<1> DEFINE src == Source(proc[p].op)
           n == Target(proc[p].op)
           w == [proc[p] EXCEPT !.pc = "openOut", !.from = dir[src], !.version = Shown(src)]
<1>1. /\ proc[p] \in Call /\ CallOK(proc[p]) /\ proc[p].pc = "openIn"
      /\ proc[p].op \in {"gzip", "gunzip"}
  BY DEF FilesInv, CallsOK, OpenIn, CallOK, Call
<1>2. CASE dir[src] = None
  BY <1>1, <1>2, RaiseKeepsPairInv DEF OpenIn
<1>3. CASE dir[src] # None
  <2>1. /\ src \in Paths /\ src \in Public /\ n \in Public /\ Pair!Other(n) = src
    BY <1>1 DEF Source, Target, Paths, Public, Pair!Other
  <2>2. /\ dir[src] \in Inodes /\ Shown(src) \in Versions
        /\ data[dir[src]] = WholeOf(Shown(src))
    BY <1>3, <2>1, SeenWhole, ShownIsSeen DEF FilesInv, FilesOK, PairInv
  <2>3. dir[src] \notin {dir["tmp"], dir["gzTmp"]}
    BY <1>3, <2>1 DEF FilesInv, OneName, Public, Paths
  <2> HIDE DEF src, n
  <2>4. /\ w \in Call /\ w.pc = "openOut" /\ w.op = proc[p].op
        /\ w.from = dir[src] /\ w.version = Shown(src) /\ w.to = proc[p].to /\ w.n = proc[p].n
        /\ w.force = proc[p].force /\ w.delete = proc[p].delete
    BY <1>1, <2>2 DEF Call
  <2>5. Go(p, w)
    BY <1>3 DEF OpenIn, src
  <2> HIDE DEF w
  <2>6. CallOK(w)
    BY <1>1, <2>2, <2>4, NoneApart DEF CallOK
  <2>7. Copying(dir, data, w)
    BY <2>2, <2>3, <2>4 DEF Copying
  <2>8. Removing(dir, data, w)
    BY <2>1, <2>4, ShownIsSeen DEF Removing, src
  <2>9. \A q \in Procs \ {p} : proc[q].pc # "idle" =>
          ~w.force /\ ~w.delete /\ ~proc[q].force /\ ~proc[q].delete
    BY <1>1, <2>4, AloneGoes
  <2>10. PairInv' /\ \A m \in Public : Shown(m)' = Shown(m)
    BY <1>1, <2>4, <2>5, <2>6, <2>7, <2>8, <2>9, GoKeepsPairInv
  <2>11. proc' = [proc EXCEPT ![p] = w] /\ Reads(w) /\ ~Reads(proc[p]) /\ Target(w.op) = n
    BY <1>1, <2>4, <2>5 DEF Go, Step, Reads, n
  <2>12. /\ TakenFor(n) = None
         /\ \A m \in Public : TakenFor(m)' = IF m = n THEN Shown(src) ELSE TakenFor(m)
    BY <2>4, <2>11, TakenStep
  <2>13. Shown(src) # None
    BY <2>2, NoneApart
  <2>14. Pair!Next
    BY <2>1, <2>10, <2>12, <2>13, PairTakes
  <2> QED
    BY <2>10, <2>14 DEF PairStep
<1> QED
  BY <1>2, <1>3

LEMMA OpenOutKeepsPairInv ==
  ASSUME FilesInv, PairInv, FilesInv', NEW p \in Procs, OpenOut(p)
  PROVE  PairInv' /\ PairStep /\ Quiet
<1> DEFINE tmp == Temp(proc[p].op)
           free == Inodes \ Live(dir, proc)
           i == IF dir[tmp] # None THEN dir[tmp] ELSE CHOOSE j \in free : TRUE
           w == [proc[p] EXCEPT !.pc = "copy", !.to = i]
           d == [dir EXCEPT ![tmp] = i]
           c == [data EXCEPT ![i] = Blank]
<1>1. /\ proc[p] \in Call /\ CallOK(proc[p]) /\ proc[p].pc = "openOut"
      /\ Copying(dir, data, proc[p]) /\ Removing(dir, data, proc[p])
  BY DEF FilesInv, CallsOK, OpenOut, PairInv
<1>2. tmp \in Paths /\ tmp \in {"tmp", "gzTmp"}
  BY DEF Temp, Paths
<1>3. CASE Go(p, Raised(proc[p]))
  BY <1>1, <1>3, RaiseKeepsPairInv
<1>4. CASE (dir[tmp] # None \/ free # {}) /\ Step(d, c, [proc EXCEPT ![p] = w])
  <2>1. dir \in [Paths -> Inodes \cup {None}] /\ data \in [Inodes -> Content]
    BY DEF FilesInv, FilesOK
  <2>2. /\ i \in Inodes /\ \A x \in Paths \ {tmp} : dir[x] # i
        /\ i = dir[tmp] \/ i \notin Live(dir, proc)
    <3>1. CASE dir[tmp] # None
      BY <1>2, <2>1, <3>1 DEF FilesInv, OneName
    <3>2. CASE dir[tmp] = None
      <4>1. i \in free
        BY <1>4, <3>2
      <4>2. \A x \in Paths : dir[x] \in Live(dir, proc)
        BY DEF Live
      <4> QED
        BY <4>1, <4>2
    <3> QED
      BY <3>1, <3>2
  <2>3. i # None
    BY <2>2, NoneApart
  <2> HIDE DEF i
  <2>4. /\ w \in Call /\ w.pc = "copy" /\ w.op = proc[p].op /\ w.to = i /\ w.n = proc[p].n
        /\ w.from = proc[p].from /\ w.version = proc[p].version
        /\ w.force = proc[p].force /\ w.delete = proc[p].delete
    BY <1>1, <2>2 DEF Call
  <2>5. /\ d \in [Paths -> Inodes \cup {None}]
        /\ \A x \in Paths : d[x] = IF x = tmp THEN i ELSE dir[x]
    BY <1>2, <2>1, <2>2
  <2>6. /\ c \in [Inodes -> Content]
        /\ \A j \in Inodes : c[j] = IF j = i THEN Blank ELSE data[j]
    BY <2>1, <2>2 DEF Blank, Content
  <2>step. Step(d, c, [proc EXCEPT ![p] = w])
    BY <1>4
  <2> HIDE DEF w, d, c
  <2>7. CallOK(w) /\ proc[p].n = 0
    BY <1>1, <2>3, <2>4 DEF CallOK
  <2>8. \A q \in Procs \ {p} : proc[q].pc # "idle" => Temp(proc[q].op) # tmp
    BY <1>1 DEF FilesInv, OwnTemp
  <2>9. \A q \in Procs \ {p} : proc[q].pc # "idle" => d[Temp(proc[q].op)] = dir[Temp(proc[q].op)]
    BY <2>5, <2>8, NamesApart
  <2>10. \A m \in Public : d[m] = dir[m] /\ (d[m] # None => c[d[m]] = data[d[m]])
    BY <1>2, <2>1, <2>2, <2>5, <2>6 DEF Public, Paths
  <2>11. PublicWhole(d, c) /\ \A m \in Public : Seen(d, c, m) = Seen(dir, data, m)
    BY <2>10 DEF PairInv, PublicWhole, Seen
  <2>12. Copying(d, c, w)
    <3>1. proc[p].op # "write" =>
            proc[p].from # i /\ proc[p].from \in Inodes /\ proc[p].from \in Live(dir, proc)
      BY <1>1, <1>2, <2>2 DEF Copying, CallOK, Call, Live
    <3>2. proc[p].op # "write" =>
            /\ w.version \in Versions /\ c[w.from] = WholeOf(w.version)
            /\ w.from \notin {d["tmp"], d["gzTmp"]}
      BY <1>1, <1>2, <2>4, <2>5, <2>6, <3>1 DEF Copying, Paths
    <3>3. c[w.to] = [k \in 1..2 |-> IF k <= w.n THEN w.version ELSE None]
      BY <2>2, <2>4, <2>6, <2>7 DEF Blank
    <3> QED
      BY <2>4, <3>2, <3>3 DEF Copying
  <2>13. Removing(d, c, w)
    BY <1>1, <2>4, <2>11 DEF Removing, Source, Public
  <2>14. \A x \in {"tmp", "gzTmp"} : d[x] \in {dir[x], None} \/ d[x] \notin Live(dir, proc)
    BY <2>2, <2>5 DEF Paths
  <2>15. PairInv'
    <3>1. \A q \in Procs \ {p} : proc[q].pc # "idle" =>
            ~w.force /\ ~w.delete /\ ~proc[q].force /\ ~proc[q].delete
      BY <1>1, <2>4, AloneGoes
    <3>2. \A j \in Inodes : c[j] = data[j] \/ (w.pc # "idle" /\ j = d[Temp(w.op)])
      BY <1>2, <2>4, <2>5, <2>6
    <3> QED
      BY <1>1, <2>step, <2>4, <2>5, <2>6, <2>7, <2>9, <2>11, <2>12, <2>13, <2>14,
         <3>1, <3>2, StepKeepsPairInv
  <2>16. \A m \in Public : Shown(m)' = Shown(m)
    BY <2>step, <2>5, <2>11, ShownStep DEF Public, Paths
  <2>17. \A m \in Public : TakenFor(m)' = TakenFor(m)
    <3>1. proc' = [proc EXCEPT ![p] = w] /\ (Reads(w) <=> Reads(proc[p]))
      BY <1>1, <2>step, <2>4 DEF Step, Reads
    <3> QED
      BY <2>4, <3>1, TakenKept
  <2> QED
    BY <2>15, <2>16, <2>17, PairStutters DEF PairStep, Quiet
<1> QED
  BY <1>3, <1>4 DEF OpenOut

LEMMA CopyKeepsPairInv ==
  ASSUME FilesInv, PairInv, FilesInv', NEW p \in Procs, Copy(p)
  PROVE  PairInv' /\ PairStep /\ Quiet
<1> DEFINE w == proc[p]
           chunk == IF w.op = "write" THEN w.version ELSE data[w.from][w.n + 1]
           copied == [w EXCEPT !.n = @ + 1]
           last == [copied EXCEPT !.pc = "replace", !.from = None, !.to = None]
           x == IF w.n = 0 THEN copied ELSE last
           c == [data EXCEPT ![w.to][w.n + 1] = chunk]
<1>1. /\ w \in Call /\ CallOK(w) /\ w.pc = "copy"
      /\ Copying(dir, data, w) /\ Removing(dir, data, w)
  BY DEF FilesInv, CallsOK, Copy, PairInv
<1>2. CASE Go(p, Raised(w))
  BY <1>1, <1>2, RaiseKeepsPairInv
<1>3. CASE Step(dir, c, [proc EXCEPT ![p] = x])
  <2>step. Step(dir, c, [proc EXCEPT ![p] = x])
    BY <1>3
  <2>1. dir \in [Paths -> Inodes \cup {None}] /\ data \in [Inodes -> Content]
    BY DEF FilesInv, FilesOK
  <2>2. w.n \in {0, 1} /\ w.n + 1 \in 1..2 /\ w.to \in Inodes
    BY <1>1 DEF CallOK, Call
  <2>3. chunk = w.version /\ w.version \in Versions
    <3>1. CASE w.op = "write"
      BY <1>1, <3>1 DEF CallOK
    <3>2. CASE w.op # "write"
      <4>1. w.version \in Versions /\ data[w.from] = WholeOf(w.version)
        BY <1>1, <3>2 DEF Copying
      <4> QED
        BY <2>2, <3>2, <4>1 DEF WholeOf
    <3> QED
      BY <3>1, <3>2
  <2> HIDE DEF chunk
  <2>4. data[w.to] = [k \in 1..2 |-> IF k <= w.n THEN w.version ELSE None]
    BY <1>1 DEF Copying
  <2>5. c[w.to] = [k \in 1..2 |-> IF k <= w.n + 1 THEN w.version ELSE None]
    <3>1. c[w.to] = [data[w.to] EXCEPT ![w.n + 1] = chunk]
      BY <2>1, <2>2
    <3>2. CASE w.n = 0
      BY <2>3, <2>4, <3>1, <3>2
    <3>3. CASE w.n = 1
      BY <2>3, <2>4, <3>1, <3>3
    <3> QED
      BY <2>2, <3>2, <3>3
  <2>6. c \in [Inodes -> Content] /\ \A j \in Inodes \ {w.to} : c[j] = data[j]
    <3>1. c[w.to] \in Content
      BY <2>2, <2>3, <2>5 DEF Content
    <3> QED
      BY <2>1, <3>1
  <2> HIDE DEF c
  <2>7. /\ x \in Call /\ x.op = w.op /\ x.version = w.version
        /\ x.force = w.force /\ x.delete = w.delete
        /\ w.n = 0 => x.pc = "copy" /\ x.to = w.to /\ x.from = w.from /\ x.n = 1
        /\ w.n = 1 => x.pc = "replace" /\ x.to = None /\ x.from = None
    <3>1. /\ copied \in Call /\ copied.op = w.op /\ copied.version = w.version
          /\ copied.force = w.force /\ copied.delete = w.delete /\ copied.pc = "copy"
          /\ copied.to = w.to /\ copied.from = w.from /\ copied.n = w.n + 1
      BY <1>1, <2>2 DEF Call
    <3> HIDE DEF copied
    <3>2. /\ last \in Call /\ last.op = w.op /\ last.version = w.version
          /\ last.force = w.force /\ last.delete = w.delete /\ last.pc = "replace"
          /\ last.to = None /\ last.from = None
      BY <3>1 DEF Call
    <3> HIDE DEF last
    <3> QED
      BY <2>2, <3>1, <3>2
  <2> HIDE DEF x
  <2>8. CallOK(x)
    BY <1>1, <2>2, <2>7 DEF CallOK
  <2>9. dir[Temp(w.op)] = w.to /\ w.to # None
    BY <1>1, <2>2, NoneApart DEF FilesInv, WritesTemp
  <2>10. \A m \in Public : dir[m] # w.to
    BY <1>1, <2>9, NamesApart DEF FilesInv, OneName, Public, Paths, Temp
  <2>11. PublicWhole(dir, c) /\ \A m \in Public : Seen(dir, c, m) = Seen(dir, data, m)
    <3>1. \A m \in Public : dir[m] # None => c[dir[m]] = data[dir[m]]
      BY <2>1, <2>6, <2>10 DEF Public, Paths
    <3> QED
      BY <3>1 DEF PairInv, PublicWhole, Seen
  <2>12. Copying(dir, c, x)
    <3>1. CASE w.n = 0
      <4>1. w.op # "write" => /\ w.from \in Inodes /\ w.from # w.to
                              /\ w.from \notin {dir["tmp"], dir["gzTmp"]}
                              /\ data[w.from] = WholeOf(w.version)
        BY <1>1, <2>9 DEF Copying, CallOK, Call, Temp
      <4> QED
        BY <2>3, <2>5, <2>6, <2>7, <3>1, <4>1 DEF Copying
    <3>2. CASE w.n = 1
      <4>1. c[w.to] = WholeOf(w.version)
        BY <2>5, <3>2 DEF WholeOf
      <4> QED
        BY <2>3, <2>7, <2>9, <3>2, <4>1 DEF Copying
    <3> QED
      BY <2>2, <3>1, <3>2
  <2>13. Removing(dir, c, x)
    <3>1. x.pc \in {"copy", "replace"}
      BY <2>2, <2>7
    <3> QED
      BY <1>1, <2>7, <2>11, <3>1 DEF Removing, Source, Public
  <2>14. PairInv'
    <3>1. \A q \in Procs \ {p} : proc[q].pc # "idle" =>
            ~x.force /\ ~x.delete /\ ~proc[q].force /\ ~proc[q].delete
      BY <1>1, <2>7, AloneGoes
    <3>2. \A j \in Inodes : c[j] = data[j] \/ (x.pc # "idle" /\ j = dir[Temp(x.op)])
      BY <2>2, <2>6, <2>7, <2>9
    <3> QED
      BY <1>1, <2>step, <2>1, <2>6, <2>7, <2>8, <2>11, <2>12, <2>13, <3>1, <3>2,
         StepKeepsPairInv
  <2>15. \A m \in Public : Shown(m)' = Shown(m)
    BY <2>step, <2>1, <2>11, ShownStep DEF Public, Paths
  <2>16. \A m \in Public : TakenFor(m)' = TakenFor(m)
    <3>1. proc' = [proc EXCEPT ![p] = x] /\ (Reads(x) <=> Reads(proc[p]))
      BY <1>1, <2>step, <2>2, <2>7 DEF Step, Reads
    <3> QED
      BY <2>7, <3>1, TakenKept
  <2> QED
    BY <2>14, <2>15, <2>16, PairStutters DEF PairStep, Quiet
<1> QED
  BY <1>2, <1>3 DEF Copy

LEMMA ReplaceKeepsPairInv ==
  ASSUME FilesInv, PairInv, FilesInv', NEW p \in Procs, Replace(p)
  PROVE  PairInv' /\ PairStep
<1> DEFINE w == proc[p]
           tmp == Temp(w.op)
           n == Target(w.op)
           x == IF w.delete THEN [w EXCEPT !.pc = "delete"] ELSE Ended(w, "ok")
           d == [dir EXCEPT ![n] = dir[tmp], ![tmp] = None]
<1>1. /\ w \in Call /\ CallOK(w) /\ w.pc = "replace"
      /\ Copying(dir, data, w) /\ Removing(dir, data, w)
  BY DEF FilesInv, CallsOK, Replace, PairInv
<1>2. CASE Go(p, Raised(w))
  BY <1>1, <1>2, RaiseKeepsPairInv
<1>3. CASE dir[tmp] # None /\ Step(d, data, [proc EXCEPT ![p] = x])
  <2>step. dir[tmp] # None /\ Step(d, data, [proc EXCEPT ![p] = x])
    BY <1>3
  <2>1. dir \in [Paths -> Inodes \cup {None}] /\ data \in [Inodes -> Content]
    BY DEF FilesInv, FilesOK
  <2>2. tmp \in {"tmp", "gzTmp"} \cap Paths /\ n \in Public /\ n \in Paths /\ tmp # n
    BY DEF Temp, Target, Paths, Public
  <2>3. /\ d \in [Paths -> Inodes \cup {None}]
        /\ \A y \in Paths : d[y] = IF y = tmp THEN None ELSE IF y = n THEN dir[tmp] ELSE dir[y]
    BY <2>1, <2>2
  <2> HIDE DEF d
  <2>4. /\ x \in Call /\ CallOK(x) /\ x.pc \in {"delete", "idle"}
        /\ x.pc = "delete" => /\ x.op = w.op /\ x.version = w.version
                              /\ x.force = w.force /\ x.delete = w.delete /\ w.delete
    <3>1. CASE w.delete
      BY <1>1, <3>1 DEF Call, CallOK
    <3>2. CASE ~w.delete
      BY <1>1, <3>2, EndedOK
    <3> QED
      BY <3>1, <3>2
  <2> HIDE DEF x
  <2>5. \A q \in Procs \ {p} : proc[q].pc # "idle" => Temp(proc[q].op) # tmp
    BY <1>1 DEF FilesInv, OwnTemp
  <2>6. \A q \in Procs \ {p} : proc[q].pc # "idle" => d[Temp(proc[q].op)] = dir[Temp(proc[q].op)]
    BY <2>2, <2>3, <2>5, NamesApart
  <2>7. w.version \in Versions /\ data[dir[tmp]] = WholeOf(w.version)
    BY <1>1, <2>step DEF Copying
  <2>8. PublicWhole(d, data)
    BY <2>2, <2>3, <2>7 DEF PairInv, PublicWhole, Public, Paths
  <2>9. Seen(d, data, n) = w.version
    <3>1. d[n] = dir[tmp]
      BY <2>2, <2>3
    <3>2. WholeOf(w.version)[1] = w.version
      BY DEF WholeOf
    <3> QED
      BY <2>step, <2>7, <3>1, <3>2 DEF Seen
  <2>10. \A m \in Public \ {n} : Seen(d, data, m) = Seen(dir, data, m)
    BY <2>2, <2>3 DEF Seen, Public, Paths
  <2>11. Copying(d, data, x)
    BY <2>4 DEF Copying
  <2>12. Removing(d, data, x)
    <3>1. CASE x.pc = "delete"
      <4>1. Source(w.op) \in Public \ {n}
        BY DEF Source, Target, Public
      <4>2. Seen(d, data, Source(w.op)) = w.version
        BY <1>1, <2>4, <2>10, <3>1, <4>1 DEF Removing
      <4> QED
        BY <2>4, <2>9, <3>1, <4>2 DEF Removing
    <3>2. CASE x.pc = "idle"
      BY <3>2 DEF Removing
    <3> QED
      BY <2>4, <3>1, <3>2
  <2>13. PairInv'
    <3>1. x.pc # "idle" => \A q \in Procs \ {p} : proc[q].pc # "idle" =>
            ~x.force /\ ~x.delete /\ ~proc[q].force /\ ~proc[q].delete
      BY <1>1, <2>4, AloneGoes
    <3>2. \A y \in {"tmp", "gzTmp"} : d[y] \in {dir[y], None}
      BY <2>2, <2>3 DEF Paths, Public
    <3> QED
      BY <1>1, <2>step, <2>1, <2>3, <2>4, <2>6, <2>8, <2>11, <2>12, <3>1, <3>2,
         StepKeepsPairInv
  <2>14. \A m \in Public : Shown(m)' = IF m = n THEN w.version ELSE Shown(m)
    BY <2>step, <2>3, <2>9, <2>10, ShownStep DEF Public, Paths
  <2>15. proc' = [proc EXCEPT ![p] = x] /\ ~Reads(x)
    BY <2>step, <2>4 DEF Step, Reads
  <2>16. CASE w.op = "write"
    <3>1. ~Reads(w) /\ n = "file"
      BY <2>16 DEF Reads, Target
    <3>2. \A m \in Public : TakenFor(m)' = TakenFor(m)
      BY <2>4, <2>15, <3>1, TakenStep
    <3>3. Pair!Next
      BY <2>7, <2>14, <3>1, <3>2, PairWrites DEF Public
    <3> QED
      BY <2>13, <3>3 DEF PairStep
  <2>17. CASE w.op # "write"
    <3>1. Reads(w)
      BY <1>1, <2>17 DEF Reads
    <3>2. /\ TakenFor(n) = w.version
          /\ \A m \in Public : TakenFor(m)' = IF m = n THEN None ELSE TakenFor(m)
      BY <2>4, <2>15, <3>1, TakenStep
    <3>3. TakenFor(n) # None
      BY <2>7, <3>2, NoneApart
    <3>4. Pair!Next
      BY <2>2, <2>14, <3>2, <3>3, PairPuts
    <3> QED
      BY <2>13, <3>4 DEF PairStep
  <2> QED
    BY <2>16, <2>17
<1> QED
  BY <1>2, <1>3 DEF Replace

-----------------------------------------------------------------------------
(* The theorem                                                             *)

LEMMA PairInit == Init => PairInv /\ Pair!Init
<1> SUFFICES ASSUME Init PROVE PairInv /\ Pair!Init
  OBVIOUS
<1>1. Alone /\ \A p \in Procs : Copying(dir, data, proc[p]) /\ Removing(dir, data, proc[p])
  BY NoCallOK DEF Init, Alone, Copying, Removing
<1>2. FilesInv
  BY InvInit
<1>3. PublicWhole(dir, data)
  <2>1. PICK f \in [1..2 -> Versions] : data = [i \in Inodes |->
          IF i \in {dir["file"], dir["gz"]} THEN WholeOf(f[i]) ELSE Blank]
    BY DEF Init
  <2> SUFFICES ASSUME NEW name \in Public, dir[name] # None
               PROVE  \E v \in Versions : data[dir[name]] = WholeOf(v)
    BY DEF PublicWhole
  <2>2. dir[name] \in 1..2 /\ dir[name] \in Inodes /\ dir[name] \in {dir["file"], dir["gz"]}
    BY <1>2 DEF Init, FilesInv, FilesOK, Public, Paths
  <2>3. data[dir[name]] = WholeOf(f[dir[name]]) /\ f[dir[name]] \in Versions
    BY <2>1, <2>2
  <2> QED
    BY <2>3
<1>4. PairInv
  BY <1>1, <1>3 DEF PairInv
<1>5. \A name \in Public : Shown(name) \in Versions \cup {None}
  BY <1>3, SeenWhole, ShownIsSeen DEF Public, Paths
<1>6. \A name \in Public : TakenFor(name) = None
  <2>1. \A name \in Public : Readers(proc, name) = {}
    BY NoCallOK DEF Init, Readers, Reads
  <2> QED
    BY <2>1, TakenForIn DEF TakenIn
<1>7. Pair!Init
  BY <1>5, <1>6 DEF Pair!Init, Pair!Names, Public
<1> QED
  BY <1>4, <1>7

LEMMA PairNext ==
  ASSUME Careful, FilesInv, PairInv, FilesInv', [Next]_vars
  PROVE  PairInv' /\ [Pair!Next]_(Pair!vars)
<1>1. CASE UNCHANGED vars
  <2>1. PairInv'
    BY <1>1, ZenonT(60) DEF vars, PairInv, Alone, PublicWhole, Copying, Removing, Seen, Public
  <2>2. UNCHANGED Pair!vars
    BY <1>1 DEF vars, Pair!vars, Shown, TakenFor, InFlight
  <2> QED
    BY <2>1, <2>2
<1>2. ASSUME NEW p \in Procs, CallStep(p)
      PROVE  PairInv' /\ PairStep
  BY <1>2, LookForTargetKeepsPairInv, UnlinkTargetKeepsPairInv, SkipAndDeleteKeepsPairInv,
     OpenInKeepsPairInv, OpenOutKeepsPairInv, CopyKeepsPairInv, ReplaceKeepsPairInv,
     DeleteSourceKeepsPairInv, CleanUpKeepsPairInv DEF CallStep
<1>3. CASE Next
  BY <1>2, <1>3, CallWriteKeepsPairInv, CallCompressKeepsPairInv, KilledKeepsPairInv
     DEF Next, PairStep
<1> QED
  BY <1>1, <1>3

(* With careful callers atomic_write(), gzip_file() and gunzip_file() are a*)
(* FilePair: at every moment, also after a process was killed, each of the *)
(* two names shows nothing or one whole version, and a version leaves one  *)
(* name only for another, or while the other name shows it or what is to   *)
(* be put in its place.                                                    *)
THEOREM FilesArePair == Careful => (Spec => ImplementsPair)
<1> SUFFICES ASSUME Careful PROVE Spec => ImplementsPair
  OBVIOUS
<1>1. "apart" \in Cautions
  BY DEF Careful
<1>2. Init => FilesInv /\ PairInv /\ Pair!Init
  BY InvInit, PairInit
<1>3. FilesInv /\ [Next]_vars => FilesInv'
  BY <1>1, InvNext
<1>4. FilesInv /\ PairInv /\ FilesInv' /\ [Next]_vars => PairInv' /\ [Pair!Next]_(Pair!vars)
  BY PairNext
<1> QED
  BY <1>2, <1>3, <1>4, PTL DEF Spec, ImplementsPair, Pair!Spec

-----------------------------------------------------------------------------
(***************************************************************************)
(* What a call that fails has done to its target, and what is lost.        *)
(***************************************************************************)

(* What the target and the source of a call show while it is under way.  It*)
(* is as before the call until a copy has made sure that there is nothing, *)
(* or with force has removed what there was while its source is there; and *)
(* a source is deleted after its copy is in place.                         *)
KeptAs(w, target, source, temp) ==
  /\ w.pc = "idle" => w.op = "none"
  /\ w.pc \in {"exists", "unlink", "skip"} \/ (w.pc # "idle" /\ w.op = "write")
       => target = w.before
  /\ (w.pc \in {"openIn", "openOut", "copy", "replace"} /\ w.op # "write") =>
       target = None /\ (w.before = None \/ (w.force /\ source # None))
  /\ w.pc = "delete" => temp = None /\ w.version # None
  /\ (w.pc = "cleanup" /\ w.op # "write") =>
       \/ target = w.before
       \/ source # None /\ ((w.delete /\ target = source) \/ (w.force /\ target = None))
Kept(w) == KeptAs(w, Shown(Target(w.op)), Shown(Source(w.op)), dir[Temp(w.op)])
KeptInv == \A p \in Procs : Kept(proc[p])

(* What a step of a call does to the two names.                            *)
Effect(p, z) ==
  /\ proc' = [proc EXCEPT ![p] = z] /\ z \in Call /\ Kept(z)'
  /\ IF proc[p].pc = "idle" THEN dir' = dir /\ Quiet /\ z.pc # "idle"
     ELSE \/ proc[p].force \/ proc[p].delete
          \/ \A m \in Public \ {Target(proc[p].op)} : Shown(m)' = Shown(m)
  /\ \A v \in Versions : Held(v) /\ ~Held(v)' => Overwrites(p) /\ z # proc[p]
  /\ z.pc = "idle" =>
       /\ z.result = "ok" \/ Quiet
       /\ (proc[p].pc \in {"replace", "delete", "cleanup"} /\ z.result # "killed") =>
            dir'[Temp(proc[p].op)] = None

LEMMA TwoNames ==
  ASSUME NEW op
  PROVE  /\ Target(op) \in Public /\ Source(op) \in Public /\ Target(op) # Source(op)
         /\ Public = {Target(op), Source(op)} /\ Public \subseteq Paths
         /\ Temp(op) \in Paths
  BY DEF Target, Source, Public, Paths, Temp

LEMMA ShownNone ==
  ASSUME PairInv, NEW name \in Public
  PROVE  (dir[name] = None <=> Shown(name) = None) /\ Shown(name) \in Versions \cup {None}
  BY SeenWhole, ShownIsSeen, NoneApart DEF PairInv, Public, Paths

(* A call that removes something has another copy of it.                   *)
LEMMA RemovesCopied ==
  ASSUME FilesInv, PairInv, NEW p \in Procs, NEW w \in Call, w = proc[p]
  PROVE  /\ w.pc = "unlink" => w.force /\ Shown(Source(w.op)) # None
         /\ w.pc = "skip" => /\ w.delete
                             /\ \/ Shown(Target(w.op)) = Shown(Source(w.op))
                                \/ Shown(Source(w.op)) = None
         /\ w.pc = "delete" => /\ w.delete /\ Shown(Target(w.op)) = w.version
                               /\ Shown(Source(w.op)) = w.version
<1>1. Removing(dir, data, w)
  BY DEF PairInv
<1>2. /\ Shown(Target(w.op)) = Seen(dir, data, Target(w.op))
      /\ Shown(Source(w.op)) = Seen(dir, data, Source(w.op))
  BY ShownIsSeen, TwoNames
<1>3. /\ dir[Target(w.op)] = None <=> Shown(Target(w.op)) = None
      /\ dir[Source(w.op)] = None <=> Shown(Source(w.op)) = None
  BY ShownNone, TwoNames
<1> QED
  BY <1>1, <1>2, <1>3 DEF Removing

LEMMA QuietEffect ==
  ASSUME NEW p \in Procs, NEW z \in Call, proc' = [proc EXCEPT ![p] = z], Quiet,
         proc[p].pc = "idle" => dir' = dir /\ z.pc # "idle",
         z.pc # "delete", KeptAs(z, Shown(Target(z.op)), Shown(Source(z.op)), None),
         z.pc = "idle" => \/ proc[p].pc \notin {"replace", "delete", "cleanup"}
                          \/ z.result = "killed" \/ dir'[Temp(proc[p].op)] = None
  PROVE  Effect(p, z)
<1>1. /\ Shown(Target(z.op))' = Shown(Target(z.op))
      /\ Shown(Source(z.op))' = Shown(Source(z.op))
  BY TwoNames DEF Quiet
<1>2. Kept(z)'
  BY <1>1 DEF Kept, KeptAs
<1>3. \A v \in Versions : Held(v)' = Held(v)
  BY DEF Quiet, Public, Held
<1> QED
  BY <1>2, <1>3 DEF Effect, Quiet

LEMMA GoIsQuiet ==
  ASSUME FilesInv, NEW p \in Procs, NEW z, Go(p, z)
  PROVE  proc' = [proc EXCEPT ![p] = z] /\ dir' = dir /\ Quiet
<1>1. Step(dir, data, [proc EXCEPT ![p] = z])
  BY DEF Go
<1>2. \A m \in Public : Shown(m)' = Shown(m)
  BY <1>1, ShownStep DEF Public, Paths, FilesInv, FilesOK
<1> QED
  BY <1>1, <1>2 DEF Step, Quiet

LEMMA EndedFields ==
  ASSUME NEW w \in Call, NEW r \in {"ok", "error", "killed"}
  PROVE  /\ Ended(w, r) \in Call /\ Ended(w, r).pc = "idle" /\ Ended(w, r).op = "none"
         /\ Ended(w, r).result = r
<1>1. w.calls \in Nat
  BY DEF Call
<1>2. Ended(w, r).op = "none" /\ Ended(w, r).result = r
  BY NoCallOK DEF Ended, Call
<1> QED
  BY <1>2, EndedOK

LEMMA KeptIdle ==
  ASSUME NEW z, z.pc = "idle", z.op = "none", NEW target, NEW source, NEW temp
  PROVE  KeptAs(z, target, source, temp)
  BY DEF KeptAs

LEMMA RaisedFields ==
  ASSUME NEW w \in Call, CallOK(w), w.pc # "idle"
  PROVE  /\ Raised(w) \in Call /\ Raised(w).pc = "cleanup" /\ Raised(w).op = w.op
         /\ Raised(w).before = w.before /\ Raised(w).force = w.force
         /\ Raised(w).delete = w.delete
<1>1. /\ Raised(w).before = w.before /\ Raised(w).force = w.force
      /\ Raised(w).delete = w.delete
  BY DEF Raised, Call
<1> QED
  BY <1>1, RaisedOK

LEMMA RaiseEffect ==
  ASSUME FilesInv, PairInv, KeptInv, NEW p \in Procs,
         proc[p].pc \in {"openIn", "openOut", "copy", "replace", "delete"},
         Go(p, Raised(proc[p]))
  PROVE  \E z : Effect(p, z)
<1>1. PICK w \in Call : w = proc[p] /\ CallOK(w)
  BY DEF FilesInv, CallsOK
<1>2. PICK z \in Call : /\ z = Raised(w) /\ z.pc = "cleanup" /\ z.op = w.op
                        /\ z.before = w.before /\ z.force = w.force /\ z.delete = w.delete
  BY <1>1, RaisedFields
<1>3. proc' = [proc EXCEPT ![p] = z] /\ Quiet
  BY <1>1, <1>2, GoIsQuiet
<1> DEFINE target == Shown(Target(w.op))
           source == Shown(Source(w.op))
           temp == dir[Temp(w.op)]
<1>4. KeptAs(w, target, source, temp)
  BY <1>1 DEF KeptInv, Kept
<1>5. w.pc = "delete" => target = source /\ source = w.version /\ w.delete
  BY <1>1, RemovesCopied
<1> HIDE DEF target, source, temp
<1>6. KeptAs(z, target, source, None)
  BY <1>1, <1>2, <1>4, <1>5 DEF KeptAs
<1> QED
  BY <1>1, <1>2, <1>3, <1>6, QuietEffect DEF target, source

LEMMA CallIn ==
  ASSUME FilesInv, KeptInv, NEW p \in Procs
  PROVE  /\ proc[p] \in Call /\ CallOK(proc[p])
         /\ KeptAs(proc[p], Shown(Target(proc[p].op)), Shown(Source(proc[p].op)),
                   dir[Temp(proc[p].op)])
  BY DEF FilesInv, CallsOK, KeptInv, Kept

LEMMA StartEffect ==
  ASSUME FilesInv, PairInv, NEW p \in Procs, NEW v \in Call, proc[p].pc = "idle",
         v.pc = "exists" \/ (v.pc = "openOut" /\ v.op = "write"), Started(p, v)
  PROVE  \E z : Effect(p, z)
<1> DEFINE before == Shown(Target(v.op))
           n == proc[p].calls + 1
           x == [v EXCEPT !.calls = n, !.before = before]
<1>1. n \in Nat /\ before \in Versions \cup {None, "torn"}
  BY NamesApart, ShownType DEF FilesInv, CallsOK, Call
<1>2. Go(p, x)
  BY DEF Started
<1> HIDE DEF n
<1>3. x \in Call /\ x.pc = v.pc /\ x.op = v.op /\ x.before = before
  <2> HIDE DEF before
  <2> QED
    BY <1>1 DEF Call
<1> HIDE DEF x
<1>4. PICK z \in Call : z = x
  BY <1>3
<1>5. proc' = [proc EXCEPT ![p] = z] /\ dir' = dir /\ Quiet
  BY <1>2, <1>4, GoIsQuiet
<1>6. KeptAs(z, before, Shown(Source(z.op)), None)
  BY <1>3, <1>4 DEF KeptAs
<1> QED
  BY <1>3, <1>4, <1>5, <1>6, QuietEffect

LEMMA CallWriteEffect ==
  ASSUME FilesInv, PairInv, NEW p \in Procs, NEW v \in Versions, CallWrite(p, v)
  PROVE  \E z : Effect(p, z)
<1> DEFINE w == [NoCall EXCEPT !.pc = "openOut", !.op = "write", !.version = v]
<1>1. w \in Call /\ w.pc = "openOut" /\ w.op = "write"
  BY NoCallOK DEF Call
<1>2. Started(p, w) /\ proc[p].pc = "idle"
  BY DEF CallWrite
<1> HIDE DEF w
<1> QED
  BY <1>1, <1>2, StartEffect

LEMMA CallCompressEffect ==
  ASSUME FilesInv, PairInv, NEW p \in Procs, NEW op \in {"gzip", "gunzip"},
         NEW force \in BOOLEAN, NEW delete \in BOOLEAN, CallCompress(p, op, force, delete)
  PROVE  \E z : Effect(p, z)
<1> DEFINE v == [NoCall EXCEPT !.pc = "exists", !.op = op]
           w == [v EXCEPT !.force = force, !.delete = delete]
<1>1. w \in Call /\ w.pc = "exists"
  <2>1. v \in Call /\ v.pc = "exists"
    BY NoCallOK, ZenonT(60) DEF Call
  <2> HIDE DEF v
  <2> QED
    BY <2>1 DEF Call
<1>2. Started(p, w) /\ proc[p].pc = "idle"
  BY DEF CallCompress
<1> HIDE DEF w
<1> QED
  BY <1>1, <1>2, StartEffect

(* A call goes to its next step, and the names are as they were.           *)
LEMMA AdvanceEffect ==
  ASSUME FilesInv, PairInv, KeptInv, NEW p \in Procs, NEW w \in Call, w = proc[p],
         w.pc # "idle", NEW z \in Call, proc' = [proc EXCEPT ![p] = z], Quiet,
         z.op = w.op, z.before = w.before, z.force = w.force, z.delete = w.delete,
         \/ z.pc = w.pc /\ w.pc # "delete"
         \/ w.pc = "openIn" /\ z.pc = "openOut" /\ w.op # "write"
         \/ w.pc = "openOut" /\ z.pc = "copy"
         \/ w.pc = "copy" /\ z.pc = "replace"
         \/ w.pc = "exists" /\ z.pc \in {"unlink", "skip"}
         \/ w.pc = "exists" /\ z.pc = "openIn" /\ Shown(Target(w.op)) = None
  PROVE  Effect(p, z)
<1> DEFINE target == Shown(Target(w.op))
           source == Shown(Source(w.op))
           temp == dir[Temp(w.op)]
<1>1. KeptAs(w, target, source, temp)
  BY DEF KeptInv, Kept
<1>2. target = None <=> Shown(Target(w.op)) = None
  OBVIOUS
<1> HIDE DEF target, source, temp
<1>3. KeptAs(z, target, source, None)
  BY <1>1, <1>2 DEF KeptAs
<1>4. KeptAs(z, Shown(Target(z.op)), Shown(Source(z.op)), None)
  BY <1>3 DEF target, source
<1>5. z.pc # "delete" /\ z.pc # "idle"
  OBVIOUS
<1> QED
  BY <1>4, <1>5, QuietEffect

LEMMA LookForTargetEffect ==
  ASSUME FilesInv, PairInv, KeptInv, NEW p \in Procs, LookForTarget(p)
  PROVE  \E z : Effect(p, z)
<1>1. PICK w \in Call : w = proc[p] /\ w.pc = "exists"
  BY CallIn DEF LookForTarget
<1>2. ASSUME NEW pc \in {"openIn", "unlink", "skip"}, Go(p, [w EXCEPT !.pc = pc]),
             pc = "openIn" => dir[Target(w.op)] = None
      PROVE  \E z : Effect(p, z)
  <2> DEFINE x == [w EXCEPT !.pc = pc]
  <2>1. /\ x \in Call /\ x.pc = pc /\ x.op = w.op
        /\ x.before = w.before /\ x.force = w.force /\ x.delete = w.delete
    BY DEF Call
  <2>2. Go(p, x)
    BY <1>2
  <2> HIDE DEF x
  <2>3. PICK z \in Call : z = x
    BY <2>1
  <2>4. proc' = [proc EXCEPT ![p] = z] /\ Quiet
    BY <2>2, <2>3, GoIsQuiet
  <2>5. pc = "openIn" => Shown(Target(w.op)) = None
    BY <1>2 DEF Shown
  <2> QED
    BY <1>1, <2>1, <2>3, <2>4, <2>5, AdvanceEffect
<1>3. CASE Go(p, Ended(w, "ok"))
  <2>1. PICK z \in Call : z = Ended(w, "ok") /\ z.pc = "idle" /\ z.op = "none"
    BY EndedFields
  <2>2. proc' = [proc EXCEPT ![p] = z] /\ Quiet
    BY <1>3, <2>1, GoIsQuiet
  <2> QED
    BY <1>1, <2>1, <2>2, KeptIdle, QuietEffect
<1> QED
  BY <1>1, <1>2, <1>3 DEF LookForTarget

LEMMA OpenInEffect ==
  ASSUME FilesInv, PairInv, KeptInv, NEW p \in Procs, OpenIn(p)
  PROVE  \E z : Effect(p, z)
<1>1. PICK w \in Call : w = proc[p] /\ w.pc = "openIn" /\ CallOK(w)
  BY CallIn DEF OpenIn
<1> DEFINE from == dir[Source(w.op)]
           version == Shown(Source(w.op))
<1>2. CASE dir[Source(w.op)] = None
  BY <1>1, <1>2, RaiseEffect DEF OpenIn
<1>3. CASE dir[Source(w.op)] # None
  <2>1. from \in Inodes \cup {None} /\ version \in Versions \cup {None, "torn"}
    BY NamesApart, ShownType DEF FilesInv, FilesOK
  <2> DEFINE x == [w EXCEPT !.pc = "openOut", !.from = from, !.version = version]
  <2>2. Go(p, x)
    BY <1>1, <1>3 DEF OpenIn
  <2> HIDE DEF from, version
  <2>3. /\ x \in Call /\ x.pc = "openOut" /\ x.op = w.op
        /\ x.before = w.before /\ x.force = w.force /\ x.delete = w.delete
    BY <2>1 DEF Call
  <2> HIDE DEF x
  <2>4. PICK z \in Call : z = x
    BY <2>3
  <2>5. proc' = [proc EXCEPT ![p] = z] /\ Quiet
    BY <2>2, <2>4, GoIsQuiet
  <2>6. w.op # "write"
    BY <1>1 DEF CallOK
  <2> QED
    BY <1>1, <2>3, <2>4, <2>5, <2>6, AdvanceEffect
<1> QED
  BY <1>2, <1>3

LEMMA OpenOutEffect ==
  ASSUME FilesInv, PairInv, FilesInv', KeptInv, NEW p \in Procs, OpenOut(p)
  PROVE  \E z : Effect(p, z)
<1>1. PICK w \in Call : w = proc[p] /\ w.pc = "openOut"
  BY CallIn DEF OpenOut
<1>2. CASE Go(p, Raised(proc[p]))
  BY <1>1, <1>2, RaiseEffect
<1>3. CASE \E i : proc' = [proc EXCEPT ![p] = [w EXCEPT !.pc = "copy", !.to = i]]
  <2>1. PICK i : proc' = [proc EXCEPT ![p] = [w EXCEPT !.pc = "copy", !.to = i]]
    BY <1>3
  <2> DEFINE x == [w EXCEPT !.pc = "copy", !.to = i]
  <2>2. x.pc = "copy" /\ x.op = w.op /\ x.before = w.before /\ x.force = w.force
        /\ x.delete = w.delete
    BY DEF Call
  <2>3. x \in Call
    <3>1. proc'[p] = x
      BY <2>1 DEF FilesInv, CallsOK
    <3>2. proc'[p] \in Call
      BY DEF FilesInv, CallsOK, Call, Inodes
    <3> QED
      BY <3>1, <3>2
  <2>4. PICK z \in Call : z = x
    BY <2>3
  <2> HIDE DEF x
  <2>5. proc' = [proc EXCEPT ![p] = z]
    BY <2>1, <2>4 DEF x
  <2>6. Quiet
    BY OpenOutKeepsPairInv
  <2> QED
    BY <1>1, <2>2, <2>4, <2>5, <2>6, AdvanceEffect
<1> QED
  BY <1>1, <1>2, <1>3 DEF OpenOut, Step

LEMMA CopyEffect ==
  ASSUME FilesInv, PairInv, FilesInv', KeptInv, NEW p \in Procs, Copy(p)
  PROVE  \E z : Effect(p, z)
<1>1. PICK w \in Call : w = proc[p] /\ w.pc = "copy" /\ CallOK(w)
  BY CallIn DEF Copy
<1>2. CASE Go(p, Raised(proc[p]))
  BY <1>1, <1>2, RaiseEffect
<1> DEFINE n == w.n + 1
           copied == [w EXCEPT !.n = n]
           last == [copied EXCEPT !.pc = "replace", !.from = None, !.to = None]
           x == IF w.n = 0 THEN copied ELSE last
<1>3. CASE proc' = [proc EXCEPT ![p] = x]
  <2>1. n \in 0..2
    BY <1>1 DEF CallOK
  <2> HIDE DEF n
  <2>2. /\ copied \in Call /\ copied.pc = "copy" /\ copied.op = w.op /\ copied.before = w.before
        /\ copied.force = w.force /\ copied.delete = w.delete
    BY <1>1, <2>1 DEF Call
  <2> HIDE DEF copied
  <2>3. /\ last \in Call /\ last.pc = "replace" /\ last.op = w.op /\ last.before = w.before
        /\ last.force = w.force /\ last.delete = w.delete
    <3>1. last \in Call
      BY <2>2, ZenonT(60) DEF Call
    <3>2. /\ last.pc = "replace" /\ last.op = copied.op /\ last.before = copied.before
          /\ last.force = copied.force /\ last.delete = copied.delete
      BY <2>2 DEF Call
    <3> QED
      BY <2>2, <3>1, <3>2
  <2> HIDE DEF last
  <2>4. PICK z \in Call : z = x
    BY <2>2, <2>3
  <2>5. /\ z.pc \in {"copy", "replace"} /\ z.op = w.op /\ z.before = w.before
        /\ z.force = w.force /\ z.delete = w.delete
    BY <2>2, <2>3, <2>4
  <2> HIDE DEF x
  <2>6. proc' = [proc EXCEPT ![p] = z]
    BY <1>3, <2>4
  <2>7. Quiet
    BY CopyKeepsPairInv
  <2> QED
    BY <1>1, <2>5, <2>6, <2>7, AdvanceEffect
<1> QED
  BY <1>1, <1>2, <1>3 DEF Copy, Step

LEMMA KilledEffect ==
  ASSUME FilesInv, PairInv, KeptInv, NEW p \in Procs, Killed(p)
  PROVE  \E z : Effect(p, z)
<1>1. PICK z \in Call : /\ z = Ended(proc[p], "killed") /\ z.pc = "idle" /\ z.op = "none"
                        /\ z.result = "killed"
  BY CallIn, EndedFields
<1>2. proc' = [proc EXCEPT ![p] = z] /\ Quiet /\ proc[p].pc # "idle"
  BY <1>1, GoIsQuiet DEF Killed
<1> QED
  BY <1>1, <1>2, KeptIdle, QuietEffect

LEMMA UnlinkTargetEffect ==
  ASSUME FilesInv, PairInv, FilesInv', KeptInv, NEW p \in Procs, UnlinkTarget(p)
  PROVE  \E z : Effect(p, z)
<1>1. PICK w \in Call : w = proc[p] /\ w.pc = "unlink" /\ CallOK(w)
  BY CallIn DEF UnlinkTarget
<1> DEFINE x == [w EXCEPT !.pc = "openIn"]
<1>2. /\ x \in Call /\ x.pc = "openIn" /\ x.op = w.op
      /\ x.before = w.before /\ x.force = w.force /\ x.delete = w.delete /\ CallOK(x)
  BY <1>1 DEF Call, CallOK
<1>3. Step(Unlinked(Target(w.op)), data, [proc EXCEPT ![p] = x])
  BY <1>1 DEF UnlinkTarget
<1> HIDE DEF x
<1>4. PICK z \in Call : z = x
  BY <1>2
<1>5. \A m \in Public : Shown(m)' = IF m = Target(w.op) THEN None ELSE Shown(m)
  BY <1>1, <1>2, <1>3, UnlinkStep
<1>6. w.force /\ Shown(Source(w.op)) # None /\ dir[Source(w.op)] # None
  BY <1>1, RemovesCopied, ShownNone, TwoNames
<1>7. /\ Shown(Target(z.op))' = None
      /\ Shown(Source(z.op))' = Shown(Source(w.op))
  BY <1>2, <1>4, <1>5, TwoNames
<1>8. Kept(z)'
  <2>1. z.pc = "openIn" /\ z.op # "write" /\ z.force
    BY <1>1, <1>2, <1>4, <1>6 DEF CallOK
  <2> QED
    BY <1>6, <1>7, <2>1 DEF Kept, KeptAs
<1>9. Overwrites(p) /\ z # proc[p] /\ proc' = [proc EXCEPT ![p] = z]
  BY <1>1, <1>2, <1>3, <1>4, <1>6 DEF Overwrites, Step
<1> QED
  BY <1>1, <1>2, <1>4, <1>6, <1>8, <1>9 DEF Effect

(* A source that goes is shown by the target too.                          *)
LEMMA SourceEffect ==
  ASSUME FilesInv, PairInv, FilesInv', KeptInv, NEW p \in Procs, NEW w \in Call, w = proc[p],
         w.pc \in {"skip", "delete"},
         Step(Unlinked(Source(w.op)), data, [proc EXCEPT ![p] = Ended(w, "ok")])
  PROVE  \E z : Effect(p, z)
<1>1. PICK z \in Call : /\ z = Ended(w, "ok") /\ z.pc = "idle" /\ z.op = "none"
                        /\ z.result = "ok" /\ CallOK(z)
  BY EndedFields, EndedOK
<1>2. Step(Unlinked(Source(w.op)), data, [proc EXCEPT ![p] = z])
  BY <1>1
<1>3. \A m \in Public : Shown(m)' = IF m = Source(w.op) THEN None ELSE Shown(m)
  BY <1>1, <1>2, UnlinkStep
<1>4. w.delete /\ (\/ Shown(Target(w.op)) = Shown(Source(w.op))
                   \/ Shown(Source(w.op)) = None)
  BY RemovesCopied
<1>5. ASSUME NEW v \in Versions, Held(v) PROVE Held(v)'
  <2>1. Shown(Target(w.op))' = Shown(Target(w.op))
    BY <1>3, TwoNames
  <2>2. v \in {Shown(Target(w.op)), Shown(Source(w.op))} /\ v # None
    BY <1>5, TwoNames, NoneApart DEF Held, Public
  <2>3. v = Shown(Target(w.op))'
    BY <1>4, <2>1, <2>2
  <2> QED
    BY <2>3, TwoNames DEF Held, Public, Target
<1>6. Kept(z)'
  BY <1>1 DEF Kept, KeptAs
<1>7. proc' = [proc EXCEPT ![p] = z] /\ dir' = Unlinked(Source(w.op))
  BY <1>2 DEF Step
<1>8. w.pc = "delete" => dir'[Temp(w.op)] = None
  <2>1. w.pc = "delete" => dir[Temp(w.op)] = None
    BY CallIn DEF KeptAs
  <2>2. dir \in [Paths -> Inodes \cup {None}] /\ Temp(w.op) \in Paths
    BY TwoNames DEF FilesInv, FilesOK
  <2> QED
    BY <1>7, <2>1, <2>2 DEF Unlinked
<1> QED
  BY <1>1, <1>4, <1>5, <1>6, <1>7, <1>8 DEF Effect

LEMMA SkipAndDeleteEffect ==
  ASSUME FilesInv, PairInv, FilesInv', KeptInv, NEW p \in Procs, SkipAndDelete(p)
  PROVE  \E z : Effect(p, z)
<1>1. PICK w \in Call : w = proc[p] /\ w.pc = "skip"
  BY CallIn DEF SkipAndDelete
<1>2. Step(Unlinked(Source(w.op)), data, [proc EXCEPT ![p] = Ended(w, "ok")])
  BY <1>1 DEF SkipAndDelete
<1> QED
  BY <1>1, <1>2, SourceEffect

LEMMA DeleteSourceEffect ==
  ASSUME FilesInv, PairInv, FilesInv', KeptInv, NEW p \in Procs, DeleteSource(p)
  PROVE  \E z : Effect(p, z)
<1>1. PICK w \in Call : w = proc[p] /\ w.pc = "delete"
  BY CallIn DEF DeleteSource
<1>2. CASE Go(p, Raised(proc[p]))
  BY <1>1, <1>2, RaiseEffect
<1>3. CASE Step(Unlinked(Source(w.op)), data, [proc EXCEPT ![p] = Ended(w, "ok")])
  BY <1>1, <1>3, SourceEffect
<1> QED
  BY <1>1, <1>2, <1>3 DEF DeleteSource

LEMMA CleanUpEffect ==
  ASSUME FilesInv, PairInv, FilesInv', KeptInv, NEW p \in Procs, CleanUp(p)
  PROVE  \E z : Effect(p, z)
<1>1. PICK w \in Call : w = proc[p] /\ w.pc = "cleanup"
  BY CallIn DEF CleanUp
<1>2. PICK z \in Call : /\ z = Ended(w, "error") /\ z.pc = "idle" /\ z.op = "none" /\ CallOK(z)
  BY EndedFields, EndedOK
<1>3. Step(Unlinked(Temp(w.op)), data, [proc EXCEPT ![p] = z])
  BY <1>1, <1>2 DEF CleanUp
<1>4. \A m \in Public : Shown(m)' = IF m = Temp(w.op) THEN None ELSE Shown(m)
  BY <1>1, <1>2, <1>3, UnlinkStep
<1>5. Quiet
  BY <1>4 DEF Quiet, Temp, Public
<1>6. proc' = [proc EXCEPT ![p] = z] /\ dir' = Unlinked(Temp(w.op))
  BY <1>3 DEF Step
<1>7. dir'[Temp(w.op)] = None
  <2>1. dir \in [Paths -> Inodes \cup {None}] /\ Temp(w.op) \in Paths
    BY TwoNames DEF FilesInv, FilesOK
  <2> QED
    BY <1>6, <2>1 DEF Unlinked
<1> QED
  BY <1>1, <1>2, <1>5, <1>6, <1>7, KeptIdle, QuietEffect

LEMMA ReplaceEffect ==
  ASSUME FilesInv, PairInv, FilesInv', KeptInv, NEW p \in Procs, Replace(p)
  PROVE  \E z : Effect(p, z)
<1>1. PICK w \in Call : w = proc[p] /\ w.pc = "replace" /\ CallOK(w)
  BY CallIn DEF Replace
<1> DEFINE tmp == Temp(w.op)
           n == Target(w.op)
           x == IF w.delete THEN [w EXCEPT !.pc = "delete"] ELSE Ended(w, "ok")
           d == [dir EXCEPT ![n] = dir[tmp], ![tmp] = None]
<1>2. CASE Go(p, Raised(proc[p]))
  BY <1>1, <1>2, RaiseEffect
<1>3. CASE dir[tmp] # None /\ Step(d, data, [proc EXCEPT ![p] = x])
  <2>1. dir[tmp] # None /\ Step(d, data, [proc EXCEPT ![p] = x])
    BY <1>3
  <2>2. dir \in [Paths -> Inodes \cup {None}] /\ tmp \in Paths /\ n \in Public /\ n \in Paths
        /\ tmp # n /\ Source(w.op) \in Public \ {n} /\ Source(w.op) # tmp
    BY NamesApart, TwoNames DEF FilesInv, FilesOK
  <2>3. /\ d \in [Paths -> Inodes \cup {None}]
        /\ \A y \in Paths : d[y] = IF y = tmp THEN None ELSE IF y = n THEN dir[tmp] ELSE dir[y]
    BY <2>2
  <2> HIDE DEF d
  <2>4. /\ x \in Call /\ x.pc \in {"delete", "idle"} /\ x # w
        /\ x.pc = "delete" => x.op = w.op /\ x.version = w.version
        /\ x.pc = "idle" => x.op = "none" /\ x.result = "ok"
    <3>1. CASE w.delete
      <4>1. [w EXCEPT !.pc = "delete"] \in Call /\ [w EXCEPT !.pc = "delete"].pc = "delete"
            /\ [w EXCEPT !.pc = "delete"].op = w.op
            /\ [w EXCEPT !.pc = "delete"].version = w.version
        BY DEF Call
      <4>2. x = [w EXCEPT !.pc = "delete"]
        BY <3>1
      <4> HIDE DEF x
      <4>3. x.pc # w.pc
        BY <1>1, <4>1, <4>2
      <4> QED
        BY <4>1, <4>2, <4>3
    <3>2. CASE ~w.delete
      BY <1>1, <3>2, EndedFields
    <3> QED
      BY <3>1, <3>2
  <2> HIDE DEF x
  <2>5. PICK z \in Call : z = x
    BY <2>4
  <2>6. /\ w.version \in Versions /\ data[dir[tmp]] = WholeOf(w.version)
        /\ Shown(n)' = w.version
        /\ \A m \in Public \ {n} : Shown(m)' = Shown(m)
    <3>1. w.version \in Versions /\ data[dir[tmp]] = WholeOf(w.version)
      BY <1>1, <2>1 DEF PairInv, Copying
    <3>2. Seen(d, data, n) = w.version
      <4>1. WholeOf(w.version)[1] = w.version
        BY DEF WholeOf
      <4> QED
        BY <2>1, <2>2, <2>3, <3>1, <4>1 DEF Seen
    <3>3. \A m \in Public \ {n} : Seen(d, data, m) = Seen(dir, data, m)
      BY <2>2, <2>3, NamesApart DEF Seen, Public, Paths, Temp
    <3>4. \A m \in Public : /\ Shown(m)' = Seen(d, data, m)
                             /\ Shown(m) = Seen(dir, data, m)
      BY <2>1, <2>3, ShownStep DEF Public, Paths
    <3> QED
      BY <2>2, <3>1, <3>2, <3>3, <3>4
  <2>7. dir'[tmp] = None /\ proc' = [proc EXCEPT ![p] = z]
    BY <2>1, <2>2, <2>3, <2>5 DEF Step
  <2>8. Kept(z)'
    <3>1. CASE z.pc = "delete"
      <4>1. z.op = w.op /\ z.version # None /\ z.op # "write"
        <5>1. w.delete
          BY <2>4, <2>5, <3>1, EndedFields DEF x
        <5> QED
          BY <1>1, <2>4, <2>5, <2>6, <3>1, <5>1, NoneApart DEF CallOK
      <4>2. dir'[Temp(z.op)] = None
        BY <2>7, <4>1
      <4> QED
        BY <3>1, <4>1, <4>2 DEF Kept, KeptAs
    <3>2. CASE z.pc = "idle"
      BY <2>4, <2>5, <3>2 DEF Kept, KeptAs
    <3> QED
      BY <2>4, <2>5, <3>1, <3>2
  <2>9. ASSUME NEW v \in Versions, Held(v), ~Held(v)' PROVE Overwrites(p) /\ z # proc[p]
    <3>1. CASE w.op = "write"
      BY <1>1, <2>4, <2>5, <3>1 DEF Overwrites
    <3>2. CASE w.op # "write"
      <4>1. Shown(n) = None
        BY <1>1, <3>2, CallIn DEF KeptAs
      <4>2. v = Shown(Source(w.op))
        BY <2>9, <4>1, TwoNames, NoneApart DEF Held, Public
      <4>3. Shown(Source(w.op))' = v
        BY <2>2, <2>6, <4>2
      <4> QED
        BY <2>9, <4>3, TwoNames DEF Held, Public, Source
    <3> QED
      BY <3>1, <3>2
  <2> QED
    BY <1>1, <2>4, <2>5, <2>6, <2>7, <2>8, <2>9 DEF Effect
<1> QED
  BY <1>1, <1>2, <1>3 DEF Replace

LEMMA NextEffect ==
  ASSUME FilesInv, PairInv, FilesInv', KeptInv, Next
  PROVE  \E p \in Procs : \E z : Effect(p, z)
<1>1. ASSUME NEW p \in Procs, CallStep(p)
      PROVE  \E z : Effect(p, z)
  BY <1>1, LookForTargetEffect, UnlinkTargetEffect, SkipAndDeleteEffect, OpenInEffect,
     OpenOutEffect, CopyEffect, ReplaceEffect, DeleteSourceEffect, CleanUpEffect DEF CallStep
<1> QED
  BY <1>1, CallWriteEffect, CallCompressEffect, KilledEffect DEF Next

(* What a step of one call leaves to another: nobody else removes anything *)
(* while two calls are under way, and nobody else has the same target.     *)
LEMMA OthersKept ==
  ASSUME FilesInv, PairInv, KeptInv, NEW p \in Procs, NEW z, Effect(p, z),
         NEW q \in Procs \ {p}
  PROVE  proc'[q] = proc[q] /\ Kept(proc[q])'
<1>1. proc'[q] = proc[q]
  BY DEF Effect, FilesInv, CallsOK
<1>2. PICK w \in Call : w = proc[q] /\ CallOK(w)
  BY CallIn
<1>3. KeptAs(w, Shown(Target(w.op)), Shown(Source(w.op)), dir[Temp(w.op)])
  BY <1>2, CallIn
<1>4. CASE w.pc = "idle"
  BY <1>1, <1>2, <1>3, <1>4 DEF Kept, KeptAs
<1>5. CASE w.pc # "idle" /\ proc[p].pc = "idle"
  <2>1. dir' = dir /\ Quiet
    BY <1>5 DEF Effect
  <2>2. /\ Shown(Target(w.op))' = Shown(Target(w.op))
        /\ Shown(Source(w.op))' = Shown(Source(w.op))
        /\ dir'[Temp(w.op)] = dir[Temp(w.op)]
    BY <2>1, TwoNames DEF Quiet
  <2>3. KeptAs(w, Shown(Target(w.op)), Shown(Source(w.op)), dir[Temp(w.op)])'
    BY <1>3, <2>2 DEF KeptAs
  <2> QED
    BY <1>1, <1>2, <2>3 DEF Kept
<1>6. CASE w.pc # "idle" /\ proc[p].pc # "idle"
  <2>1. ~w.force /\ ~w.delete /\ ~proc[p].force /\ ~proc[p].delete
    BY <1>2, <1>6 DEF PairInv, Alone
  <2>2. Temp(w.op) # Temp(proc[p].op)
    BY <1>2, <1>6 DEF FilesInv, OwnTemp
  <2>3. Target(w.op) \in Public \ {Target(proc[p].op)}
    BY <2>2, TwoNames DEF Target, Temp
  <2>4. Shown(Target(w.op))' = Shown(Target(w.op))
    BY <1>6, <2>1, <2>3 DEF Effect
  <2>5. w.pc # "delete"
    BY <1>2, <2>1, RemovesCopied
  <2>6. KeptAs(w, Shown(Target(w.op)), Shown(Source(w.op)), dir[Temp(w.op)])'
    BY <1>3, <2>1, <2>4, <2>5 DEF KeptAs
  <2> QED
    BY <1>1, <1>2, <2>6 DEF Kept
<1> QED
  BY <1>1, <1>4, <1>5, <1>6

(* A call that ends otherwise than well has kept its target.               *)
LEMMA EndKept ==
  ASSUME FilesInv, PairInv, KeptInv, NEW p \in Procs, NEW z, Effect(p, z)
  PROVE  TempRemoved(p) /\ TargetKept(p)
<1>1. proc'[p] = z
  BY DEF Effect, FilesInv, CallsOK
<1>2. TempRemoved(p)
  BY <1>1 DEF Effect, TempRemoved
<1>3. ASSUME NEW op \in {"write", "gzip", "gunzip"}, proc[p].op = op, z.pc = "idle", z.result # "ok"
      PROVE  \/ Shown(Target(op))' = proc[p].before
             \/ /\ op # "write" /\ dir'[Source(op)] # None
                /\ \/ Shown(Target(op))' = Shown(Source(op))'
                   \/ proc[p].force /\ Shown(Target(op))' = None
  <2>1. PICK w \in Call : w = proc[p] /\ w.op = op /\ CallOK(w) /\ w.pc # "idle"
    BY <1>3, CallIn DEF Effect
  <2>2. Quiet
    BY <1>3 DEF Effect
  <2>3. /\ Shown(Target(op))' = Shown(Target(op))
        /\ Shown(Source(op))' = Shown(Source(op))
        /\ Shown(Source(op))' # None => dir'[Source(op)] # None
    BY <2>2, TwoNames DEF Quiet, Shown
  <2>4. KeptAs(w, Shown(Target(op)), Shown(Source(op)), dir[Temp(op)])
    BY <2>1, CallIn
  <2>5. w.pc = "delete" => /\ Shown(Target(op)) = w.version /\ Shown(Source(op)) = w.version
                           /\ w.version # None /\ op # "write"
    BY <2>1, <2>4, RemovesCopied DEF KeptAs, CallOK
  <2>6. w.pc \in {"exists", "unlink", "skip", "openIn", "openOut", "copy", "replace",
                  "delete", "cleanup"}
    BY <2>1 DEF Call
  <2> DEFINE target == Shown(Target(op))
             source == Shown(Source(op))
             temp == dir[Temp(op)]
  <2>7. /\ KeptAs(w, target, source, temp)
        /\ w.pc = "delete" => target = source /\ source # None /\ op # "write"
    BY <2>4, <2>5
  <2> HIDE DEF target, source, temp
  <2>8. \/ target = w.before
        \/ op # "write" /\ source # None /\ (target = source \/ (w.force /\ target = None))
    BY <2>1, <2>6, <2>7 DEF KeptAs
  <2> QED
    BY <2>1, <2>3, <2>8 DEF target, source
<1> QED
  BY <1>1, <1>2, <1>3 DEF TargetKept

LEMMA KeptInit == Init => KeptInv
  BY NoCallOK DEF Init, KeptInv, Kept, KeptAs, NoCall

LEMMA KeptNext ==
  ASSUME FilesInv, PairInv, FilesInv', KeptInv, [Next]_vars
  PROVE  /\ KeptInv'
         /\ [\A v \in Versions : Held(v) /\ ~Held(v)' =>
               \E p \in Procs : Overwrites(p) /\ proc'[p] # proc[p]]_vars
         /\ [\A p \in Procs : TempRemoved(p) /\ TargetKept(p)]_vars
<1>1. CASE UNCHANGED vars
  BY <1>1 DEF vars, KeptInv, Kept, KeptAs, Shown
<1>2. CASE Next
  <2>1. PICK p \in Procs : \E z : Effect(p, z)
    BY <1>2, NextEffect
  <2>2. PICK z : Effect(p, z)
    BY <2>1
  <2>3. proc'[p] = z /\ Kept(z)'
    BY <2>2 DEF Effect, FilesInv, CallsOK
  <2>4. KeptInv'
    <3>1. \A q \in Procs \ {p} : Kept(proc[q])'
      BY <2>2, OthersKept
    <3>2. Kept(proc[p])'
      BY <2>3 DEF Kept
    <3> QED
      BY <3>1, <3>2 DEF KeptInv
  <2>5. \A v \in Versions : Held(v) /\ ~Held(v)' =>
          \E q \in Procs : Overwrites(q) /\ proc'[q] # proc[q]
    BY <2>2, <2>3 DEF Effect
  <2>6. ASSUME NEW q \in Procs PROVE TempRemoved(q) /\ TargetKept(q)
    <3>1. CASE q = p
      BY <2>2, <3>1, EndKept
    <3>2. CASE q # p
      <4>1. proc'[q] = proc[q]
        BY <2>2, <3>2, OthersKept
      <4>2. proc[q].pc = "idle" => proc[q].op = "none"
        BY CallIn DEF KeptAs
      <4> QED
        BY <4>1, <4>2 DEF TempRemoved, TargetKept
    <3> QED
      BY <3>1, <3>2
  <2> QED
    BY <2>4, <2>5, <2>6
<1> QED
  BY <1>1, <1>2

(* With careful callers no copy of a version is the last one to go, but by *)
(* an atomic_write() that replaces it or a call with force whose source is *)
(* there to take its place; kills between any two steps included.          *)
THEOREM LastCopyStays == Careful => (Spec => NothingLost)
<1> SUFFICES ASSUME Careful PROVE Spec => NothingLost
  OBVIOUS
<1>1. "apart" \in Cautions
  BY DEF Careful
<1>2. Init => FilesInv /\ PairInv /\ KeptInv
  BY InvInit, PairInit, KeptInit
<1>3. FilesInv /\ [Next]_vars => FilesInv'
  BY <1>1, InvNext
<1>4. FilesInv /\ PairInv /\ FilesInv' /\ [Next]_vars => PairInv'
  BY PairNext
<1>5. FilesInv /\ PairInv /\ FilesInv' /\ KeptInv /\ [Next]_vars =>
        /\ KeptInv'
        /\ [\A v \in Versions : Held(v) /\ ~Held(v)' =>
              \E p \in Procs : Overwrites(p) /\ proc'[p] # proc[p]]_vars
  BY KeptNext
<1> QED
  BY <1>2, <1>3, <1>4, <1>5, PTL DEF Spec, NothingLost

(* A call that raises removes its temporary file, and one that raises or is*)
(* killed leaves its target as it found it, or a copy of its source, or    *)
(* with force nothing while its source is there.                           *)
THEOREM TargetsStay == Careful => (Spec => FailureHarmless)
<1> SUFFICES ASSUME Careful PROVE Spec => FailureHarmless
  OBVIOUS
<1>1. "apart" \in Cautions
  BY DEF Careful
<1>2. Init => FilesInv /\ PairInv /\ KeptInv
  BY InvInit, PairInit, KeptInit
<1>3. FilesInv /\ [Next]_vars => FilesInv'
  BY <1>1, InvNext
<1>4. FilesInv /\ PairInv /\ FilesInv' /\ [Next]_vars => PairInv'
  BY PairNext
<1>5. FilesInv /\ PairInv /\ FilesInv' /\ KeptInv /\ [Next]_vars =>
        KeptInv' /\ [\A p \in Procs : TempRemoved(p) /\ TargetKept(p)]_vars
  BY KeptNext
<1> QED
  BY <1>2, <1>3, <1>4, <1>5, PTL DEF Spec, FailureHarmless
=============================================================================
