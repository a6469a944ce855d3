------------------------------ MODULE FileOps ------------------------------
(***************************************************************************)
(* atomic_write(), gzip_file() and gunzip_file() of tmautils.core.io: a    *)
(* file and its archive, each made under a temporary name and renamed.     *)
(* One step is one system call; a process may be killed between any two,   *)
(* and several may be at work on the same names.                           *)
(*                                                                         *)
(* A name links an inode, and an open handle keeps the inode that it was   *)
(* opened on, whatever happens to the name.  The content of an inode is two*)
(* chunks, each of the version that it was made from or missing; a chunk of*)
(* an archive stands for the version that it unpacks to.  The inodes are   *)
(* those of a machine that goes on: a power failure is not modelled.       *)
(***************************************************************************)
EXTENDS Naturals, FiniteSets

CONSTANTS
  Procs,      \* processes or threads, each with one call at a time
  Versions,   \* contents
  None,
  Cautions,   \* what the callers see to, see MayCall
  MaxCalls    \* bound on the calls of a process

ASSUME FileAssumption ==
  /\ IsFiniteSet(Procs)
  /\ None \notin Versions \cup Nat
  /\ Cautions \subseteq {"apart", "sameContent", "sourceThere"}
  /\ MaxCalls \in Nat

VARIABLES
  dir,    \* the inode that each name links, or None
  data,   \* the content of each inode
  proc    \* where each call stands

vars == <<dir, data, proc>>

Paths == {"file", "gz", "tmp", "gzTmp"}
Inodes == 1..(Cardinality(Paths) + 2 * Cardinality(Procs))
Blank == [c \in 1..2 |-> None]
WholeOf(v) == [c \in 1..2 |-> v]

(* The names a call works on; path_temp_suffix(): atomic_write() and       *)
(* gunzip_file() of one path have the same temporary name.                 *)
Target(op) == IF op = "gzip" THEN "gz" ELSE "file"
Source(op) == IF op = "gzip" THEN "file" ELSE "gz"
Temp_Direct(op) == Target(op)
Temp(op) == IF op = "gzip" THEN "gzTmp" ELSE "tmp"

(* from and to are the open handles, n the chunks copied so far.  version  *)
(* is what the call is to put under its target: what atomic_write() was    *)
(* given, or what the source held when it was opened.  before is history:  *)
(* what the target showed when the call began.                             *)
NoCall == [pc |-> "idle", op |-> "none", version |-> None, force |-> FALSE,
           delete |-> FALSE, from |-> None, to |-> None, n |-> 0, result |-> "none",
           before |-> None, calls |-> 0]

(* What a name shows to somebody who opens it.                             *)
Shown(path) ==
  IF dir[path] = None THEN None
  ELSE IF \E v \in Versions : data[dir[path]] = WholeOf(v) THEN data[dir[path]][1]
  ELSE "torn"

Init ==
  /\ dir \in {d \in [Paths -> {None, 1, 2}] :
                /\ d["file"] \in {None, 1} /\ d["gz"] \in {None, 2}
                /\ d["tmp"] = None /\ d["gzTmp"] = None}
  /\ data \in {[i \in Inodes |-> IF i \in {dir["file"], dir["gz"]} THEN WholeOf(f[i]) ELSE Blank]
                 : f \in [1..2 -> Versions]}
  /\ proc = [p \in Procs |-> NoCall]

-----------------------------------------------------------------------------
(* A step; an inode without a link and a handle is free, and blank.        *)
Live(d, q) == {d[path] : path \in Paths} \cup UNION {{q[p].from, q[p].to} : p \in Procs}
Step(d, c, q) ==
  /\ dir' = d
  /\ proc' = q
  /\ data' = [i \in Inodes |-> IF i \in Live(d, q) THEN c[i] ELSE Blank]
Go(p, w) == Step(dir, data, [proc EXCEPT ![p] = w])

Ended(w, result) == [NoCall EXCEPT !.result = result, !.calls = w.calls]
Unlinked(path) == [dir EXCEPT ![path] = None]

(* The except branch: handles are closed, the temporary file, if there is  *)
(* one, is removed next, and the exception goes to the caller.             *)
Raised_GoesOn(w) ==
  [w EXCEPT !.pc = IF w.pc = "copy" THEN "replace" ELSE "cleanup", !.from = None, !.to = None]
Raised(w) == [w EXCEPT !.pc = "cleanup", !.from = None, !.to = None]

-----------------------------------------------------------------------------
(* What the callers see to.  apart: calls with one temporary file are not  *)
(* under way together, and one that removes something is alone.            *)
(* sameContent: a call that would skip the work and delete its source finds*)
(* the same version in both.  sourceThere: a call with force has a source. *)
MayCall(p, op, force, delete) ==
  /\ "apart" \in Cautions =>
       \A q \in Procs \ {p} : proc[q].pc # "idle" =>
         /\ Temp(proc[q].op) # Temp(op)
         /\ ~(force \/ delete \/ proc[q].force \/ proc[q].delete)
  /\ ("sameContent" \in Cautions /\ delete /\ ~force) =>
       Shown(Target(op)) \in {None, Shown(Source(op))} \/ Shown(Source(op)) = None
  /\ "sourceThere" \in Cautions /\ force => dir[Source(op)] # None

Started(p, w) ==
  /\ proc[p].calls < MaxCalls
  /\ Go(p, [w EXCEPT !.calls = proc[p].calls + 1, !.before = Shown(Target(w.op))])

(* with atomic_write(path) as f: the body writes one version.              *)
CallWrite(p, v) ==
  /\ proc[p].pc = "idle"
  /\ MayCall(p, "write", FALSE, FALSE)
  /\ Started(p, [NoCall EXCEPT !.pc = "openOut", !.op = "write", !.version = v])

CallCompress(p, op, force, delete) ==
  /\ proc[p].pc = "idle"
  /\ MayCall(p, op, force, delete)
  /\ Started(p, [NoCall EXCEPT !.pc = "exists", !.op = op, !.force = force, !.delete = delete])

(* if gz_path.exists(): with force the target goes, without it the work is *)
(* skipped, and the source is deleted all the same.                        *)
LookForTarget_ForceIgnored(p) ==
  LET w == proc[p] IN
  /\ w.pc = "exists"
  /\ \/ dir[Target(w.op)] = None /\ Go(p, [w EXCEPT !.pc = "openIn"])
     \/ dir[Target(w.op)] # None /\ w.delete /\ Go(p, [w EXCEPT !.pc = "skip"])
     \/ dir[Target(w.op)] # None /\ ~w.delete /\ Go(p, Ended(w, "ok"))
LookForTarget(p) ==
  LET w == proc[p] IN
  /\ w.pc = "exists"
  /\ \/ dir[Target(w.op)] = None /\ Go(p, [w EXCEPT !.pc = "openIn"])
     \/ dir[Target(w.op)] # None /\ w.force /\ Go(p, [w EXCEPT !.pc = "unlink"])
     \/ dir[Target(w.op)] # None /\ ~w.force /\ w.delete /\ Go(p, [w EXCEPT !.pc = "skip"])
     \/ dir[Target(w.op)] # None /\ ~w.force /\ ~w.delete /\ Go(p, Ended(w, "ok"))

UnlinkTarget(p) ==
  /\ proc[p].pc = "unlink"
  /\ Step(Unlinked(Target(proc[p].op)), data, [proc EXCEPT ![p].pc = "openIn"])

SkipAndDelete(p) ==
  /\ proc[p].pc = "skip"
  /\ Step(Unlinked(Source(proc[p].op)), data, [proc EXCEPT ![p] = Ended(@, "ok")])

OpenIn(p) ==
  LET w == proc[p] IN
  /\ w.pc = "openIn"
  /\ IF dir[Source(w.op)] = None
       THEN Go(p, Raised(w))
       ELSE Go(p, [w EXCEPT !.pc = "openOut", !.from = dir[Source(w.op)],
                            !.version = Shown(Source(w.op))])

(* open(tmp, "wb") makes a file, or empties the one that is there; without *)
(* a free inode it raises.                                                 *)
OpenOut(p) ==
  LET w == proc[p]
      free == Inodes \ Live(dir, proc)
      i == IF dir[Temp(w.op)] # None THEN dir[Temp(w.op)] ELSE CHOOSE j \in free : TRUE
  IN  /\ w.pc = "openOut"
      /\ \/ /\ dir[Temp(w.op)] # None \/ free # {}
            /\ Step([dir EXCEPT ![Temp(w.op)] = i], [data EXCEPT ![i] = Blank],
                    [proc EXCEPT ![p] = [w EXCEPT !.pc = "copy", !.to = i]])
         \/ Go(p, Raised(w))

(* The next chunk, which the body writes or which is read from the source. *)
(* A body, a read or a write may raise, and so does gunzip when an archive *)
(* ends early; one that is empty unpacks to an empty file.                 *)
Copy(p) ==
  LET w == proc[p]
      chunk == IF w.op = "write" THEN w.version ELSE data[w.from][w.n + 1]
      early == w.op = "gunzip" /\ chunk = None /\ data[w.from] # Blank
      Copied == [w EXCEPT !.n = @ + 1]
  IN  /\ w.pc = "copy"
      /\ \/ ~early /\ Step(dir, [data EXCEPT ![w.to][w.n + 1] = chunk],
                           [proc EXCEPT ![p] = IF w.n = 0 THEN Copied
                             ELSE [Copied EXCEPT !.pc = "replace", !.from = None, !.to = None]])
         \/ Go(p, Raised(w))

(* os.replace(tmp, target), or rename(), and what is left to delete.       *)
Replace(p) ==
  LET w == proc[p] IN
  /\ w.pc = "replace"
  /\ \/ /\ dir[Temp(w.op)] # None
        /\ Step([dir EXCEPT ![Target(w.op)] = dir[Temp(w.op)], ![Temp(w.op)] = None], data,
                [proc EXCEPT ![p] = IF w.delete THEN [w EXCEPT !.pc = "delete"]
                                    ELSE Ended(w, "ok")])
     \/ Go(p, Raised(w))

(* unlink() of the source; one that is missing raises.                     *)
DeleteSource(p) ==
  LET w == proc[p] IN
  /\ w.pc = "delete"
  /\ \/ /\ dir[Source(w.op)] # None
        /\ Step(Unlinked(Source(w.op)), data, [proc EXCEPT ![p] = Ended(w, "ok")])
     \/ Go(p, Raised(w))

CleanUp_KeepsTemp(p) ==
  /\ proc[p].pc = "cleanup"
  /\ Go(p, Ended(proc[p], "error"))
CleanUp(p) ==
  /\ proc[p].pc = "cleanup"
  /\ Step(Unlinked(Temp(proc[p].op)), data, [proc EXCEPT ![p] = Ended(@, "error")])

(* The process dies, or the call is left by what is not an Exception, such *)
(* as a KeyboardInterrupt or a cancelled task: nothing is cleaned up.      *)
Killed(p) == proc[p].pc # "idle" /\ Go(p, Ended(proc[p], "killed"))

CallStep(p) ==
  \/ LookForTarget(p) \/ UnlinkTarget(p) \/ SkipAndDelete(p) \/ OpenIn(p)
  \/ OpenOut(p) \/ Copy(p) \/ Replace(p) \/ DeleteSource(p) \/ CleanUp(p)

Next ==
  \E p \in Procs :
    \/ \E v \in Versions : CallWrite(p, v)
    \/ \E op \in {"gzip", "gunzip"}, force, delete \in BOOLEAN : CallCompress(p, op, force, delete)
    \/ CallStep(p)
    \/ Killed(p)

Spec == Init /\ [][Next]_vars
=============================================================================
