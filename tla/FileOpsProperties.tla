------------------------- MODULE FileOpsProperties -------------------------
(***************************************************************************)
(* What the file operations owe to those who read the two names while they *)
(* run, to those who find the files after a crash, and to their callers.   *)
(***************************************************************************)
EXTENDS FileOps

InFlight(p) == proc[p].pc \in {"openOut", "copy", "replace"}

(* Types; open handles go with the steps that use them.                    *)
FilesTypeOK ==
  /\ dir \in [Paths -> Inodes \cup {None}]
  /\ data \in [Inodes -> [1..2 -> Versions \cup {None}]]
  /\ \A p \in Procs : LET w == proc[p] IN
       /\ w.pc \in {"idle", "exists", "unlink", "skip", "openIn", "openOut", "copy",
                    "replace", "delete", "cleanup"}
       /\ (w.to # None) = (w.pc = "copy")
       /\ (w.from # None) = (w.pc \in {"openOut", "copy"} /\ w.op # "write")

(* A file that can be seen under one of the two names is written to by     *)
(* nobody: whoever has opened it reads one version to its end.             *)
PublishedFrozen ==
  /\ FilesTypeOK
  /\ \A name \in {"file", "gz"}, p \in Procs : dir[name] # None => proc[p].to # dir[name]

(* With callers that keep apart, the two names are a FilePair: they show   *)
(* whole versions, changed by one step at a time, after a crash too.       *)
TakenFor(name) ==
  LET copying == {p \in Procs : /\ InFlight(p) /\ proc[p].op # "write"
                                /\ Target(proc[p].op) = name}
  IN  IF copying = {} THEN None ELSE proc[CHOOSE p \in copying : TRUE].version
Pair == INSTANCE FilePair WITH
          shown <- [name \in {"file", "gz"} |-> Shown(name)],
          taken <- [name \in {"file", "gz"} |-> TakenFor(name)]
ImplementsPair == Pair!Spec

(* The last copy of a version goes only when atomic_write() replaces it, or*)
(* when a call with force puts its source in the place of it: "overwrite   *)
(* the existing gzipped file if it exists".                                *)
Held(v) == v \in {Shown("file"), Shown("gz")}
Overwrites(p) ==
  \/ proc[p].pc = "replace" /\ proc[p].op = "write"
  \/ proc[p].pc = "unlink" /\ dir[Source(proc[p].op)] # None
NothingLost ==
  [][\A v \in Versions : Held(v) /\ ~Held(v)' => \E p \in Procs : Overwrites(p) /\ proc'[p] # proc[p]]_vars

(* A call that raises leaves no temporary file, nor the half of one that a *)
(* killed call has left before, and neither does one that has put its own  *)
(* under its target; "if the caller raises an exception during the write,  *)
(* the temp file is deleted".                                              *)
TempRemoved(p) ==
  (proc[p].pc \in {"replace", "delete", "cleanup"} /\ proc'[p].pc = "idle"
     /\ proc'[p].result # "killed")
    => dir'[Temp(proc[p].op)] = None

(* "... and the original file (if any) remains unchanged": when a call     *)
(* raises or is killed, its target shows what it did before the call, or,  *)
(* of a copy that came as far, what the source shows; with force perhaps   *)
(* nothing, but then there is the source.                                  *)
TargetKept(p) ==
  \A op \in {"write", "gzip", "gunzip"} :
    (proc[p].op = op /\ proc'[p].pc = "idle" /\ proc'[p].result # "ok") =>
      \/ Shown(Target(op))' = proc[p].before
      \/ /\ op # "write" /\ dir'[Source(op)] # None
         /\ \/ Shown(Target(op))' = Shown(Source(op))'
            \/ proc[p].force /\ Shown(Target(op))' = None
FailureHarmless == [][\A p \in Procs : TempRemoved(p) /\ TargetKept(p)]_vars
=============================================================================
