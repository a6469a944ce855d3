------------------------------ MODULE IOHelper ------------------------------
(***************************************************************************)
(* The directories of tmautils.core.io.IOHelper: a top-level directory and *)
(* one below it, each a real directory or a symbolic link to a target, for *)
(* several helpers of one namespace, in threads or processes that may be   *)
(* killed.  One step is one system call on an entry.  Targets may be lost, *)
(* and come back, as a mounted disk does.                                  *)
(***************************************************************************)
EXTENDS Naturals, FiniteSets

CONSTANTS
  Helpers,
  Targets,    \* directories elsewhere that a symlink may be asked to point to
  None,
  MaxCalls,   \* bound on the calls of a helper
  MaxKills,   \* bound on the helpers that are killed
  MaxLosses   \* bound on the targets that are lost

ASSUME HelperAssumption ==
  /\ IsFiniteSet(Helpers) /\ IsFiniteSet(Targets)
  /\ Targets \cap {None, "missing", "dir"} = {}
  /\ {MaxCalls, MaxKills, MaxLosses} \subseteq Nat

VARIABLES
  top,      \* the entry of the top-level directory
  sub,      \* the entry below it, in the real directory and in each target
  alive,    \* the targets that exist
  helper,   \* where each helper stands
  kills, losses

vars == <<top, sub, alive, helper, kills, losses>>

Places == {"dir"} \cup Targets
Entries == {"missing", "dir"} \cup Targets
Levels == {"top", "sub"}

(* links are the configured symlink_to of the two levels; want is the one  *)
(* that the call is about, at its level; direct says that the call is a    *)
(* create_symlink().  cached is "sub in self._dirs_created".  alone is     *)
(* history: no other helper was in a call, and no target came or went,     *)
(* since the call began.                                                   *)
NoHelper == [pc |-> "none", built |-> FALSE, links |-> [l \in Levels |-> None],
             eager |-> FALSE, level |-> "top", want |-> None, direct |-> FALSE,
             cached |-> FALSE, alone |-> TRUE, calls |-> 0, result |-> "none"]

Init ==
  /\ top = "missing"
  /\ sub = [p \in Places |-> "missing"]
  /\ alive = Targets
  /\ helper = [h \in Helpers |-> NoHelper]
  /\ kills = 0 /\ losses = 0

-----------------------------------------------------------------------------
(* What a path leads to.                                                   *)
IsDir(entry) == entry = "dir" \/ entry \in alive
ParentThere(level) == level = "top" \/ IsDir(top)
Entry(level) == IF level = "top" THEN top ELSE IF IsDir(top) THEN sub[top] ELSE "missing"
PathIsDir(level) == ParentThere(level) /\ IsDir(Entry(level))

SetEntry(level, entry) ==
  IF level = "top" THEN top' = entry /\ UNCHANGED sub
  ELSE sub' = [sub EXCEPT ![top] = entry] /\ UNCHANGED top

Busy(h) == helper[h].pc \notin {"none", "ready"}
Go(h, pc) == helper' = [helper EXCEPT ![h].pc = pc]
Still == UNCHANGED <<alive, kills, losses>>

-----------------------------------------------------------------------------
(* A call begins; the calls under way are no longer alone.                 *)
Begun(w, level, want) ==
  [w EXCEPT !.pc = IF want = None THEN "mkdir" ELSE "target", !.level = level, !.want = want]
Begin(h, w) ==
  /\ helper[h].calls < MaxCalls
  /\ LET others == {g \in Helpers \ {h} : Busy(g)}
     IN  helper' = [g \in Helpers |->
           IF g = h THEN [w EXCEPT !.alone = others = {}, !.calls = helper[h].calls + 1]
           ELSE [helper[g] EXCEPT !.alone = @ /\ g \notin others]]
  /\ UNCHANGED <<top, sub>> /\ Still

(* IOHelper(...): the top-level directory, then those that are eager.      *)
Construct(h, links, eager) ==
  /\ helper[h].pc = "none"
  /\ Begin(h, Begun([NoHelper EXCEPT !.links = links, !.eager = eager], "top", links["top"]))

(* helper.<name>: _ensure_dir(), which looks at its own notes first.       *)
Access(h) ==
  LET w == [helper[h] EXCEPT !.direct = FALSE] IN
  /\ w.pc = "ready"
  /\ Begin(h, IF w.cached THEN [w EXCEPT !.level = "sub", !.result = "ok"]
              ELSE Begun(w, "sub", w.links["sub"]))

(* create_symlink(helper.top_level_dir, t, name).                          *)
CreateSymlink(h, t) ==
  /\ helper[h].pc = "ready"
  /\ Begin(h, Begun([helper[h] EXCEPT !.direct = TRUE], "sub", t))

Ended(w, result) ==
  [w EXCEPT !.pc = IF w.built \/ result = "ok" THEN "ready" ELSE "none",
            !.built = @ \/ result = "ok", !.result = result]
Finished(w) ==
  IF w.level = "top" /\ w.eager THEN Begun(w, "sub", w.links["sub"])
  ELSE Ended([w EXCEPT !.cached = @ \/ (w.level = "sub" /\ ~w.direct)], "ok")
Finish(h) == helper' = [helper EXCEPT ![h] = Finished(@)]
Raise(h) == helper' = [helper EXCEPT ![h] = Ended(@, "error")]

(* mkdir(parents=True, exist_ok=True) tries, makes the parents when they   *)
(* are missing, and tries once more.                                       *)
Mkdir_Once(h) ==
  LET w == helper[h]
      entry == Entry(w.level)
  IN  /\ w.pc \in {"mkdir", "again"}
      /\ \/ /\ ParentThere(w.level) /\ entry = "missing"
            /\ SetEntry(w.level, "dir") /\ Finish(h)
         \/ /\ ParentThere(w.level) /\ entry # "missing"
            /\ Raise(h)
            /\ UNCHANGED <<top, sub>>
         \/ /\ ~ParentThere(w.level)
            /\ IF w.pc = "mkdir" THEN Go(h, "parents") ELSE Raise(h)
            /\ UNCHANGED <<top, sub>>
      /\ Still
Mkdir(h) ==
  LET w == helper[h]
      entry == Entry(w.level)
  IN  /\ w.pc \in {"mkdir", "again"}
      /\ \/ /\ ParentThere(w.level) /\ entry = "missing"
            /\ SetEntry(w.level, "dir") /\ Finish(h)
         \/ /\ ParentThere(w.level) /\ entry # "missing"
            /\ IF IsDir(entry) THEN Finish(h) ELSE Raise(h)
            /\ UNCHANGED <<top, sub>>
         \/ /\ ~ParentThere(w.level)
            /\ IF w.pc = "mkdir" THEN Go(h, "parents") ELSE Raise(h)
            /\ UNCHANGED <<top, sub>>
      /\ Still

MkdirParents(h) ==
  /\ helper[h].pc = "parents"
  /\ \/ top = "missing" /\ top' = "dir" /\ Go(h, "again")
     \/ top # "missing" /\ UNCHANGED top /\ IF IsDir(top) THEN Go(h, "again") ELSE Raise(h)
  /\ UNCHANGED sub /\ Still

(* _create_dir_symlink(): the target must exist.                           *)
LookAtTarget(h) ==
  /\ helper[h].pc = "target"
  /\ IF helper[h].want \in alive THEN Go(h, "look") ELSE Raise(h)
  /\ UNCHANGED <<top, sub>> /\ Still

(* An old link goes, a real directory stays and the call fails.            *)
(* create_symlink() does not see a link whose target is lost, and resolves *)
(* its own target once more when the place is free.                        *)
PlaceFree(h) == Go(h, IF helper[h].direct THEN "resolve" ELSE "link")

LookAtEntry_Follows(h) ==
  LET entry == Entry(helper[h].level) IN
  /\ helper[h].pc = "look"
  /\ IF entry = "missing" \/ ~IsDir(entry)
       THEN PlaceFree(h)
       ELSE IF entry = "dir" THEN Raise(h) ELSE Go(h, "unlink")
  /\ UNCHANGED <<top, sub>> /\ Still
LookAtEntry(h) ==
  LET entry == Entry(helper[h].level) IN
  /\ helper[h].pc = "look"
  /\ IF entry = "missing" \/ (helper[h].direct /\ ~IsDir(entry))
       THEN PlaceFree(h)
       ELSE IF entry = "dir" THEN Raise(h) ELSE Go(h, "unlink")
  /\ UNCHANGED <<top, sub>> /\ Still

Unlink(h) ==
  LET level == helper[h].level IN
  /\ helper[h].pc = "unlink"
  /\ IF Entry(level) \in Targets
       THEN SetEntry(level, "missing") /\ PlaceFree(h)
       ELSE Raise(h) /\ UNCHANGED <<top, sub>>
  /\ Still

Resolve(h) ==
  /\ helper[h].pc = "resolve"
  /\ IF helper[h].want \in alive THEN Go(h, "link") ELSE Raise(h)
  /\ UNCHANGED <<top, sub>> /\ Still

Link_CleansUp(h) ==
  LET w == helper[h] IN
  /\ w.pc = "link"
  /\ IF ParentThere(w.level) /\ Entry(w.level) = "missing"
       THEN SetEntry(w.level, w.want) /\ Finish(h)
       ELSE Raise(h) /\ IF ParentThere(w.level) THEN SetEntry(w.level, "missing")
                                               ELSE UNCHANGED <<top, sub>>
  /\ Still
Link(h) ==
  LET w == helper[h] IN
  /\ w.pc = "link"
  /\ IF ParentThere(w.level) /\ Entry(w.level) = "missing"
       THEN SetEntry(w.level, w.want) /\ Finish(h)
       ELSE Raise(h) /\ UNCHANGED <<top, sub>>
  /\ Still

(* A process dies; a target is lost, or is there again.                    *)
Kill(h) ==
  /\ helper[h].pc # "none" /\ kills < MaxKills
  /\ kills' = kills + 1
  /\ helper' = [helper EXCEPT ![h] = [NoHelper EXCEPT !.calls = helper[h].calls]]
  /\ UNCHANGED <<top, sub, alive, losses>>

Alive(targets) ==
  /\ alive' = targets
  /\ helper' = [h \in Helpers |-> [helper[h] EXCEPT !.alone = @ /\ ~Busy(h)]]
Lose(t) ==
  /\ t \in alive /\ losses < MaxLosses /\ losses' = losses + 1
  /\ Alive(alive \ {t})
  /\ UNCHANGED <<top, sub, kills>>
Restore(t) ==
  /\ t \notin alive
  /\ Alive(alive \cup {t})
  /\ UNCHANGED <<top, sub, kills, losses>>

Step(h) ==
  \/ Mkdir(h) \/ MkdirParents(h)
  \/ LookAtTarget(h) \/ LookAtEntry(h) \/ Unlink(h) \/ Resolve(h) \/ Link(h)

Next ==
  \/ \E h \in Helpers :
       \/ \E links \in [Levels -> Targets \cup {None}], eager \in BOOLEAN : Construct(h, links, eager)
       \/ Access(h) \/ \E t \in Targets : CreateSymlink(h, t)
       \/ Step(h)
       \/ Kill(h)
  \/ \E t \in Targets : Lose(t) \/ Restore(t)

Spec == Init /\ [][Next]_vars
=============================================================================
