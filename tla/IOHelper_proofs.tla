--------------------------- MODULE IOHelper_proofs --------------------------
(***************************************************************************)
(* Proofs about the directories of IOHelper, for any helpers and targets   *)
(* and any number of calls, kills and lost targets.                        *)
(***************************************************************************)
EXTENDS IOHelperProperties, TLAPS

-----------------------------------------------------------------------------
(* The inductive invariant                                                 *)

Waits == {"mkdir", "again", "parents", "target", "look", "unlink", "resolve", "link"}
Helper ==
  [pc : {"none", "ready"} \cup Waits, built : BOOLEAN, links : [Levels -> Targets \cup {None}],
   eager : BOOLEAN, level : Levels, want : Targets \cup {None}, direct : BOOLEAN,
   cached : BOOLEAN, alone : BOOLEAN, calls : Nat, result : {"none", "ok", "error"}]

(* A helper that has had its top-level directory is one; a call is about   *)
(* what the helper was made for, but for a create_symlink().               *)
HelperOK(w) ==
  /\ w.pc = "none" => ~w.built
  /\ w.pc = "ready" \/ w.cached \/ w.result = "ok" => w.built
  /\ w.pc \in {"mkdir", "again", "parents"} => w.want = None
  /\ w.pc \in {"target", "look", "unlink", "resolve", "link"} => w.want # None
  /\ w.pc \in {"again", "parents"} => w.level = "sub"
  /\ w.pc \in Waits => IF w.direct THEN w.built /\ w.level = "sub" ELSE w.want = w.links[w.level]
  /\ w.pc \in Waits /\ w.level = "top" => ~w.built
HelpersOK == helper \in [Helpers -> Helper] /\ \A h \in Helpers : HelperOK(helper[h])
EntriesOK ==
  /\ top \in Entries /\ sub \in [Places -> Entries] /\ alive \subseteq Targets
  /\ kills \in Nat /\ losses \in Nat /\ (losses = 0 => alive = Targets)

(* What a call that is alone has seen is still so.                         *)
Undisturbed(w) ==
  /\ w.pc \in {"look", "unlink", "resolve", "link"} => w.want \in alive
  /\ w.pc = "unlink" => Entry(w.level) \in Targets
  /\ w.pc \in {"resolve", "link"} =>
       Entry(w.level) = "missing" \/ (w.direct /\ Lost(Entry(w.level)))
AloneOK == \A h \in Helpers : Busy(h) /\ helper[h].alone =>
  /\ Undisturbed(helper[h])
  /\ \A g \in Helpers \ {h} : ~Busy(g)

(* Without a kill, whoever takes the top-level entry away is about to put  *)
(* one there, and the entry that is there is the one of a helper that has  *)
(* got it, or has gone on to the directory below; or else there is an entry*)
(* below, or a call about to make one.                                     *)
Coming == \E h \in Helpers : helper[h].pc = "link" /\ helper[h].level = "top"
Wanted(w) == IF w.links["top"] = None THEN "dir" ELSE w.links["top"]
Owns(w) == /\ Wanted(w) = top
           /\ w.built \/ (w.level = "sub" /\ w.pc \in Waits \ {"unlink"})
Fills(w) == w.level = "sub" /\ w.pc \in {"again", "resolve", "link"}
Owned == \/ \E h \in Helpers : Owns(helper[h]) \/ Fills(helper[h])
         \/ sub[top] # "missing"
TopOK ==
  kills = 0 /\ losses = 0 =>
    IF top = "missing" THEN Coming \/ \A h \in Helpers : ~helper[h].built ELSE Owned

DirsInv == HelpersOK /\ EntriesOK /\ AloneOK /\ TopOK

-----------------------------------------------------------------------------
(* What becomes of the record of a helper                                  *)

LEMMA Apart == None \notin Targets /\ "missing" \notin Targets /\ "dir" \notin Targets
  BY HelperAssumption

LEMMA NoHelperOK == NoHelper \in Helper /\ HelperOK(NoHelper)
  BY DEF NoHelper, Helper, HelperOK, Waits, Levels

(* The same call, but for its history.                                     *)
Kin(x, y) ==
  /\ y.pc = x.pc /\ y.built = x.built /\ y.links = x.links /\ y.level = x.level
  /\ y.want = x.want /\ y.direct = x.direct /\ y.cached = x.cached /\ y.result = x.result
  /\ y.alone => x.alone
Went(w, z, pc) ==
  /\ z.pc = pc /\ z.built = w.built /\ z.links = w.links /\ z.level = w.level
  /\ z.want = w.want /\ z.direct = w.direct /\ z.alone = w.alone
Failed(w, z) ==
  /\ z.pc = (IF w.built THEN "ready" ELSE "none") /\ z.built = w.built /\ z.links = w.links
  /\ z.level = w.level /\ z.want = w.want /\ z.direct = w.direct /\ z.alone = w.alone
  /\ z.result = "error"
GoesBelow(w, z) ==
  /\ z.pc \in {"mkdir", "target"} /\ z.built = w.built /\ z.links = w.links
  /\ w.level = "top" /\ z.level = "sub" /\ z.alone = w.alone
Succeeded(w, z) ==
  /\ z.pc = "ready" /\ z.built /\ z.links = w.links /\ z.level = w.level
  /\ z.want = w.want /\ z.direct = w.direct /\ z.alone = w.alone /\ z.result = "ok"

LEMMA WentOK ==
  ASSUME NEW w \in Helper, HelperOK(w), w.pc \in Waits, NEW pc \in Waits,
         pc \in {"mkdir", "again", "parents"} <=> w.pc \in {"mkdir", "again", "parents"},
         pc \in {"again", "parents"} => w.level = "sub"
  PROVE  \E z \in Helper : z = [w EXCEPT !.pc = pc] /\ HelperOK(z) /\ Went(w, z, pc)
<1> DEFINE z == [w EXCEPT !.pc = pc]
<1>1. z \in Helper
  BY DEF Helper
<1>2. /\ Went(w, z, pc) /\ z.cached = w.cached /\ z.result = w.result
  BY DEF Went, Helper
<1> HIDE DEF z
<1>3. HelperOK(z)
  BY <1>2 DEF HelperOK, Went, Waits
<1> QED
  BY <1>1, <1>2, <1>3 DEF z

LEMMA EndedIs ==
  ASSUME NEW w \in Helper, NEW result \in {"ok", "error"}
  PROVE  /\ Ended(w, result) \in Helper
         /\ Ended(w, result).pc = (IF w.built \/ result = "ok" THEN "ready" ELSE "none")
         /\ Ended(w, result).built = (w.built \/ result = "ok")
         /\ Ended(w, result).result = result
         /\ Ended(w, result).links = w.links /\ Ended(w, result).level = w.level
         /\ Ended(w, result).want = w.want /\ Ended(w, result).direct = w.direct
         /\ Ended(w, result).alone = w.alone /\ Ended(w, result).cached = w.cached
<1>1. Ended(w, result) \in Helper
  BY DEF Ended, Helper
<1> QED
  BY <1>1 DEF Ended, Helper

LEMMA FailedOK ==
  ASSUME NEW w \in Helper, HelperOK(w), w.pc \in Waits
  PROVE  \E z \in Helper : z = Ended(w, "error") /\ HelperOK(z) /\ Failed(w, z)
<1>0. PICK result \in {"ok", "error"} : result = "error"
  OBVIOUS
<1> DEFINE z == Ended(w, result)
<1>1. /\ z \in Helper /\ Failed(w, z) /\ z.cached = w.cached
  BY <1>0, EndedIs DEF Failed, Helper
<1> HIDE DEF z
<1>2. HelperOK(z)
  BY <1>1 DEF HelperOK, Failed, Waits
<1> QED
  BY <1>0, <1>1, <1>2 DEF z

LEMMA BegunIs ==
  ASSUME NEW w \in Helper, NEW level \in Levels, NEW want \in Targets \cup {None}
  PROVE  /\ Begun(w, level, want) \in Helper
         /\ Begun(w, level, want).pc = (IF want = None THEN "mkdir" ELSE "target")
         /\ Begun(w, level, want).level = level /\ Begun(w, level, want).want = want
         /\ Begun(w, level, want).built = w.built /\ Begun(w, level, want).links = w.links
         /\ Begun(w, level, want).direct = w.direct /\ Begun(w, level, want).cached = w.cached
         /\ Begun(w, level, want).result = w.result /\ Begun(w, level, want).alone = w.alone
<1>1. Begun(w, level, want) \in Helper
  BY DEF Begun, Helper, Waits
<1> QED
  BY <1>1 DEF Begun, Helper

LEMMA FinishedOK ==
  ASSUME NEW w \in Helper, HelperOK(w), w.pc \in Waits
  PROVE  \E z \in Helper : /\ z = Finished(w) /\ HelperOK(z)
                           /\ GoesBelow(w, z) \/ Succeeded(w, z)
<1>1. CASE w.level = "top" /\ w.eager
  <2>1. w.links["sub"] \in Targets \cup {None} /\ "sub" \in Levels
    BY DEF Helper, Levels
  <2>2. PICK want \in Targets \cup {None} : want = w.links["sub"]
    BY <2>1
  <2> DEFINE z == Begun(w, "sub", want)
  <2>3. z = Finished(w)
    BY <1>1, <2>2 DEF Finished
  <2>4. /\ z \in Helper /\ GoesBelow(w, z) /\ z.want = want /\ z.direct = w.direct
        /\ z.pc = (IF want = None THEN "mkdir" ELSE "target")
        /\ z.cached = w.cached /\ z.result = w.result
    BY <1>1, <2>1, BegunIs DEF GoesBelow
  <2> HIDE DEF z
  <2>5. HelperOK(z)
    BY <1>1, <2>2, <2>4 DEF HelperOK, GoesBelow, Waits
  <2> QED
    BY <2>3, <2>4, <2>5
<1>2. CASE ~(w.level = "top" /\ w.eager)
  <2> DEFINE cached == w.cached \/ (w.level = "sub" /\ ~w.direct)
             v == [w EXCEPT !.cached = cached]
  <2>1. cached \in BOOLEAN
    BY DEF Helper
  <2>2. Finished(w) = Ended(v, "ok")
    BY <1>2 DEF Finished
  <2> HIDE DEF cached
  <2>3. /\ v \in Helper /\ v.built = w.built /\ v.links = w.links /\ v.level = w.level
        /\ v.want = w.want /\ v.direct = w.direct /\ v.alone = w.alone
    <3>1. v \in Helper
      BY <2>1 DEF Helper
    <3> QED
      BY <3>1 DEF Helper
  <2> HIDE DEF v
  <2>4. PICK result \in {"ok", "error"} : result = "ok"
    OBVIOUS
  <2> DEFINE z == Ended(v, result)
  <2>5. z \in Helper /\ Succeeded(w, z)
    BY <2>3, <2>4, EndedIs DEF Succeeded, Helper
  <2> HIDE DEF z
  <2>6. HelperOK(z)
    BY <2>5 DEF HelperOK, Succeeded, Waits
  <2> QED
    BY <2>2, <2>4, <2>5, <2>6 DEF z
<1> QED
  BY <1>1, <1>2

-----------------------------------------------------------------------------
(* What a step has to show                                                 *)

Moved(h, z) ==
  /\ helper' \in [Helpers -> Helper] /\ helper'[h] = z /\ HelperOK(z)
  /\ \A g \in Helpers \ {h} : Kin(helper[g], helper'[g])

LEMMA MovedExcept ==
  ASSUME HelpersOK, NEW h \in Helpers, NEW z \in Helper, HelperOK(z),
         helper' = [helper EXCEPT ![h] = z]
  PROVE  Moved(h, z)
  BY DEF HelpersOK, Moved, Kin

LEMMA MovedHelpers ==
  ASSUME HelpersOK, NEW h \in Helpers, NEW z, Moved(h, z)
  PROVE  HelpersOK'
<1>1. \A g \in Helpers : HelperOK(helper'[g])
  <2> SUFFICES ASSUME NEW g \in Helpers \ {h} PROVE HelperOK(helper'[g])
    BY DEF Moved
  <2>1. PICK x, y : x = helper[g] /\ y = helper'[g]
    OBVIOUS
  <2>2. HelperOK(x) /\ Kin(x, y)
    BY <2>1 DEF HelpersOK, Moved
  <2>3. HelperOK(y)
    BY <2>2 DEF HelperOK, Kin
  <2> QED
    BY <2>1, <2>3
<1> QED
  BY <1>1 DEF Moved, HelpersOK, HelperOK, Helper, Waits, Levels

LEMMA AloneStep ==
  ASSUME HelpersOK, AloneOK, NEW h \in Helpers, NEW z, Moved(h, z), Busy(h),
         (z.pc \in Waits /\ z.alone) => helper[h].alone /\ Undisturbed(z)'
  PROVE  AloneOK'
<1> SUFFICES ASSUME NEW g \in Helpers, Busy(g)', helper'[g].alone
             PROVE  Undisturbed(helper[g])' /\ \A k \in Helpers \ {g} : ~Busy(k)'
  BY DEF AloneOK
<1>1. \A k \in Helpers \ {h} : (Busy(k)' <=> Busy(k)) /\ (helper'[k].alone => helper[k].alone)
  BY DEF Moved, Kin, Busy
<1>2. CASE g = h
  <2>1. z.pc \in Waits /\ z.alone /\ helper'[h] = z
    BY <1>2 DEF Moved, Busy, Helper
  <2>2. Undisturbed(helper[g])'
    BY <1>2, <2>1 DEF Undisturbed
  <2> QED
    BY <1>1, <1>2, <2>1, <2>2 DEF AloneOK
<1>3. CASE g # h
  BY <1>1, <1>3 DEF AloneOK
<1> QED
  BY <1>2, <1>3

LEMMA TopQuiet ==
  ASSUME TopOK, NEW h \in Helpers, NEW w, w = helper[h], NEW z, Moved(h, z),
         UNCHANGED <<top, sub, kills, losses>>,
         top = "missing" => ~(w.pc = "link" /\ w.level = "top") /\ (z.built => w.built),
         (kills = 0 /\ losses = 0 /\ top # "missing") =>
           (Owns(w) \/ Fills(w) => Owns(z) \/ Fills(z) \/ sub[top] # "missing")
  PROVE  TopOK'
<1> SUFFICES ASSUME kills = 0, losses = 0
             PROVE  IF top = "missing" THEN (Coming \/ \A g \in Helpers : ~helper[g].built)'
                    ELSE Owned'
  BY DEF TopOK
<1>1. \A g \in Helpers \ {h} : Kin(helper[g], helper'[g])
  BY DEF Moved
<1>2. helper'[h] = z
  BY DEF Moved
<1>3. CASE top = "missing"
  <2>1. CASE Coming
    <3>1. PICK g \in Helpers \ {h} : helper[g].pc = "link" /\ helper[g].level = "top"
      BY <1>3, <2>1 DEF Coming
    <3>2. helper'[g].pc = "link" /\ helper'[g].level = "top"
      BY <1>1, <3>1 DEF Kin
    <3> QED
      BY <1>3, <3>2 DEF Coming
  <2>2. CASE \A g \in Helpers : ~helper[g].built
    <3>1. \A g \in Helpers : ~helper'[g].built
      BY <1>1, <1>2, <1>3, <2>2 DEF Kin
    <3> QED
      BY <1>3, <3>1
  <2> QED
    BY <1>3, <2>1, <2>2 DEF TopOK
<1>4. CASE top # "missing"
  <2>1. CASE sub[top] # "missing"
    BY <1>4, <2>1 DEF Owned
  <2>2. CASE \E g \in Helpers : Owns(helper[g]) \/ Fills(helper[g])
    <3>1. PICK g \in Helpers : Owns(helper[g]) \/ Fills(helper[g])
      BY <2>2
    <3>2. CASE g = h
      <4>1. Owns(z) \/ Fills(z) \/ sub[top] # "missing"
        BY <1>4, <3>1, <3>2
      <4>2. (Owns(z) => Owns(helper[h])') /\ (Fills(z) => Fills(helper[h])')
        BY <1>2 DEF Owns, Fills, Wanted
      <4> QED
        BY <1>4, <4>1, <4>2 DEF Owned
    <3>3. CASE g # h
      <4>1. PICK x, y : x = helper[g] /\ y = helper'[g] /\ Kin(x, y)
        BY <1>1, <3>3
      <4>2. (Owns(x) => Owns(y)') /\ (Fills(x) => Fills(y)')
        BY <4>1 DEF Owns, Fills, Wanted, Kin
      <4>3. (Owns(y)' => Owns(helper[g])') /\ (Fills(y)' => Fills(helper[g])')
        BY <4>1 DEF Owns, Fills, Wanted
      <4> QED
        BY <1>4, <3>1, <4>1, <4>2, <4>3 DEF Owned
    <3> QED
      BY <3>2, <3>3
  <2> QED
    BY <1>4, <2>1, <2>2 DEF TopOK, Owned
<1> QED
  BY <1>3, <1>4

LEMMA TopSet ==
  ASSUME NEW h \in Helpers, NEW z, helper'[h] = z, top' # "missing",
         (kills' = 0 /\ losses' = 0) => Owns(z)' \/ Fills(z)' \/ sub'[top'] # "missing"
  PROVE  TopOK'
<1>1. (Owns(z)' => Owns(helper[h])') /\ (Fills(z)' => Fills(helper[h])')
  BY DEF Owns, Fills, Wanted
<1> QED
  BY <1>1 DEF TopOK, Owned

(* What an ended call tells its caller.                                    *)
Truth(h) ==
  (EndsCall(h) /\ helper[h].alone) =>
    IF helper'[h].result = "ok" THEN Given(helper[h])' ELSE Reason(helper[h])
Never(h) == Plain => (EndsCall(h) => helper'[h].result = "ok")
Reported == \A h \in Helpers : Truth(h) /\ Never(h)

LEMMA MovedReports ==
  ASSUME HelpersOK, NEW h \in Helpers, NEW w, w = helper[h], NEW z, Moved(h, z),
         kills' = kills /\ Busy(h) /\ z.pc \notin Waits =>
           /\ w.alone => IF z.result = "ok" THEN Given(z)' ELSE Reason(w)
           /\ Plain => z.result = "ok"
  PROVE  Reported
<1> SUFFICES ASSUME NEW g \in Helpers, EndsCall(g)
             PROVE  /\ helper[g].alone =>
                         IF helper'[g].result = "ok" THEN Given(helper[g])' ELSE Reason(helper[g])
                    /\ Plain => helper'[g].result = "ok"
  BY DEF Reported, Truth, Never
<1>1. g = h
  BY DEF EndsCall, Busy, Moved, Kin
<1>2. helper'[h] = z /\ z.pc \notin Waits /\ kills' = kills /\ Busy(h)
  BY <1>1 DEF Moved, EndsCall, Waits
<1>3. Given(z)' => Given(helper[h])'
  BY <1>2 DEF Given
<1> QED
  BY <1>1, <1>2, <1>3

(* All of it, for a step of a call.                                        *)
LEMMA StepConcludes ==
  ASSUME DirsInv, NEW h \in Helpers, NEW w, w = helper[h], w.pc \in Waits,
         NEW z \in Helper, HelperOK(z), helper' = [helper EXCEPT ![h] = z], Still,
         z.alone = w.alone, EntriesOK', TopOK',
         (z.pc \in Waits /\ w.alone) => Undisturbed(z)',
         z.pc \notin Waits =>
           /\ w.alone => IF z.result = "ok" THEN Given(z)' ELSE Reason(w)
           /\ Plain => z.result = "ok"
  PROVE  DirsInv' /\ Reported
<1>1. Moved(h, z)
  BY MovedExcept DEF DirsInv
<1>2. Busy(h)
  BY DEF Busy, Waits
<1>3. HelpersOK' /\ AloneOK'
  BY <1>1, <1>2, MovedHelpers, AloneStep DEF DirsInv
<1>4. Reported
  BY <1>1, MovedReports DEF DirsInv
<1> QED
  BY <1>3, <1>4 DEF DirsInv

-----------------------------------------------------------------------------
(* The entries                                                             *)

LEMMA EntryType ==
  ASSUME EntriesOK, NEW level \in Levels
  PROVE  /\ Entry(level) \in Entries
         /\ IsDir(top) => top \in Places
         /\ top # "missing" => top \in Places
         /\ \A e \in Entries : /\ IsDir(e) => e # "missing"
                               /\ (losses = 0 /\ e # "missing") => IsDir(e)
                               /\ (e # "missing" /\ ~IsDir(e)) => Lost(e)
  BY Apart DEF EntriesOK, Entry, Entries, Places, IsDir, Lost

LEMMA EntrySet ==
  ASSUME EntriesOK, NEW level \in Levels, NEW entry \in Entries, ParentThere(level),
         SetEntry(level, entry), Still
  PROVE  /\ EntriesOK' /\ Entry(level)' = entry /\ ParentThere(level)'
         /\ level = "top" => top' = entry
         /\ level = "sub" => top' = top /\ sub'[top] = entry /\ top # "missing"
         /\ kills' = kills /\ losses' = losses
<1>1. level = "sub" => top \in Places /\ IsDir(top) /\ top # "missing"
  <2>1. top \in Entries /\ (IsDir(top) => top # "missing") /\ (IsDir(top) => top \in Places)
    BY EntryType DEF EntriesOK
  <2> QED
    BY <2>1 DEF ParentThere
<1>2. CASE level = "top"
  BY <1>2 DEF EntriesOK, SetEntry, Still, Entry, ParentThere, Entries, Places
<1>3. CASE level = "sub"
  <2>1. top' = top /\ sub' = [sub EXCEPT ![top] = entry] /\ sub'[top] = entry
    BY <1>1, <1>3 DEF SetEntry, EntriesOK
  <2>2. IsDir(top)'
    BY <1>1, <1>3, <2>1 DEF IsDir, Still
  <2> QED
    BY <1>1, <1>3, <2>1, <2>2 DEF EntriesOK, Still, Entry, ParentThere, Entries, Places
<1> QED
  BY <1>2, <1>3 DEF Levels

LEMMA EntriesSame ==
  ASSUME EntriesOK, UNCHANGED <<top, sub>>, Still
  PROVE  /\ EntriesOK' /\ UNCHANGED <<top, sub, kills, losses>>
         /\ \A level : Entry(level)' = Entry(level) /\ (ParentThere(level)' <=> ParentThere(level))
         /\ \A e : (IsDir(e)' <=> IsDir(e)) /\ (Lost(e)' <=> Lost(e))
  BY DEF EntriesOK, Still, Entry, ParentThere, IsDir, Lost, Entries, Places

LEMMA CallIn ==
  ASSUME DirsInv, NEW h \in Helpers
  PROVE  /\ helper[h] \in Helper /\ HelperOK(helper[h]) /\ helper[h].level \in Levels
         /\ helper \in [Helpers -> Helper]
         /\ (helper[h].pc \in Waits /\ helper[h].alone) => Undisturbed(helper[h])
  BY DEF DirsInv, HelpersOK, Helper, AloneOK, Busy, Waits

(* What Plain says of a call.                                              *)
LEMMA PlainCall ==
  ASSUME DirsInv, Plain, NEW h \in Helpers, NEW w, w = helper[h], w.pc \in Waits
  PROVE  /\ w.pc \in {"mkdir", "again", "parents"} /\ ParentThere(w.level)
         /\ Entry(w.level) \in {"missing", "dir"}
<1>1. w.want = None
  BY CallIn DEF Plain, HelperOK
<1>2. w.pc \in {"mkdir", "again", "parents"}
  BY <1>1, CallIn DEF HelperOK, Waits
<1>3. CASE w.level = "top"
  BY <1>2, <1>3 DEF Plain, Entry, ParentThere, DirsInv, EntriesOK, Entries
<1>4. CASE w.level = "sub"
  <2>1. top = "dir" /\ IsDir(top) /\ sub["dir"] \in {"missing", "dir"}
    BY <1>4 DEF Plain, IsDir, DirsInv, EntriesOK, Entries, Places
  <2> QED
    BY <1>2, <1>4, <2>1 DEF Entry, ParentThere
<1> QED
  BY <1>3, <1>4, CallIn DEF Levels

-----------------------------------------------------------------------------
(* The steps of a call                                                     *)

LEMMA FinishIs ==
  ASSUME DirsInv, NEW h \in Helpers, Finish(h), helper[h].pc \in Waits
  PROVE  \E z \in Helper : /\ HelperOK(z) /\ helper' = [helper EXCEPT ![h] = z]
                           /\ GoesBelow(helper[h], z) \/ Succeeded(helper[h], z)
<1>1. PICK z \in Helper : /\ z = Finished(helper[h]) /\ HelperOK(z)
                          /\ GoesBelow(helper[h], z) \/ Succeeded(helper[h], z)
  BY CallIn, FinishedOK
<1> QED
  BY <1>1 DEF Finish

LEMMA RaiseIs ==
  ASSUME DirsInv, NEW h \in Helpers, Raise(h), helper[h].pc \in Waits
  PROVE  \E z \in Helper : /\ HelperOK(z) /\ helper' = [helper EXCEPT ![h] = z]
                           /\ Failed(helper[h], z)
<1>1. PICK z \in Helper : /\ z = Ended(helper[h], "error") /\ HelperOK(z)
                          /\ Failed(helper[h], z)
  BY CallIn, FailedOK
<1> QED
  BY <1>1 DEF Raise

LEMMA GoIs ==
  ASSUME DirsInv, NEW h \in Helpers, NEW pc \in Waits, Go(h, pc), helper[h].pc \in Waits,
         pc \in {"mkdir", "again", "parents"} <=> helper[h].pc \in {"mkdir", "again", "parents"},
         pc \in {"again", "parents"} => helper[h].level = "sub"
  PROVE  \E z \in Helper : /\ HelperOK(z) /\ helper' = [helper EXCEPT ![h] = z]
                           /\ Went(helper[h], z, pc)
<1>1. PICK z \in Helper : /\ z = [helper[h] EXCEPT !.pc = pc] /\ HelperOK(z)
                          /\ Went(helper[h], z, pc)
  BY CallIn, WentOK
<1> QED
  BY <1>1 DEF Go

(* A call that fails changes no entry and has a reason; helpers without    *)
(* links do not come here.                                                 *)
LEMMA FailsWith ==
  ASSUME DirsInv, NEW h \in Helpers, helper[h].pc \in Waits, Raise(h),
         UNCHANGED <<top, sub>>, Still,
         ~(helper[h].pc = "link" /\ helper[h].level = "top" /\ top = "missing"),
         (kills = 0 /\ losses = 0 /\ top # "missing"
            /\ (Owns(helper[h]) \/ Fills(helper[h])) /\ ~helper[h].built) => sub[top] # "missing",
         (kills = 0 /\ losses = 0 /\ top # "missing" /\ Fills(helper[h])) => sub[top] # "missing",
         helper[h].alone => Reason(helper[h]),
         ~Plain
  PROVE  DirsInv' /\ Reported
<1>1. PICK w \in Helper : w = helper[h] /\ HelperOK(w)
  BY CallIn
<1>2. PICK z \in Helper : HelperOK(z) /\ helper' = [helper EXCEPT ![h] = z] /\ Failed(w, z)
  BY <1>1, RaiseIs
<1>3. EntriesOK' /\ UNCHANGED <<top, sub, kills, losses>>
  BY EntriesSame DEF DirsInv
<1>4. Moved(h, z)
  BY <1>2, MovedExcept DEF DirsInv
<1>5. w.built /\ Owns(w) => Owns(z)
  BY <1>2 DEF Failed, Owns, Wanted
<1>6. TopOK'
  BY <1>1, <1>2, <1>3, <1>4, <1>5, TopQuiet DEF Failed, DirsInv
<1>7. z.pc \notin Waits /\ z.result = "error" /\ z.alone = w.alone
  BY <1>2 DEF Failed, Waits
<1> QED
  BY <1>1, <1>2, <1>3, <1>6, <1>7, StepConcludes

LEMMA MkdirStep ==
  ASSUME DirsInv, NEW h \in Helpers, Mkdir(h)
  PROVE  DirsInv' /\ Reported
<1> PICK w \in Helper : /\ w = helper[h] /\ HelperOK(w) /\ w.level \in Levels
                        /\ w.pc \in {"mkdir", "again"} /\ w.pc \in Waits
  BY CallIn DEF Mkdir, Waits
<1> PICK entry \in Entries : entry = Entry(w.level)
  BY EntryType DEF DirsInv
<1>1. w.want = None
  BY DEF HelperOK
<1>2. w.level = "top" => ~w.built /\ w.links["top"] = None
  BY DEF HelperOK
<1>3. /\ top # "missing" => top \in Places
      /\ IsDir(entry) => entry # "missing"
      /\ (losses = 0 /\ entry # "missing") => IsDir(entry)
      /\ (entry # "missing" /\ ~IsDir(entry)) => Lost(entry)
      /\ losses = 0 /\ top # "missing" => IsDir(top)
      /\ IsDir(top) => top # "missing"
  BY EntryType DEF DirsInv, EntriesOK
<1>4. ParentThere(w.level) /\ entry # "missing" =>
        top # "missing" /\ (w.level = "sub" => sub[top] = entry)
  BY <1>3 DEF ParentThere, Entry, Levels
<1>5. Plain => ParentThere(w.level) /\ entry \in {"missing", "dir"}
  BY PlainCall
<1>6. CASE ParentThere(w.level) /\ entry = "missing" /\ SetEntry(w.level, "dir") /\ Finish(h) /\ Still
  <2>1. PICK z \in Helper : /\ HelperOK(z) /\ helper' = [helper EXCEPT ![h] = z]
                            /\ GoesBelow(w, z) \/ Succeeded(w, z)
    BY <1>6, FinishIs
  <2>2. "dir" \in Entries
    BY DEF Entries
  <2>3. /\ EntriesOK' /\ Entry(w.level)' = "dir" /\ ParentThere(w.level)'
        /\ w.level = "top" => top' = "dir"
        /\ w.level = "sub" => top' = top /\ sub'[top] = "dir" /\ top # "missing"
        /\ kills' = kills /\ losses' = losses
    BY <1>6, <2>2, EntrySet DEF DirsInv
  <2>4. w.level = "top" => Owns(z)'
    BY <1>2, <2>1, <2>3 DEF GoesBelow, Succeeded, Owns, Wanted, Waits
  <2>5. TopOK'
    BY <2>1, <2>3, <2>4, TopSet, CallIn DEF Levels
  <2>6. z.pc \in Waits => Undisturbed(z)'
    BY <2>1 DEF GoesBelow, Succeeded, Undisturbed, Waits
  <2>7. z.pc \notin Waits => z.result = "ok" /\ z.want = None /\ z.level = w.level
    BY <1>1, <2>1 DEF GoesBelow, Succeeded, Waits
  <2>8. z.pc \notin Waits => Given(z)'
    BY <2>3, <2>7 DEF Given, PathIsDir, IsDir
  <2>9. z.alone = w.alone
    BY <2>1 DEF GoesBelow, Succeeded
  <2> QED
    BY <1>6, <2>1, <2>3, <2>5, <2>6, <2>7, <2>8, <2>9, StepConcludes
<1>7. CASE /\ ParentThere(w.level) /\ entry # "missing" /\ IsDir(entry) /\ Finish(h)
           /\ UNCHANGED <<top, sub>> /\ Still
  <2>1. PICK z \in Helper : /\ HelperOK(z) /\ helper' = [helper EXCEPT ![h] = z]
                            /\ GoesBelow(w, z) \/ Succeeded(w, z)
    BY <1>7, FinishIs
  <2>2. /\ EntriesOK' /\ UNCHANGED <<top, sub, kills, losses>>
        /\ Entry(w.level)' = entry /\ ParentThere(w.level)' /\ IsDir(entry)'
    BY <1>7, EntriesSame DEF DirsInv
  <2>3. Owns(w) => Owns(z)
    BY <1>2, <2>1 DEF GoesBelow, Succeeded, Owns, Wanted
  <2>4. Fills(w) => sub[top] # "missing"
    BY <1>4, <1>7 DEF Fills
  <2>5. Moved(h, z)
    BY <2>1, MovedExcept DEF DirsInv
  <2>6. TopOK'
    BY <1>4, <1>7, <2>2, <2>3, <2>4, <2>5, TopQuiet DEF DirsInv
  <2>7. z.pc \in Waits => Undisturbed(z)'
    BY <2>1 DEF GoesBelow, Succeeded, Undisturbed, Waits
  <2>8. z.pc \notin Waits => z.result = "ok" /\ z.want = None /\ z.level = w.level
    BY <1>1, <2>1 DEF GoesBelow, Succeeded, Waits
  <2>9. z.pc \notin Waits => Given(z)'
    BY <2>2, <2>8 DEF Given, PathIsDir
  <2>10. z.alone = w.alone
    BY <2>1 DEF GoesBelow, Succeeded
  <2> QED
    BY <1>7, <2>1, <2>2, <2>6, <2>7, <2>8, <2>9, <2>10, StepConcludes
<1>8. CASE /\ ParentThere(w.level) /\ entry # "missing" /\ ~IsDir(entry) /\ Raise(h)
           /\ UNCHANGED <<top, sub>> /\ Still
  <2>1. Reason(w)
    BY <1>1, <1>3, <1>8 DEF Reason
  <2>2. ~Plain
    BY <1>5, <1>8 DEF IsDir
  <2>3. losses # 0
    BY <1>3, <1>8
  <2> QED
    BY <1>8, <2>1, <2>2, <2>3, FailsWith
<1>9. CASE ~ParentThere(w.level) /\ UNCHANGED <<top, sub>> /\ Still
  <2>1. w.level = "sub" /\ ~IsDir(top)
    BY <1>9 DEF ParentThere, Levels
  <2>2. CASE Go(h, "parents") /\ w.pc = "mkdir"
    <3>0. PICK pc \in Waits : pc = "parents"
      BY DEF Waits
    <3>1. PICK z \in Helper : HelperOK(z) /\ helper' = [helper EXCEPT ![h] = z] /\ Went(w, z, pc)
      BY <2>1, <2>2, <3>0, GoIs
    <3>2. EntriesOK' /\ UNCHANGED <<top, sub, kills, losses>>
      BY <1>9, EntriesSame DEF DirsInv
    <3>3. Moved(h, z)
      BY <3>1, MovedExcept DEF DirsInv
    <3>4. TopOK'
      BY <1>3, <2>1, <2>2, <3>1, <3>2, <3>3, TopQuiet DEF Went, DirsInv
    <3>5. z.pc \in Waits /\ z.alone = w.alone /\ Undisturbed(z)'
      BY <3>0, <3>1 DEF Went, Undisturbed
    <3> QED
      BY <1>9, <3>1, <3>2, <3>4, <3>5, StepConcludes
  <2>3. CASE Raise(h)
    <3>1. Reason(w)
      BY <2>1 DEF Reason
    <3>2. ~Plain
      BY <1>5, <1>9
    <3> QED
      BY <1>3, <1>9, <2>1, <2>3, <3>1, <3>2, FailsWith
  <2> QED
    BY <1>9, <2>2, <2>3 DEF Mkdir
<1> QED
  BY <1>6, <1>7, <1>8, <1>9 DEF Mkdir

LEMMA EntryAt ==
  ASSUME EntriesOK
  PROVE  /\ top # "missing" => top \in Places
         /\ losses = 0 /\ top # "missing" => IsDir(top)
         /\ IsDir(top) => top # "missing"
         /\ ParentThere("top") /\ Entry("top") = top
         /\ ParentThere("sub") <=> IsDir(top)
         /\ Entry("sub") = IF IsDir(top) THEN sub[top] ELSE "missing"
<1>1. top \in Entries /\ "top" \in Levels
  BY DEF EntriesOK, Levels
<1>2. /\ top # "missing" => top \in Places
      /\ losses = 0 /\ top # "missing" => IsDir(top)
      /\ IsDir(top) => top # "missing"
  BY <1>1, EntryType
<1> QED
  BY <1>2 DEF ParentThere, Entry

LEMMA MkdirParentsStep ==
  ASSUME DirsInv, NEW h \in Helpers, MkdirParents(h)
  PROVE  DirsInv' /\ Reported
<1> PICK w \in Helper : w = helper[h] /\ HelperOK(w) /\ w.pc = "parents" /\ w.level = "sub"
  BY CallIn DEF MkdirParents, HelperOK
<1>0. w.pc \in Waits /\ EntriesOK
  BY DEF Waits, DirsInv
<1>1. CASE Go(h, "again") /\ (UNCHANGED top \/ top' = "dir") /\ UNCHANGED sub /\ Still
           /\ (top = "missing" => top' = "dir")
  <2>1. PICK pc \in Waits : pc = "again"
    BY DEF Waits
  <2>2. PICK z \in Helper : HelperOK(z) /\ helper' = [helper EXCEPT ![h] = z] /\ Went(w, z, pc)
    BY <1>0, <1>1, <2>1, GoIs
  <2>3. EntriesOK'
    BY <1>0, <1>1 DEF EntriesOK, Still, Entries, Places
  <2>4. helper'[h] = z
    BY <2>2, CallIn
  <2>5. Fills(z)'
    BY <2>1, <2>2 DEF Fills, Went
  <2>6. top' # "missing"
    BY <1>1
  <2>7. TopOK'
    BY <2>4, <2>5, <2>6, TopSet
  <2>8. z.pc \in Waits /\ z.alone = w.alone /\ Undisturbed(z)'
    BY <2>1, <2>2 DEF Went, Undisturbed
  <2> QED
    BY <1>0, <1>1, <2>2, <2>3, <2>7, <2>8, StepConcludes
<1>2. CASE top # "missing" /\ ~IsDir(top) /\ Raise(h) /\ UNCHANGED <<top, sub>> /\ Still
  <2>1. Reason(w)
    BY <1>2 DEF Reason
  <2>2. ~Plain
    BY <1>0, <1>2, PlainCall, EntryAt
  <2>3. losses # 0
    BY <1>0, <1>2, EntryAt
  <2> QED
    BY <1>0, <1>2, <2>1, <2>2, <2>3, FailsWith
<1> QED
  BY <1>1, <1>2 DEF MkdirParents

(* The place is free: create_symlink() looks at its target once more.      *)
LEMMA PlaceFreeIs ==
  ASSUME DirsInv, NEW h \in Helpers, PlaceFree(h), helper[h].pc \in Waits
  PROVE  \E pc \in Waits : /\ pc \in {"resolve", "link"} /\ Go(h, pc)
                           /\ helper[h].level = "top" => pc = "link"
<1>1. helper[h].level = "top" => ~helper[h].direct
  BY CallIn DEF HelperOK
<1>2. CASE helper[h].direct
  BY <1>1, <1>2 DEF PlaceFree, Waits
<1>3. CASE ~helper[h].direct
  BY <1>3 DEF PlaceFree, Waits
<1> QED
  BY <1>2, <1>3

(* A call that goes on and leaves the entries alone.                       *)
LEMMA GoesOn ==
  ASSUME DirsInv, NEW h \in Helpers, NEW pc \in Waits, Go(h, pc),
         UNCHANGED <<top, sub>>, Still,
         helper[h].pc \in {"target", "look", "resolve"},
         pc \in {"look", "unlink", "resolve", "link"}, helper[h].pc = "resolve" => pc = "link",
         pc = "unlink" => Entry(helper[h].level) # "missing",
         NEW w, w = helper[h],
         w.alone => /\ w.want \in alive
                    /\ pc = "unlink" => Entry(w.level) \in Targets
                    /\ pc \in {"resolve", "link"} =>
                         Entry(w.level) = "missing" \/ (w.direct /\ Lost(Entry(w.level)))
  PROVE  DirsInv' /\ Reported
<1>1. w.pc \in Waits /\ EntriesOK /\ w \in Helper /\ HelperOK(w) /\ w.level \in Levels
  BY CallIn DEF Waits, DirsInv
<1>2. PICK z \in Helper : HelperOK(z) /\ helper' = [helper EXCEPT ![h] = z] /\ Went(w, z, pc)
  BY <1>1, GoIs
<1>3. /\ EntriesOK' /\ UNCHANGED <<top, sub, kills, losses>> /\ alive' = alive
      /\ Entry(w.level)' = Entry(w.level) /\ (Lost(Entry(w.level))' <=> Lost(Entry(w.level)))
  BY <1>1, EntriesSame DEF Still, Lost
<1>4. Moved(h, z)
  BY <1>2, MovedExcept DEF DirsInv
<1>5. (Fills(w) => Fills(z)) /\ ~(w.pc = "link")
  BY <1>2 DEF Fills, Went
<1>6. Owns(w) => Owns(z) \/ sub[top] # "missing"
  <2>1. CASE pc # "unlink" \/ w.built
    BY <1>2, <2>1 DEF Owns, Wanted, Went
  <2>2. CASE pc = "unlink" /\ ~w.built /\ Owns(w)
    <3>1. w.level = "sub"
      BY <2>2 DEF Owns
    <3> QED
      BY <1>1, <2>2, <3>1, EntryAt
  <2> QED
    BY <2>1, <2>2
<1>7. TopOK'
  BY <1>2, <1>3, <1>4, <1>5, <1>6, TopQuiet DEF Went, DirsInv
<1>8. z.pc \in Waits /\ z.alone = w.alone
  BY <1>2 DEF Went
<1>9. w.alone => Undisturbed(z)'
  <2>1. z.pc = pc /\ z.level = w.level /\ z.want = w.want /\ z.direct = w.direct
    BY <1>2 DEF Went
  <2>2. Entry(z.level)' = Entry(w.level) /\ (Lost(Entry(z.level))' <=> Lost(Entry(w.level)))
    BY <1>3, <2>1
  <2> QED
    BY <1>3, <2>1, <2>2 DEF Undisturbed
<1> QED
  BY <1>1, <1>2, <1>3, <1>7, <1>8, <1>9, StepConcludes

LEMMA LookAtTargetStep ==
  ASSUME DirsInv, NEW h \in Helpers, LookAtTarget(h)
  PROVE  DirsInv' /\ Reported
<1> PICK w \in Helper : w = helper[h] /\ HelperOK(w) /\ w.pc = "target" /\ w.pc \in Waits
  BY CallIn DEF LookAtTarget, Waits
<1>1. CASE w.want \in alive
  <2>1. PICK pc \in Waits : pc = "look"
    BY DEF Waits
  <2> QED
    BY <1>1, <2>1, GoesOn DEF LookAtTarget
<1>2. CASE w.want \notin alive
  <2>1. w.want \in Targets /\ w.want # None
    BY Apart DEF HelperOK, Helper
  <2>2. losses # 0 /\ Reason(w)
    BY <1>2, <2>1 DEF Reason, Lost, DirsInv, EntriesOK
  <2>3. ~Plain
    BY PlainCall
  <2> QED
    BY <1>2, <2>2, <2>3, FailsWith DEF LookAtTarget
<1> QED
  BY <1>1, <1>2

LEMMA LookAtEntryStep ==
  ASSUME DirsInv, NEW h \in Helpers, LookAtEntry(h)
  PROVE  DirsInv' /\ Reported
<1> PICK w \in Helper : /\ w = helper[h] /\ HelperOK(w) /\ w.pc = "look" /\ w.pc \in Waits
                        /\ w.level \in Levels /\ (w.alone => w.want \in alive)
  BY CallIn DEF LookAtEntry, Waits, Undisturbed
<1> PICK entry \in Entries : entry = Entry(w.level) /\ (entry # "missing" /\ ~IsDir(entry) => Lost(entry))
  BY EntryType DEF DirsInv
<1>0. UNCHANGED <<top, sub>> /\ Still
  BY DEF LookAtEntry
<1>1. CASE PlaceFree(h) /\ (entry = "missing" \/ (w.direct /\ ~IsDir(entry)))
  <2>1. PICK pc \in Waits : pc \in {"resolve", "link"} /\ Go(h, pc)
    BY <1>1, PlaceFreeIs
  <2>2. entry = "missing" \/ (w.direct /\ Lost(entry))
    BY <1>1
  <2> QED
    BY <1>0, <1>1, <2>1, <2>2, GoesOn
<1>2. CASE Go(h, "unlink") /\ entry # "missing" /\ entry # "dir"
  <2>1. PICK pc \in Waits : pc = "unlink"
    BY DEF Waits
  <2>2. entry \in Targets
    BY <1>2 DEF Entries
  <2> QED
    BY <1>0, <1>2, <2>1, <2>2, GoesOn
<1>3. CASE Raise(h) /\ entry = "dir"
  <2>1. w.want # None /\ (w.level = "top" => ~w.built)
    BY DEF HelperOK
  <2>2. Reason(w)
    BY <1>3, <2>1 DEF Reason
  <2>3. ~Plain
    BY PlainCall
  <2>4. w.level = "sub" => sub[top] # "missing"
    BY <1>3, EntryAt DEF DirsInv
  <2>5. ~Fills(w) /\ (Owns(w) /\ ~w.built => w.level = "sub")
    BY DEF Fills, Owns
  <2> QED
    BY <1>0, <1>3, <2>2, <2>3, <2>4, <2>5, FailsWith
<1> QED
  BY <1>1, <1>2, <1>3 DEF LookAtEntry

LEMMA UnlinkStep ==
  ASSUME DirsInv, NEW h \in Helpers, Unlink(h)
  PROVE  DirsInv' /\ Reported
<1> PICK w \in Helper : /\ w = helper[h] /\ HelperOK(w) /\ w.pc = "unlink" /\ w.pc \in Waits
                        /\ w.level \in Levels
                        /\ (w.alone => w.want \in alive /\ Entry(w.level) \in Targets)
  BY CallIn DEF Unlink, Waits, Undisturbed
<1>0. EntriesOK
  BY DEF DirsInv
<1>1. CASE Entry(w.level) \in Targets /\ SetEntry(w.level, "missing") /\ PlaceFree(h) /\ Still
  <2>1. PICK pc \in Waits : /\ pc \in {"resolve", "link"} /\ Go(h, pc)
                            /\ w.level = "top" => pc = "link"
    BY <1>1, PlaceFreeIs
  <2>2. PICK z \in Helper : HelperOK(z) /\ helper' = [helper EXCEPT ![h] = z] /\ Went(w, z, pc)
    BY <2>1, GoIs
  <2>3. ParentThere(w.level)
    BY <1>0, <1>1, EntryAt, Apart DEF Levels
  <2>4. /\ EntriesOK' /\ Entry(w.level)' = "missing"
        /\ w.level = "top" => top' = "missing"
        /\ w.level = "sub" => top' = top /\ top # "missing"
    <3>1. "missing" \in Entries
      BY DEF Entries
    <3> QED
      BY <1>0, <1>1, <2>3, <3>1, EntrySet
  <2>5. /\ helper'[h] = z /\ z.pc \in {"resolve", "link"} /\ z.level = w.level
        /\ z.want = w.want /\ z.alone = w.alone /\ (w.level = "top" => z.pc = "link")
    BY <2>1, <2>2, CallIn DEF Went
  <2>6. TopOK'
    <3>1. CASE w.level = "top"
      <4>1. Coming'
        BY <2>5, <3>1 DEF Coming
      <4> QED
        BY <2>4, <3>1, <4>1 DEF TopOK
    <3>2. CASE w.level = "sub"
      <4>1. Fills(z)'
        BY <2>5, <3>2 DEF Fills
      <4>2. top' # "missing"
        BY <2>4, <3>2
      <4> QED
        BY <2>5, <4>1, <4>2, TopSet
    <3> QED
      BY <3>1, <3>2 DEF Levels
  <2>7. z.pc \in Waits
    BY <2>1, <2>5 DEF Waits
  <2>8. w.alone => Undisturbed(z)'
    BY <1>1, <2>4, <2>5 DEF Undisturbed, Still
  <2> QED
    BY <1>1, <2>2, <2>4, <2>5, <2>6, <2>7, <2>8, StepConcludes
<1>2. CASE Entry(w.level) \notin Targets /\ Raise(h) /\ UNCHANGED <<top, sub>> /\ Still
  <2>1. ~Plain
    BY PlainCall
  <2>2. ~Fills(w) /\ (Owns(w) => w.built)
    BY DEF Fills, Owns
  <2> QED
    BY <1>2, <2>1, <2>2, FailsWith
<1> QED
  BY <1>1, <1>2 DEF Unlink

(* The target may have been lost since the call began.                     *)
LEMMA ResolveStep ==
  ASSUME DirsInv, NEW h \in Helpers, Resolve(h)
  PROVE  DirsInv' /\ Reported
<1> PICK w \in Helper : /\ w = helper[h] /\ HelperOK(w) /\ w.pc = "resolve" /\ w.pc \in Waits
                        /\ (w.alone => Undisturbed(w))
  BY CallIn DEF Resolve, Waits
<1>1. CASE w.want \in alive
  <2>1. PICK pc \in Waits : pc = "link"
    BY DEF Waits
  <2>2. w.alone => Entry(w.level) = "missing" \/ (w.direct /\ Lost(Entry(w.level)))
    BY DEF Undisturbed
  <2> QED
    BY <1>1, <2>1, <2>2, GoesOn DEF Resolve
<1>2. CASE w.want \notin alive
  <2>1. w.want \in Targets /\ w.want # None
    BY Apart DEF HelperOK, Helper
  <2>2. losses # 0 /\ Reason(w)
    BY <1>2, <2>1 DEF Reason, Lost, DirsInv, EntriesOK
  <2>3. ~Plain
    BY PlainCall
  <2> QED
    BY <1>2, <2>2, <2>3, FailsWith DEF Resolve
<1> QED
  BY <1>1, <1>2

LEMMA LinkStep ==
  ASSUME DirsInv, NEW h \in Helpers, Link(h)
  PROVE  DirsInv' /\ Reported
<1> PICK w \in Helper : /\ w = helper[h] /\ HelperOK(w) /\ w.pc = "link" /\ w.pc \in Waits
                        /\ w.level \in Levels
                        /\ (w.alone => Entry(w.level) = "missing" \/ (w.direct /\ Lost(Entry(w.level))))
  BY CallIn DEF Link, Waits, Undisturbed
<1>0. EntriesOK
  BY DEF DirsInv
<1>1. w.want # None /\ w.want \in Targets /\ w.want \in Entries /\ w.want # "missing"
  BY Apart DEF HelperOK, Helper, Entries
<1>2. CASE /\ ParentThere(w.level) /\ Entry(w.level) = "missing"
           /\ SetEntry(w.level, w.want) /\ Finish(h) /\ Still
  <2>1. PICK z \in Helper : /\ HelperOK(z) /\ helper' = [helper EXCEPT ![h] = z]
                            /\ GoesBelow(w, z) \/ Succeeded(w, z)
    BY <1>2, FinishIs
  <2>2. /\ EntriesOK' /\ Entry(w.level)' = w.want
        /\ w.level = "top" => top' = w.want
        /\ w.level = "sub" => top' = top /\ sub'[top] = w.want /\ top # "missing"
    <3>1. PICK want \in Entries : want = w.want
      BY <1>1
    <3> QED
      BY <1>0, <1>2, <3>1, EntrySet
  <2>3. w.level = "top" => Owns(z)'
    <3>1. w.level = "top" => w.want = w.links["top"]
      BY DEF HelperOK
    <3> QED
      BY <1>1, <2>1, <2>2, <3>1 DEF GoesBelow, Succeeded, Owns, Wanted, Waits
  <2>4. helper'[h] = z
    BY <2>1, CallIn
  <2>5. TopOK'
    BY <1>1, <2>2, <2>3, <2>4, TopSet DEF Levels
  <2>6. z.pc \in Waits => Undisturbed(z)'
    BY <2>1 DEF GoesBelow, Succeeded, Undisturbed, Waits
  <2>7. z.pc \notin Waits => z.result = "ok" /\ z.want = w.want /\ z.level = w.level
    BY <2>1 DEF GoesBelow, Succeeded, Waits
  <2>8. z.pc \notin Waits => Given(z)'
    BY <1>1, <2>2, <2>7 DEF Given
  <2>9. z.alone = w.alone
    BY <2>1 DEF GoesBelow, Succeeded
  <2> QED
    BY <1>2, <2>1, <2>2, <2>5, <2>6, <2>7, <2>8, <2>9, StepConcludes
<1>3. CASE /\ ~(ParentThere(w.level) /\ Entry(w.level) = "missing")
           /\ Raise(h) /\ UNCHANGED <<top, sub>> /\ Still
  <2>1. w.level = "top" => top # "missing" /\ ~w.built
    BY <1>0, <1>3, EntryAt DEF HelperOK
  <2>2. w.level = "sub" /\ losses = 0 /\ top # "missing" => sub[top] # "missing"
    BY <1>0, <1>3, EntryAt
  <2>3. w.alone => Reason(w)
    BY <1>0, <1>3, EntryAt DEF Reason, Levels
  <2>4. ~Plain
    BY PlainCall
  <2>5. (Fills(w) => w.level = "sub") /\ (Owns(w) /\ ~w.built => w.level = "sub")
    BY DEF Fills, Owns
  <2> QED
    BY <1>3, <2>1, <2>2, <2>3, <2>4, <2>5, FailsWith
<1> QED
  BY <1>2, <1>3 DEF Link

-----------------------------------------------------------------------------
(* Calls that begin, kills, and targets that are lost or come back         *)

LEMMA BeginStep ==
  ASSUME DirsInv, NEW h \in Helpers, ~Busy(h), NEW w \in Helper, HelperOK(w), Begin(h, w),
         w.built = helper[h].built, w.built => w.links = helper[h].links,
         w.pc \in {"ready", "mkdir", "target"}
  PROVE  DirsInv' /\ Reported
<1> DEFINE others == {g \in Helpers \ {h} : Busy(g)}
           alone == others = {}
           n == helper[h].calls + 1
           z == [w EXCEPT !.alone = alone, !.calls = n]
<1>1. helper' = [g \in Helpers |-> IF g = h THEN z
                                   ELSE [helper[g] EXCEPT !.alone = @ /\ g \notin others]]
  BY DEF Begin
<1>2. n \in Nat /\ alone \in BOOLEAN
  BY CallIn DEF Helper
<1> HIDE DEF n, alone
<1>3. /\ z \in Helper /\ z.pc = w.pc /\ z.built = w.built /\ z.links = w.links
      /\ z.level = w.level /\ z.want = w.want /\ z.direct = w.direct /\ z.cached = w.cached
      /\ z.result = w.result /\ z.alone = alone
  <2>1. z \in Helper
    BY <1>2 DEF Helper
  <2> QED
    BY <1>2, <2>1 DEF Helper
<1> HIDE DEF z
<1>4. HelperOK(z)
  BY <1>3 DEF HelperOK
<1>5. ASSUME NEW g \in Helpers \ {h}
      PROVE  /\ helper'[g] \in Helper /\ Kin(helper[g], helper'[g])
             /\ Busy(g) => ~helper'[g].alone
  <2>1. PICK x \in Helper : x = helper[g]
    BY CallIn
  <2> DEFINE b == x.alone /\ g \notin others
  <2>2. helper'[g] = [x EXCEPT !.alone = b]
    BY <1>1, <2>1
  <2>3. b \in BOOLEAN /\ (b => x.alone) /\ (Busy(g) => ~b)
    BY DEF Helper
  <2> HIDE DEF b
  <2> DEFINE y == [x EXCEPT !.alone = b]
  <2>4. y \in Helper /\ Kin(x, y) /\ y.alone = b
    BY <2>3 DEF Helper, Kin
  <2> QED
    BY <2>1, <2>2, <2>3, <2>4
<1>6. helper'[h] = z
  BY <1>1
<1>7. Moved(h, z)
  BY <1>1, <1>3, <1>4, <1>5, <1>6 DEF Moved
<1>8. HelpersOK'
  BY <1>7, MovedHelpers DEF DirsInv
<1>9. EntriesOK' /\ UNCHANGED <<top, sub, kills, losses>>
  BY EntriesSame DEF Begin, DirsInv
<1>10. AloneOK'
  <2>1. \A g \in Helpers \ {h} : Busy(g)' <=> Busy(g)
    BY <1>5 DEF Kin, Busy
  <2>2. alone => \A g \in Helpers \ {h} : ~Busy(g)
    BY DEF alone
  <2>3. Undisturbed(helper[h])'
    BY <1>3, <1>6 DEF Undisturbed
  <2> QED
    BY <1>3, <1>5, <1>6, <2>1, <2>2, <2>3 DEF AloneOK
<1>11. TopOK'
  <2>1. PICK v \in Helper : v = helper[h] /\ v.pc \notin Waits
    BY CallIn DEF Busy, Waits
  <2>2. ~(v.pc = "link") /\ ~Fills(v) /\ (Owns(v) => Owns(z))
    BY <1>3, <2>1 DEF Waits, Fills, Owns, Wanted
  <2> QED
    BY <1>3, <1>7, <1>9, <2>1, <2>2, TopQuiet DEF DirsInv
<1>12. Reported
  BY <1>7, MovedReports DEF DirsInv
<1> QED
  BY <1>8, <1>9, <1>10, <1>11, <1>12 DEF DirsInv

LEMMA ConstructStep ==
  ASSUME DirsInv, NEW h \in Helpers, NEW links \in [Levels -> Targets \cup {None}],
         NEW eager \in BOOLEAN, Construct(h, links, eager)
  PROVE  DirsInv' /\ Reported
<1> DEFINE v == [NoHelper EXCEPT !.links = links, !.eager = eager]
<1>1. /\ v \in Helper /\ v.built = FALSE /\ v.links = links /\ v.direct = FALSE
      /\ v.cached = FALSE /\ v.result = "none"
  BY NoHelperOK DEF NoHelper, Helper
<1>2. PICK want \in Targets \cup {None} : want = links["top"]
  BY DEF Levels
<1>3. PICK level \in Levels : level = "top"
  BY DEF Levels
<1>4. Begin(h, Begun(v, level, want)) /\ helper[h].pc = "none"
  BY <1>2, <1>3 DEF Construct
<1> HIDE DEF v
<1>5. PICK w \in Helper :
        /\ w = Begun(v, level, want) /\ w.pc = (IF want = None THEN "mkdir" ELSE "target")
        /\ w.level = level /\ w.want = want /\ w.built = FALSE /\ w.links = links
        /\ w.direct = FALSE /\ w.cached = FALSE /\ w.result = "none"
  BY <1>1, BegunIs
<1>6. HelperOK(w)
  BY <1>2, <1>3, <1>5 DEF HelperOK
<1>7. ~Busy(h) /\ helper[h].built = FALSE
  BY <1>4, CallIn DEF Busy, HelperOK, Helper
<1> QED
  BY <1>4, <1>5, <1>6, <1>7, BeginStep

LEMMA AccessStep ==
  ASSUME DirsInv, NEW h \in Helpers, Access(h)
  PROVE  DirsInv' /\ Reported
<1> PICK x \in Helper : x = helper[h] /\ HelperOK(x) /\ x.pc = "ready"
  BY CallIn DEF Access, Helper
<1> DEFINE v == [x EXCEPT !.direct = FALSE]
           u == [v EXCEPT !.level = "sub", !.result = "ok"]
<1>1. /\ v \in Helper /\ v.pc = "ready" /\ v.built = x.built /\ v.links = x.links
      /\ v.direct = FALSE /\ v.cached = x.cached /\ v.result = x.result
  BY DEF Helper
<1>2. Begin(h, IF v.cached THEN u ELSE Begun(v, "sub", v.links["sub"]))
  BY DEF Access
<1>3. ~Busy(h) /\ x.built
  BY DEF Busy, HelperOK
<1> HIDE DEF v
<1>4. CASE v.cached
  <2>1. u \in Helper /\ u.pc = "ready" /\ u.built = v.built /\ u.links = v.links
    BY <1>1 DEF Helper, Levels
  <2>2. Begin(h, u)
    BY <1>2, <1>4
  <2> HIDE DEF u
  <2>3. HelperOK(u)
    BY <1>1, <1>3, <2>1 DEF HelperOK, Waits
  <2> QED
    BY <1>1, <1>3, <2>1, <2>2, <2>3, BeginStep
<1>5. CASE ~v.cached
  <2>1. PICK want \in Targets \cup {None}, level \in Levels : want = v.links["sub"] /\ level = "sub"
    BY <1>1 DEF Helper, Levels
  <2>2. PICK w \in Helper :
          /\ w = Begun(v, level, want) /\ w.pc = (IF want = None THEN "mkdir" ELSE "target")
          /\ w.level = level /\ w.want = want /\ w.built = v.built /\ w.links = v.links
          /\ w.direct = v.direct
    BY <1>1, BegunIs
  <2>3. HelperOK(w)
    <3>1. /\ w.built /\ w.level = "sub" /\ ~w.direct /\ w.want = w.links["sub"]
          /\ w.pc = (IF w.want = None THEN "mkdir" ELSE "target")
      BY <1>1, <1>3, <2>1, <2>2
    <3> QED
      BY <3>1 DEF HelperOK
  <2>4. Begin(h, w)
    BY <1>2, <1>5, <2>1, <2>2
  <2> QED
    BY <1>1, <1>3, <2>2, <2>3, <2>4, BeginStep
<1> QED
  BY <1>4, <1>5

LEMMA CreateSymlinkStep ==
  ASSUME DirsInv, NEW h \in Helpers, NEW t \in Targets, CreateSymlink(h, t)
  PROVE  DirsInv' /\ Reported
<1> PICK x \in Helper : x = helper[h] /\ HelperOK(x) /\ x.pc = "ready"
  BY CallIn DEF CreateSymlink
<1> DEFINE v == [x EXCEPT !.direct = TRUE]
<1>1. v \in Helper /\ v.built = x.built /\ v.links = x.links /\ v.direct = TRUE
  BY DEF Helper
<1>2. PICK want \in Targets \cup {None}, level \in Levels : want = t /\ level = "sub"
  BY DEF Levels
<1>3. Begin(h, Begun(v, level, want))
  BY <1>2 DEF CreateSymlink
<1>4. ~Busy(h) /\ x.built
  BY DEF Busy, HelperOK
<1> HIDE DEF v
<1>5. PICK w \in Helper :
        /\ w = Begun(v, level, want) /\ w.pc = (IF want = None THEN "mkdir" ELSE "target")
        /\ w.level = level /\ w.want = want /\ w.built = v.built /\ w.links = v.links
        /\ w.direct = v.direct
  BY <1>1, BegunIs
<1>6. w.pc = "target" /\ HelperOK(w)
  BY <1>1, <1>2, <1>4, <1>5, Apart DEF HelperOK
<1> QED
  BY <1>1, <1>3, <1>4, <1>5, <1>6, BeginStep

LEMMA KillStep ==
  ASSUME DirsInv, NEW h \in Helpers, Kill(h)
  PROVE  DirsInv' /\ Reported
<1> DEFINE n == helper[h].calls
           z == [NoHelper EXCEPT !.calls = n]
<1>1. helper' = [helper EXCEPT ![h] = z]
  BY DEF Kill
<1>2. n \in Nat
  BY CallIn DEF Helper
<1> HIDE DEF n
<1>3. z \in Helper /\ z.pc = "none" /\ HelperOK(z)
  <2>1. z \in Helper
    BY <1>2, NoHelperOK DEF Helper
  <2>2. /\ z.pc = NoHelper.pc /\ z.built = NoHelper.built /\ z.cached = NoHelper.cached
        /\ z.result = NoHelper.result
    BY NoHelperOK DEF Helper
  <2>3. /\ NoHelper.pc = "none" /\ NoHelper.built = FALSE /\ NoHelper.cached = FALSE
        /\ NoHelper.result = "none"
    BY DEF NoHelper
  <2> HIDE DEF z
  <2> QED
    BY <2>1, <2>2, <2>3 DEF HelperOK, Waits
<1> HIDE DEF z
<1>4. Moved(h, z)
  BY <1>1, <1>3, MovedExcept DEF DirsInv
<1>5. HelpersOK'
  BY <1>4, MovedHelpers DEF DirsInv
<1>6. kills \in Nat /\ kills' = kills + 1 /\ UNCHANGED <<top, sub, alive, losses>>
  BY DEF Kill, DirsInv, EntriesOK
<1>7. EntriesOK' /\ TopOK'
  BY <1>6 DEF DirsInv, EntriesOK, Entries, Places, TopOK
<1>8. AloneOK'
  <2> SUFFICES ASSUME NEW g \in Helpers, Busy(g)', helper'[g].alone
               PROVE  Undisturbed(helper[g])' /\ \A k \in Helpers \ {g} : ~Busy(k)'
    BY DEF AloneOK
  <2>1. \A k \in Helpers \ {h} : helper'[k] = helper[k] /\ (Busy(k)' <=> Busy(k))
    BY <1>1, CallIn DEF Busy
  <2>2. ~Busy(h)' /\ g # h
    BY <1>3, <1>4 DEF Moved, Busy
  <2>3. Undisturbed(helper[g]) /\ \A k \in Helpers \ {g} : ~Busy(k)
    BY <2>1, <2>2 DEF DirsInv, AloneOK
  <2>4. Undisturbed(helper[g])'
    BY <1>6, <2>1, <2>2, <2>3 DEF Undisturbed, Entry, IsDir, Lost
  <2> QED
    BY <2>1, <2>2, <2>3, <2>4
<1>9. Reported
  BY <1>4, <1>6, MovedReports DEF DirsInv
<1> QED
  BY <1>5, <1>7, <1>8, <1>9 DEF DirsInv

LEMMA TargetsStep ==
  ASSUME DirsInv, NEW targets \in SUBSET Targets, Alive(targets), UNCHANGED <<top, sub, kills>>,
         losses' \in Nat \ {0}
  PROVE  DirsInv' /\ Reported
<1>1. ASSUME NEW g \in Helpers
      PROVE  /\ helper'[g] \in Helper /\ Kin(helper[g], helper'[g]) /\ HelperOK(helper'[g])
             /\ Busy(g) => ~helper'[g].alone
  <2>1. PICK x \in Helper : x = helper[g] /\ HelperOK(x)
    BY CallIn
  <2> DEFINE b == x.alone /\ ~Busy(g)
             y == [x EXCEPT !.alone = b]
  <2>2. helper'[g] = y
    BY <2>1 DEF Alive
  <2>3. b \in BOOLEAN /\ (b => x.alone) /\ (Busy(g) => ~b)
    BY DEF Helper, Busy
  <2> HIDE DEF b
  <2>4. y \in Helper /\ Kin(x, y) /\ y.alone = b
    BY <2>3 DEF Helper, Kin
  <2> HIDE DEF y
  <2>5. HelperOK(y)
    BY <2>1, <2>4 DEF HelperOK, Kin
  <2> QED
    BY <2>1, <2>2, <2>3, <2>4, <2>5
<1>2. HelpersOK'
  <2>1. helper' \in [Helpers -> Helper]
    BY <1>1 DEF Alive
  <2> QED
    BY <1>1, <2>1 DEF HelpersOK, HelperOK, Helper, Waits, Levels
<1>3. EntriesOK'
  BY DEF Alive, DirsInv, EntriesOK, Entries, Places
<1>4. AloneOK'
  BY <1>1 DEF AloneOK, Busy, Kin
<1>5. TopOK'
  BY DEF TopOK
<1>6. Reported
  BY <1>1 DEF Reported, Truth, Never, EndsCall, Busy, Kin
<1> QED
  BY <1>2, <1>3, <1>4, <1>5, <1>6 DEF DirsInv

LEMMA DirsInit == Init => DirsInv
<1> SUFFICES ASSUME Init PROVE DirsInv
  OBVIOUS
<1>1. \A h \in Helpers : helper[h] = NoHelper
  BY DEF Init
<1>2. HelpersOK
  BY <1>1, NoHelperOK DEF Init, HelpersOK
<1>3. EntriesOK
  BY DEF Init, EntriesOK, Entries, Places
<1>4. AloneOK
  BY <1>1 DEF AloneOK, Busy, NoHelper
<1>5. TopOK
  BY <1>1 DEF Init, TopOK, NoHelper
<1> QED
  BY <1>2, <1>3, <1>4, <1>5 DEF DirsInv

LEMMA DirsNext ==
  ASSUME DirsInv, [Next]_vars
  PROVE  DirsInv' /\ [Reported]_vars
<1>1. CASE UNCHANGED vars
  <2>1. UNCHANGED <<top, sub, alive, helper, kills, losses>>
    BY <1>1 DEF vars
  <2>2. HelpersOK' /\ EntriesOK'
    BY <2>1 DEF DirsInv, HelpersOK, EntriesOK, Entries, Places, HelperOK, Helper, Waits, Levels
  <2>3. AloneOK'
    BY <2>1 DEF DirsInv, AloneOK, Undisturbed, Busy, Entry, IsDir, Lost
  <2>4. TopOK'
    BY <2>1 DEF DirsInv, TopOK, Owned, Coming, Owns, Fills, Wanted, Waits
  <2> QED
    BY <1>1, <2>2, <2>3, <2>4 DEF DirsInv
<1>2. ASSUME NEW h \in Helpers, Step(h)
      PROVE  DirsInv' /\ Reported
  BY <1>2, MkdirStep, MkdirParentsStep, LookAtTargetStep, LookAtEntryStep, UnlinkStep,
     ResolveStep, LinkStep
     DEF Step
<1>3. ASSUME NEW t \in Targets, Lose(t) \/ Restore(t)
      PROVE  DirsInv' /\ Reported
  <2>1. losses \in Nat /\ alive \subseteq Targets /\ (losses = 0 => alive = Targets)
    BY DEF DirsInv, EntriesOK
  <2>2. CASE Lose(t)
    BY <2>1, <2>2, TargetsStep DEF Lose
  <2>3. CASE Restore(t)
    BY <2>1, <2>3, TargetsStep DEF Restore
  <2> QED
    BY <1>3, <2>2, <2>3
<1>4. CASE Next
  BY <1>2, <1>3, <1>4, ConstructStep, AccessStep, CreateSymlinkStep, KillStep DEF Next
<1> QED
  BY <1>1, <1>4

LEMMA LinksByInv == DirsInv => SomebodyLinks
<1> SUFFICES ASSUME DirsInv PROVE SomebodyLinks
  OBVIOUS
<1>1. HelperTypeOK
  BY DEF DirsInv, HelpersOK, EntriesOK, HelperOK, Helper, Waits, HelperTypeOK
<1>2. ASSUME NEW t \in Targets, NEW h \in Helpers, kills = 0, losses = 0,
             \A p \in Places : sub[p] = "missing",
             \A g \in Helpers : ~Busy(g) /\ helper[g].links["top"] = t,
             helper[h].result = "ok"
      PROVE  top = t
  <2>1. helper[h].built
    BY <1>2 DEF DirsInv, HelpersOK, HelperOK
  <2>2. \A g \in Helpers : helper[g].pc \notin Waits
    BY <1>2 DEF Busy, Waits
  <2>3. top # "missing"
    BY <1>2, <2>1, <2>2 DEF DirsInv, TopOK, Coming, Waits
  <2>4. sub[top] = "missing"
    BY <1>2, <2>3, EntryAt DEF DirsInv
  <2>5. PICK g \in Helpers : Owns(helper[g]) \/ Fills(helper[g])
    BY <1>2, <2>3, <2>4 DEF DirsInv, TopOK, Owned
  <2> QED
    BY <1>2, <2>2, <2>5, Apart DEF Owns, Fills, Wanted, Waits
<1> QED
  BY <1>1, <1>2 DEF SomebodyLinks

(* When helpers that replace one link at once have all come to an end, and *)
(* none of them was killed, the link is there, whoever of them has failed. *)
THEOREM LinkIsThere == Spec => []SomebodyLinks
<1>1. DirsInv /\ [Next]_vars => DirsInv'
  BY DirsNext
<1> QED
  BY <1>1, DirsInit, LinksByInv, PTL DEF Spec

(* A call that nobody disturbs leaves what it was asked for, or it raises  *)
(* for a reason that is there to see.                                      *)
THEOREM ResultsAreTrue == Spec => ResultIsTrue
<1>1. DirsInv /\ [Next]_vars =>
        /\ DirsInv'
        /\ [\A h \in Helpers : (EndsCall(h) /\ helper[h].alone) =>
              IF helper'[h].result = "ok" THEN Given(helper[h])' ELSE Reason(helper[h])]_vars
  BY DirsNext DEF Reported, Truth
<1> QED
  BY <1>1, DirsInit, PTL DEF Spec, ResultIsTrue

(* Without links no call fails, whatever the other helpers are doing and   *)
(* wherever some of them have been killed.                                 *)
THEOREM PlainAlwaysWorks == Spec => PlainNeverFails
<1>1. DirsInv /\ [Next]_vars =>
        /\ DirsInv'
        /\ [Plain => \A h \in Helpers : EndsCall(h) => helper'[h].result = "ok"]_vars
  BY DirsNext DEF Reported, Never
<1> QED
  BY <1>1, DirsInit, PTL DEF Spec, PlainNeverFails
=============================================================================
