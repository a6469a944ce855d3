------------------------- MODULE IOHelperProperties -------------------------
(***************************************************************************)
(* What a helper's paths lead to, when others use the same namespace.      *)
(***************************************************************************)
EXTENDS IOHelper

(* Types; a helper that exists has had its top-level directory, and notes  *)
(* the directory below it after it was there.                              *)
HelperTypeOK ==
  /\ top \in Entries /\ sub \in [Places -> Entries] /\ alive \subseteq Targets
  /\ \A h \in Helpers : LET w == helper[h] IN
       /\ w.pc \in {"none", "ready", "mkdir", "again", "parents", "target", "look",
                    "unlink", "resolve", "link"}
       /\ w.links \in [Levels -> Targets \cup {None}]
       /\ (w.pc \in {"target", "look", "unlink", "resolve", "link"}) => w.want # None
       /\ w.built \/ ~w.cached

EndsCall(h) == Busy(h) /\ helper'[h].pc \in {"none", "ready"} /\ kills' = kills

(* A call that was alone and returns leaves a directory under its path, and*)
(* if it was asked for a link, the link to its target, whatever an earlier *)
(* helper that was killed has left there.  One that raises has a reason:   *)
(* the directory above is gone, its target is lost, a real directory is in *)
(* the place of its link, or a link to a lost target is where it wants to  *)
(* make a directory, or where create_symlink() does not see it.            *)
Given(w) == IF w.want = None THEN PathIsDir(w.level) ELSE Entry(w.level) = w.want
Lost(entry) == entry \in Targets \ alive
Reason(w) ==
  \/ w.level = "sub" /\ ~IsDir(top)
  \/ w.want # None /\ (Lost(w.want) \/ Entry(w.level) = "dir")
  \/ (w.want = None \/ w.direct) /\ Lost(Entry(w.level))
ResultIsTrue ==
  [][\A h \in Helpers : (EndsCall(h) /\ helper[h].alone) =>
       IF helper'[h].result = "ok" THEN Given(helper[h])' ELSE Reason(helper[h])]_vars

(* Helpers without links, in a namespace without links, may come all at    *)
(* once and be killed: none of their calls fails.                          *)
Plain ==
  /\ top \notin Targets /\ \A p \in Places : sub[p] \notin Targets
  /\ \A h \in Helpers : LET w == helper[h] IN
       /\ ~w.direct /\ w.links = [l \in Levels |-> None]
       /\ w.level = "sub" => top = "dir"
PlainNeverFails ==
  [][Plain => \A h \in Helpers : EndsCall(h) => helper'[h].result = "ok"]_vars

(* Of helpers that make the same link at once some may fail, but when all  *)
(* have come to an end, none of them killed, the link is there -- as long  *)
(* as nobody makes a directory below it meanwhile: mkdir(parents=True)     *)
(* would make a real one in the place of a link that is being replaced.    *)
SomebodyLinks ==
  /\ HelperTypeOK
  /\ \A t \in Targets, h \in Helpers :
    (/\ kills = 0 /\ losses = 0 /\ \A p \in Places : sub[p] = "missing"
     /\ \A g \in Helpers : ~Busy(g) /\ helper[g].links["top"] = t
     /\ helper[h].result = "ok")
      => top = t
=============================================================================
