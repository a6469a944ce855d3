------------------------------ MODULE FilePair ------------------------------
(***************************************************************************)
(* What atomic_write(), gzip_file() and gunzip_file() promise of a file    *)
(* and its archive, to anyone who looks at the two names at any moment,    *)
(* also after a crash: each name shows nothing or one whole version.  A    *)
(* version leaves the file when another is written, or when the archive    *)
(* shows the same; the archive likewise; or when a call with force, which  *)
(* has a source to put in its place, clears it.                            *)
(***************************************************************************)
CONSTANTS Versions, None

VARIABLES
  shown,   \* what the names "file" and "gz" show: a version, or None
  taken    \* the version that a copy to a name has read, or None

vars == <<shown, taken>>

Names == {"file", "gz"}
Other(name) == IF name = "file" THEN "gz" ELSE "file"

Init ==
  /\ shown \in [Names -> Versions \cup {None}]
  /\ taken = [name \in Names |-> None]

Write(v) == shown' = [shown EXCEPT !["file"] = v] /\ UNCHANGED taken

Take(name) ==
  /\ taken[name] = None /\ shown[Other(name)] # None
  /\ taken' = [taken EXCEPT ![name] = shown[Other(name)]]
  /\ UNCHANGED shown

Put(name) ==
  /\ taken[name] # None
  /\ shown' = [shown EXCEPT ![name] = taken[name]]
  /\ taken' = [taken EXCEPT ![name] = None]

GiveUp(name) == taken' = [taken EXCEPT ![name] = None] /\ UNCHANGED shown

Drop(name) ==
  /\ shown[Other(name)] = shown[name]
  /\ shown' = [shown EXCEPT ![name] = None] /\ UNCHANGED taken

Clear(name) ==
  /\ shown[Other(name)] # None
  /\ shown' = [shown EXCEPT ![name] = None] /\ UNCHANGED taken

Next ==
  \/ \E v \in Versions : Write(v)
  \/ \E name \in Names : \/ Take(name) \/ Put(name) \/ GiveUp(name)
                         \/ Drop(name) \/ Clear(name)

Spec == Init /\ [][Next]_vars
=============================================================================
