------------------------ MODULE LakeInsertProperties ------------------------
(***************************************************************************)
(* What the writes of a DuckLakeStore owe their callers, the flushes of a  *)
(* BufferedWriter among them.                                              *)
(***************************************************************************)
EXTENDS LakeInsert

(* Types, and that an attempt never holds changes before its transaction   *)
(* has begun.                                                              *)
WriteTypeOK ==
  /\ data \in [Aliases -> [Modes -> [Rows -> Nat]]]
  /\ \A t \in Writers : LET w == write[t] IN
       /\ w.pc \in {"idle", "begin", "run", "commit"}
       /\ w.kind \in {"none", "insert", "txn"}
       /\ w.batch \subseteq Rows /\ w.left \in 0..RetryAttempts
       /\ w.drawn \in 0..Len(w.statements)
       /\ {w.removed, w.added} \subseteq [Rows -> Nat]
       /\ w.pc = "begin" => w.removed = Nothing /\ w.added = Nothing

(* A table that is written with key columns has one row per key, whatever  *)
(* duplicates a batch holds and however often an attempt is repeated.  It  *)
(* takes one writer at a time, which BufferedWriter guarantees: nothing in *)
(* a lake enforces a key.                                                  *)
OneRowPerStoredKey ==
  /\ WriteTypeOK
  /\ \A a \in Aliases, m \in Modes \ {"append"} : KeysUnique(data[a][m])

(* A write that raises has stored nothing, and one that returns has stored *)
(* its rows once, all of them and in one lake, whichever attempts failed   *)
(* before and whatever the lakes were then: what BufferedWriter needs of   *)
(* its backend.  It is claimed where no COMMIT was ambiguous, and for      *)
(* statements that can be run through again.                               *)
Once(w, lake) ==
  IF w.kind = "txn"
  THEN {[w.before EXCEPT ![lake].append =
          [r \in Rows |-> @[r] + Cardinality({i \in DOMAIN w.statements : w.statements[i] = r})]]}
  ELSE {[w.before EXCEPT ![lake][w.mode] = Changed(@, c)]
          : c \in Changes(w.mode, w.before[lake][w.mode], w.batch)}
Ends(t) == write[t].pc # "idle" /\ write'[t].pc = "idle"
StoredOnce ==
  [][\A t \in Writers : Ends(t) /\ ~write'[t].doubt /\ ~write[t].oneShot =>
       data' \in IF write'[t].result = "ok"
                 THEN UNION {Once(write[t], a) : a \in Aliases} ELSE {write[t].before}]_writeVars

(* The lakes are TableWrites, at the COMMITs: what is stored at one moment *)
(* is all that one call has asked for, whichever attempt it is, and a call *)
(* that returns has stored at that moment: execute_txn() too, "multiple SQL*)
(* statements in a single transaction".                                    *)
Asked(w) ==
  IF w.pc = "idle" THEN [mode |-> "none", batch |-> {}, where |-> {}, result |-> w.result]
  ELSE [mode |-> w.mode, result |-> "none",
        batch |-> IF w.kind = "txn" THEN Range(w.statements) ELSE w.batch,
        where |-> {p \in Aliases \X {w.mode} :
                     p[1] = IF w.kind = "txn" THEN w.alias
                            ELSE IF w.given # None THEN w.given ELSE p[1]}]
Stores == INSTANCE TableWrites WITH
            Places <- Aliases \X Modes,
            tables <- [p \in Aliases \X Modes |-> data[p[1]][p[2]]],
            asked <- [t \in Writers |-> Asked(write[t])]
ImplementsWrites == Stores!Spec

(* With key columns even an ambiguous COMMIT is harmless: an insert that   *)
(* names its lake and returns leaves what one successful attempt leaves.   *)
RepeatHarmless ==
  [][\A t \in Writers :
       (Ends(t) /\ write'[t].result = "ok" /\ write[t].kind = "insert"
          /\ write[t].mode # "append" /\ write[t].given # None)
         => data' \in Once(write[t], write[t].given)]_writeVars
=============================================================================
