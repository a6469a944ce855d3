----------------------- MODULE LakeRegistryProperties -----------------------
(***************************************************************************)
(* What attach_lake(), detach_lake() and close() owe the threads of a      *)
(* store.                                                                  *)
(***************************************************************************)
EXTENDS LakeRegistry

Points == {"idle", "attach", "attaching", "register", "schema",
           "detach", "detaching", "unregister", "closing"}

(* Types, and that only a call that has attached or detached its lake      *)
(* itself goes on to change the list.                                      *)
RegistryTypeOK ==
  /\ lakes \in Seq(Aliases)
  /\ attached \subseteq Aliases
  /\ closed \in BOOLEAN
  /\ call \in [Threads -> [pc : Points, alias : Aliases \cup {None}, schema : BOOLEAN,
                           left : 0..RetryAttempts, did : BOOLEAN,
                           result : {"none", "ok", "error"}]]
  /\ \A t \in Threads : /\ call[t].pc \in {"register", "unregister"} => call[t].did
                        /\ call[t].pc = "schema" => call[t].schema /\ call[t].did

(* While the store is open, _lakes names a database as often as it is      *)
(* attached, once or not at all, but for the calls that are between DuckDB *)
(* and the list: an attach that has still to append it, a detach that has  *)
(* still to remove it.  A lake that is detached and attached again at once *)
(* is in the list twice meanwhile.  It takes that one thread detaches.     *)
At(pc, a) == Cardinality({t \in Threads : call[t].pc = pc /\ call[t].alias = a})
RegistryAgrees ==
  /\ RegistryTypeOK
  /\ ~closed => \A a \in Aliases :
    Cardinality({i \in DOMAIN lakes : lakes[i] = a}) + At("register", a)
      = (IF a \in attached THEN 1 ELSE 0) + At("unregister", a)

(* An attach_lake() that returns without an error leaves its lake attached *)
(* and in the list, or about to be put there by the thread that attached   *)
(* it: also one that looks again after its own schema_sql has failed and   *)
(* others have detached the lake, or attached it, in between.  Only a      *)
(* detach that is between DuckDB and the list may deceive it, or close().  *)
(* It takes that one thread detaches.  Whether the schema_sql has been     *)
(* executed it does not say: such a call returns without having done it.   *)
AttachReturns(t, a) ==
  /\ call[t].pc \in {"attach", "attaching", "register", "schema"} /\ call[t].alias = a
  /\ call'[t].pc = "idle" /\ call'[t].result = "ok"
AttachMeansAttached ==
  [][\A t \in Attachers, a \in Aliases :
       AttachReturns(t, a) /\ ~closed /\ At("unregister", a) = 0
         => a \in attached /\ (Contains(lakes', a) \/ At("register", a)' > 0)]_vars

(* Every call returns, after at most retry_attempts attempts, whatever     *)
(* fails and whatever the other threads do meanwhile.                      *)
CallsReturn == \A t \in Threads : call[t].pc # "idle" ~> call[t].pc = "idle"
=============================================================================
