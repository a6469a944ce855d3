---------------------------- MODULE LakeRegistry ----------------------------
(***************************************************************************)
(* The lakes of tmautils.db.DuckLakeStore: threads that share a store and  *)
(* call attach_lake(), detach_lake() and close().  DuckDB's own table of   *)
(* attached databases and the list _lakes are kept in step by hand.        *)
(*                                                                         *)
(* A step is a block under _lakes_lock or what one cursor does.  Whether a *)
(* failure is retried is decided by run_with_retry(), which runs _once()   *)
(* from its start.                                                         *)
(*                                                                         *)
(* A definition named X_Fault is X with a fault put in: it is used only to *)
(* see that a property of X would notice.                                  *)
(***************************************************************************)
EXTENDS Naturals, Sequences, FiniteSets, Functions, SequencesExt

CONSTANTS
  Aliases,         \* lake aliases
  Attachers,       \* threads that attach
  Detachers,       \* threads that detach
  Closers,         \* threads that close
  None,            \* no alias
  RetryAttempts,   \* retry_attempts
  RetryOnLock,     \* values of retry_on_lock that callers use
  SchemaGiven,     \* whether callers give a schema_sql
  AttachFailures,  \* how ATTACH and DETACH may fail
  SchemaFailures   \* how schema_sql may fail

Threads == Attachers \cup Detachers \cup Closers
Failures == {"transient", "permanent"}

ASSUME RegistryAssumption ==
  /\ IsFiniteSet(Aliases) /\ IsFiniteSet(Threads) /\ None \notin Aliases
  /\ RetryAttempts \in Nat \ {0}
  /\ RetryOnLock \subseteq BOOLEAN /\ SchemaGiven \subseteq BOOLEAN
  /\ AttachFailures \subseteq Failures /\ SchemaFailures \subseteq Failures

VARIABLES
  lakes,     \* self._lakes
  attached,  \* the databases that DuckDB has attached
  closed,    \* self.con is closed
  call       \* where each thread stands

vars == <<lakes, attached, closed, call>>

(* left counts the attempts that run_with_retry() may still make, and is 1 *)
(* from the start without retry_on_lock.  did is history: an attempt of    *)
(* the call itself has attached or detached the lake.                      *)
NoCall == [pc |-> "idle", alias |-> None, schema |-> FALSE, left |-> 0,
           did |-> FALSE, result |-> "none"]

Init ==
  /\ lakes = <<>>
  /\ attached = {}
  /\ closed = FALSE
  /\ call = [t \in Threads |-> NoCall]

Attempts == {IF retry THEN RetryAttempts ELSE 1 : retry \in RetryOnLock}

Goto(t, pc) == call' = [call EXCEPT ![t].pc = pc]
Return(t, result) == call' = [call EXCEPT ![t] = [NoCall EXCEPT !.result = result]]

(* _once() has raised: tenacity runs it again or reraises.                 *)
Raise_ForEver(t, start, failure) ==
  IF failure = "transient" /\ RetryAttempts > 1
  THEN Goto(t, start) ELSE Return(t, "error")
Raise(t, start, failure) ==
  IF failure = "transient" /\ call[t].left > 1
  THEN call' = [call EXCEPT ![t].pc = start, ![t].left = @ - 1]
  ELSE Return(t, "error")

-----------------------------------------------------------------------------
(* attach_lake(alias, schema_sql=..., retry_on_lock=...)                   *)
CallAttach(t, a) ==
  /\ t \in Attachers /\ call[t].pc = "idle"
  /\ \E schema \in SchemaGiven, left \in Attempts :
       call' = [call EXCEPT ![t] = [NoCall EXCEPT !.pc = "attach", !.alias = a,
                                                  !.schema = schema, !.left = left]]
  /\ UNCHANGED <<lakes, attached, closed>>

(* if alias in self._lakes: return, also when the schema_sql of an earlier  *)
(* attempt has failed.                                                     *)
LookForLake_OwnWork(t) ==
  /\ call[t].pc = "attach"
  /\ IF call[t].did \/ Contains(lakes, call[t].alias)
       THEN Return(t, "ok") ELSE Goto(t, "attaching")
  /\ UNCHANGED <<lakes, attached, closed>>
LookForLake(t) ==
  /\ call[t].pc = "attach"
  /\ IF Contains(lakes, call[t].alias) THEN Return(t, "ok") ELSE Goto(t, "attaching")
  /\ UNCHANGED <<lakes, attached, closed>>

(* BEGIN; ATTACH; COMMIT on a cursor of its own, ROLLBACK if they raise.   *)
(* An alias that is attached already is an error for DuckDB, and so is a   *)
(* closed connection; neither is transient.                                *)
Attach(t) ==
  LET a == call[t].alias IN
  /\ call[t].pc = "attaching"
  /\ \/ /\ ~closed /\ a \notin attached
        /\ attached' = attached \cup {a}
        /\ call' = [call EXCEPT ![t].pc = "register", ![t].did = TRUE]
     \/ /\ \/ \E f \in AttachFailures : Raise(t, "attach", f)
           \/ (closed \/ a \in attached) /\ Raise(t, "attach", "permanent")
        /\ UNCHANGED attached
  /\ UNCHANGED <<lakes, closed>>

(* self._lakes.append(alias)                                               *)
Register(t) ==
  /\ call[t].pc = "register"
  /\ lakes' = Append(lakes, call[t].alias)
  /\ IF call[t].schema THEN Goto(t, "schema") ELSE Return(t, "ok")
  /\ UNCHANGED <<attached, closed>>

(* BEGIN; schema_sql; COMMIT, or ROLLBACK.                                 *)
ApplySchema(t) ==
  /\ call[t].pc = "schema"
  /\ \/ /\ ~closed /\ call[t].alias \in attached
        /\ Return(t, "ok")
     \/ \E f \in SchemaFailures : Raise(t, "attach", f)
     \/ (closed \/ call[t].alias \notin attached) /\ Raise(t, "attach", "permanent")
  /\ UNCHANGED <<lakes, attached, closed>>

-----------------------------------------------------------------------------
(* detach_lake(alias).  Without an alias _get_default_alias() picks the    *)
(* only lake there is, once and for all attempts, or raises.               *)
CallDetach(t, a) ==
  /\ t \in Detachers /\ call[t].pc = "idle"
  /\ \E left \in Attempts :
       call' = [call EXCEPT ![t] = [NoCall EXCEPT !.pc = "detach", !.alias = a,
                                                  !.left = left]]
  /\ UNCHANGED <<lakes, attached, closed>>

(* if alias not in self._lakes: return                                     *)
LookForDetach(t) ==
  /\ call[t].pc = "detach"
  /\ IF Contains(lakes, call[t].alias) THEN Goto(t, "detaching") ELSE Return(t, "ok")
  /\ UNCHANGED <<lakes, attached, closed>>

(* DETACH alias, an error unless it is attached.                           *)
Detach(t) ==
  LET a == call[t].alias IN
  /\ call[t].pc = "detaching"
  /\ \/ /\ ~closed /\ a \in attached
        /\ attached' = attached \ {a}
        /\ call' = [call EXCEPT ![t].pc = "unregister", ![t].did = TRUE]
     \/ /\ \/ \E f \in AttachFailures : Raise(t, "detach", f)
           \/ (closed \/ a \notin attached) /\ Raise(t, "detach", "permanent")
        /\ UNCHANGED attached
  /\ UNCHANGED <<lakes, closed>>

(* self._lakes.remove(alias), a ValueError if it is not there.             *)
Unregister_Forgets(t) ==
  /\ call[t].pc = "unregister"
  /\ lakes' = lakes
  /\ Return(t, "ok")
  /\ UNCHANGED <<attached, closed>>
Unregister(t) ==
  /\ call[t].pc = "unregister"
  /\ lakes' = RemoveFirst(lakes, call[t].alias)
  /\ IF Contains(lakes, call[t].alias) THEN Return(t, "ok") ELSE Return(t, "error")
  /\ UNCHANGED <<attached, closed>>

(* close(): the connection, with every database of it, then the list.      *)
CloseConnection(t) ==
  /\ t \in Closers /\ call[t].pc = "idle"
  /\ closed' = TRUE
  /\ attached' = {}
  /\ Goto(t, "closing")
  /\ UNCHANGED lakes
ClearLakes(t) ==
  /\ call[t].pc = "closing"
  /\ lakes' = <<>>
  /\ Return(t, "ok")
  /\ UNCHANGED <<attached, closed>>

CallStep(t) ==
  \/ LookForLake(t) \/ Attach(t) \/ Register(t) \/ ApplySchema(t)
  \/ LookForDetach(t) \/ Detach(t) \/ Unregister(t)
  \/ ClearLakes(t)

Next ==
  \E t \in Threads :
    \/ \E a \in Aliases : CallAttach(t, a)
    \/ \E a \in Aliases : CallDetach(t, a)
    \/ CloseConnection(t)
    \/ CallStep(t)

(* A thread that is in a call goes on; nobody has to call.                 *)
Spec == Init /\ [][Next]_vars
FairSpec == Spec /\ \A t \in Threads : WF_vars(CallStep(t))
=============================================================================
