--------------------------- MODULE NamespaceGuard ---------------------------
(***************************************************************************)
(* The runtime layer of R-handler-pure-module: around each dispatch the    *)
(* runner takes a shallow snapshot of the handler's module namespace and   *)
(* restores it afterwards.  A namespace belongs to the process, not to a   *)
(* run: the server executes runs on threadpool threads, so two tasks of    *)
(* one handler (or of two handlers of one module) share it.  Each step     *)
(* below is what a thread does between two points where another may run.   *)
(***************************************************************************)
EXTENDS Naturals, FiniteSets

CONSTANTS
    Tasks,      \* dispatches of handlers of this module
    Names,      \* names a body may touch
    Threads     \* threads that run tasks at the same time

ASSUME ThreadsPositive == Threads \in Nat \ {0}

VARIABLES
    imported,   \* history: the namespace the module's import left
    namespace,  \* module.__dict__: per name the object bound to it
    pc,         \* per task
    snapshot,   \* per task: its copy of the namespace
    diff,       \* per task: the names still to put back
    outcome     \* per task: "none", "clean", "reverted" (a WARNING), "failed"

vars == <<imported, namespace, pc, snapshot, diff, outcome>>

Unbound == "unbound"
Original == "original"
Objects == {Unbound, Original} \cup Tasks   \* a task stands for an object it made

Running == {t \in Tasks : pc[t] \notin {"waiting", "over"}}

(* Some names exist at import, some do not.                                *)
Init ==
    /\ imported \in [Names -> {Unbound, Original}]
    /\ namespace = imported
    /\ pc = [t \in Tasks |-> "waiting"]
    /\ snapshot = [t \in Tasks |-> imported]
    /\ diff = [t \in Tasks |-> {}]
    /\ outcome = [t \in Tasks |-> "none"]

Snapshot(t) ==
    /\ pc[t] = "waiting" /\ Cardinality(Running) < Threads
    /\ snapshot' = [snapshot EXCEPT ![t] = namespace]
    /\ pc' = [pc EXCEPT ![t] = "body"]
    /\ UNCHANGED <<imported, namespace, diff, outcome>>

(* The body binds or deletes module-level names.                           *)
Mutate(t) ==
    /\ pc[t] = "body"
    /\ \E n \in Names, v \in {Unbound, t} :
          namespace' = [namespace EXCEPT ![n] = v]
    /\ UNCHANGED <<imported, pc, snapshot, diff, outcome>>

(* Mutant of Differs: only the names of the snapshot are compared.         *)
DiffersKnown(t) == {n \in Names : /\ snapshot[t][n] # Unbound
                                  /\ namespace[n] # snapshot[t][n]}

(* The added, deleted and rebound names, by identity.                      *)
Differs(t) == {n \in Names : namespace[n] # snapshot[t][n]}

(* However the body left, the namespace is compared; no name means clean.  *)
Compare(t) ==
    /\ pc[t] = "body"
    /\ diff' = [diff EXCEPT ![t] = Differs(t)]
    /\ IF Differs(t) = {}
       THEN /\ pc' = [pc EXCEPT ![t] = "over"]
            /\ outcome' = [outcome EXCEPT ![t] = "clean"]
       ELSE /\ pc' = [pc EXCEPT ![t] = "restoring"]
            /\ UNCHANGED outcome
    /\ UNCHANGED <<imported, namespace, snapshot>>

Fails(t) ==
    /\ pc' = [pc EXCEPT ![t] = "over"]
    /\ outcome' = [outcome EXCEPT ![t] = "failed"]

Added(t) == {n \in diff[t] : snapshot[t][n] = Unbound}

(* Mutant of PutBack: the added names are left where they are.             *)
PutBackKnown(t) ==
    /\ pc[t] = "restoring"
    /\ \E n \in diff[t] :
          /\ diff' = [diff EXCEPT ![t] = @ \ {n}]
          /\ namespace' = [namespace EXCEPT ![n] =
                IF n \in Added(t) THEN @ ELSE snapshot[t][n]]
    /\ UNCHANGED <<imported, pc, snapshot, outcome>>

(* One name: the added ones are deleted first, then the deleted and rebound*)
(* ones are bound again.  To delete a name that is already gone raises.    *)
PutBack(t) ==
    /\ pc[t] = "restoring"
    /\ \E n \in IF Added(t) # {} THEN Added(t) ELSE diff[t] :
          /\ diff' = [diff EXCEPT ![t] = @ \ {n}]
          /\ IF n \in Added(t) /\ namespace[n] = Unbound
             THEN Fails(t) /\ UNCHANGED namespace
             ELSE /\ namespace' = [namespace EXCEPT ![n] = snapshot[t][n]]
                  /\ UNCHANGED <<pc, outcome>>
    /\ UNCHANGED <<imported, snapshot>>

(* The re-verification: a namespace that is not the snapshot fails too.    *)
Verify(t) ==
    /\ pc[t] = "restoring" /\ diff[t] = {}
    /\ IF Differs(t) = {}
       THEN /\ pc' = [pc EXCEPT ![t] = "over"]
            /\ outcome' = [outcome EXCEPT ![t] = "reverted"]
       ELSE Fails(t)
    /\ UNCHANGED <<imported, namespace, snapshot, diff>>

Next == \E t \in Tasks :
            Snapshot(t) \/ Mutate(t) \/ Compare(t) \/ PutBack(t) \/ Verify(t)

Spec == Init /\ [][Next]_vars

-----------------------------------------------------------------------------
(* handler/reference.md: a mutation the AST walk missed is reverted, and   *)
(* the engine never continues past a partial restore.  So when no task is  *)
(* running and no restore was reported as failed, the module is what its   *)
(* import left, every object bound by a body gone and every name back.     *)
MutationsAreReverted ==
    (Running = {} /\ \A t \in Tasks : outcome[t] # "failed") =>
        namespace = imported

(* One body at a time, a restore can always do its work: whatever the body *)
(* bound, rebound or deleted, no restore raises or fails re-verification.  *)
RestoreSucceeds == \A t \in Tasks : outcome[t] # "failed"
=============================================================================
