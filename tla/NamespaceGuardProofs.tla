------------------------ MODULE NamespaceGuardProofs ------------------------
(***************************************************************************)
(* What the namespace guard guarantees while one body runs at a time, for  *)
(* every set of tasks, of names and every import.  With two threads it     *)
(* does not hold: a run shows the interleaving.                            *)
(***************************************************************************)
EXTENDS NamespaceGuard, FiniteSetTheorems, TLAPS

Places == {"waiting", "body", "restoring", "over"}

Typed ==
    /\ imported \in [Names -> Objects] /\ namespace \in [Names -> Objects]
    /\ pc \in [Tasks -> Places]
    /\ snapshot \in [Tasks -> [Names -> Objects]]
    /\ diff \in [Tasks -> SUBSET Names]

(* No two bodies overlap.                                                  *)
Alone == \A t, u \in Running : t = u

(* Between two dispatches the module is what its import left.              *)
Settled == Running = {} => namespace = imported

(* A running task took its copy from the settled namespace, and what it has*)
(* still to put back is exactly what differs: the diff never goes stale.   *)
DiffIsCurrent ==
    \A t \in Running : /\ snapshot[t] = imported
                       /\ pc[t] = "restoring" => diff[t] = Differs(t)

GuardInv == Typed /\ Alone /\ Settled /\ DiffIsCurrent /\ RestoreSucceeds

(* With one thread a snapshot is taken only when nothing is running.       *)
LEMMA SnapshotAlone ==
    ASSUME Alone, Cardinality(Running) < 1
    PROVE  Running = {}
<1>1. SUFFICES ASSUME NEW t \in Running PROVE FALSE  OBVIOUS
<1>2. Running = {t}  BY DEF Alone
<1>3. Cardinality(Running) = 1  BY <1>2, FS_Singleton
<1> QED  BY <1>3

(* The five steps, by the task that takes them.                            *)
LEMMA SnapshotKeepsGuard ==
    ASSUME Threads = 1, GuardInv, NEW t \in Tasks, Snapshot(t)
    PROVE  GuardInv'
<1> USE DEF GuardInv, Typed, Snapshot
<1>1. Running = {}  BY SnapshotAlone
<1>2. pc' = [pc EXCEPT ![t] = "body"] /\ pc[t] = "waiting"  OBVIOUS
<1>3. Running' = {t}  BY <1>1, <1>2 DEF Running, Places
<1>4. namespace = imported  BY <1>1 DEF Settled
<1>5. snapshot'[t] = imported' /\ pc'[t] = "body"  BY <1>2, <1>4
<1>6. Typed'
  BY <1>2 DEF Places
<1>7. Alone' /\ Settled'  BY <1>3 DEF Alone, Settled
<1>8. DiffIsCurrent'  BY <1>3, <1>5 DEF DiffIsCurrent
<1>9. RestoreSucceeds'  BY DEF RestoreSucceeds
<1> QED  BY <1>6, <1>7, <1>8, <1>9

(* While a task is running it is the only one.                             *)
LEMMA OnlyRunning ==
    ASSUME GuardInv, NEW t \in Tasks, pc[t] \in {"body", "restoring"}
    PROVE  Running = {t} /\ snapshot[t] = imported
<1>1. t \in Running  BY DEF Running
<1> QED  BY <1>1 DEF GuardInv, Alone, DiffIsCurrent

LEMMA MutateKeepsGuard ==
    ASSUME GuardInv, NEW t \in Tasks, Mutate(t)
    PROVE  GuardInv'
<1> USE DEF GuardInv, Typed, Mutate
<1>1. Running = {t}  BY OnlyRunning
<1>2. Running' = {t}  BY <1>1 DEF Running
<1>3. Typed'  BY DEF Objects
<1>4. DiffIsCurrent'  BY <1>1, <1>2 DEF DiffIsCurrent
<1> QED  BY <1>2, <1>3, <1>4 DEF Alone, Settled, RestoreSucceeds

LEMMA CompareKeepsGuard ==
    ASSUME GuardInv, NEW t \in Tasks, Compare(t)
    PROVE  GuardInv'
<1> USE DEF GuardInv, Typed, Compare
<1>1. Running = {t} /\ snapshot[t] = imported  BY OnlyRunning
<1>2. Differs(t) \in SUBSET Names /\ Differs(t)' = Differs(t)
  BY DEF Differs
<1>3. diff' = [diff EXCEPT ![t] = Differs(t)]  OBVIOUS
<1>4. CASE Differs(t) = {}
  <2>1. pc' = [pc EXCEPT ![t] = "over"]
        /\ outcome' = [outcome EXCEPT ![t] = "clean"]
    BY <1>4
  <2>2. Running' = {}  BY <1>1, <2>1 DEF Running
  <2>3. namespace = imported  BY <1>1, <1>4 DEF Differs
  <2>4. Typed'  BY <1>2, <1>3, <2>1 DEF Places
  <2>5. RestoreSucceeds'  BY <2>1 DEF RestoreSucceeds
  <2> QED  BY <2>2, <2>3, <2>4, <2>5 DEF Alone, Settled, DiffIsCurrent
<1>5. CASE Differs(t) # {}
  <2>1. pc' = [pc EXCEPT ![t] = "restoring"] /\ UNCHANGED outcome
    BY <1>5
  <2>2. Running' = {t}  BY <1>1, <2>1 DEF Running
  <2>3. Typed'  BY <1>2, <1>3, <2>1 DEF Places
  <2>4. DiffIsCurrent'  BY <1>1, <1>2, <1>3, <2>2 DEF DiffIsCurrent
  <2> QED  BY <2>1, <2>2, <2>3, <2>4 DEF Alone, Settled, RestoreSucceeds
<1> QED  BY <1>4, <1>5

(* An added name is still bound when its turn comes, so deleting it does   *)
(* not raise: each name put back leaves the diff and stops differing.      *)
LEMMA PutBackKeepsGuard ==
    ASSUME GuardInv, NEW t \in Tasks, PutBack(t)
    PROVE  GuardInv'
<1> USE DEF GuardInv, Typed
<1>1. /\ Running = {t} /\ snapshot[t] = imported
      /\ pc[t] = "restoring" /\ diff[t] = Differs(t)
  <2>1. pc[t] = "restoring"  BY DEF PutBack
  <2>2. Running = {t} /\ snapshot[t] = imported  BY <2>1, OnlyRunning
  <2> QED  BY <2>1, <2>2 DEF DiffIsCurrent
<1>2. PICK n \in diff[t] :
          /\ diff' = [diff EXCEPT ![t] = @ \ {n}]
          /\ IF n \in Added(t) /\ namespace[n] = Unbound
             THEN Fails(t) /\ UNCHANGED namespace
             ELSE /\ namespace' = [namespace EXCEPT ![n] = snapshot[t][n]]
                  /\ UNCHANGED <<pc, outcome>>
  BY DEF PutBack, Added
<1>3. ~(n \in Added(t) /\ namespace[n] = Unbound)
  BY <1>1 DEF Added, Differs
<1>4. /\ namespace' = [namespace EXCEPT ![n] = snapshot[t][n]]
      /\ UNCHANGED <<imported, snapshot, pc, outcome>>
  BY <1>2, <1>3 DEF PutBack
<1>5. Running' = {t}  BY <1>1, <1>4 DEF Running
<1>6. n \in Names /\ snapshot[t][n] \in Objects  BY <1>1 DEF Differs
<1>7. Typed'  BY <1>2, <1>4, <1>6
<1>8. Differs(t)' = Differs(t) \ {n}  BY <1>4, <1>6 DEF Differs
<1>9. diff'[t] = Differs(t)'  BY <1>1, <1>2, <1>8
<1>10. DiffIsCurrent'  BY <1>1, <1>4, <1>5, <1>9 DEF DiffIsCurrent
<1> QED  BY <1>4, <1>5, <1>7, <1>10 DEF Alone, Settled, RestoreSucceeds

(* The re-verification finds nothing: the diff is empty and current.       *)
LEMMA VerifyKeepsGuard ==
    ASSUME GuardInv, NEW t \in Tasks, Verify(t)
    PROVE  GuardInv'
<1> USE DEF GuardInv, Typed, Verify
<1>1. Running = {t} /\ snapshot[t] = imported /\ diff[t] = Differs(t)
  <2>1. Running = {t} /\ snapshot[t] = imported  BY OnlyRunning
  <2> QED  BY <2>1 DEF DiffIsCurrent
<1>2. Differs(t) = {}  BY <1>1
<1>3. pc' = [pc EXCEPT ![t] = "over"]
      /\ outcome' = [outcome EXCEPT ![t] = "reverted"]
  BY <1>2
<1>4. Running' = {}  BY <1>1, <1>3 DEF Running
<1>5. namespace = imported  BY <1>1, <1>2 DEF Differs
<1>6. Typed'  BY <1>3 DEF Places
<1>7. RestoreSucceeds'  BY <1>3 DEF RestoreSucceeds
<1> QED  BY <1>4, <1>5, <1>6, <1>7 DEF Alone, Settled, DiffIsCurrent

(* One body at a time, `_restore_namespace` (run.py) never fails and       *)
(* a mutation never outlives the dispatch that made it, whatever the body  *)
(* bound, rebound or deleted; the invariant also says that the diff taken  *)
(* once after the body is not stale at any point of the restore.           *)
THEOREM GuardHolds ==
    ASSUME Threads = 1
    PROVE  Spec => []GuardInv
<1>1. Init => GuardInv
  <2> SUFFICES ASSUME Init PROVE GuardInv  OBVIOUS
  <2>1. Running = {}  BY DEF Init, Running
  <2>2. Typed  BY DEF Init, Typed, Objects, Places
  <2>3. RestoreSucceeds  BY DEF Init, RestoreSucceeds
  <2> QED  BY <2>1, <2>2, <2>3
             DEF Init, GuardInv, Alone, Settled, DiffIsCurrent
<1>2. GuardInv /\ [Next]_vars => GuardInv'
  <2> SUFFICES ASSUME GuardInv, [Next]_vars PROVE GuardInv'  OBVIOUS
  <2>1. CASE UNCHANGED vars
    BY <2>1 DEF vars, GuardInv, Typed, Alone, Settled, DiffIsCurrent,
                RestoreSucceeds, Running, Differs
  <2>2. ASSUME NEW t \in Tasks,
               Snapshot(t) \/ Mutate(t) \/ Compare(t) \/ PutBack(t) \/ Verify(t)
        PROVE  GuardInv'
    BY <2>2, SnapshotKeepsGuard, MutateKeepsGuard, CompareKeepsGuard,
       PutBackKeepsGuard, VerifyKeepsGuard
  <2> QED  BY <2>1, <2>2 DEF Next
<1> QED  BY <1>1, <1>2, PTL DEF Spec

(* While one body runs at a time no restore raises or fails its            *)
(* re-verification.                                                        *)
THEOREM RestoreSucceedsAlone ==
    ASSUME Threads = 1
    PROVE  Spec => []RestoreSucceeds
BY GuardHolds, PTL DEF GuardInv

(* While one body runs at a time, a module no task is using is exactly what*)
(* its import left.                                                        *)
THEOREM MutationsAreRevertedAlone ==
    ASSUME Threads = 1
    PROVE  Spec => []MutationsAreReverted
<1>1. GuardInv => MutationsAreReverted
  BY DEF GuardInv, Settled, MutationsAreReverted
<1> QED  BY <1>1, GuardHolds, PTL
=============================================================================
