--------------------------- MODULE ArtifactVerify ---------------------------
(***************************************************************************)
(* The trained-artifact integrity comparison (R-pipeline-003) at           *)
(* deployment load: collect the deployed trainables by their declared name,*)
(* then go through the [artifacts] registrations in order.  A training     *)
(* bundle hash is a member of Hashes; a manifest is what its sidecar says  *)
(* about the one trainable it is registered for, and whether the current   *)
(* pipeline-hash is in its set.                                            *)
(***************************************************************************)
EXTENDS Naturals, Sequences

CONSTANTS
    Names,          \* declared names of trainables, [artifacts] keys
    Trainables,     \* trainable compositions
    Hashes,
    NameOf,         \* meta.name of a composition
    HashOf,         \* its training-bundle-hash now
    Deployments,    \* trainable nodes of the pipeline tree, in walk order
    Tables          \* [artifacts] tables: sequences of Registration

ASSUME NamesAndHashesTyped ==
    NameOf \in [Trainables -> Names] /\ HashOf \in [Trainables -> Hashes]

NoHash == "no hash"
Nobody == "nobody"

(* sidecar: whether there is a manifest to read; hash, pipeline: what it   *)
(* records, the trainable's hash and the current pipeline-hash or not;     *)
(* acked: acknowledged_drift covers the artifact and the trainable.        *)
Registration == [name : Names, acked : BOOLEAN,
                 sidecar : {"absent", "malformed", "read"},
                 hash : Hashes \cup {NoHash}, pipeline : BOOLEAN]

ASSUME TablesTyped ==
    /\ Deployments \subseteq Seq(Trainables)
    /\ \A table \in Tables :
          /\ table \in Seq(Registration)
          /\ \A i, j \in DOMAIN table : table[i].name = table[j].name => i = j

(* `trainables.get(name)` gives None when there is none.                    *)
ASSUME NobodyIsNone == Nobody \notin Trainables

VARIABLES
    deployed, table, enforce,   \* the declarations
    pc,
    i,              \* the node or the registration at hand
    found,          \* name -> composition
    duplicates,     \* names of two distinct compositions
    events,         \* history: the drift events emitted
    outcome         \* "none", "loaded", or the check that refused

vars == <<deployed, table, enforce, pc, i, found, duplicates, events, outcome>>
given == <<deployed, table, enforce>>
collected == <<found, duplicates>>

Init ==
    /\ deployed \in Deployments /\ table \in Tables /\ enforce \in BOOLEAN
    /\ pc = IF table = <<>> THEN "over" ELSE "collect"
    /\ outcome = IF table = <<>> THEN "loaded" ELSE "none"
    /\ i = 1
    /\ found = [n \in Names |-> Nobody] /\ duplicates = {}
    /\ events = {}

-----------------------------------------------------------------------------
(* `collect_trainables`.                                                   *)

(* Mutant of Collect: a later composition just takes the name.             *)
CollectLast ==
    /\ pc = "collect" /\ i <= Len(deployed)
    /\ found' = [found EXCEPT ![NameOf[deployed[i]]] = deployed[i]]
    /\ i' = i + 1
    /\ UNCHANGED <<given, pc, duplicates, events, outcome>>

Collect ==
    /\ pc = "collect" /\ i <= Len(deployed)
    /\ LET t == deployed[i]
           n == NameOf[t]
       IN  /\ duplicates' = duplicates \cup
                  (IF found[n] \notin {Nobody, t} THEN {n} ELSE {})
           /\ found' = [found EXCEPT ![n] = t]
    /\ i' = i + 1
    /\ UNCHANGED <<given, pc, events, outcome>>

(* Mutant of Collected: the index is not started again.                    *)
CollectedInPlace ==
    /\ pc = "collect" /\ i > Len(deployed)
    /\ pc' = "register"
    /\ UNCHANGED <<given, i, collected, events, outcome>>

Collected ==
    /\ pc = "collect" /\ i > Len(deployed)
    /\ i' = 1 /\ pc' = "register"
    /\ UNCHANGED <<given, collected, events, outcome>>

-----------------------------------------------------------------------------
(* `verify_artifacts`, one registration at a time.                         *)

At(place) == pc = place /\ i <= Len(table)
R == table[i]

Refuse(check) ==
    /\ outcome' = check /\ pc' = "over"
    /\ UNCHANGED <<given, i, collected, events>>

(* The composition the registration names: exactly one.                    *)
Named == R.name \notin duplicates /\ found[R.name] # Nobody

Ambiguous == At("register") /\ R.name \in duplicates
             /\ Refuse("NAME_UNIQUENESS")

Unknown == /\ At("register") /\ R.name \notin duplicates
           /\ found[R.name] = Nobody
           /\ Refuse("ARTIFACT_TRAINABLE_UNKNOWN")

Missing == At("register") /\ Named /\ R.sidecar = "absent" /\ enforce
           /\ Refuse("TRAINED_ARTIFACT_MANIFEST_MISSING")

Malformed == At("register") /\ Named /\ R.sidecar = "malformed"
             /\ Refuse("TRAINED_ARTIFACT_MANIFEST_MALFORMED")

(* No baseline to differ from: no comparison, no event.                    *)
NoBaseline ==
    /\ At("register") /\ Named /\ R.sidecar = "absent" /\ ~enforce
    /\ i' = i + 1
    /\ UNCHANGED <<given, pc, collected, events, outcome>>

TBH(n) == <<"training_bundle_hash_changed", n>>
PH(n)  == <<"pipeline_hash_changed", n>>

(* The event fires under either mode, before the halt it may lead to.      *)
CompareBundle ==
    /\ At("register") /\ Named /\ R.sidecar = "read"
    /\ LET drifted == R.hash # HashOf[found[R.name]]
           halts   == drifted /\ enforce /\ ~R.acked
       IN  /\ events' = events \cup (IF drifted THEN {TBH(R.name)} ELSE {})
           /\ pc' = IF halts THEN "over" ELSE "pipeline"
           /\ outcome' = IF halts THEN "TRAINING_BUNDLE_HASH_MISMATCH"
                         ELSE outcome
    /\ UNCHANGED <<given, i, collected>>

(* Mutant of ComparePipeline: no event under enforcement.                  *)
ComparePipelineUnenforced ==
    /\ At("pipeline")
    /\ events' = events \cup
          (IF R.pipeline \/ enforce THEN {} ELSE {PH(R.name)})
    /\ i' = i + 1 /\ pc' = "register"
    /\ UNCHANGED <<given, collected, outcome>>

(* Pipeline-hash drift is an event only.                                   *)
ComparePipeline ==
    /\ At("pipeline")
    /\ events' = events \cup (IF R.pipeline THEN {} ELSE {PH(R.name)})
    /\ i' = i + 1 /\ pc' = "register"
    /\ UNCHANGED <<given, collected, outcome>>

Load ==
    /\ pc = "register" /\ i > Len(table)
    /\ outcome' = "loaded" /\ pc' = "over"
    /\ UNCHANGED <<given, i, collected, events>>

Next == \/ Collect \/ Collected
        \/ Ambiguous \/ Unknown \/ Missing \/ Malformed \/ NoBaseline
        \/ CompareBundle \/ ComparePipeline \/ Load

Spec == Init /\ [][Next]_vars

-----------------------------------------------------------------------------
(* Shapes; the index stays within the list that is being gone through.     *)
TypeOK ==
    /\ deployed \in Seq(Trainables) /\ table \in Seq(Registration)
    /\ enforce \in BOOLEAN
    /\ pc \in {"collect", "register", "pipeline", "over"}
    /\ i \in 1..(1 + Len(IF pc = "collect" THEN deployed ELSE table))
    /\ found \in [Names -> Trainables \cup {Nobody}]
    /\ duplicates \subseteq Names

Deployed(n) == {deployed[k] : k \in {l \in DOMAIN deployed : NameOf[deployed[l]] = n}}

(* integrity_enforcement admits no unverified artifact: when a load that   *)
(* opted in succeeds, every registered artifact had a manifest, and every  *)
(* deployed composition of its name, at any depth of the tree, has the     *)
(* training-bundle-hash the manifest records or an acknowledged drift.     *)
EnforcedLoadIsVerified ==
    (enforce /\ outcome = "loaded") =>
        \A k \in DOMAIN table :
            /\ table[k].sidecar = "read"
            /\ Deployed(table[k].name) # {}
            /\ \A t \in Deployed(table[k].name) :
                  table[k].acked \/ table[k].hash = HashOf[t]

(* The drift of a manifest against the composition its name denotes.       *)
Drift(r, t) ==
    IF r.sidecar # "read" THEN {}
    ELSE (IF r.hash = HashOf[t] THEN {} ELSE {TBH(r.name)})
         \cup (IF r.pipeline THEN {} ELSE {PH(r.name)})

(* The integrity property is there under either mode: a load that succeeds *)
(* has fired one event for each drift, and none for what has not drifted.  *)
LoadReportsDrift ==
    outcome = "loaded" =>
        events = UNION {UNION {Drift(table[k], t) : t \in Deployed(table[k].name)}
                        : k \in DOMAIN table}

(* The module's words: the drift events fire on every mismatch under either*)
(* enforcement mode, so on that of a load which is then refused too.       *)
EveryMismatchFires ==
    outcome \in {"loaded", "TRAINING_BUNDLE_HASH_MISMATCH"} =>
        \A k \in DOMAIN table : k <= i =>
            \A t \in Deployed(table[k].name) : Drift(table[k], t) \subseteq events
=============================================================================
