------------------------ MODULE ArtifactVerifyProofs ------------------------
(***************************************************************************)
(* The artifact comparison for every pipeline tree, every [artifacts] table*)
(* and every assignment of names and hashes to the trainables.             *)
(***************************************************************************)
EXTENDS ArtifactVerify, TLAPS

(* How far `collect_trainables` got.                                       *)
Gathered == IF pc = "collect" THEN i - 1 ELSE Len(deployed)

(* The table of names: it holds compositions that are deployed under that  *)
(* name, and for a name that is not a duplicate the only one there is.     *)
FoundIsDeployed ==
    \A n \in Names : found[n] # Nobody =>
        \E k \in 1..Gathered : deployed[k] = found[n] /\ NameOf[found[n]] = n
FoundIsUnique ==
    \A k \in 1..Gathered :
        NameOf[deployed[k]] \notin duplicates =>
            found[NameOf[deployed[k]]] = deployed[k]
NamesCollected == table # <<>> => FoundIsDeployed /\ FoundIsUnique

(* What a registration has passed: its composition is known, and under     *)
(* enforcement it is the one the manifest was written for.                 *)
Known(r) == r.name \notin duplicates /\ found[r.name] # Nobody
Admitted(r) ==
    enforce => /\ r.sidecar = "read"
               /\ r.acked \/ r.hash = HashOf[found[r.name]]

RowsAdmitted ==
    /\ pc # "collect" =>
          \A k \in 1..(i - 1) : Known(table[k]) /\ Admitted(table[k])
    /\ pc = "pipeline" =>
          i <= Len(table) /\ Known(R) /\ Admitted(R) /\ R.sidecar = "read"
    /\ outcome = "loaded" => pc = "over" /\ i = Len(table) + 1

(* The events, as a function of the rows gone through.                     *)
BundleDrift(r, t) == IF r.hash = HashOf[t] THEN {} ELSE {TBH(r.name)}
RowDrift(k) == Drift(table[k], found[table[k].name])
DriftBelow == UNION {RowDrift(k) : k \in 1..(i - 1)}
EventsSoFar ==
    /\ pc = "collect" => events = {}
    /\ pc = "register" \/ outcome = "loaded" => events = DriftBelow
    /\ pc = "pipeline" =>
          events = DriftBelow \cup BundleDrift(R, found[R.name])

VerifyInv == TypeOK /\ NamesCollected /\ RowsAdmitted /\ EventsSoFar

-----------------------------------------------------------------------------
(* Shapes.                                                                 *)

(* The steps of `verify_artifacts` that refuse the load.                   *)
Refusing == Ambiguous \/ Unknown \/ Missing \/ Malformed

LEMMA RefusingEffect ==
    ASSUME Refusing
    PROVE  /\ pc = "register" /\ pc' = "over" /\ outcome' # "loaded"
           /\ UNCHANGED <<given, i, collected, events>>
BY DEF Refusing, Ambiguous, Unknown, Missing, Malformed, At, Refuse

LEMMA RowTyped ==
    ASSUME TypeOK, i <= Len(table), pc # "collect"
    PROVE  /\ R \in Registration /\ R.name \in Names
           /\ i \in DOMAIN table
<1>1. i \in 1..Len(table)  BY DEF TypeOK
<1>2. R \in Registration  BY <1>1 DEF TypeOK, R
<1> QED  BY <1>1, <1>2 DEF Registration, TypeOK

LEMMA TypeInit == Init => TypeOK
<1> SUFFICES ASSUME Init PROVE TypeOK  OBVIOUS
<1>1. deployed \in Seq(Trainables) /\ table \in Seq(Registration)
  BY TablesTyped DEF Init
<1>2. Len(deployed) \in Nat /\ Len(table) \in Nat  BY <1>1
<1>3. pc \in {"collect", "over"} /\ i = 1  BY DEF Init
<1>4. i \in 1..(1 + Len(IF pc = "collect" THEN deployed ELSE table))
  BY <1>2, <1>3
<1> QED  BY <1>1, <1>3, <1>4 DEF Init, TypeOK

LEMMA TypeStep == TypeOK /\ [Next]_vars => TypeOK'
<1> SUFFICES ASSUME TypeOK, [Next]_vars PROVE TypeOK'  OBVIOUS
<1> USE DEF TypeOK
<1>1. CASE Collect
  <2> DEFINE t == deployed[i]
  <2>1. pc = "collect" /\ i \in 1..Len(deployed)  BY <1>1 DEF Collect
  <2>2. t \in Trainables /\ NameOf[t] \in Names
    BY <2>1, NamesAndHashesTyped
  <2>3. /\ duplicates' = duplicates \cup
                (IF found[NameOf[t]] \notin {Nobody, t} THEN {NameOf[t]} ELSE {})
        /\ found' = [found EXCEPT ![NameOf[t]] = t]
        /\ i' = i + 1 /\ UNCHANGED <<given, pc>>
    BY <1>1 DEF Collect
  <2>4. duplicates' \subseteq Names
        /\ found' \in [Names -> Trainables \cup {Nobody}]
    BY <2>2, <2>3
  <2> QED  BY <2>1, <2>3, <2>4 DEF given
<1>2. CASE Collected
  BY <1>2 DEF Collected, given, collected
<1>3. CASE Refusing
  BY <1>3, RefusingEffect DEF given, collected
<1>4. CASE NoBaseline
  BY <1>4 DEF NoBaseline, At, given, collected
<1>5. CASE CompareBundle
  BY <1>5 DEF CompareBundle, At, given, collected
<1>6. CASE ComparePipeline
  BY <1>6 DEF ComparePipeline, At, given, collected
<1>7. CASE Load
  BY <1>7 DEF Load, given, collected
<1>8. CASE UNCHANGED vars
  BY <1>8 DEF vars
<1> QED
  BY <1>1, <1>2, <1>3, <1>4, <1>5, <1>6, <1>7, <1>8 DEF Next, Refusing

(* The index never leaves the list it goes through, whichever check        *)
(* refuses and wherever.                                                   *)
THEOREM TypesHold == Spec => []TypeOK
BY TypeInit, TypeStep, PTL DEF Spec

-----------------------------------------------------------------------------
(* The names.                                                              *)

(* A composition already collected under the name of the one at hand makes *)
(* it a duplicate, unless it is the same composition.                      *)
LEMMA CollectKeepsNames ==
    ASSUME TypeOK, NamesCollected, table # <<>>, Collect
    PROVE  NamesCollected'
<1> DEFINE t == deployed[i]
           n == NameOf[t]
<1>1. pc = "collect" /\ i \in 1..Len(deployed) /\ i \in Nat \ {0}
  BY DEF Collect, TypeOK
<1>2. t \in Trainables /\ n \in Names /\ t # Nobody
  BY <1>1, NamesAndHashesTyped, NobodyIsNone DEF TypeOK
<1>3. /\ duplicates' = duplicates \cup
              (IF found[n] \notin {Nobody, t} THEN {n} ELSE {})
      /\ found' = [found EXCEPT ![n] = t]
      /\ i' = i + 1 /\ UNCHANGED <<deployed, table, pc>>
  BY DEF Collect, given
<1>4. found \in [Names -> Trainables \cup {Nobody}]  BY DEF TypeOK
<1>5. Gathered = i - 1 /\ Gathered' = i  BY <1>1, <1>3 DEF Gathered
<1>6. FoundIsDeployed /\ FoundIsUnique  BY DEF NamesCollected
<1> HIDE DEF t, n
<1>7. FoundIsDeployed'
  <2> SUFFICES ASSUME NEW m \in Names, found'[m] # Nobody
               PROVE  \E k \in 1..i : deployed[k] = found'[m]
                                     /\ NameOf[found'[m]] = m
    BY <1>3, <1>5 DEF FoundIsDeployed
  <2>1. CASE m = n
    BY <2>1, <1>1, <1>2, <1>3, <1>4 DEF t, n
  <2>2. CASE m # n
    <3>1. found'[m] = found[m]  BY <2>2, <1>3, <1>4
    <3>2. PICK k \in 1..(i - 1) : deployed[k] = found[m] /\ NameOf[found[m]] = m
      BY <3>1, <1>5, <1>6 DEF FoundIsDeployed
    <3>3. k \in 1..i  BY <1>1
    <3> QED  BY <3>1, <3>2, <3>3
  <2> QED  BY <2>1, <2>2
<1>8. FoundIsUnique'
  <2> SUFFICES ASSUME NEW k \in 1..i, NameOf[deployed[k]] \notin duplicates'
               PROVE  found'[NameOf[deployed[k]]] = deployed[k]
    BY <1>3, <1>5 DEF FoundIsUnique
  <2>1. CASE k = i
    BY <2>1, <1>2, <1>3, <1>4 DEF t, n
  <2>2. CASE k # i
    <3>1. k \in 1..(i - 1)  BY <2>2, <1>1
    <3>2. k \in 1..Len(deployed)  BY <1>1
    <3>3. deployed[k] \in Trainables /\ deployed[k] # Nobody
      BY <3>2, NobodyIsNone DEF TypeOK
    <3>4. NameOf[deployed[k]] \in Names  BY <3>3, NamesAndHashesTyped
    <3>5. found[NameOf[deployed[k]]] = deployed[k]
      BY <3>1, <1>3, <1>5, <1>6 DEF FoundIsUnique
    <3>6. CASE NameOf[deployed[k]] = n
      <4>1. found[n] \in {Nobody, t}  BY <3>6, <1>3
      <4>2. found[n] = t  BY <4>1, <3>3, <3>5, <3>6
      <4> QED  BY <4>2, <3>5, <3>6, <1>2, <1>3, <1>4
    <3>7. CASE NameOf[deployed[k]] # n
      BY <3>4, <3>5, <3>7, <1>3, <1>4
    <3> QED  BY <3>6, <3>7
  <2> QED  BY <2>1, <2>2
<1> QED  BY <1>3, <1>7, <1>8 DEF NamesCollected

(* The other steps leave the names alone.                                  *)
LEMMA LaterEffect ==
    ASSUME TypeOK, [Next]_vars, ~Collect
    PROVE  /\ UNCHANGED <<deployed, table, enforce, found, duplicates>>
           /\ Gathered' = Gathered
<1>1. UNCHANGED <<deployed, table, enforce, found, duplicates>>
  BY DEF Next, vars, Collected, Ambiguous, Unknown, Missing, Malformed, Refuse,
         NoBaseline, CompareBundle, ComparePipeline, Load, given, collected
<1>2. CASE Collected
  <2>1. /\ pc = "collect" /\ i \in Nat /\ Len(deployed) \in Nat
        /\ i <= 1 + Len(deployed) /\ i > Len(deployed)
        /\ pc' = "register"
    BY <1>2 DEF Collected, TypeOK
  <2> QED  BY <1>1, <2>1 DEF Gathered
<1>3. CASE ~Collected
  <2>1. (pc # "collect" /\ pc' # "collect") \/ UNCHANGED <<pc, i>>
    BY <1>3 DEF Next, vars, Ambiguous, Unknown, Missing, Malformed, Refuse,
                NoBaseline, CompareBundle, ComparePipeline, Load, At
  <2> QED  BY <1>1, <2>1 DEF Gathered
<1> QED  BY <1>1, <1>2, <1>3

LEMMA NamesStep ==
    ASSUME TypeOK, NamesCollected, [Next]_vars
    PROVE  NamesCollected'
<1>1. CASE Collect /\ table # <<>>
  BY <1>1, CollectKeepsNames
<1>2. CASE Collect /\ table = <<>>
  BY <1>2 DEF Collect, given, NamesCollected
<1>3. CASE ~Collect
  BY <1>3, LaterEffect DEF NamesCollected, FoundIsDeployed, FoundIsUnique
<1> QED  BY <1>1, <1>2, <1>3

-----------------------------------------------------------------------------
(* The registrations.                                                      *)

LEMMA RowsStep ==
    ASSUME TypeOK, RowsAdmitted, [Next]_vars
    PROVE  RowsAdmitted'
<1> USE DEF RowsAdmitted
<1>1. CASE Collect
  BY <1>1 DEF Collect, given
<1>2. CASE ~Collect
  <2>1. UNCHANGED <<deployed, table, enforce, found, duplicates>>
    BY <1>2, LaterEffect
  <2>2. \A r : Known(r)' = Known(r) /\ Admitted(r)' = Admitted(r)
    BY <2>1 DEF Known, Admitted
  <2>3. i \in Nat \ {0} /\ Len(table) \in Nat  BY DEF TypeOK
  <2> DEFINE Row(k) == table[k]
             Fine(k) == Known(Row(k)) /\ Admitted(Row(k))
             Fine2(k) == Known(Row(k))' /\ Admitted(Row(k))'
  <2>4. \A k : Fine2(k) = Fine(k)  BY <2>1, <2>2
  <2>5. pc # "collect" => \A k \in 1..(i - 1) : Fine(k)  OBVIOUS
  <2>6. SUFFICES /\ pc' # "collect" => \A k \in 1..(i' - 1) : Fine(k)
                 /\ pc' = "pipeline" =>
                       /\ i' <= Len(table) /\ Fine(i')
                       /\ table[i'].sidecar = "read"
                 /\ outcome' = "loaded" => pc' = "over" /\ i' = Len(table) + 1
    BY <2>1, <2>4 DEF R
  <2>7. CASE Collected
    BY <2>7, <2>3 DEF Collected
  <2>8. CASE Refusing
    BY <2>8, <2>5, RefusingEffect
  <2>9. CASE NoBaseline
    <3>1. /\ pc = "register" /\ i <= Len(table) /\ Named
          /\ R.sidecar = "absent" /\ ~enforce
          /\ i' = i + 1 /\ UNCHANGED <<pc, outcome>>
      BY <2>9 DEF NoBaseline, At
    <3>2. Fine(i)  BY <3>1 DEF Known, Admitted, Named, R
    <3>3. \A k \in 1..(i' - 1) : k = i \/ k \in 1..(i - 1)
      BY <2>3, <3>1
    <3> QED  BY <3>1, <3>2, <3>3, <2>5
  <2>10. CASE CompareBundle
    <3>1. /\ pc = "register" /\ i <= Len(table) /\ Named
          /\ R.sidecar = "read" /\ i' = i
          /\ pc' \in {"over", "pipeline"} /\ outcome' # "loaded"
          /\ pc' = "pipeline" =>
                ~(R.hash # HashOf[found[R.name]] /\ enforce /\ ~R.acked)
      BY <2>10 DEF CompareBundle, At
    <3>2. pc' = "pipeline" => Fine(i)
      BY <3>1 DEF Known, Admitted, Named, R
    <3> QED  BY <3>1, <3>2, <2>5 DEF R
  <2>11. CASE ComparePipeline
    <3>1. /\ pc = "pipeline" /\ i <= Len(table) /\ i' = i + 1
          /\ pc' = "register" /\ UNCHANGED outcome
      BY <2>11 DEF ComparePipeline, At
    <3>2. Fine(i)  BY <3>1 DEF R
    <3>3. \A k \in 1..(i' - 1) : k = i \/ k \in 1..(i - 1)
      BY <2>3, <3>1
    <3> QED  BY <3>1, <3>2, <3>3, <2>5
  <2>12. CASE Load
    <3>1. i = Len(table) + 1
      BY <2>12 DEF Load, TypeOK
    <3> QED  BY <3>1, <2>12, <2>5 DEF Load
  <2>13. CASE UNCHANGED vars
    BY <2>13, <2>5 DEF vars, R
  <2> QED
    BY <1>2, <2>7, <2>8, <2>9, <2>10, <2>11, <2>12, <2>13 DEF Next, Refusing
<1> QED  BY <1>1, <1>2

-----------------------------------------------------------------------------
(* The events.                                                             *)

LEMMA EventsStep ==
    ASSUME TypeOK, RowsAdmitted, EventsSoFar, [Next]_vars
    PROVE  EventsSoFar'
<1>0. outcome = "loaded" => pc = "over"  BY DEF RowsAdmitted
<1>1. CASE Collect
  BY <1>0, <1>1 DEF Collect, EventsSoFar
<1>2. CASE ~Collect
  <2> DEFINE f(k) == RowDrift(k)
             Below(n) == UNION {f(k) : k \in 1..(n - 1)}
  <2>1. UNCHANGED <<table, found>>  BY <1>2, LaterEffect
  <2>2. i \in Nat \ {0} /\ Len(table) \in Nat  BY DEF TypeOK
  <2>3. \A k : RowDrift(k)' = f(k)  BY <2>1 DEF RowDrift, Drift
  <2>4. DriftBelow = Below(i) /\ DriftBelow' = Below(i')
    BY <2>3 DEF DriftBelow
  <2>5. i' = i + 1 => Below(i') = Below(i) \cup f(i)
    <3> HIDE DEF f
    <3>1. 1..i = (1..(i - 1)) \cup {i}  BY <2>2
    <3>2. i' = i + 1 => i' - 1 = i  BY <2>2
    <3> QED  BY <3>1, <3>2
  <2>6. Below(1) = {}  OBVIOUS
  <2> HIDE DEF Below
  <2>7. /\ pc = "collect" => events = {}
        /\ pc = "register" \/ outcome = "loaded" => events = Below(i)
        /\ pc = "pipeline" =>
              events = Below(i) \cup BundleDrift(R, found[R.name])
    BY <2>4 DEF EventsSoFar
  <2>8. SUFFICES
           /\ pc' = "collect" => events' = {}
           /\ pc' = "register" \/ outcome' = "loaded" => events' = Below(i')
           /\ pc' = "pipeline" =>
                 events' = Below(i') \cup BundleDrift(table[i'], found[table[i'].name])
    BY <2>1, <2>4 DEF EventsSoFar, R, BundleDrift, TBH
  <2>9. CASE Collected
    BY <1>0, <2>6, <2>7, <2>9 DEF Collected
  <2>10. CASE Refusing
    BY <2>10, RefusingEffect
  <2>11. CASE NoBaseline
    <3>1. f(i) = {}  BY <2>11 DEF NoBaseline, RowDrift, Drift, R
    <3> QED  BY <1>0, <3>1, <2>5, <2>7, <2>11 DEF NoBaseline, At
  <2>12. CASE CompareBundle
    <3>1. /\ pc = "register" /\ i' = i /\ outcome' # "loaded"
          /\ pc' \in {"over", "pipeline"}
          /\ events' = events \cup BundleDrift(R, found[R.name])
      BY <1>0, <2>12 DEF CompareBundle, At, BundleDrift
    <3> QED  BY <3>1, <2>7 DEF R
  <2>13. CASE ComparePipeline
    <3>1. /\ pc = "pipeline" /\ pc' = "register" /\ i' = i + 1
          /\ events' = events \cup (IF R.pipeline THEN {} ELSE {PH(R.name)})
      BY <2>13 DEF ComparePipeline, At
    <3>2. R.sidecar = "read"  BY <3>1 DEF RowsAdmitted
    <3>3. f(i) = BundleDrift(R, found[R.name])
                 \cup (IF R.pipeline THEN {} ELSE {PH(R.name)})
      BY <3>2 DEF RowDrift, Drift, BundleDrift, R
    <3> QED  BY <1>0, <2>13, <3>1, <3>3, <2>5, <2>7 DEF ComparePipeline
  <2>14. CASE Load
    BY <1>0, <2>7, <2>14 DEF Load
  <2>15. CASE UNCHANGED vars
    BY <2>7, <2>15 DEF vars, R
  <2> QED
    BY <1>2, <2>9, <2>10, <2>11, <2>12, <2>13, <2>14, <2>15 DEF Next, Refusing
<1> QED  BY <1>1, <1>2

-----------------------------------------------------------------------------
(* What the table of names says of the deployment, once it is complete.    *)

LEMMA KnownDenotesDeployed ==
    ASSUME TypeOK, NamesCollected, table # <<>>, pc # "collect",
           NEW n \in Names, n \notin duplicates, found[n] # Nobody
    PROVE  Deployed(n) = {found[n]}
<1>1. Gathered = Len(deployed) /\ DOMAIN deployed = 1..Len(deployed)
  BY DEF Gathered, TypeOK
<1>2. PICK k \in DOMAIN deployed : deployed[k] = found[n] /\ NameOf[found[n]] = n
  BY <1>1 DEF NamesCollected, FoundIsDeployed
<1>3. found[n] \in Deployed(n)  BY <1>2 DEF Deployed
<1>4. ASSUME NEW t \in Deployed(n) PROVE t = found[n]
  <2>1. PICK l \in DOMAIN deployed : NameOf[deployed[l]] = n /\ t = deployed[l]
    BY DEF Deployed
  <2> QED  BY <2>1, <1>1 DEF NamesCollected, FoundIsUnique
<1> QED  BY <1>3, <1>4

(* The comparison goes through the registrations in order and stops at the *)
(* first that fails, so what is left to say at the end is what each row    *)
(* passed: the events are the drifts of the rows gone through.             *)
THEOREM VerifyHolds == Spec => []VerifyInv
<1>1. Init => VerifyInv
  <2> SUFFICES ASSUME Init PROVE VerifyInv  OBVIOUS
  <2>1. TypeOK  BY TypeInit
  <2>2. table # <<>> => pc = "collect"  BY DEF Init
  <2>3. i = 1 /\ events = {}  BY DEF Init
  <2>4. NamesCollected
    BY <2>2, <2>3 DEF Init, NamesCollected, FoundIsDeployed, FoundIsUnique,
                      Gathered
  <2>5. table = <<>> => Len(table) = 0  OBVIOUS
  <2>6. RowsAdmitted  BY <2>3, <2>5 DEF Init, RowsAdmitted
  <2>7. DriftBelow = {}  BY <2>3 DEF DriftBelow
  <2>8. EventsSoFar  BY <2>3, <2>7 DEF Init, EventsSoFar
  <2> QED  BY <2>1, <2>4, <2>6, <2>8 DEF VerifyInv
<1>2. VerifyInv /\ [Next]_vars => VerifyInv'
  BY TypeStep, NamesStep, RowsStep, EventsStep DEF VerifyInv
<1> QED  BY <1>1, <1>2, PTL DEF Spec

(* At a load that succeeded every row was gone through, and its composition*)
(* is the only one deployed under its name.                                *)
LEMMA LoadedRows ==
    ASSUME VerifyInv, outcome = "loaded"
    PROVE  /\ events = UNION {RowDrift(k) : k \in DOMAIN table}
           /\ \A k \in DOMAIN table :
                 /\ Admitted(table[k])
                 /\ Deployed(table[k].name) = {found[table[k].name]}
<1>1. /\ pc = "over" /\ i = Len(table) + 1 /\ Len(table) \in Nat
      /\ DOMAIN table = 1..Len(table) /\ i - 1 = Len(table)
  BY DEF VerifyInv, RowsAdmitted, TypeOK
<1>2. events = UNION {RowDrift(k) : k \in DOMAIN table}
  BY <1>1 DEF VerifyInv, EventsSoFar, DriftBelow
<1>3. ASSUME NEW k \in DOMAIN table
      PROVE  /\ Admitted(table[k])
             /\ Deployed(table[k].name) = {found[table[k].name]}
  <2>1. Known(table[k]) /\ Admitted(table[k])
    BY <1>1, <1>3 DEF VerifyInv, RowsAdmitted
  <2>2. table[k] \in Registration /\ table # <<>>
    BY <1>1, <1>3 DEF VerifyInv, TypeOK
  <2>3. table[k].name \in Names  BY <2>2 DEF Registration
  <2> QED
    BY <1>1, <2>1, <2>2, <2>3, KnownDenotesDeployed DEF VerifyInv, Known
<1> QED  BY <1>2, <1>3

(* Under integrity_enforcement no artifact is admitted unverified, whatever*)
(* trainables share names, embeds and depths (verify.py).                  *)
THEOREM EnforcedLoadVerified == Spec => []EnforcedLoadIsVerified
<1>1. VerifyInv => EnforcedLoadIsVerified
  BY LoadedRows DEF EnforcedLoadIsVerified, Admitted
<1> QED  BY <1>1, VerifyHolds, PTL

(* A load that succeeds has fired exactly the drifts of its artifacts, with*)
(* or without enforcement.                                                 *)
THEOREM LoadReports == Spec => []LoadReportsDrift
<1>1. ASSUME VerifyInv PROVE LoadReportsDrift
  <2> SUFFICES ASSUME outcome = "loaded"
               PROVE  events = UNION {UNION {Drift(table[k], t) :
                                             t \in Deployed(table[k].name)}
                                      : k \in DOMAIN table}
    BY DEF LoadReportsDrift
  <2>1. \A k \in DOMAIN table :
           UNION {Drift(table[k], t) : t \in Deployed(table[k].name)} = RowDrift(k)
    <3> TAKE k \in DOMAIN table
    <3>1. Deployed(table[k].name) = {found[table[k].name]}
      BY <1>1, LoadedRows
    <3> QED  BY <3>1 DEF RowDrift
  <2>2. events = UNION {RowDrift(k) : k \in DOMAIN table}
    BY <1>1, LoadedRows
  <2> QED  BY <2>1, <2>2
<1> QED  BY <1>1, VerifyHolds, PTL
=============================================================================
