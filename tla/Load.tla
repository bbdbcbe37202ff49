---------------------------------- MODULE Load ----------------------------------
(***************************************************************************)
(* A pipeline load from end to end: the documents are parsed and registered,*)
(* the files they name are read, the pipeline is compiled, assembled and    *)
(* hashed; and once more after its author has edited a declaration, as      *)
(* happens between a training run and the deployment that uses its         *)
(* artifact.  A registry has two more fields:                              *)
(*   docs    : the documents still to be parsed, in the caller's order      *)
(*   resolve : whether the caller runs the file pass (the command line does;*)
(*             the test helper is handed declarations without files)       *)
(***************************************************************************)
EXTENDS Assembly, FileResolution, Declarations

CONSTANTS Edits(_)      \* the registries one edit away from a registry

VARIABLES earlier,      \* the hash and the meaning before the edit
          pending       \* the documents not yet parsed

load == <<vars, assembly, resolution, earlier, pending>>

(* After the documents: the file pass, or straight to compile.             *)
Prepared(r) ==
    IF r.resolve THEN [phase |-> "files", walk |-> RootWalk(r), stack |-> <<>>]
    ELSE [phase |-> "given", walk |-> <<>>, stack |-> <<Frame("root", r.root)>>]
Before(r, documents) ==
    IF documents = <<>> THEN Prepared(r)
    ELSE [phase |-> "documents", walk |-> <<>>, stack |-> <<>>]

LoadInit ==
    /\ \E k \in DOMAIN Registries : reg \in Registries[k]
    /\ pending = reg.docs /\ earlier = <<>>
    /\ outcome = [status |-> "compiling"] /\ done = {}
    /\ LET at == Before(reg, pending) IN
       phase = at.phase /\ walk = at.walk /\ stack = at.stack
    /\ AssembleInit

(* The first document that is refused ends the load.                       *)
RefuseDocument ==
    /\ pending # <<>>
    /\ \E check \in {DocumentCheck(doc) : doc \in {FieldsRead(Head(pending))}} :
        /\ IsRefused(check)
        /\ outcome' = [status |-> "refused",
                       faults |-> {[unit |-> "-", group |-> "parse",
                                    check |-> check.check, about |-> <<>>]}]
    /\ pending' = <<>> /\ phase' = "refused"
    /\ UNCHANGED <<reg, stack, done, walk, assembly, earlier>>

RegisterDocument ==
    /\ pending # <<>>
    /\ \E doc \in {FieldsRead(Head(pending))} :
        /\ ~IsRefused(DocumentCheck(doc))
        /\ reg' = Registering(reg, doc)
    /\ pending' = Tail(pending)
    /\ LET at == Before(reg', pending') IN
       phase' = at.phase /\ walk' = at.walk /\ stack' = at.stack
    /\ UNCHANGED <<outcome, done, assembly, earlier>>

ReadFiles == Resolve /\ UNCHANGED <<assembly, earlier, pending>>
Compile == Next /\ UNCHANGED <<assembly, resolution, earlier, pending>>
Assembling == Assemble /\ UNCHANGED <<resolution, earlier, pending>>

Reload ==
    /\ built.status = "assembled" /\ earlier = <<>>
    /\ reg' \in Edits(reg)
    /\ earlier' = <<[hash |-> built.hash, meaning |-> built.meaning]>>
    /\ stack' = <<Frame("root", reg'.root)>>
    /\ outcome' = [status |-> "compiling"]
    /\ done' = {}
    /\ asm' = <<>> /\ built' = NotBuilt
    /\ UNCHANGED <<resolution, pending>>

(* What runs without anyone's asking, once the documents are in.            *)
Loading == ReadFiles \/ Compile \/ Assembling

LoadNext == RefuseDocument \/ RegisterDocument \/ Loading \/ Reload

LoadSpec == LoadInit /\ [][LoadNext]_load /\ WF_load(Loading)

(***************************************************************************)
(* Properties.                                                             *)
(***************************************************************************)

(* The pipeline-hash is what training data and runs are matched by: an edit *)
(* keeps it iff it keeps what a run computes.                              *)
HashTellsMeaning ==
    \A before \in ToSet(earlier) :
        built.status = "assembled" =>
            (built.hash = before.hash <=> built.meaning = before.meaning)

(* A load comes back, however its declarations contain each other: it is    *)
(* refused, or assembled.                                                  *)
LoadEnds == (pending = <<>> /\ outcome.status = "compiling")
                ~> (outcome.status = "refused" \/ built.status # "none")

(* The types declared at each kind of position, whatever route they came.  *)
TypesIn(fields) == {f.type : f \in ToSet(fields)}
HandlersDeclared == {reg.handlers[n] : n \in DOMAIN reg.handlers}
ServiceTypesDeclared == {reg.types[n] : n \in DOMAIN reg.types}
OnChannels == UNION {TypesIn(h.reads) \cup TypesIn(h.writes) : h \in HandlersDeclared}
OnTransports == UNION {TypesIn(h.transport) : h \in HandlersDeclared}
                \cup UNION {TypesIn(t.transport) : t \in ServiceTypesDeclared}
OnIdentities == UNION {TypesIn(t.identity) : t \in ServiceTypesDeclared}
OnConfigs == UNION {TypesIn(t.config) : t \in ServiceTypesDeclared}

(* What the parts strictly inside a type are.                              *)
Inside(t) == {p.kind : p \in PartsOf(t) \ {t}}
Whole(t) == IF t.kind = "optional" THEN t.inner ELSE t

(* A restricted type stands only where it is admitted, whole: no secret and *)
(* no opaque table travels on a channel, inside a collection or a nested   *)
(* object, or in an identity; no part of an identity or a config is        *)
(* nullable, however deep.                                                 *)
AdmittedAtItsPosition ==
    /\ \A t \in OnChannels : {p.kind : p \in PartsOf(t)} \cap {"secret_ref", "table"} = {}
    /\ \A t \in OnTransports : /\ "table" \notin {p.kind : p \in PartsOf(t)}
                               /\ "secret_ref" \notin Inside(Whole(t))
    /\ \A t \in OnIdentities : {p.kind : p \in PartsOf(t)} \cap {"secret_ref", "table", "optional"} = {}
    /\ \A t \in OnConfigs : /\ {p.kind : p \in PartsOf(t)} \cap {"secret_ref", "optional"} = {}
                            /\ "table" \notin Inside(t)

(* The canonical spelling of a type, which artifacts and derivables carry,  *)
(* is read back as that type: what one reader wrote the other compares     *)
(* equal, however brackets, commas and unions nest.                        *)
TokensRoundTrip ==
    \A t \in OnChannels \cup OnTransports \cup OnConfigs :
        "nested" \notin {p.kind : p \in PartsOf(t)} =>
            ParseToken(Token(t), {"table", "secret_ref"}) = t

(* The values that the engine reads of what is registered.                 *)
Supplied == {reg.root} \cup {reg.comps[p] : p \in Embeds(reg, "pipeline") \cup Embeds(reg, "trainable")}
EngineRead ==
    UNION {UNION {{s.supply[n].identity, s.supply[n].config} : n \in DOMAIN s.supply} : s \in Supplied}
    \cup OwnValues(reg.root)
    \cup UNION {OwnValues(reg.comps[p]) : p \in DOMAIN reg.comps}
    \cup UNION {ParamsOf(h) : h \in HandlersDeclared}
    \cup UNION {ValueBlocks(d) \cup OverrideBlocks(d) : d \in ToSet(reg.deployment)}

(* A parsed registry holds the reserved null in one spelling only, in every *)
(* table the engine itself reads ([trainable.config] aside).               *)
NullsAreSpelled ==
    (reg.docs # <<>> /\ pending = <<>> /\ outcome.status # "refused") =>
        \A values \in EngineRead : \A k \in DOMAIN values : ExplicitNull(values[k]) # "malformed"
=============================================================================
