------------------------------ MODULE Declarations ------------------------------
(***************************************************************************)
(* The documents an author hands in and the declarations they become:      *)
(* `loads` for handlers, service-types, pipelines, compositions and the    *)
(* deployment.  The first thing a loader objects to is what it raises, so   *)
(* every loader is a sequence of checks, each `Fine` or refused, in the     *)
(* order the code makes them.                                              *)
(*                                                                         *)
(* A document has                                                          *)
(*   sort     : "handler", "service_type", "pipeline", "composition" or    *)
(*              "deployment";  name : what it is registered under          *)
(*   sections : the top-level keys present                                 *)
(*   odd      : what is written in a shape the grammar does not have, a    *)
(*              set of <<place, name>>, place an entry's number or 0       *)
(* and per sort the contents of its sections: schema sections as sequences *)
(* of [name, field, default], the rest as the declaration they spell (see  *)
(* CompilePipeline), values in the forms of Bindings.  Of several values   *)
(* in one table, which is objected to first is left out.                   *)
(***************************************************************************)
EXTENDS Bindings, ChannelTypes, TLC

Fine == [kind |-> "fine"]
When(wrong, refusal) == IF wrong THEN refusal ELSE Fine
FirstRefusal(checks) == Built(checks, Fine)

WrittenAt(doc, place, what) == <<place, what>> \in doc.odd
Written(doc, what) == WrittenAt(doc, 0, what)

(* A part that is not a table, or whose IR construction pydantic refuses,   *)
(* is malformed (`_require_mapping`, `_translate_validation_error`).       *)
ShapeAt(doc, place, what) == When(WrittenAt(doc, place, what), Malformed)
Shape(doc, what) == ShapeAt(doc, 0, what)

(* `_closed_grammar`, `_require_present`, `_require_body`.                 *)
Closed(present, allowed) == When(~(present \subseteq allowed), ClosedGrammar)
Present(required, present) == When(~(required \subseteq present), Refused("section_presence"))
NonEmpty(fields) == When(fields = <<>>, Refused("body_required"))

(* What the fields of a schema section may be written as.                  *)
AdmittedIn(doc, section) ==
    CASE section = "outputs" /\ doc.sort = "handler" -> Admits.output_schema
      [] section \in {"inputs", "outputs"} -> Admits.boundary
      [] section = "trained" -> Admits.trained_output
      [] OTHER -> Admits[section]

(* `parse_schema_section`: the fields in their order.  What a field is read *)
(* as depends on the field and its section alone, so all are read first and *)
(* the checks then look, in the order of the code, at what came of it.     *)
Schemas == {"reads", "outputs", "transport", "identity", "config", "inputs", "trained"}
ReadFields(fields, admits) ==
    [i \in DOMAIN fields |-> [name |-> fields[i].name, default |-> fields[i].default,
                              read |-> ParseField(fields[i].field, admits)]]
FieldsRead(doc) ==
    [part \in DOMAIN doc |->
        CASE part \in Schemas -> ReadFields(doc[part], AdmittedIn(doc, part))
          [] part = "bindings" ->
                [b \in DOMAIN doc.bindings |->
                    [doc.bindings[b] EXCEPT !.fields = ReadFields(@, Admits.reads)]]
          [] OTHER -> doc[part]]

Section(fields) == FirstRefusal([i \in DOMAIN fields |-> fields[i].read])
Spelled(fields) == {f.read.type : f \in {g \in ToSet(fields) : ~IsRefused(g.read)}}
Declared(fields) ==
    [i \in DOMAIN fields |-> [name |-> fields[i].name, default |-> fields[i].default,
                              type |-> fields[i].read.type]]

(***************************************************************************)
(* Values.                                                                 *)
(***************************************************************************)

(* A reserved null is spelled one way only (`is_explicit_null`).           *)
Spelling(v) == When(ExplicitNull(v) = "malformed", Malformed)
Spellings(values) ==
    When(\E k \in DOMAIN values : ExplicitNull(values[k]) = "malformed", Malformed)

(* `_as_file_ref`: a table with the key `file` has no other key.           *)
MalformedFile(v) == v.form = "table" /\ "file" \in DOMAIN v.keys

(* `_parse_node_binding_values`, `_parse_str_map`.                         *)
NodeValues(values) ==
    When(\E k \in DOMAIN values : MalformedFile(values[k]) \/ ExplicitNull(values[k]) = "malformed",
         Malformed)
Maps(doc, place) ==
    FirstRefusal(<<ShapeAt(doc, place, "map_not_a_table"),
                   When(WrittenAt(doc, place, "channel_not_a_string"), Refused("wiring_map_port"))>>)

(* Mutant of SupplyBlocks: only the identity values are looked at.             *)
SuppliesOfIdentity(doc, supplies) ==
    FirstRefusal(<<Shape(doc, "supply_not_a_table"),
        When(\E n \in DOMAIN supplies : Spellings(supplies[n].identity) # Fine, Malformed)>>)
(* `_parse_supply_blocks`.                                                 *)
SupplyBlocks(doc, supplies) ==
    FirstRefusal(<<Shape(doc, "supply_not_a_table"),
        When(\E n \in DOMAIN supplies : \/ Spellings(supplies[n].identity) # Fine
                                        \/ Spellings(supplies[n].config) # Fine, Malformed)>>)

(* `_parse_merge`.                                                         *)
MergeTable(doc) == FirstRefusal(<<Shape(doc, "merge_not_a_table"),
                             When(Written(doc, "unknown_strategy"), ClosedGrammar)>>)

Annotations(doc) == Shape(doc, "annotations_not_a_table")

(***************************************************************************)
(* Handlers.  A binding is [compile : "no", "blessed", "dotted", "bare" or  *)
(* "not_a_string"; keys : reserved keys beside it; params; delivery;       *)
(* default; fields], a service binding [name, type, keys].                 *)
(***************************************************************************)
Params(params) ==
    FirstRefusal(<<When(\E k \in DOMAIN params : MalformedFile(params[k]), Malformed),
                   Spellings(params),
                   When(\E k \in DOMAIN params : ExplicitNull(params[k]) = "yes",
                        Refused("explicit_null_target"))>>)

(* `_parse_binding`.                                                       *)
BindingCheck(b) ==
    IF b.compile # "no"
    THEN FirstRefusal(<<
            When(b.compile \in {"not_a_string", "bare"}, ClosedGrammar),
            When(b.keys # {}, ClosedGrammar),
            Params(b.params)>>)
    ELSE FirstRefusal(<<
            When(b.delivery = "unknown", ClosedGrammar),
            FirstRefusal([i \in DOMAIN b.default |-> Spelling(b.default[i])]),
            Section(b.fields)>>)

BindingChecks(doc) ==
    FirstRefusal(<<Shape(doc, "bindings_not_a_table"),
        FirstRefusal(SetToSeq({BindingCheck(doc.bindings[b]) : b \in DOMAIN doc.bindings} \ {Fine}))>>)

(* `_parse_service_binding_decls`.                                         *)
ServiceDecls(doc) ==
    FirstRefusal(<<Shape(doc, "services_not_a_table")>> \o
        [i \in DOMAIN doc.services |-> FirstRefusal(<<
            When("type" \notin doc.services[i].keys, Malformed),
            Closed(doc.services[i].keys, {"type", "type_not_a_string"}),
            When("type_not_a_string" \in doc.services[i].keys, Malformed)>>)])

Bound(services) ==
    [i \in DOMAIN services |-> [name |-> services[i].name, type |-> services[i].type]]

HandlerKinds == {"transform", "service", "hook"}
KindsOf(doc) == doc.sections \cap HandlerKinds
KindOf(doc) == CHOOSE k \in KindsOf(doc) : TRUE

Forbidden(kind) == CASE kind = "transform" -> {"service_bindings", "transport_schema"}
                     [] kind = "service" -> {"transport_schema"}
                     [] OTHER -> {"output_schema"}
Required(kind) == CASE kind = "transform" -> {"reads", "output_schema"}
                    [] kind = "service" -> {"reads", "output_schema", "service_bindings"}
                    [] OTHER -> {"reads", "service_bindings", "transport_schema"}
Allowed(kind) == Required(kind) \cup {kind, "bindings", "annotations"}

(* `_check_transport_field_collision`: one keyword argument, one source.   *)
Collision(doc) ==
    When(FieldNames(doc.transport) \cap (FieldNames(doc.reads) \cup DOMAIN doc.bindings \cup {"services"})
         # {}, Refused("name_uniqueness"))

HandlerBody(doc) ==
    CASE KindOf(doc) = "transform" -> <<Section(doc.outputs),
                                        NonEmpty(doc.outputs), BindingChecks(doc)>>
      [] KindOf(doc) = "service" -> <<Section(doc.outputs),
                                      NonEmpty(doc.outputs), ServiceDecls(doc), BindingChecks(doc)>>
      [] OTHER -> <<Section(doc.transport), BindingChecks(doc),
                    Collision(doc), ServiceDecls(doc)>>

(* `parse_handler`.                                                        *)
HandlerCheck(doc) ==
    IF Cardinality(KindsOf(doc)) # 1 THEN Refused("handler_kind_header")
    ELSE FirstRefusal(<<
            Shape(doc, "header_not_a_table"), When(Written(doc, "header_filled"), ClosedGrammar),
            Annotations(doc),
            When(doc.sections \cap Forbidden(KindOf(doc)) # {}, ClosedGrammar),
            Closed(doc.sections, Allowed(KindOf(doc))),
            Present(Required(KindOf(doc)), doc.sections),
            Section(doc.reads)>> \o HandlerBody(doc))

HandlerOf(doc) ==
    [kind |-> KindOf(doc), reads |-> Declared(doc.reads),
     writes |-> Declared(doc.outputs),
     services |-> Bound(doc.services),
     transport |-> Declared(doc.transport),
     bindings |-> [b \in DOMAIN doc.bindings |->
        [compile |-> doc.bindings[b].compile # "no", params |-> doc.bindings[b].params,
         default |-> doc.bindings[b].default,
         fields |-> Declared(doc.bindings[b].fields)]]]

(***************************************************************************)
(* Service-types: `parse_service_type`, and the guard of engine-owned names *)
(* at registration; `owned` is "no", "shipped" or "changed".               *)
(***************************************************************************)
ServiceSchemas == {"identity_schema", "transport_schema", "config_schema"}

ServiceTypeCheck(doc) ==
    FirstRefusal(<<
        Closed(doc.sections, ServiceSchemas \cup {"name", "description", "annotations"}),
        Present({"name"} \cup ServiceSchemas, doc.sections),
        Section(doc.identity), Section(doc.transport),
        Section(doc.config),
        NonEmpty(doc.identity), NonEmpty(doc.transport),
        When("remaining_budget_ms" \in FieldNames(doc.transport) \cup FieldNames(doc.config),
             Refused("name_uniqueness")),
        When(\E t \in Spelled(doc.identity)
                      \cup Spelled(doc.config) : ContainsOptional(t),
             Refused("nullable_placement")),
        Annotations(doc), Shape(doc, "name_not_a_string"),
        When(doc.owned = "changed", Refused("engine_owned_identity"))>>)

ServiceTypeOf(doc) ==
    [identity |-> Declared(doc.identity),
     transport |-> Declared(doc.transport),
     config |-> Declared(doc.config)]

(***************************************************************************)
(* Pipelines and compositions: the declaration is `doc.decl`, its boundary  *)
(* written in `doc.inputs` and `doc.outputs`.                              *)
(***************************************************************************)

(* `_parse_node`, `_parse_preprocessors`: `missing` is kind, name or id.   *)
NodeEntry(doc, i, values) ==
    FirstRefusal(<<ShapeAt(doc, i, "missing"),
                   When(WrittenAt(doc, i, "unknown"), ClosedGrammar),
                   NodeValues(values), Maps(doc, i), ShapeAt(doc, i, "name_not_a_string")>>)

NodeEntries(doc, nodes) ==
    FirstRefusal(<<Shape(doc, "nodes_not_an_array")>> \o
        [i \in DOMAIN nodes |->
            NodeEntry(doc, i, IF nodes[i].form = "handler" THEN nodes[i].values ELSE <<>>)])

MetaTable(doc) ==
    FirstRefusal(<<Shape(doc, "meta_name"), When(Written(doc, "meta_unknown"), ClosedGrammar),
                   Shape(doc, "meta_name_not_a_string")>>)

PipelineSections == {"meta", "nodes", "service_bindings", "merge", "inputs", "outputs"}

(* `_parse_pipeline_body`: outputs may be left out, not left empty.        *)
PipelineBody(doc) ==
    <<NodeEntries(doc, doc.decl.nodes), SupplyBlocks(doc, doc.decl.supply), MergeTable(doc),
      Section(doc.inputs), Section(doc.outputs),
      When("outputs" \in doc.sections /\ doc.outputs = <<>>, Refused("body_required"))>>

PipelineCheck(doc) ==
    FirstRefusal(<<Closed(doc.sections, PipelineSections), Shape(doc, "meta"), MetaTable(doc)>>
                 \o PipelineBody(doc))

(* `_parse_trainable_node`.                                                *)
TrainedNode(doc) ==
    FirstRefusal(<<
        Shape(doc, "trainable"), When(Written(doc, "author_callable"), ClosedGrammar),
        When(Written(doc, "trainable_unknown"), ClosedGrammar),
        When(Written(doc, "trainable_header_missing"), Refused("section_presence")),
        Section(doc.reads), Section(doc.trained),
        NonEmpty(doc.reads), NonEmpty(doc.trained), Shape(doc, "config_not_a_table"),
        Shape(doc, "streamable_not_a_boolean"), ServiceDecls(doc)>>)

TrainableBody(doc) ==
    <<Present({"inputs", "outputs"}, doc.sections),
      Section(doc.inputs), Section(doc.outputs),
      NonEmpty(doc.outputs), Shape(doc, "preprocessors_not_an_array"),
      FirstRefusal([i \in DOMAIN doc.decl.pre |-> NodeEntry(doc, i, doc.decl.pre[i].values)]),
      SupplyBlocks(doc, doc.decl.supply), TrainedNode(doc), MergeTable(doc), Annotations(doc)>>

(* `parse_composition`, `_parse_bundle_composition` and                    *)
(* `_parse_pipeline_composition`.                                          *)
CompositionCheck(doc) ==
    LET grammar == CASE doc.decl.kind = "bundle" -> {"meta", "nodes", "annotations"}
                     [] doc.decl.kind = "pipeline" -> PipelineSections
                     [] OTHER -> {"meta", "inputs", "outputs", "preprocessors", "service_bindings",
                                  "trainable", "merge", "annotations"}
        body == CASE doc.decl.kind = "bundle" ->
                        <<NonEmpty(doc.decl.nodes), NodeEntries(doc, doc.decl.nodes), Annotations(doc)>>
                  [] doc.decl.kind = "pipeline" -> PipelineBody(doc)
                  [] OTHER -> TrainableBody(doc)
    IN  FirstRefusal(<<Shape(doc, "meta"),
                       When(Written(doc, "unknown_kind"), Refused("unknown_composition_kind")),
                       Closed(doc.sections, grammar), MetaTable(doc)>> \o body)

PortsOf(fields) == [i \in DOMAIN fields |-> [name |-> fields[i].name, type |-> fields[i].read.type]]
WithBoundary(doc) ==
    [doc.decl EXCEPT !.inputs = PortsOf(doc.inputs),
                     !.outputs = PortsOf(doc.outputs)]
DeclarationOf(doc) ==
    CASE doc.decl.kind = "bundle" -> doc.decl
      [] doc.decl.kind = "pipeline" -> WithBoundary(doc)
      [] OTHER -> [WithBoundary(doc) EXCEPT !.reads = PortsOf(doc.reads),
                        !.writes = PortsOf(doc.trained),
                        !.services = Bound(doc.services)]

(***************************************************************************)
(* The deployment: `parse_deployment`.                                     *)
(***************************************************************************)

(* Every value of the blocks of an arm, and of the overrides.              *)
ValueBlocks(d) == {d.transport[n] : n \in DOMAIN d.transport} \cup {d.hooks[n] : n \in DOMAIN d.hooks}
OverrideBlocks(d) == UNION {ValueBlocks(d.pipelines[p]) : p \in DOMAIN d.pipelines}

DeploymentCheck(doc) ==
    FirstRefusal(<<
        Closed(doc.sections, {"transport", "hook_transport", "training_contract", "training_export",
                              "artifacts", "acknowledged_drift", "annotations", "pipelines"}),
        Present({"training_contract"}, doc.sections),
        When(Written(doc, "integrity_missing"), Refused("body_required")),
        When(Written(doc, "contract_unknown"), ClosedGrammar),
        Shape(doc, "integrity_not_a_boolean"), Shape(doc, "audit_not_a_boolean"),
        Shape(doc, "block_not_a_table"),
        When(\E b \in ValueBlocks(doc.decl) : Spellings(b) # Fine, Malformed),
        Shape(doc, "override_not_a_table"),
        When(Written(doc, "override_unknown"), ClosedGrammar),
        When(\E b \in OverrideBlocks(doc.decl) : Spellings(b) # Fine, Malformed),
        Shape(doc, "export_not_a_table"), Shape(doc, "artifact_not_a_path"),
        Shape(doc, "acknowledged_not_a_list"), Annotations(doc)>>)

(* `loads` and `parse`, of a document whose fields are read.               *)
DocumentCheck(doc) ==
    IF Written(doc, "not_toml") THEN Malformed
    ELSE CASE doc.sort = "handler" -> HandlerCheck(doc)
           [] doc.sort = "service_type" -> ServiceTypeCheck(doc)
           [] doc.sort = "pipeline" -> PipelineCheck(doc)
           [] doc.sort = "composition" -> CompositionCheck(doc)
           [] OTHER -> DeploymentCheck(doc)

(* `add_service_type`, `add_handler`, `add_composition`, the pipeline and   *)
(* its deployment: what a registry is with the declaration in it.          *)
Registering(r, doc) ==
    CASE doc.sort = "handler" -> [r EXCEPT !.handlers = (doc.name :> HandlerOf(doc)) @@ @]
      [] doc.sort = "service_type" -> [r EXCEPT !.types = (doc.name :> ServiceTypeOf(doc)) @@ @]
      [] doc.sort = "composition" -> [r EXCEPT !.comps = (doc.name :> DeclarationOf(doc)) @@ @]
      [] doc.sort = "pipeline" -> [r EXCEPT !.root = DeclarationOf(doc)]
      [] OTHER -> [r EXCEPT !.deployment = <<doc.decl>>]
=============================================================================
