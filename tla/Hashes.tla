-------------------------------- MODULE Hashes --------------------------------
(***************************************************************************)
(* The pipeline-hash and the training-bundle-hash.  A hash is the canonical *)
(* structure it is taken over: a map for what is keyed by name, a sequence *)
(* for what has an order, equality of structures for equality of digests.  *)
(***************************************************************************)
EXTENDS CompilePipeline

(* `canon_field`, `canon_schema`: keyed by name, so the order of the fields *)
(* is not in it; `canon_schema_ordered`: it is.                            *)
CanonField(f) == IF "default" \in DOMAIN f THEN [type |-> f.type, default |-> f.default]
                 ELSE [type |-> f.type]
CanonSchema(fields) ==
    [n \in FieldNames(fields) |-> CanonField(FieldOf(fields, n))]
CanonSchemaOrdered(fields) ==
    [i \in DOMAIN fields |-> [name |-> fields[i].name, body |-> CanonField(fields[i])]]

(* `_canon_binding_decl_body`.                                             *)
CanonBinding(b) ==
    IF b.compile THEN [form |-> "compile", params |-> b.params]
    ELSE [form |-> "schema", fields |-> CanonSchema(b.fields),
          default |-> [i \in DOMAIN b.default |-> Normalized(b.fields, b.default[i])]]

CanonServices(services) == [n \in FieldNames(services) |-> FieldOf(services, n).type]

(* `_canon_handler_decl`.                                                  *)
CanonHandler(h) ==
    [kind |-> h.kind, reads |-> CanonSchema(h.reads), outputs |-> CanonSchema(h.writes),
     services |-> CanonServices(h.services),
     bindings |-> [b \in DOMAIN h.bindings |-> CanonBinding(h.bindings[b])]]

(* Mutant of EffectiveBindings: an omitted binding is not folded, a         *)
(* supplied one as it is spelled.                                          *)
SuppliedBindings(h, values) == values

(* `canon_supplied_bindings`: supplied or default, in canonical form.      *)
EffectiveBindings(h, values) ==
    LET defaulted == {b \in DOMAIN h.bindings : ~h.bindings[b].compile /\ h.bindings[b].default # <<>>}
        raw(b) == IF b \in DOMAIN values THEN Content(values[b]) ELSE h.bindings[b].default[1]
    IN  [b \in DOMAIN values \cup defaulted |-> Normalized(h.bindings[b].fields, raw(b))]

(* `desugar_map`.                                                          *)
Desugared(map, ports) ==
    [p \in FieldNames(ports) |-> IF p \in DOMAIN map THEN map[p] ELSE <<p>>]

IsHookEntry(r, e) == r.handlers[e.name].kind = "hook"

(* `_canon_resolved_handler_node`, for a node and for a preprocessor.      *)
CanonHandlerNode(r, e) ==
    LET h == r.handlers[e.name] IN
    [name |-> e.name, reads_map |-> Desugared(e.rmap, h.reads),
     writes_map |-> Desugared(e.wmap, h.writes),
     bindings |-> EffectiveBindings(h, e.values), handler |-> CanonHandler(h)]

(* `canon_service_supply`, with and without the effective config.          *)
CanonSupply(s) == [type |-> s.type, identity |-> s.identity]
CanonSupplyWithConfig(r, s) ==
    [type |-> s.type, identity |-> s.identity,
     config |-> EffectiveConfig(s.config, r.types[s.type])]

(* The supply names the non-hook entries among `entries` refer to.         *)
NonHookReferenced(r, entries) ==
    UNION {FieldNames(r.handlers[e.name].services) : e \in {x \in entries : ~IsHookEntry(r, x)}}

(* `training_bundle_hash`: the composition in isolation.                   *)
TrainingBundleHash(r, t) ==
    LET pre == SelectSeq(t.pre, LAMBDA p : ~IsHookEntry(r, p))
        backend == FieldNames(t.services)
        referenced == backend \cup NonHookReferenced(r, ToSet(t.pre))
    IN
    [inputs |-> CanonSchema(t.inputs), outputs |-> CanonSchema(t.outputs),
     preprocessors |-> [i \in DOMAIN pre |->
        [id |-> pre[i].id, kind |-> r.handlers[pre[i].name].kind,
         core |-> CanonHandlerNode(r, pre[i])]],
     supply |-> [n \in DOMAIN t.supply \cap referenced |->
        IF n \in backend THEN CanonSupply(t.supply[n])
        ELSE CanonSupplyWithConfig(r, t.supply[n])],
     config |-> EffectiveConfig(t.config, r.types[t.services[1].type]),
     services |-> CanonServices(t.services),
     reads |-> CanonSchema(t.reads), output_schema |-> CanonSchemaOrdered(t.writes),
     merge |-> t.merge]

(* `_canon_pipeline_node`; `inner` is the hash of a pipeline embed.        *)
CanonNode(r, e, inner) ==
    CASE e.form = "handler" -> [node |-> "handler", core |-> CanonHandlerNode(r, e)]
      [] e.form = "composition" /\ e.name \in Embeds(r, "trainable") ->
            [node |-> "composition", training_bundle_hash |-> TrainingBundleHash(r, r.comps[e.name])]
      [] OTHER -> [node |-> "composition", pipeline_hash |-> inner]

(* `pipeline_hash`: bundles substituted, hooks left out, an embed by its    *)
(* own hash; `meta` contributes nothing.  A compiled pipeline embeds itself *)
(* nowhere, so the set of paths on the way only bounds the recursion.      *)
PipelineHash(r, decl) ==
    LET Paths == Embeds(r, "pipeline")
        Hash[s \in SUBSET Paths, p \in Paths \cup {"root"}] ==
            LET d == IF p = "root" THEN decl ELSE r.comps[p]
                nodes == SelectSeq(Substituted(r, d.nodes), LAMBDA e : ~IsHook(r, e))
                inner(e) == IF e.name \in Paths \ s THEN Hash[s \cup {e.name}, e.name] ELSE <<>>
                handlers == {e \in ToSet(nodes) : e.form = "handler"}
            IN  [nodes |-> [i \in DOMAIN nodes |-> CanonNode(r, nodes[i], inner(nodes[i]))],
                 supply |-> [n \in DOMAIN d.supply \cap NonHookReferenced(r, handlers) |->
                                CanonSupplyWithConfig(r, d.supply[n])],
                 merge |-> d.merge,
                 inputs |-> CanonSchema(d.inputs), outputs |-> CanonSchema(d.outputs)]
    IN  Hash[{}, "root"]
=============================================================================
