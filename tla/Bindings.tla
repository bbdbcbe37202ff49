------------------------------- MODULE Bindings -------------------------------
(***************************************************************************)
(* What a declaration supplies to the bindings its nodes declare, and what *)
(* a deployment supplies to the transports: the reductions of a supplied   *)
(* value and the compose-time supply and coverage checks.                  *)
(*                                                                         *)
(* A field is [name, type, default], default being <<>> or <<value>>; of a *)
(* type only the outer kind is looked at (see ChannelTypes).  A value is   *)
(*   [form |-> "scalar", base, x]   a TOML scalar; base "datetime" is the  *)
(*                                  one JSON has no form for               *)
(*   [form |-> "table", keys]       an inline table, keys a function       *)
(*   [form |-> "ref", scheme]       a well-formed "[scheme]payload" string *)
(*   [form |-> "file", content]     a { file = "..." } supply, resolved    *)
(*   [form |-> "none"]              Python's None                          *)
(* A fault is a pair of the check and what it is about.                    *)
(***************************************************************************)
EXTENDS Naturals, Sequences, FiniteSets, SequencesExt

Scalar(base, x) == [form |-> "scalar", base |-> base, x |-> x]
Keyed(keys) == [form |-> "table", keys |-> keys]
None == [form |-> "none"]
FromFile(content) == [form |-> "file", content |-> content]
Rejected == [form |-> "rejected"]

FieldNames(fields) == {fields[i].name : i \in DOMAIN fields}
FieldOf(fields, name) ==
    fields[CHOOSE i \in DOMAIN fields : fields[i].name = name]
IsNullable(field) == field.type.kind = "optional"

(* `is_explicit_null`: `null` is a reserved key, with one spelling.        *)
ExplicitNull(v) ==
    CASE v.form # "table" -> "no"
      [] v.form = "table" /\ "null" \notin DOMAIN v.keys -> "no"
      [] v.form = "table" /\ DOMAIN v.keys = {"null"}
         /\ v.keys["null"] = Scalar("bool", "true") -> "yes"
      [] OTHER -> "malformed"

(* What a node supplies: the content of a file stands for itself.           *)
Content(v) == IF v.form = "file" THEN v.content ELSE v

(* `normalize_binding_value`: a single-field binding's value is the bare   *)
(* one however it was spelled; spelled nulls are resolved, whole and one   *)
(* level down, where the field is nullable.  Which of several misplaced    *)
(* nulls is raised is left out.                                            *)
Normalized(fields, v) ==
    LET single == Len(fields) = 1
        keyed == v.form = "table" /\ (~single \/ DOMAIN v.keys = FieldNames(fields))
        spelled(k) == IF k \in FieldNames(fields) THEN ExplicitNull(v.keys[k]) ELSE "no"
        misplaced(k) == \/ spelled(k) = "malformed"
                        \/ spelled(k) = "yes" /\ ~IsNullable(FieldOf(fields, k))
        resolved == [k \in DOMAIN v.keys |->
                        IF spelled(k) = "yes" THEN None ELSE v.keys[k]]
    IN  CASE ExplicitNull(v) = "malformed" -> Rejected
          [] ExplicitNull(v) = "yes" ->
                IF single /\ IsNullable(fields[1]) THEN None ELSE Rejected
          [] ExplicitNull(v) = "no" /\ ~keyed -> v
          [] OTHER -> IF \E k \in DOMAIN v.keys : misplaced(k) THEN Rejected
                      ELSE IF single THEN resolved[fields[1].name]
                      ELSE Keyed(resolved)

(* A value against a type, as the strict generated models have it; of the  *)
(* collections only `table` is given values.                               *)
FitsPlain(type, v) ==
    CASE type.kind = "primitive" -> v.form = "scalar" /\ v.base = type.of
      [] type.kind = "table" -> v.form = "table"
      [] OTHER -> FALSE
Fits(type, v) ==
    IF type.kind = "optional" THEN v.form = "none" \/ FitsPlain(type.inner, v)
    ELSE FitsPlain(type, v)

(* The canonical value of a binding against its fields.                    *)
FitsFields(fields, v) ==
    IF Len(fields) = 1 THEN Fits(fields[1].type, v)
    ELSE /\ v.form = "table"
         /\ DOMAIN v.keys = FieldNames(fields)
         /\ \A i \in DOMAIN fields : Fits(fields[i].type, v.keys[fields[i].name])

(***************************************************************************)
(* Config supplies: `config_supply_violations` and `effective_config`.     *)
(***************************************************************************)

(* `first_non_json_expressible`, one level deep.                           *)
NotJson(v) ==
    \/ v.form = "scalar" /\ v.base = "datetime"
    \/ v.form = "table" /\ \E k \in DOMAIN v.keys :
            v.keys[k].form = "scalar" /\ v.keys[k].base = "datetime"

(* A declared key with a malformed null: the scan raises out of the caller. *)
BrokenNull(config, st) ==
    \E k \in DOMAIN config \cap FieldNames(st.config) : ExplicitNull(config[k]) = "malformed"

Effective(config, field) ==
    IF field.name \in DOMAIN config THEN config[field.name] ELSE field.default[1]

ConfigFaults(config, st) ==
    LET covered(f) == f.name \in DOMAIN config \/ f.default # <<>>
    IN
    {<<"config_schema_supply", <<"key", k>>>> : k \in DOMAIN config \ FieldNames(st.config)}
    \cup {<<"explicit_null_target", <<"key", k>>>> :
            k \in {c \in DOMAIN config \cap FieldNames(st.config) :
                    ExplicitNull(config[c]) = "yes"}}
    \cup {<<"config_schema_supply", <<"field", f.name>>>> :
            f \in {g \in ToSet(st.config) :
                \/ ~covered(g)
                \/ covered(g) /\ g.type.kind = "table" /\ NotJson(Effective(config, g))}}

EffectiveConfig(config, st) ==
    [k \in FieldNames(st.config) |-> Effective(config, FieldOf(st.config, k))]

(***************************************************************************)
(* Binding supply.                                                         *)
(***************************************************************************)

(* `_check_schema_binding_supply` for one node: declared bindings against   *)
(* the supplied ones.                                                      *)
SchemaSupplyFaults(bindings, values) ==
    {<<"binding_supply", <<"unsupplied", b>>>> :
        b \in {d \in DOMAIN bindings \ DOMAIN values :
                ~bindings[d].compile /\ bindings[d].default = <<>>}}
    \cup {<<"binding_supply", <<"supplied", b>>>> :
            b \in {v \in DOMAIN values :
                    v \in DOMAIN bindings => bindings[v].compile}}

(* `_check_identity_coverage_and_placement`.                               *)
IdentityFaults(supply, st) ==
    {<<IF ExplicitNull(supply.identity[k]) = "yes" THEN "explicit_null_target"
       ELSE "malformed_declaration", <<"identity", k>>>> :
        k \in {i \in DOMAIN supply.identity : ExplicitNull(supply.identity[i]) # "no"}}
    \cup {<<"identity_transport_placement", <<"identity", k>>>> :
            k \in DOMAIN supply.identity \ FieldNames(st.identity)}
    \cup {<<"binding_supply", <<"identity", k>>>> :
            k \in FieldNames(st.identity) \ DOMAIN supply.identity}

(* One service-typed binding against the supplies of its scope; `backend`   *)
(* are the names whose config goes elsewhere.                              *)
OneSupplyFaults(types, sb, supplies, backend) ==
    LET supply == supplies[sb.name]
        st == types[sb.type]
    IN  IF sb.name \notin DOMAIN supplies \/ supply.type # sb.type
        THEN {<<"binding_supply", <<"service", sb.name>>>>}
        ELSE IF sb.type \notin DOMAIN types
        THEN {<<"service_type_resolution", <<"service", sb.name>>>>}
        ELSE IdentityFaults(supply, st) \cup
             IF sb.name \notin backend THEN ConfigFaults(supply.config, st)
             ELSE {<<"config_schema_supply", <<"service", n>>>> :
                    n \in {m \in {sb.name} : DOMAIN supply.config # {}}}

(* The service-typed bindings a scope's nodes declare, and its orphans.    *)
ServiceSupplyFaults(types, declared, supplies, backend) ==
    {<<"binding_supply", <<"orphan", n>>>> :
        n \in DOMAIN supplies \ {sb.name : sb \in declared}}
    \cup UNION {OneSupplyFaults(types, sb, supplies, backend) : sb \in declared}

(***************************************************************************)
(* Deployment coverage.  A deployment is [transport, hooks, pipelines]:    *)
(* blocks by binding handle, blocks by hook name, and per pipeline name    *)
(* the overrides of both.                                                  *)
(***************************************************************************)

(* The block that covers a name, if any: the pipeline's override first.    *)
Covering(deployment, pipeline, arm, name) ==
    LET overrides == IF pipeline \in DOMAIN deployment.pipelines
                     THEN deployment.pipelines[pipeline][arm] ELSE <<>>
    IN  CASE name \in DOMAIN overrides -> {overrides[name]}
          [] name \notin DOMAIN overrides /\ name \in DOMAIN deployment[arm] ->
                {deployment[arm][name]}
          [] OTHER -> {}

IsSecret(type) == type.kind = "secret_ref" \/
                  (type.kind = "optional" /\ type.inner.kind = "secret_ref")

(* `_secret_ref_shape_violations`: the grammar, the scheme, the import.    *)
SecretFaults(v, about) ==
    CASE v.form # "ref" -> {<<"secret_ref_malformed", about>>}
      [] v.form = "ref" /\ v.scheme = "unknown" -> {<<"secret_ref_scheme_unknown", about>>}
      [] v.form = "ref" /\ v.scheme = "unloadable" -> {<<"secret_resolver_invalid", about>>}
      [] OTHER -> {}

(* A supplied transport value: the reserved null first, then the secret    *)
(* reference, then what else the arm checks.                               *)
ValueFaults(field, v, about, other) ==
    CASE ExplicitNull(v) = "malformed" -> {<<"malformed_declaration", about>>}
      [] ExplicitNull(v) = "yes" ->
            IF IsNullable(field) THEN {} ELSE {<<"explicit_null_target", about>>}
      [] ExplicitNull(v) = "no" /\ IsSecret(field.type) -> SecretFaults(v, about)
      [] OTHER -> other

(* Mutant of BlockFaults: a nullable field may be left out.                *)
BlockFaultsOfRequired(fields, block, unknown, missing, typed, about) ==
    {<<unknown, Append(about, k)>> : k \in DOMAIN block \ FieldNames(fields)}
    \cup {<<missing, Append(about, f.name)>> :
            f \in {g \in ToSet(fields) : g.name \notin DOMAIN block /\ ~IsNullable(g)}}

(* One block against a transport_schema.                                   *)
BlockFaults(fields, block, unknown, missing, typed, about) ==
    {<<unknown, Append(about, k)>> : k \in DOMAIN block \ FieldNames(fields)}
    \cup {<<missing, Append(about, k)>> : k \in FieldNames(fields) \ DOMAIN block}
    \cup UNION {ValueFaults(f, block[f.name], Append(about, f.name),
                    IF typed /\ ~Fits(f.type, block[f.name])
                    THEN {<<missing, Append(about, f.name)>>} ELSE {}) :
                f \in {g \in ToSet(fields) : g.name \in DOMAIN block}}

(* A handle, the types it is bound to across scopes: one block cannot       *)
(* satisfy two transport_schemas.                                          *)
HandleFaults(types, handle, bound, blocks) ==
    CASE Cardinality(bound) > 1 -> {<<"transport_handle_coherence", <<"handle", handle>>>>}
      [] Cardinality(bound) = 1 /\ blocks = {} -> {<<"transport_coverage", <<"handle", handle>>>>}
      [] OTHER -> UNION {UNION {BlockFaults(types[t].transport, b, "identity_transport_placement",
                                   "transport_coverage", FALSE, <<"handle", handle>>) :
                                t \in bound \cap DOMAIN types} : b \in blocks}

HookFaults(fields, hook, blocks) ==
    IF blocks = {} THEN {<<"hook_transport_coverage", <<"hook", hook>>>>}
    ELSE UNION {BlockFaults(fields, b, "hook_transport_coverage",
                    "hook_transport_coverage", TRUE, <<"hook", hook>>) : b \in blocks}

(* `_check_deployment_coverage`: `bound` maps each handle of the composed  *)
(* scope to the types supplied under it, `hooks` are the hooks with their  *)
(* addresses and transport_schema fields.                                  *)
CoverageFaults(types, deployment, pipeline, bound, hooks) ==
    LET overrides(arm) == IF pipeline \in DOMAIN deployment.pipelines
                          THEN DOMAIN deployment.pipelines[pipeline][arm] ELSE {}
        covering(arm, name) == Covering(deployment, pipeline, arm, name)
    IN
    {<<"deployment_override_target", <<"handle", n>>>> :
        n \in overrides("transport") \ DOMAIN bound}
    \cup {<<"deployment_override_target", <<"hook", n>>>> :
            n \in overrides("hooks") \ {h[1] : h \in hooks}}
    \cup (UNION {HandleFaults(types, h, bound[h], covering("transport", h)) : h \in DOMAIN bound})
    \cup UNION {HookFaults(h[2], h[1], covering("hooks", h[1])) : h \in hooks}
=============================================================================
