------------------------------- MODULE Assembly -------------------------------
(***************************************************************************)
(* Stage 4 of a load: `assemble` joins every node of a compiled graph to   *)
(* the declaration it names and builds the runnable a run executes; an     *)
(* embed is compiled again and assembled by recursion.  A frame of `asm`   *)
(* is one `_assemble_impl` call in progress, the outermost first.          *)
(*                                                                         *)
(* A node whose join fails raises: a contract violation of its own (a       *)
(* value that does not fit), or an engine error ("drift") for what compile *)
(* guarantees.  Resolving names to code is left out: every callable, adapter*)
(* and compiler resolves.                                                  *)
(***************************************************************************)
EXTENDS Hashes

VARIABLES asm, built

assembly == <<asm, built>>

NotBuilt == [status |-> "none"]

Opened(unit) == [unit |-> unit, at |-> 1, compiled |-> FALSE, adapters |-> <<>>, nodes |-> <<>>]

Joining == asm[Len(asm)]
Joined == Joining.unit.flat[Joining.at]

AssembleInit == asm = <<>> /\ built = NotBuilt

(* `compile_pipeline` came back: its unit is assembled.                    *)
UnitOf(path) == CHOOSE d \in done : d.path = path

BeginAssembly ==
    /\ stack = <<>> /\ outcome.status = "compiled"
    /\ asm = <<>> /\ built = NotBuilt
    /\ asm' = <<Opened(UnitOf("root"))>>
    /\ UNCHANGED <<vars, built>>

Fail(status, check) ==
    /\ built' = [status |-> status, check |-> check]
    /\ asm' = <<>>
    /\ UNCHANGED vars

(* A runnable node joins the frame; the adapters are kept by scope and      *)
(* handle for the rest of the call.                                        *)
Join(node, adapters) ==
    /\ asm' = [asm EXCEPT ![Len(asm)] =
                [Joining EXCEPT !.nodes = Append(@, node), !.at = @ + 1,
                                !.adapters = adapters, !.compiled = FALSE]]
    /\ UNCHANGED <<vars, built>>

(***************************************************************************)
(* What a join looks up.                                                   *)
(***************************************************************************)

(* A block's values as they are delivered: the reserved null is None.      *)
Delivered(block) == [k \in DOMAIN block |->
                        IF ExplicitNull(block[k]) = "yes" THEN None ELSE block[k]]

Blocks(arm, name) == UNION {Covering(d, Joining.unit.decl.name, arm, name) : d \in ToSet(reg.deployment)}

(* Mutant of TransportOf: the shared block goes before the override.       *)
TransportOfShared(arm, name) ==
    LET shared == UNION {{d[arm][name] : x \in {name} \cap DOMAIN d[arm]} : d \in ToSet(reg.deployment)}
    IN  {Delivered(b) : b \in IF shared # {} THEN shared ELSE Blocks(arm, name)}

(* `_transport_for_binding` and `_transport_for_hook_body`: the values, or  *)
(* nothing when no block covers the name.                                  *)
TransportOf(arm, name) == {Delivered(b) : b \in Blocks(arm, name)}

Or(values, none) == IF values = {} THEN none ELSE CHOOSE v \in values : TRUE

(* The value of a declared binding: `resolve_and_compile`'s artifact, or    *)
(* the supplied or default one in canonical form.                          *)
BindingValue(h, values, b) ==
    IF h.bindings[b].compile THEN [form |-> "artifact", of |-> h.bindings[b].params]
    ELSE Normalized(h.bindings[b].fields,
            IF b \in DOMAIN values THEN Content(values[b]) ELSE h.bindings[b].default[1])

(* `_resolve_bindings` and `_validate_binding_value`.                      *)
BindingErrors(h, values) ==
    LET unsupplied(b) == ~h.bindings[b].compile /\ b \notin DOMAIN values /\ h.bindings[b].default = <<>>
        value(b) == BindingValue(h, values, b)
    IN
    {<<"drift", "bindings">> : b \in DOMAIN values \ DOMAIN h.bindings}
    \cup {<<"drift", "bindings">> : b \in {x \in DOMAIN h.bindings : unsupplied(x)}}
    \cup {<<"refused", "explicit_null_target">> :
            b \in {x \in DOMAIN h.bindings : ~unsupplied(x) /\ value(x) = Rejected}}
    \cup {<<"refused", "binding_value_shape">> :
            b \in {x \in DOMAIN h.bindings :
                    /\ ~unsupplied(x) /\ ~h.bindings[x].compile
                    /\ h.bindings[x].fields # <<>> /\ value(x) # Rejected
                    /\ ~FitsFields(h.bindings[x].fields, value(x))}}

(* The identity supply, the effective config and the transport of one       *)
(* service-typed binding; `config` is what is supplied to its type.        *)
ServiceErrors(sb, supplies, config) ==
    IF sb.name \notin DOMAIN supplies \/ sb.type \notin DOMAIN reg.types
    THEN {<<"drift", "service_binding">>}
    ELSE LET st == reg.types[sb.type] IN
         {<<"drift", "config_schema_supply">> : x \in ConfigFaults(config, st)}
         \cup {<<"drift", "transport">> :
                x \in {y \in {st} : TransportOf("transport", sb.name) = {} /\ y.transport # <<>>}}

ServiceRuntime(sb, supplies, config) ==
    [name |-> sb.name, type |-> sb.type, identity |-> supplies[sb.name].identity,
     config |-> EffectiveConfig(config, reg.types[sb.type]),
     transport |-> Or(TransportOf("transport", sb.name), <<>>)]

HookName(n) == IF n.from = "outer" THEN <<n.name>> ELSE <<reg.comps[n.from].name, n.member>>

HookErrors(n, h) ==
    {<<"drift", "hook_transport">> :
        x \in {y \in {h.transport} : y # <<>> /\
                ~\E b \in TransportOf("hooks", HookName(n)) : FieldNames(y) \subseteq DOMAIN b}}

HookTransport(n, h) ==
    IF h.transport = <<>> THEN <<>>
    ELSE LET block == Or(TransportOf("hooks", HookName(n)), <<>>)
         IN  [k \in FieldNames(h.transport) |-> block[k]]

(* The first of the join's stages that fails raises; which of one stage's   *)
(* errors it raises is left open.                                          *)
FirstErrors(stages) ==
    IF \E i \in DOMAIN stages : stages[i] # {}
    THEN stages[CHOOSE i \in DOMAIN stages :
                    stages[i] # {} /\ \A j \in 1..(i - 1) : stages[j] = {}]
    ELSE {}

RunnableNode(n, bindings, services, hook) ==
    [kind |-> n.kind, name |-> n.name, from |-> n.from, reads |-> n.reads,
     writes |-> n.writes, bindings |-> bindings, services |-> services,
     hook |-> hook, inner |-> <<>>]

(***************************************************************************)
(* One action per kind of node.                                            *)
(***************************************************************************)
Joins(kinds) == /\ stack = <<>> /\ asm # <<>>
                /\ Joining.at \in DOMAIN Joining.unit.flat
                /\ Joined.kind \in kinds

SuppliesOf(n) == IF n.from = "outer" THEN Joining.unit.decl.supply ELSE reg.comps[n.from].supply

(* Mutant of AdapterKey: the scope is left out.                            *)
AdapterKeyOfHandle(n, sb) == <<"-", sb.name>>
(* The adapter of a scope's handle is constructed once per assembly, from   *)
(* the identity at hand, and shared.                                       *)
AdapterKey(n, sb) == <<n.from, sb.name>>
Keeping(adapters, key, fresh) ==
    [k \in DOMAIN adapters \cup {key} |-> IF k \in DOMAIN adapters THEN adapters[k] ELSE fresh]

AssembleBare ==
    /\ Joins({"transform", "service", "hook"})
    /\ LET h == reg.handlers[Joined.name]
           supplies == SuppliesOf(Joined)
           config == IF h.services = <<>> THEN <<>> ELSE supplies[h.services[1].name].config
           errors == FirstErrors(<<BindingErrors(h, Joined.values),
                UNION {ServiceErrors(sb, supplies, supplies[sb.name].config) : sb \in ToSet(h.services)},
                IF h.kind = "hook" THEN HookErrors(Joined, h) ELSE {}>>)
           bindings == [b \in DOMAIN h.bindings |-> BindingValue(h, Joined.values, b)]
           hook == IF h.kind = "hook" THEN HookTransport(Joined, h) ELSE <<>>
       IN
       IF errors # {} THEN \E e \in errors : Fail(e[1], e[2])
       ELSE IF h.services = <<>>
       THEN Join(RunnableNode(Joined, bindings, <<>>, hook), Joining.adapters)
       ELSE LET sb == h.services[1]
                key == AdapterKey(Joined, sb)
                fresh == [type |-> sb.type, identity |-> supplies[sb.name].identity]
                adapters == Keeping(Joining.adapters, key, fresh)
            IN  Join(RunnableNode(Joined, bindings,
                        <<[ServiceRuntime(sb, supplies, config)
                           EXCEPT !.type = adapters[key].type, !.identity = adapters[key].identity]>>,
                        hook), adapters)

AssembleTrainable ==
    /\ Joins({"trainable"})
    /\ LET t == reg.comps[Joined.from]
           sb == t.services[1]
           errors == ServiceErrors(sb, t.supply, t.config)
       IN  IF errors # {} THEN \E e \in errors : Fail(e[1], e[2])
           ELSE Join(RunnableNode(Joined, EffectiveConfig(t.config, reg.types[sb.type]),
                        <<ServiceRuntime(sb, t.supply, t.config)>>, <<>>), Joining.adapters)

(* The embedded pipeline is compiled again, in a compile call of its own.  *)
RecompileEmbed ==
    /\ Joins({"pipeline"}) /\ ~Joining.compiled
    /\ stack' = <<Frame(Joined.from, reg.comps[Joined.from])>>
    /\ outcome' = [status |-> "compiling"]
    /\ asm' = [asm EXCEPT ![Len(asm)] = [Joining EXCEPT !.compiled = TRUE]]
    /\ UNCHANGED <<reg, done, built>>

AssembleEmbed ==
    /\ Joins({"pipeline"}) /\ Joining.compiled
    /\ IF outcome.status = "refused" THEN Fail("drift", "recompile")
       ELSE /\ asm' = Append(asm, Opened(UnitOf(Joined.from)))
            /\ UNCHANGED <<vars, built>>

(***************************************************************************)
(* What a run of a runnable computes, which is all that is kept of a        *)
(* closed one: hooks observe only, a transport says where and not what, and *)
(* a port without a map entry is wired all the same.                       *)
(***************************************************************************)
Ports(n) ==
    CASE n.kind = "trainable" -> [reads |-> reg.comps[n.from].reads, writes |-> reg.comps[n.from].writes]
      [] n.kind = "pipeline" -> [reads |-> reg.comps[n.from].inputs, writes |-> reg.comps[n.from].outputs]
      [] OTHER -> [reads |-> reg.handlers[n.name].reads, writes |-> reg.handlers[n.name].writes]

(* A trainable's backend generates its outputs in the order declared.      *)
Body(n) == IF n.kind = "trainable" THEN Chans(n.writes) ELSE n.name

(* The ports written to a channel, in the order they are folded.           *)
Folded(n, chan) ==
    LET ports == SelectSeq([i \in DOMAIN n.writes |-> i], LAMBDA i : n.writes[i].chan = chan)
    IN  [k \in DOMAIN ports |-> Ports(n).writes[ports[k]].name]

Called(services) ==
    [i \in DOMAIN services |->
        [name |-> services[i].name, type |-> services[i].type,
         identity |-> services[i].identity, config |-> services[i].config]]

NodeMeaning(n) ==
    [kind |-> n.kind, body |-> Body(n),
     reads |-> {<<Ports(n).reads[i].name, n.reads[i].chan, n.reads[i].type>> : i \in DOMAIN n.reads},
     writes |-> [c \in ToSet(Chans(n.writes)) |-> Folded(n, c)],
     bindings |-> n.bindings, services |-> Called(n.services), inner |-> n.inner]

Meaning(f) ==
    LET heard == SelectSeq(f.nodes, LAMBDA n : n.kind # "hook") IN
    [nodes |-> [i \in DOMAIN heard |-> NodeMeaning(heard[i])],
     merges |-> [c \in DOMAIN f.unit.merges |-> f.unit.merges[c].strategy],
     inputs |-> ToSet(f.unit.decl.inputs), outputs |-> ToSet(f.unit.decl.outputs)]

CloseAssembly ==
    /\ stack = <<>> /\ asm # <<>> /\ Joining.at \notin DOMAIN Joining.unit.flat
    /\ IF Len(asm) = 1
       THEN /\ built' = [status |-> "assembled", meaning |-> Meaning(Joining),
                         hash |-> PipelineHash(reg, Joining.unit.decl)]
            /\ asm' = <<>>
            /\ UNCHANGED vars
       ELSE LET outer == asm[Len(asm) - 1]
                node == [RunnableNode(outer.unit.flat[outer.at], <<>>, <<>>, <<>>)
                         EXCEPT !.inner = <<Meaning(Joining)>>]
            IN  /\ asm' = Append(SubSeq(asm, 1, Len(asm) - 2),
                        [outer EXCEPT !.nodes = Append(@, node), !.at = @ + 1, !.compiled = FALSE])
                /\ UNCHANGED <<vars, built>>

Assemble == \/ BeginAssembly \/ AssembleBare \/ AssembleTrainable
            \/ RecompileEmbed \/ AssembleEmbed \/ CloseAssembly

(* Compile and assembly of a registry that stays as it is.                  *)
AssemblyNext == (Next /\ UNCHANGED assembly) \/ Assemble
AssemblySpec == Init /\ AssembleInit /\ [][AssemblyNext]_<<vars, assembly>>

(***************************************************************************)
(* Properties.                                                             *)
(***************************************************************************)

(* The runnable nodes of the frames in progress.                           *)
BuiltNodes == UNION {ToSet(asm[i].nodes) : i \in DOMAIN asm}

(* What compile accepts with a deployment assembles without an engine       *)
(* error: every supply, transport block and inner graph a join looks for is *)
(* there, however scopes share handles and pipelines share blocks.  A       *)
(* preprocessor under the handle of its composition's backend is the        *)
(* exception: compile takes its config for the backend's, assembly does not.*)
AcceptedAssembles == reg.deployment # <<>> => built.status # "drift"

(* The scope a node's service handles are supplied in.                     *)
ScopeSupply(f, n) == IF n.from = "outer" THEN f.unit.decl.supply ELSE reg.comps[n.from].supply

(* However many nodes share an adapter, each calls the one its own scope    *)
(* supplied: the type and the identity behind its handle are that scope's. *)
SharedAdapterAgrees ==
    \A i \in DOMAIN asm : \A n \in ToSet(asm[i].nodes) : \A sv \in ToSet(n.services) :
        LET supplied == ScopeSupply(asm[i], n)[sv.name]
        IN  sv.type = supplied.type /\ sv.identity = supplied.identity

(* The transport a node is handed is complete for its service-type, with a  *)
(* None only where that is nullable: the block that was covered at compile *)
(* is the block delivered.                                                 *)
DeliveredTransportFits ==
    \A n \in BuiltNodes : \A sv \in ToSet(n.services) :
        LET fields == reg.types[sv.type].transport IN
        /\ DOMAIN sv.transport = FieldNames(fields)
        /\ \A f \in ToSet(fields) : sv.transport[f.name] = None => IsNullable(f)
=============================================================================
