-------------------------- MODULE CompilePipeline ---------------------------
(***************************************************************************)
(* `compile_pipeline`: a pipeline declaration and the registry it is read  *)
(* against become one compiled graph, or a group of violations.  Bundles   *)
(* are substituted, handlers and trainable compositions flattened, nested  *)
(* pipelines compiled by recursion; then the topology rules run, then the  *)
(* deployment coverage.  The recursion is the variable `stack`: a frame per *)
(* `compile_pipeline` call in progress, the outermost first.               *)
(*                                                                         *)
(* A channel is the sequence of the names its dotted string is made of:    *)
(* <<"c">> for `c`, <<"t", "c">> for `t.c`.  A registry is a record        *)
(*   handlers   : name -> [kind, reads, writes, services, bindings,        *)
(*                transport]                                               *)
(*   types      : service-type -> [identity, transport, config]            *)
(*   comps      : path -> a trainable, bundle or pipeline declaration      *)
(*   root       : the pipeline declaration to compile                      *)
(*   deployment : <<>>, or <<d>> for the deployment d it is paired with    *)
(* in which a name outside a domain is a name nothing was registered under.*)
(* A port is [name, type]; fields, values and supplies are as in Bindings. *)
(***************************************************************************)
EXTENDS PipelineGraph, Bindings, TLC

CONSTANTS
    Registries,     \* a sequence of families (sets) of registries to start from
    Cyclic          \* what a bundle that contains itself expands to

(* "outer" and "root" stand for the outermost declaration where the path of *)
(* a composition may stand, so they are none themselves.                   *)
ASSUME OuterIsNoPath ==
    \A k \in DOMAIN Registries : \A r \in Registries[k] : {"outer", "root"} \cap DOMAIN r.comps = {}

(* What parse guarantees of a registry: ports are lists of named ports, a   *)
(* body that writes to channels writes to some, a channel has a name.       *)
Dotted == Seq(STRING) \ {<<>>}
IsList(s) == s \in Seq(ToSet(s))
PortList(ports) == IsList(ports) /\ \A i \in DOMAIN ports : ports[i].name \in STRING
MapTyped(map) == \A k \in DOMAIN map : map[k] \in Dotted

HandlerTyped(h) ==
    /\ {"kind", "reads", "writes", "services"} \subseteq DOMAIN h
    /\ h.kind \in {"transform", "service", "hook"}
    /\ PortList(h.reads) /\ PortList(h.writes) /\ IsList(h.services)
    /\ h.kind # "hook" => h.writes # <<>>

TrainableTyped(t) ==
    /\ {"name", "streamable", "reads", "writes", "services", "pre", "merge"} \subseteq DOMAIN t
    /\ t.name \in STRING /\ t.streamable \in BOOLEAN
    /\ PortList(t.reads) /\ PortList(t.writes) /\ t.writes # <<>>
    /\ IsList(t.services) /\ IsList(t.pre)
    /\ \A i \in DOMAIN t.pre : /\ {"rmap", "wmap"} \subseteq DOMAIN t.pre[i]
                               /\ MapTyped(t.pre[i].rmap) /\ MapTyped(t.pre[i].wmap)
    /\ DOMAIN t.merge \subseteq Dotted

PipelineTyped(p) == /\ {"name", "inputs", "outputs", "nodes", "supply"} \subseteq DOMAIN p
                    /\ PortList(p.inputs) /\ PortList(p.outputs) /\ IsList(p.nodes)

(* TOML has no form for Python's None.                                     *)
BlockTyped(block) == \A k \in DOMAIN block : block[k].form # "none"
DeploymentTyped(d) ==
    /\ \A n \in DOMAIN d.transport : BlockTyped(d.transport[n])
    /\ \A p \in DOMAIN d.pipelines : \A n \in DOMAIN d.pipelines[p].transport :
            BlockTyped(d.pipelines[p].transport[n])

RegistryTyped(r) ==
    /\ {"root", "comps", "handlers", "deployment"} \subseteq DOMAIN r /\ PipelineTyped(r.root)
    /\ IsFiniteSet(DOMAIN r.comps) /\ IsList(r.deployment)
    /\ \A d \in ToSet(r.deployment) : DeploymentTyped(d)
    /\ \A n \in DOMAIN r.handlers : HandlerTyped(r.handlers[n])
    /\ \A p \in DOMAIN r.comps :
        /\ "kind" \in DOMAIN r.comps[p]
        /\ r.comps[p].kind = "trainable" => TrainableTyped(r.comps[p])
        /\ r.comps[p].kind = "pipeline" => PipelineTyped(r.comps[p])
        /\ r.comps[p].kind = "bundle" => IsList(r.comps[p].nodes)

ASSUME RegistriesTyped ==
    \A k \in DOMAIN Registries : \A r \in Registries[k] : RegistryTyped(r)

VARIABLES reg, stack, outcome, done

vars == <<reg, stack, outcome, done>>

Embeds(r, kind) == {p \in DOMAIN r.comps : r.comps[p].kind = kind}

IsBundle(r, e) == e.form = "composition" /\ e.name \in Embeds(r, "bundle")

(* `substitute_bundle_nodes`: every bundle entry replaced by its content,  *)
(* recursively; a bundle met inside itself is `Cyclic` (the code raises).  *)
(* Inlined[s][p] is the content of p met inside the bundles s.             *)
Substituted(r, nodes) ==
    LET Inlined[s \in SUBSET Embeds(r, "bundle")] == [p \in Embeds(r, "bundle") |->
            IF p \in s THEN <<Cyclic>>
            ELSE LET ns == r.comps[p].nodes IN FlattenSeq([i \in DOMAIN ns |->
                    IF IsBundle(r, ns[i]) THEN Inlined[s \cup {p}][ns[i].name]
                                          ELSE <<ns[i]>>])]
    IN  FlattenSeq([i \in DOMAIN nodes |->
            IF IsBundle(r, nodes[i]) THEN Inlined[{}][nodes[i].name]
                                     ELSE <<nodes[i]>>])

IsHook(r, e) == /\ e.form = "handler" /\ e.name \in DOMAIN r.handlers
                /\ r.handlers[e.name].kind = "hook"

(* `_embed_terminal_streams`: "yes", "no", or "raises" when a bundle in the *)
(* way contains itself.  The scan remembers the meta.names it went through:*)
(* Scan[seen][p] is its answer for p after those in seen.                  *)
EmbedStreams(r, path) ==
    LET Paths == Embeds(r, "pipeline")
        Names == {r.comps[p].name : p \in Paths}
        Scan[seen \in SUBSET Names] == [p \in Paths |->
            LET ns == Substituted(r, r.comps[p].nodes)
                last == {i \in DOMAIN ns : ~IsHook(r, ns[i]) /\
                            \A j \in DOMAIN ns : j > i => IsHook(r, ns[j])}
            IN  IF r.comps[p].name \in seen THEN "no"
                ELSE IF Cyclic \in ToSet(ns) THEN "raises"
                ELSE IF last = {} THEN "no"
                ELSE LET e == ns[CHOOSE i \in last : TRUE] IN
                     IF e.form = "handler" \/ e.name \notin DOMAIN r.comps
                     THEN "no"
                     ELSE IF e.name \in Paths
                     THEN Scan[seen \cup {r.comps[p].name}][e.name]
                     ELSE IF r.comps[e.name].streamable THEN "yes" ELSE "no"]
    IN  Scan[{}][path]

(* Mutant of NonHookFollows: only handlers are followers.                   *)
HandlerFollows(r, nodes, i) ==
    \E j \in DOMAIN nodes :
        j > i /\ nodes[j].form = "handler" /\ nodes[j].name \in DOMAIN r.handlers /\ ~IsHook(r, nodes[j])

(* `_reject_non_hook_followers`: an unresolved handler is no follower.     *)
NonHookFollows(r, nodes, i) ==
    \E j \in DOMAIN nodes :
        /\ j > i
        /\ \/ nodes[j].form = "composition"
           \/ nodes[j].name \in DOMAIN r.handlers /\ ~IsHook(r, nodes[j])

(***************************************************************************)
(* Frames.                                                                 *)
(***************************************************************************)
Top == stack[Len(stack)]

(* A violation: the compile call it belongs to, its check group, the check *)
(* and what it is about.                                                   *)
Fault(f, group, check, about) ==
    [unit |-> f.path, group |-> group, check |-> check, about |-> about]

(* A frame as `compile_pipeline` enters it.                                *)
Frame(path, decl) ==
    [path |-> path, decl |-> decl, nodes |-> <<>>, pc |-> "substitute",
     at |-> 1, flat |-> <<>>, merges |-> <<>>, scoped |-> {}, names |-> {},
     bounds |-> {}, faults |-> {}, supply |-> {}]

Replace(f) == stack' = [stack EXCEPT ![Len(stack)] = f]

(* A raise out of a compile call: out of the outermost one it is the       *)
(* answer, out of an embed's it joins the caller's group A and the embed   *)
(* builds no node.                                                         *)
Raise(faults) ==
    IF Len(stack) = 1
    THEN /\ stack' = <<>>
         /\ outcome' = [status |-> "refused", faults |-> faults]
         /\ UNCHANGED <<reg, done>>
    ELSE LET caller == stack[Len(stack) - 1]
         IN  /\ stack' = Append(SubSeq(stack, 1, Len(stack) - 2),
                            [caller EXCEPT !.faults = @ \cup faults, !.at = @ + 1])
             /\ UNCHANGED <<reg, outcome, done>>

Init ==
    /\ \E k \in DOMAIN Registries : reg \in Registries[k]
    /\ stack = <<Frame("root", reg.root)>>
    /\ outcome = [status |-> "compiling"]
    /\ done = {}

Started(f) ==
    [f EXCEPT !.pc = "flatten", !.nodes = Substituted(reg, f.decl.nodes),
              !.merges = [c \in DOMAIN f.decl.merge |->
                            [strategy |-> f.decl.merge[c], by |-> "outer"]]]

Substitute ==
    /\ stack # <<>> /\ Top.pc = "substitute"
    /\ IF Cyclic \in ToSet(Substituted(reg, Top.decl.nodes))
       THEN Raise({Fault(Top, "-", "composition_cycle", <<"bundle">>)})
       ELSE Replace(Started(Top)) /\ UNCHANGED <<reg, outcome, done>>

(***************************************************************************)
(* Group A: one action per kind of node.                                   *)
(***************************************************************************)
EntryOf(f) == f.nodes[f.at]
Entry == EntryOf(Top)

Flattening(form) ==
    /\ stack # <<>> /\ Top.pc = "flatten" /\ Top.at \in DOMAIN Top.nodes
    /\ Entry.form = form

(* A node that cannot be built is reported and left out.                   *)
SkipNode(faults) ==
    /\ Replace([Top EXCEPT !.faults = @ \cup faults, !.at = @ + 1])
    /\ UNCHANGED <<reg, outcome, done>>

PortNames(ports) == {ports[i].name : i \in DOMAIN ports}

(* `_desugar`: an unmapped port is wired to the channel of its own name.   *)
Wire(ports, map) ==
    [i \in DOMAIN ports |->
        [chan   |-> IF ports[i].name \in DOMAIN map THEN map[ports[i].name]
                                                     ELSE <<ports[i].name>>,
         type   |-> ports[i].type,
         mapped |-> ports[i].name \in DOMAIN map]]

(* The faults of a resolved handler at a node: its binding cardinality and *)
(* the map keys that are no port of it.                                    *)
HandlerFaults(f, about, h, rmap, wmap) ==
    {Fault(f, "A", "service_binding_cardinality", about) :
        d \in {d \in {h} :
                \/ d.kind = "service" /\ Len(d.services) # 1
                \/ d.kind = "hook" /\ Len(d.services) > 1}}
    \cup {Fault(f, "A", "wiring_map_port", Append(about, k)) :
            k \in (DOMAIN rmap \ PortNames(h.reads))
                  \cup (DOMAIN wmap \ PortNames(h.writes))}

(* A node of the flat sequence.  `from` is the path of the composition it   *)
(* belongs to or "outer", `name` the handler of a bare one, `member` its   *)
(* preprocessor id.                                                        *)
FlatNode(kind, from, reads, writes, streams) ==
    [kind |-> kind, from |-> from, name |-> "-", member |-> "-", values |-> <<>>,
     reads |-> reads, writes |-> writes, streams |-> streams]

HandlerNode(e, from, member) ==
    LET h == reg.handlers[e.name] IN
    [FlatNode(h.kind, from, Wire(h.reads, e.rmap),
              IF h.kind = "hook" THEN <<>> ELSE Wire(h.writes, e.wmap), FALSE)
     EXCEPT !.name = e.name, !.member = member, !.values = e.values]

WithHandler(f) ==
    LET e == EntryOf(f) IN
    [f EXCEPT !.at = @ + 1,
              !.faults = @ \cup HandlerFaults(f, <<"entry", f.at>>, reg.handlers[e.name], e.rmap, e.wmap),
              !.flat = Append(@, HandlerNode(e, "outer", "-"))]

FlattenHandler ==
    /\ Flattening("handler")
    /\ IF Entry.name \notin DOMAIN reg.handlers
       THEN SkipNode({Fault(Top, "A", "handler_name_resolution", <<"entry", Top.at>>)})
       ELSE Replace(WithHandler(Top)) /\ UNCHANGED <<reg, outcome, done>>

SkipComposition ==
    /\ Flattening("composition")
    /\ \/ /\ Entry.name \notin DOMAIN reg.comps
          /\ SkipNode({Fault(Top, "A", "handler_name_resolution", <<"entry", Top.at>>)})
       \/ /\ Entry.name \in DOMAIN reg.comps
          /\ reg.comps[Entry.name].name \in Top.names
          /\ SkipNode({Fault(Top, "A", "name_uniqueness", <<"entry", Top.at>>)})

(* A composition that resolves and whose meta.name is new in this pipeline.*)
Flattens(kind) ==
    /\ Flattening("composition")
    /\ Entry.name \in Embeds(reg, kind)
    /\ reg.comps[Entry.name].name \notin Top.names

StreamFaults(f, streams) ==
    IF streams /\ NonHookFollows(reg, f.nodes, f.at)
    THEN {Fault(f, "A", "streamable_terminal", <<"entry", f.at>>)} ELSE {}

(* `_flatten_trainable.scope`: an internal channel gets the composition's  *)
(* name in front, a boundary channel keeps its own.                        *)
Boundary(t) == {<<p.name>> : p \in ToSet(t.inputs) \cup ToSet(t.outputs)}
Scope(t, chan) == IF chan \in Boundary(t) THEN chan ELSE <<t.name>> \o chan
ScopeWires(t, wires) ==
    [i \in DOMAIN wires |-> [wires[i] EXCEPT !.chan = Scope(t, @)]]
ScopeNode(t, n) ==
    [n EXCEPT !.reads = ScopeWires(t, @), !.writes = ScopeWires(t, @)]

(* The preprocessors that are flattened: the first entry of each id, when  *)
(* the handler it names is registered.                                     *)
FirstOfId(t, i) == \A j \in 1..(i - 1) : t.pre[j].id # t.pre[i].id
Flattened(t, i) == FirstOfId(t, i) /\ t.pre[i].name \in DOMAIN reg.handlers

PreprocessorFaults(f, t, i) ==
    IF ~FirstOfId(t, i) THEN {Fault(f, "A", "name_uniqueness", <<"member", f.at, i>>)}
    ELSE IF t.pre[i].name \notin DOMAIN reg.handlers
    THEN {Fault(f, "A", "handler_name_resolution", <<"member", f.at, i>>)}
    ELSE HandlerFaults(f, <<"member", f.at, i>>, reg.handlers[t.pre[i].name],
                       t.pre[i].rmap, t.pre[i].wmap)

(* The nodes of the trainable composition registered under a path.         *)
PreNode(path, t, i) == ScopeNode(t, HandlerNode(t.pre[i], path, t.pre[i].id))
OwnNode(path, t) ==
    ScopeNode(t, FlatNode("trainable", path, Wire(t.reads, <<>>), Wire(t.writes, <<>>),
                          t.streamable))

TrainableNodes(path, t) ==
    LET Before[i \in 0..Len(t.pre)] ==
            IF i = 0 THEN <<>>
            ELSE IF Flattened(t, i) THEN Append(Before[i - 1], PreNode(path, t, i)) ELSE Before[i - 1]
    IN  Append(Before[Len(t.pre)], OwnNode(path, t))

WiredBy(nodes) == UNION {{w.chan : w \in ToSet(n.reads) \cup ToSet(n.writes)}
                         : n \in ToSet(nodes)}

(* The trainable's own service-typed binding and type, when there is one.  *)
BackendFault(t) ==
    CASE Len(t.services) # 1 -> {"service_binding_cardinality"}
      [] Len(t.services) = 1 /\ t.services[1].type \notin DOMAIN reg.types ->
            {"service_type_resolution"}
      [] OTHER -> {}
Backend(t) == reg.types[t.services[1].type]

Registered(t) == {i \in DOMAIN t.pre : t.pre[i].name \in DOMAIN reg.handlers}

(* `_check_trainable_config` and `_check_composition_binding_supply`: what  *)
(* a composition's own supplies leave open; reported with group B.         *)
CompositionSupplyFaults(f, t) ==
    LET declared == ToSet(t.services) \cup
                    UNION {ToSet(reg.handlers[t.pre[i].name].services) : i \in Registered(t)}
        backend == {sb.name : sb \in ToSet(t.services)}
    IN
    {Fault(f, "B", x[1], <<"trainable", f.at>> \o x[2]) : x \in ConfigFaults(t.config, Backend(t))}
    \cup {Fault(f, "B", x[1], <<"composition", f.at>> \o x[2]) :
            x \in ServiceSupplyFaults(reg.types, declared, t.supply, backend)}
    \cup UNION {{Fault(f, "B", x[1], <<"member", f.at, i>> \o x[2]) :
                    x \in SchemaSupplyFaults(reg.handlers[t.pre[i].name].bindings, t.pre[i].values)}
                : i \in Registered(t)}

(* The frame with a trainable's nodes, and the checks of it, behind it.     *)
WithTrainable(f) ==
    LET path == EntryOf(f).name
        t == reg.comps[path]
        nodes == TrainableNodes(path, t)
        inner == DOMAIN t.merge \ Boundary(t)
        own == {c \in inner : Scope(t, c) \notin DOMAIN f.merges}
        taken == {Scope(t, c) : c \in own}
        positions == (Len(f.flat) + 1)..(Len(f.flat) + Len(nodes))
    IN  [f EXCEPT
            !.at = f.at + 1, !.names = f.names \cup {t.name}, !.flat = f.flat \o nodes,
            !.faults = f.faults \cup StreamFaults(f, t.streamable)
                \cup {Fault(f, "A", "channel_write_overlap", <<"merge", f.at, c>>) :
                        c \in DOMAIN t.merge \ own}
                \cup UNION {PreprocessorFaults(f, t, i) : i \in DOMAIN t.pre},
            !.supply = f.supply \cup CompositionSupplyFaults(f, t),
            !.merges = [c \in DOMAIN f.merges \cup taken |->
                IF c \in DOMAIN f.merges THEN f.merges[c]
                ELSE [strategy |-> t.merge[Tail(c)], by |-> path]],
            !.scoped = f.scoped \cup {Scope(t, c) : c \in inner}
                          \cup (WiredBy(nodes) \ Boundary(t)),
            !.bounds = f.bounds \cup {[inputs |-> ToSet(t.inputs),
                                       outputs |-> ToSet(t.outputs),
                                       positions |-> positions, ref |-> f.at]}]

(* A malformed null in [trainable.config], which parse lets through, is     *)
(* raised from the middle of flatten.                                      *)
FlattenTrainable ==
    /\ Flattens("trainable")
    /\ LET t == reg.comps[Entry.name] IN
       IF BackendFault(t) # {}
       THEN /\ Replace([Top EXCEPT !.at = @ + 1, !.names = @ \cup {t.name},
                 !.faults = @ \cup StreamFaults(Top, t.streamable) \cup
                    {Fault(Top, "A", x, <<"entry", Top.at>>) : x \in BackendFault(t)}])
            /\ UNCHANGED <<reg, outcome, done>>
       ELSE IF BrokenNull(t.config, Backend(t))
       THEN Raise({Fault(Top, "-", "malformed_declaration", <<"entry", Top.at>>)})
       ELSE Replace(WithTrainable(Top)) /\ UNCHANGED <<reg, outcome, done>>

(* Mutant of OnStack: only a pipeline that embeds itself directly.          *)
OnTop(path) == Top.path = path
OnStack(path) == \E k \in DOMAIN stack : stack[k].path = path

(* Mutant of EmbedCycleFaults: the embed is left out without a word.        *)
NoCycleFaults(f) == {}
EmbedCycleFaults(f) == {Fault(f, "A", "composition_cycle", <<"entry", f.at>>)}

(* A frame that has looked at an embed and not yet compiled it.             *)
Seen(f) ==
    LET path == EntryOf(f).name IN
    [f EXCEPT !.names = @ \cup {reg.comps[path].name},
              !.faults = @ \cup StreamFaults(f, EmbedStreams(reg, path) = "yes")]

(* An embed is compiled by recursion, unless the streaming scan raises or   *)
(* the composition is being compiled already.                              *)
FlattenEmbed ==
    /\ Flattens("pipeline")
    /\ IF EmbedStreams(reg, Entry.name) = "raises"
       THEN Raise({Fault(Top, "-", "composition_cycle", <<"bundle">>)})
       ELSE IF OnStack(Entry.name)
       THEN /\ Replace([Seen(Top) EXCEPT !.at = @ + 1,
                 !.faults = @ \cup EmbedCycleFaults(Top)])
            /\ UNCHANGED <<reg, outcome, done>>
       ELSE /\ stack' = Append([stack EXCEPT ![Len(stack)] = Seen(Top)],
                               Frame(Entry.name, reg.comps[Entry.name]))
            /\ UNCHANGED <<reg, outcome, done>>

(* Mutant of ScopedMergeFaults: any spelling of a channel is taken.         *)
NoScopedMergeFaults(f) == {}
(* An outer merge entry spelled as a composition's internal channel.       *)
ScopedMergeFaults(f) ==
    {Fault(f, "A", "channel_write_overlap", <<"channel", c>>) : c \in DOMAIN f.decl.merge \cap f.scoped}

CloseGroupA ==
    /\ stack # <<>> /\ Top.pc = "flatten" /\ Top.at \notin DOMAIN Top.nodes
    /\ LET faults == Top.faults \cup ScopedMergeFaults(Top)
       IN  IF faults # {} THEN Raise(faults)
           ELSE /\ Replace([Top EXCEPT !.pc = "topology"])
                /\ UNCHANGED <<reg, outcome, done>>

(***************************************************************************)
(* Group B.                                                                *)
(***************************************************************************)
Chans(wires) == [i \in DOMAIN wires |-> wires[i].chan]
Fields(ports) == {<<p.name>> : p \in ports}

GraphOf(f) ==
    [nodes |-> [i \in DOMAIN f.flat |->
        [kind |-> f.flat[i].kind, reads |-> ToSet(Chans(f.flat[i].reads)),
         writes |-> Chans(f.flat[i].writes), streams |-> f.flat[i].streams]],
     inputs |-> Fields(ToSet(f.decl.inputs)),
     outputs |-> Fields(ToSet(f.decl.outputs)),
     merged |-> DOMAIN f.merges, scoped |-> f.scoped]

(* The pipeline's own boundary spans the whole graph, a composition's its  *)
(* own nodes.                                                              *)
Boundaries(f) ==
    f.bounds \cup {[inputs |-> ToSet(f.decl.inputs),
                    outputs |-> ToSet(f.decl.outputs),
                    positions |-> DOMAIN f.flat, ref |-> 0]}

(* The types declared for a channel: by the ports wired to it and by the   *)
(* boundary fields of its name.                                            *)
TypesOf(f, c) ==
    {w.type : w \in {v \in UNION {ToSet(n.reads) \cup ToSet(n.writes)
                                  : n \in ToSet(f.flat)} : v.chan = c}}
    \cup {p.type : p \in {q \in UNION {b.inputs \cup b.outputs
                                       : b \in Boundaries(f)} : <<q.name>> = c}}

Mismatched(f) ==
    {c \in WiredChannels(GraphOf(f)) \cup
           UNION {Fields(b.inputs \cup b.outputs) : b \in Boundaries(f)} :
        Cardinality(TypesOf(f, c)) > 1}

(* `_strategy_accepts` and the `accepts` column of MERGE_STRATEGY_DEFS.    *)
Accepts(strategy, type) ==
    CASE strategy \in {"append_list", "union_set"} -> type.kind = "list"
      [] strategy = "deep_merge_dict" -> type.kind = "dict"
      [] strategy = "concat_str" -> type.kind = "primitive" /\ type.of = "str"
      [] OTHER -> type.kind # "optional"

MergeFaults(f) ==
    LET g == GraphOf(f) IN
    {Fault(f, "B", "channel_write_overlap", <<"channel", c>>) :
        c \in {d \in WiredChannels(g) : Cardinality(Contributors(g, d)) >= 2
                                        /\ d \notin g.merged}
              \cup (g.merged \ WiredChannels(g))}
    \cup {Fault(f, "B", "merge_strategy_type", <<"channel", c>>) :
            c \in {d \in (g.merged \cap WiredChannels(g)) \ Mismatched(f) :
                    \E t \in TypesOf(f, d) : ~Accepts(f.merges[d].strategy, t)}}

(* `_check_input_closure`: nothing upstream and not seeded.                *)
ClosureFaults(f) ==
    LET g == GraphOf(f)
        open == {nw \in (DOMAIN f.flat) \X UNION {ToSet(n.reads) : n \in ToSet(f.flat)} :
                    /\ nw[2] \in ToSet(f.flat[nw[1]].reads)
                    /\ nw[2].chan \notin g.inputs
                    /\ ~\E w \in WritePorts(g, nw[2].chan) : w[1] < nw[1]}
    IN  {Fault(f, "B", IF nw[2].mapped THEN "read_port_unclosed"
                       ELSE "dangling_identity_port", <<"read", nw[1], nw[2].chan>>) : nw \in open}

DeadFaults(f, b) ==
    LET own == {f.flat[i] : i \in b.positions}
        reads == UNION {ToSet(Chans(n.reads)) : n \in own}
        writes == UNION {ToSet(Chans(n.writes)) : n \in own}
    IN  {Fault(f, "B", "inputs_outputs_dead", <<"boundary", b.ref, c>>) :
            c \in (Fields(b.inputs) \ reads) \cup (Fields(b.outputs) \ writes)}

(* `_check_binding_supply`.                                                *)
HandlerEntries(f) == {i \in DOMAIN f.nodes : f.nodes[i].form = "handler" /\
                                             f.nodes[i].name \in DOMAIN reg.handlers}
BindingFaults(f) ==
    LET handler(i) == reg.handlers[f.nodes[i].name] IN
    {Fault(f, "B", x[1], <<"pipeline">> \o x[2]) :
        x \in ServiceSupplyFaults(reg.types,
                UNION {ToSet(handler(i).services) : i \in HandlerEntries(f)}, f.decl.supply, {})}
    \cup UNION {{Fault(f, "B", x[1], <<"entry", i>> \o x[2]) :
                    x \in SchemaSupplyFaults(handler(i).bindings, f.nodes[i].values)}
                : i \in HandlerEntries(f)}

TopologyFaults(f) ==
    {Fault(f, "B", "read_write_shape", <<"channel", c>>) : c \in Mismatched(f)}
    \cup {Fault(f, "B", "single_assignment", <<"node", i>>) :
            i \in {j \in DOMAIN f.flat :
                     ToSet(Chans(f.flat[j].reads)) \cap
                     ToSet(Chans(f.flat[j].writes)) # {}}}
    \cup MergeFaults(f) \cup ClosureFaults(f) \cup BindingFaults(f) \cup f.supply
    \cup UNION {DeadFaults(f, b) : b \in Boundaries(f)}

CheckTopology ==
    /\ stack # <<>> /\ Top.pc = "topology"
    /\ IF TopologyFaults(Top) # {} THEN Raise(TopologyFaults(Top))
       ELSE /\ Replace([Top EXCEPT !.pc = "coverage"])
            /\ UNCHANGED <<reg, outcome, done>>

(***************************************************************************)
(* Group C, and the compiled graph: the answer, or the embed's node.       *)
(***************************************************************************)
TrainablesOf(f) ==
    {reg.comps[e.name] : e \in {x \in ToSet(f.nodes) : x.form = "composition"
                                   /\ x.name \in Embeds(reg, "trainable")}}

(* The handles of the composed scope and the types supplied under each; a   *)
(* nested pipeline's are covered by its own compile.                       *)
BoundTypes(f) ==
    LET scopes == {f.decl} \cup TrainablesOf(f) IN
    [h \in UNION {DOMAIN s.supply : s \in scopes} |->
        {s.supply[h].type : s \in {x \in scopes : h \in DOMAIN x.supply}}]

(* Every hook with its address, the name of an outer one, composition and   *)
(* id of a preprocessor, and its transport_schema.                         *)
HookAddresses(f) ==
    {<<<<f.nodes[i].name>>, reg.handlers[f.nodes[i].name].transport>> :
        i \in {j \in DOMAIN f.nodes : IsHook(reg, f.nodes[j])}}
    \cup UNION {{<<<<t.name, t.pre[i].id>>, reg.handlers[t.pre[i].name].transport>> :
                    i \in {j \in Registered(t) : reg.handlers[t.pre[j].name].kind = "hook"}}
                : t \in TrainablesOf(f)}

Uncovered(f) ==
    UNION {{Fault(f, "C", x[1], x[2]) :
                x \in CoverageFaults(reg.types, d, f.decl.name, BoundTypes(f), HookAddresses(f))}
          : d \in ToSet(reg.deployment)}

EmbedNode(path, p, streams) ==
    FlatNode("pipeline", path, Wire(p.inputs, <<>>), Wire(p.outputs, <<>>), streams)

(* What a compile call hands on; the declaration is the substituted one.    *)
Unit(f) == [path |-> f.path, decl |-> [f.decl EXCEPT !.nodes = f.nodes],
            graph |-> GraphOf(f), merges |-> f.merges, flat |-> f.flat]

CheckCoverage ==
    /\ stack # <<>> /\ Top.pc = "coverage"
    /\ Uncovered(Top) # {}
    /\ Raise(Uncovered(Top))

Deliver ==
    /\ stack # <<>> /\ Top.pc = "coverage"
    /\ Uncovered(Top) = {}
    /\ done' = done \cup {Unit(Top)}
    /\ IF Len(stack) = 1
       THEN /\ stack' = <<>>
            /\ outcome' = [status |-> "compiled"]
            /\ UNCHANGED reg
       ELSE LET caller == stack[Len(stack) - 1]
                node == EmbedNode(Top.path, Top.decl, StreamRoute(GraphOf(Top)) # 0)
            IN  /\ stack' = Append(SubSeq(stack, 1, Len(stack) - 2),
                        [caller EXCEPT !.flat = Append(@, node), !.at = @ + 1])
                /\ UNCHANGED <<reg, outcome>>

Next == \/ Substitute \/ FlattenHandler \/ SkipComposition
        \/ FlattenTrainable \/ FlattenEmbed \/ CloseGroupA
        \/ CheckTopology \/ CheckCoverage \/ Deliver

Spec == Init /\ [][Next]_vars /\ WF_vars(Next)

(***************************************************************************)
(* Properties.                                                             *)
(***************************************************************************)

(* The compositions that the nodes lead to, through any number of embeds   *)
(* and bundles: the transitive closure, computed by rounds.                *)
Named(r, nodes) == {e.name : e \in {x \in ToSet(nodes) : x.form = "composition"}}
                   \cap DOMAIN r.comps
Contained(r, p) == IF r.comps[p].kind = "trainable" THEN {}
                 ELSE Named(r, r.comps[p].nodes)
Reached(r, from) ==
    LET Within[k \in 0..Cardinality(DOMAIN r.comps)] ==
            IF k = 0 THEN from
            ELSE Within[k - 1] \cup UNION {Contained(r, p) : p \in Within[k - 1]}
    IN  Within[Cardinality(DOMAIN r.comps)]

(* A pipeline from which some composition can be reached from itself is     *)
(* never compiled, however its embeds and bundles alternate: the bundle     *)
(* stack, the embed stack and the streaming scan each look only for their   *)
(* own kind of cycle.                                                      *)
NoCycleCompiles ==
    outcome.status = "compiled" =>
        \A p \in Reached(reg, Named(reg, reg.root.nodes)) :
            p \notin Reached(reg, Contained(reg, p))

(* Every graph handed on, the inner ones too, keeps every rule: in          *)
(* particular a stream that an embed would open at run time has only hooks  *)
(* after it, although compile decided that from declarations.  Pipelines of *)
(* one meta.name in each other are the exception: the scan takes the inner  *)
(* one for a cycle and its stream for none.                                *)
CompiledGraphsAreAccepted == \A d \in done : Accepted(d.graph)

(* A merge entry governs a composition's internal channel iff that          *)
(* composition declared it.                                                *)
MergesStayInScope ==
    \A d \in done : \A c \in DOMAIN d.merges :
        c \in d.graph.scoped <=> d.merges[c].by # "outer"

(* No declaration is compiled inside its own compilation, so the recursion  *)
(* is no deeper than there are declarations.                               *)
StackIsSimple == \A i, j \in DOMAIN stack : stack[i].path = stack[j].path => i = j
=============================================================================
