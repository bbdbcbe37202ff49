-------------------------------- MODULE MCLoad --------------------------------
(* Families of registries for TLC: how declarations nest, how they wire,   *)
(* what they supply, and what an author edits between two loads.           *)
EXTENDS Load

prim(p) == [kind |-> "primitive", of |-> p]
opt(t) == [kind |-> "optional", inner |-> t]
text == prim("str")
items == [kind |-> "list", item |-> text]
tab == [kind |-> "table"]
secret == [kind |-> "secret_ref"]

port(n, t) == [name |-> n, type |-> t]
field(n, t) == [name |-> n, type |-> t, default |-> <<>>]
defaulted(n, t, v) == [name |-> n, type |-> t, default |-> <<v>>]

s(x) == Scalar("str", x)
true == Scalar("bool", "true")
null == Keyed("null" :> true)

(* Declarations.                                                           *)
use(name) == [form |-> "handler", name |-> name, rmap |-> <<>>, wmap |-> <<>>,
              values |-> <<>>]
wired(name, rmap, wmap) == [use(name) EXCEPT !.rmap = rmap, !.wmap = wmap]
with(e, values) == [e EXCEPT !.values = values]
embed(path) == [form |-> "composition", name |-> path]

bound(name, type) == [name |-> name, type |-> type]
handler(kind, reads, writes, services) ==
    [kind |-> kind, reads |-> reads, writes |-> writes, services |-> services,
     bindings |-> <<>>, transport |-> <<>>]
schema(fields, default) ==
    [compile |-> FALSE, fields |-> fields, default |-> default, params |-> <<>>]
directive(params) == [compile |-> TRUE, fields |-> <<>>, default |-> <<>>, params |-> params]
supply(type, identity, config) ==
    [type |-> type, identity |-> identity, config |-> config]
service(identity, transport, config) ==
    [identity |-> identity, transport |-> transport, config |-> config]

pipeline(name, nodes, outputs, merge, supplies) ==
    [kind |-> "pipeline", name |-> name, nodes |-> nodes,
     inputs |-> <<port("i", text)>>, outputs |-> outputs, merge |-> merge,
     supply |-> supplies]
bundle(nodes) == [kind |-> "bundle", name |-> "b", nodes |-> nodes]

trainable(name, pre, reads, merge, supplies) ==
    [kind |-> "trainable", name |-> name, pre |-> pre,
     inputs |-> <<port("i", text)>>, outputs |-> <<port("o", text)>>,
     reads |-> reads, writes |-> <<port("o", text)>>, merge |-> merge,
     streamable |-> FALSE, services |-> <<bound("m", "model")>>,
     supply |-> supplies, config |-> <<>>]

(* A service type with nothing to supply.                                  *)
Plain == service(<<>>, <<>>, <<>>)
Types == [model |-> Plain, api |-> Plain]
ModelOnly == "m" :> supply("model", <<>>, <<>>)
ApiOnly == "a" :> supply("api", <<>>, <<>>)

Handlers == [hook  |-> handler("hook", <<port("i", text)>>, <<>>, <<>>),
             make  |-> handler("transform", <<port("i", text)>>, <<port("o", text)>>, <<>>),
             call  |-> handler("service", <<port("i", text)>>, <<port("u", text)>>,
                               <<bound("a", "api")>>),
             bare  |-> handler("service", <<port("i", text)>>, <<port("u", text)>>, <<>>),
             list  |-> handler("transform", <<port("i", text)>>, <<port("u", items)>>, <<>>)]

Registry(handlers, types, comps, root, deployment) ==
    [handlers |-> handlers, types |-> types, comps |-> comps, root |-> root,
     deployment |-> deployment, docs |-> <<>>, resolve |-> FALSE,
     dirs |-> [root |-> "", comps |-> <<>>, handlers |-> <<>>], files |-> <<>>]

(***************************************************************************)
(* Nesting: two pipelines and two bundles that may hold each other, a      *)
(* streamable trainable, hooks and a service.                              *)
(***************************************************************************)
Streamer == [trainable("t", <<>>, <<port("i", text)>>, <<>>, ModelOnly)
             EXCEPT !.streamable = TRUE]

(* What of the nodes calls a service of its own scope.                     *)
SuppliedFor(nodes) == IF use("call") \in ToSet(nodes) THEN ApiOnly ELSE <<>>

NestingOf(root, p, q, b, c) ==
    Registry(Handlers, Types,
             [P |-> pipeline("p", p, <<>>, <<>>, SuppliedFor(p)),
              Q |-> pipeline("q", q, <<>>, <<>>, SuppliedFor(q)),
              B |-> bundle(b), C |-> bundle(c), T |-> Streamer],
             pipeline("r", root, <<>>, <<>>, SuppliedFor(root)), <<>>)

Nestings ==
    {NestingOf(root, p, q, b, c) :
        root \in {<<embed("P")>>, <<embed("P"), use("hook")>>,
                  <<use("gone"), embed("P")>>, <<embed("P"), use("call")>>,
                  <<embed("B"), embed("Q")>>},
        p \in {<<use("hook")>>, <<embed("T")>>, <<embed("Q")>>,
               <<embed("B"), embed("Q")>>, <<embed("Q"), use("hook")>>,
               <<embed("Q"), embed("T")>>},
        q \in {<<use("hook"), embed("P")>>, <<embed("T")>>, <<embed("P")>>,
               <<embed("C"), use("hook")>>, <<embed("T"), use("call")>>},
        b \in {<<use("hook")>>, <<embed("T")>>, <<embed("C")>>, <<embed("Q")>>},
        c \in {<<use("hook")>>, <<embed("B")>>, <<embed("P")>>}}

(***************************************************************************)
(* Wiring: a handler before and after a trainable composition with one or  *)
(* two preprocessors, under every spelling of the maps and merges.         *)
(***************************************************************************)
pre(id, name, rmap, wmap) ==
    [id |-> id, name |-> name, rmap |-> rmap, wmap |-> wmap, values |-> <<>>]

o == <<"o">>
u == <<"u">>
tu == <<"t", "u">>

(* The composition's own supplies for the services its members call.       *)
MemberSupplies(member) ==
    IF \E i \in DOMAIN member : member[i].name = "call" THEN ModelOnly @@ ApiOnly
    ELSE ModelOnly

WiringOf(first, last, member, merge, inner, outputs, services) ==
    LET t == trainable("t", member, <<port("u", text)>>, inner, MemberSupplies(member)) IN
    Registry(Handlers, Types,
             [T |-> [t EXCEPT !.services = services],
              S |-> [t EXCEPT !.name = "s"], D |-> t],
             pipeline("r", <<first, embed("T")>> \o last, outputs, merge, <<>>), <<>>)

Lasts == {<<>>, <<wired("make", "i" :> tu, "o" :> <<"v">>)>>, <<embed("S")>>, <<embed("D")>>,
          <<embed("gone")>>, <<wired("make", "i" :> o, "o" :> <<"v">>)>>}
PreLists == {<<pre("a", "call", <<>>, <<>>)>>, <<pre("a", "list", <<>>, <<>>)>>,
            <<pre("a", "bare", <<>>, <<>>)>>, <<pre("a", "call", "i" :> u, <<>>)>>,
            <<pre("a", "call", <<>>, <<>>), pre("b", "call", <<>>, <<>>)>>,
            <<pre("a", "call", <<>>, <<>>), pre("a", "gone", <<>>, <<>>)>>}
Merges == {<<>>, o :> "last_wins", tu :> "last_wins"}
Inners == {<<>>, o :> "last_wins", u :> "concat_str", u :> "append_list"}

Wirings ==
    {WiringOf(wired("make", <<>>, w), last, member, merge, inner, outputs, services) :
        w \in {<<>>, "o" :> u, "o" :> tu}, last \in Lasts,
        member \in PreLists, merge \in Merges, inner \in Inners,
        outputs \in {<<>>, <<port("o", text)>>},
        services \in {<<bound("m", "model")>>}}
    \cup {WiringOf(wired("make", <<>>, "o" :> u), <<>>, member, merge, <<>>, <<>>, services) :
            member \in PreLists, merge \in {<<>>, <<"z">> :> "append_list"},
            services \in {<<>>, <<bound("m", "gone")>>, <<bound("n", "model")>>}}

(***************************************************************************)
(* Supplies: one pipeline with everything a node can be supplied with, a   *)
(* trainable composition and a nested pipeline in scopes of their own, all *)
(* of them binding the handle "a", and a deployment.                       *)
(***************************************************************************)
int(x) == Scalar("int", x)
date == Scalar("datetime", "d")
ref(scheme) == [form |-> "ref", scheme |-> scheme]
oneOf(k, v) == Keyed(k :> v)
twoOf(x, y) == Keyed("x" :> x @@ "y" :> y)

SupplyTypes ==
    [model |-> service(<<field("id", text)>>, <<field("url", text), field("key", secret)>>,
                       <<defaulted("temp", prim("int"), int("0"))>>),
     api   |-> service(<<field("id", text)>>, <<field("url", text), field("proxy", opt(text))>>,
                       <<defaulted("mode", text, s("a")), field("extra", tab)>>)]

SupplyHandlers ==
    [log  |-> [handler("hook", <<port("i", text)>>, <<>>, <<>>)
               EXCEPT !.transport = <<field("sink", text), field("tag", opt(text))>>],
     make |-> [handler("transform", <<port("i", text)>>, <<port("o", text)>>, <<>>)
               EXCEPT !.bindings = "k" :> schema(<<field("v", opt(text))>>, <<s("d")>>)
                                   @@ "g" :> directive("text" :> s("p"))],
     call |-> [handler("service", <<port("i", text)>>, <<port("u", text)>>, <<bound("a", "api")>>)
               EXCEPT !.bindings = "c" :> schema(<<field("x", text), field("y", opt(text))>>, <<>>)]]

ApiConfig == "extra" :> oneOf("n", s("z"))
Api(id) == "a" :> supply("api", "id" :> s(id), ApiConfig)
CallWith(v) == with(use("call"), "c" :> v)
Plainly == twoOf(s("1"), s("2"))

SupplyPre == <<[pre("s", "call", <<>>, <<>>) EXCEPT !.values = "c" :> Plainly],
               pre("h", "log", <<>>, <<>>)>>

ApiBlock == "url" :> s("w") @@ "proxy" :> null
ModelBlock == "url" :> s("w") @@ "key" :> ref("env")
HookBlock == "sink" :> s("w") @@ "tag" :> null
Override(transport, hooks) == [transport |-> transport, hooks |-> hooks]

Deployed == [transport |-> "a" :> ApiBlock @@ "m" :> ModelBlock,
             hooks |-> <<"log">> :> HookBlock @@ <<"t", "h">> :> HookBlock,
             pipelines |-> <<>>]

Base ==
    Registry(SupplyHandlers, SupplyTypes,
        [T |-> [trainable("t", SupplyPre, <<port("u", text)>>, <<>>,
                    Api("inner") @@ "m" :> supply("model", "id" :> s("big"), <<>>))
                EXCEPT !.config = <<>>],
         P |-> pipeline("p", <<CallWith(Plainly), use("log")>>, <<>>, <<>>, Api("nested")),
         B |-> bundle(<<wired("make", <<>>, "o" :> <<"w">>)>>)],
        pipeline("r", <<CallWith(Plainly), wired("make", <<>>, "o" :> <<"v">>), embed("T"),
                        embed("P"), embed("B"), use("log")>>,
                 <<port("o", text)>>, <<>>, Api("outer")),
        <<Deployed>>)

(* What a node may be supplied with: accepted, or refused one way each.    *)
MakeValues == {<<>>} \cup {"k" :> v : v \in
    {s("d"), s("e"), null, oneOf("v", s("d")), oneOf("v", null), FromFile(oneOf("v", s("d"))),
     FromFile(oneOf("v", s("e"))), oneOf("null", s("d")), int("1")}}
    \cup {"g" :> s("d"), "z" :> s("d")}
CallValues == {<<>>} \cup {"c" :> v : v \in
    {Plainly, twoOf(s("1"), null), twoOf(null, s("2")), oneOf("x", s("1")), s("1"),
     FromFile(Plainly), null}}
Configs == {ApiConfig, <<>>, "mode" :> s("a") @@ ApiConfig, "mode" :> s("b") @@ ApiConfig,
            "mode" :> null @@ ApiConfig, "z" :> s("a") @@ ApiConfig,
            "extra" :> oneOf("n", date)}
Identities == {<<>>, "id" :> null, "id" :> s("x"), "id" :> s("x") @@ "z" :> s("x")}
TrainableConfigs == {<<>>, "temp" :> int("0"), "temp" :> int("1"), "temp" :> null,
                     "temp" :> oneOf("null", int("1")), "z" :> int("1")}

Nodes(values, call) ==
    [Base EXCEPT !.root.nodes[1].values = call, !.root.nodes[2].values = values]

(* Blocks: complete, short of a field, with one too many, with each null   *)
(* and each secret.                                                        *)
ApiBlocks == {ApiBlock, "url" :> s("w"), "proxy" :> null, "url" :> null @@ "proxy" :> s("w"),
              "url" :> s("w") @@ "proxy" :> s("w"), "z" :> s("w") @@ ApiBlock,
              "url" :> oneOf("null", s("w")) @@ "proxy" :> s("w")}
ModelBlocks == {"url" :> s("w") @@ "key" :> k : k \in {ref("unknown"), ref("unloadable"), s("x"), null}}
HookBlocks == {HookBlock, "sink" :> s("w"), "sink" :> int("1") @@ "tag" :> s("w"),
               "sink" :> null @@ "tag" :> null}

Deployments ==
    {[Deployed EXCEPT !.transport["a"] = x, !.pipelines = overrides] :
        x \in ApiBlocks,
        overrides \in {<<>>, "r" :> Override("a" :> ApiBlock, <<>>),
                       "r" :> Override("a" :> ApiBlock, <<>>) @@ "p" :> Override("a" :> ApiBlock, <<>>),
                       "p" :> Override("a" :> ("url" :> s("w")), <<>>)}}
    \cup {[Deployed EXCEPT !.transport["m"] = x] : x \in ModelBlocks}
    \cup {[Deployed EXCEPT !.hooks[h] = x, !.pipelines = overrides] :
            h \in {<<"log">>, <<"t", "h">>}, x \in HookBlocks,
            overrides \in {<<>>, "r" :> Override(<<>>, <<"log">> :> HookBlock),
                           "p" :> Override(<<>>, <<"log">> :> ("sink" :> s("w")))}}
    \cup {[Deployed EXCEPT !.transport = "m" :> ModelBlock],
          [Deployed EXCEPT !.hooks = <<"log">> :> HookBlock],
          [Deployed EXCEPT !.pipelines = "r" :> Override("z" :> ApiBlock, <<>>)],
          [Deployed EXCEPT !.pipelines = "p" :> Override(<<>>, <<"z">> :> HookBlock)]}

Supplies ==
    {Nodes(values, call) : values \in MakeValues, call \in CallValues}
    \cup {[Base EXCEPT !.root.supply["a"].config = config] : config \in Configs}
    \cup {[Base EXCEPT !.comps["T"].supply["a"].config = config] : config \in Configs}
    \cup {[Base EXCEPT !.root.supply["a"].identity = id] : id \in Identities}
    \cup {[Base EXCEPT !.comps["T"].supply["a"].identity = id] : id \in Identities}
    \cup {[Base EXCEPT !.comps["T"].config = config] : config \in TrainableConfigs}
    \cup {[Base EXCEPT !.comps["T"].supply["m"].config = "temp" :> int("1")],
          [Base EXCEPT !.root.supply["a"].type = "model"],
          [Base EXCEPT !.root.supply = <<>>],
          [Base EXCEPT !.root.supply = Api("outer") @@ "z" :> supply("api", <<>>, <<>>)],
          [Base EXCEPT !.handlers["call"].services[1].type = "gone",
                       !.root.supply["a"].type = "gone", !.comps["T"].supply["a"].type = "gone",
                       !.comps["P"].nodes = <<use("log")>>, !.comps["P"].supply = <<>>],
          [Base EXCEPT !.handlers["make"].services = <<bound("m", "api")>>,
                       !.handlers["make"].kind = "service",
                       !.root.supply = Api("outer") @@ "m" :> Api("outer")["a"]],
          [Base EXCEPT !.deployment = <<>>]}
    \cup {[Base EXCEPT !.deployment = <<d>>] : d \in Deployments}

(***************************************************************************)
(* One edit away, from a pipeline that loads.                              *)
(***************************************************************************)
Edited(r) ==
    {[r EXCEPT !.root.nodes[2].values = v] : v \in MakeValues \ {"g" :> s("d"), "z" :> s("d")}}
    \cup {[r EXCEPT !.root.nodes[1].values = "c" :> v] :
            v \in {FromFile(Plainly), twoOf(s("1"), null), twoOf(s("1"), s("3"))}}
    \cup {[r EXCEPT !.root.nodes[1].rmap = "i" :> <<"i">>],            \* a map spelled out
          [r EXCEPT !.root.nodes[2].wmap = "o" :> <<"x">>],
          [r EXCEPT !.root.nodes = SubSeq(@, 1, 5)],                   \* the hook left out
          [r EXCEPT !.root.nodes = <<use("log")>> \o @],
          [r EXCEPT !.root.nodes[5] = wired("make", <<>>, "o" :> <<"w">>)],  \* the bundle inlined
          [r EXCEPT !.root.nodes = <<@[2], @[1], @[3], @[4], @[5], @[6]>>],
          [r EXCEPT !.root.name = "renamed"], [r EXCEPT !.comps["P"].name = "renamed"],
          [r EXCEPT !.comps["T"].pre = <<@[1]>>],
          [r EXCEPT !.comps["T"].config = "temp" :> int("0")],
          [r EXCEPT !.comps["T"].config = "temp" :> int("1")],
          [r EXCEPT !.comps["T"].supply["m"].identity = "id" :> s("small")],
          [r EXCEPT !.comps["T"].pre[1].values = "c" :> twoOf(s("1"), null)],
          [r EXCEPT !.comps["P"].nodes[1].values = "c" :> twoOf(s("1"), null)],
          [r EXCEPT !.comps["P"].nodes = <<@[1]>>],
          [r EXCEPT !.types["model"].config[1].default = <<int("2")>>],
          [r EXCEPT !.handlers["make"].bindings["k"].default = <<s("e")>>],
          [r EXCEPT !.handlers["make"].bindings["g"].params = "text" :> s("q")],
          [r EXCEPT !.handlers["make"].reads[1].type = items],
          [r EXCEPT !.deployment[1].transport["a"]["url"] = s("v")]}
    \cup {[r EXCEPT !.root.supply["a"].config = config] : config \in Configs}
    \cup {[r EXCEPT !.root.supply["a"].identity = "id" :> s("x")]}

Bases == {Base, Nodes("k" :> s("e"), "c" :> FromFile(Plainly))}

(* A transform with two outputs that are merged into one channel, and the   *)
(* edit that declares them in the other order.                             *)
Pair == handler("transform", <<port("i", text)>>, <<port("o", text), port("u", text)>>, <<>>)
PortedTo(chan) ==
    Registry([pair |-> Pair], Types, <<>>,
        pipeline("r", <<wired("pair", <<>>, "u" :> chan)>>, <<port("o", text)>>,
                 IF chan = o THEN o :> "concat_str" ELSE <<>>, <<>>), <<>>)
PortEdits(r) == {[r EXCEPT !.handlers["pair"].writes = <<@[2], @[1]>>]}
PortRegistries == <<{PortedTo(o)}>>

(* A preprocessor that calls a service under the handle of its             *)
(* composition's backend, whose type has a config field without a default; *)
(* a composition supplies that field in [trainable.config].                *)
Asking == handler("service", <<port("i", text)>>, <<port("u", text)>>, <<bound("m", "model")>>)
BackendHandle ==
    [Base EXCEPT !.handlers = ("ask" :> Asking) @@ @,
                 !.types["model"].config = <<field("temp", prim("int"))>>,
                 !.comps["T"].pre = <<pre("s", "ask", <<>>, <<>>)>>,
                 !.comps["T"].supply = "m" :> supply("model", "id" :> s("big"), <<>>),
                 !.comps["T"].config = "temp" :> int("1")]
HandleRegistries == <<{BackendHandle}>>

(* A pipeline that streams inside another of the same meta.name, and a      *)
(* service behind them.                                                    *)
NamedAlike ==
    [NestingOf(<<embed("P"), use("call")>>, <<embed("Q")>>, <<embed("T")>>,
               <<use("hook")>>, <<use("hook")>>)
     EXCEPT !.comps["Q"].name = "p"]
AlikeRegistries == <<{NamedAlike}>>

BaseEdits(r) == CASE r \in Bases -> Edited(r)
                  [] r = PortedTo(u) -> PortEdits(r)
                  [] OTHER -> {}

(***************************************************************************)
(* Files: a value or parameter in every declaration, each supplied from a   *)
(* file named "f" in the declaration's directory; directories and files    *)
(* that are missing or broken, and compositions that contain themselves.   *)
(***************************************************************************)
path == [form |-> "path", file |-> "f"]
FromPath == "c" :> path
In(dir) == twoOf(s(dir), s("2"))

FileCall == CallWith(path)
BundleCall == with(wired("call", <<>>, "u" :> <<"v">>), FromPath)

FileBase ==
    [Base EXCEPT
        !.resolve = TRUE,
        !.root = pipeline("r", <<FileCall, embed("B"), embed("P")>>, <<port("o", text)>>, <<>>,
                          Api("outer")),
        !.comps["B"] = bundle(<<BundleCall, embed("T")>>),
        !.comps["P"].nodes = <<FileCall, embed("B"), use("log")>>,
        !.comps["T"].pre[1].values = FromPath,
        !.handlers["make"].bindings["g"].params = "text" :> path @@ "mode" :> s("m"),
        !.dirs = [root |-> "r", comps |-> [T |-> "t", P |-> "p", B |-> "b"],
                  handlers |-> "make" :> "h"],
        !.files = [f \in {"r", "t", "p", "b", "h", ""} \X {"f"} |-> In(f[1])]]

Without(f, k) == [x \in DOMAIN f \ {k} |-> f[x]]

Files ==
    {FileBase, [FileBase EXCEPT !.dirs.root = ""], [FileBase EXCEPT !.dirs.handlers = <<>>],
     [FileBase EXCEPT !.root.nodes = Append(@, embed("gone"))],
     [FileBase EXCEPT !.comps["B"].nodes = Append(@, embed("gone"))],
     [FileBase EXCEPT !.comps["P"].nodes = <<use("make"), use("log")>>],
     [FileBase EXCEPT !.comps["P"].nodes = <<FileCall, embed("P")>>],
     [FileBase EXCEPT !.comps["B"].nodes = <<embed("B")>>],
     [FileBase EXCEPT !.comps["B"].nodes = <<BundleCall, embed("P")>>],
     [FileBase EXCEPT !.comps["B"].nodes = <<embed("T")>>, !.dirs.comps = Without(@, "B")],
     [FileBase EXCEPT !.files[<<"h", "f">>] = NotToml],
     [FileBase EXCEPT !.files[<<"h", "f">>] = NotText],
     [FileBase EXCEPT !.root.nodes = <<@[1]>>, !.root.outputs = <<>>, !.dirs.comps = <<>>]}
    \cup {[FileBase EXCEPT !.dirs.comps = Without(@, p)] : p \in {"T", "P", "B"}}
    \cup {[FileBase EXCEPT !.dirs.comps[p] = ""] : p \in {"T", "P", "B"}}
    \cup {[FileBase EXCEPT !.files = Without(@, <<d, "f">>)] : d \in {"r", "t", "p", "b", "h"}}
    \cup {[FileBase EXCEPT !.files[<<d, "f">>] = NotToml] : d \in {"r", "t", "p", "b"}}

(***************************************************************************)
(* Documents: one of each sort, handed in on top of what is registered;     *)
(* then each with one thing written otherwise.                             *)
(***************************************************************************)
spelt(shape) == [shape |-> shape, keys |-> {}, nullable |-> "absent"]
tok(toks) == spelt(<<<<"type", toks>>>>)
str == tok(<<"str">>)
keyed(f, keys) == [f EXCEPT !.keys = keys]
nullable(f, n) == [f EXCEPT !.nullable = n]
row(n, f) == [name |-> n, field |-> f, default |-> <<>>]
rows == <<row("i", str)>>

handlerDoc(name, kind, sections) ==
    [sort |-> "handler", name |-> name, sections |-> {kind} \cup sections, odd |-> {},
     reads |-> rows, outputs |-> <<>>, transport |-> <<>>, services |-> <<>>, bindings |-> <<>>]
bindingDoc(compile) ==
    [compile |-> compile, keys |-> {}, params |-> <<>>, delivery |-> "copy",
     default |-> <<>>, fields |-> <<>>]
serviceDoc(name, type) == [name |-> name, type |-> type, keys |-> {"type"}]

LogDoc == [handlerDoc("log", "hook", {"reads", "service_bindings", "transport_schema"})
           EXCEPT !.transport = <<row("sink", str), row("tag", tok(<<"str", "|", "None">>))>>]
MakeDoc == [handlerDoc("make", "transform", {"reads", "output_schema", "bindings"})
            EXCEPT !.outputs = <<row("o", str)>>,
                   !.bindings = "k" :> [bindingDoc("no") EXCEPT !.default = <<s("d")>>,
                                            !.fields = <<row("v", nullable(str, "true"))>>]
                                @@ "g" :> [bindingDoc("blessed") EXCEPT !.params = "text" :> s("p")]]
CallDoc == [handlerDoc("call", "service", {"reads", "output_schema", "service_bindings", "bindings"})
            EXCEPT !.outputs = <<row("u", str)>>, !.services = <<serviceDoc("a", "api")>>,
                   !.bindings = "c" :> [bindingDoc("no") EXCEPT
                        !.fields = <<row("x", str), row("y", nullable(str, "true"))>>]]
ApiDoc == [sort |-> "service_type", name |-> "api", owned |-> "no", odd |-> {},
           sections |-> {"name", "identity_schema", "transport_schema", "config_schema"},
           identity |-> <<row("id", str)>>,
           transport |-> <<row("url", str), row("proxy", nullable(str, "true"))>>,
           config |-> <<[row("mode", keyed(str, {"default"})) EXCEPT !.default = <<s("a")>>],
                        row("extra", tok(<<"table">>))>>]
RootDoc == [sort |-> "pipeline", name |-> "r", odd |-> {}, decl |-> Base.root,
            sections |-> {"meta", "nodes", "service_bindings", "inputs", "outputs"},
            inputs |-> rows, outputs |-> <<row("o", str)>>]
composed(name, sections, outputs) ==
    [sort |-> "composition", name |-> name, odd |-> {}, decl |-> Base.comps[name],
     sections |-> {"meta"} \cup sections, inputs |-> rows, outputs |-> outputs,
     reads |-> <<row("u", str)>>, trained |-> <<row("o", str)>>,
     services |-> <<serviceDoc("m", "model")>>]
PipelineDoc == composed("P", {"nodes", "service_bindings", "inputs"}, <<>>)
BundleDoc == composed("B", {"nodes"}, <<>>)
TrainableDoc == composed("T", {"inputs", "outputs", "preprocessors", "service_bindings", "trainable"},
                         <<row("o", str)>>)
DeploymentDoc == [sort |-> "deployment", name |-> "d", odd |-> {}, decl |-> Deployed,
                  sections |-> {"transport", "hook_transport", "training_contract"}]

EachSort == {LogDoc, MakeDoc, CallDoc, ApiDoc, RootDoc, PipelineDoc, BundleDoc, TrainableDoc,
             DeploymentDoc}

(* What may be written out of shape, per sort.                             *)
OddIn(doc) ==
    {"not_toml"} \cup
    CASE doc.sort = "handler" -> {"header_not_a_table", "header_filled", "annotations_not_a_table",
                                  "bindings_not_a_table", "services_not_a_table"}
      [] doc.sort = "service_type" -> {"annotations_not_a_table", "name_not_a_string"}
      [] doc.sort = "deployment" -> {"integrity_missing", "contract_unknown",
            "integrity_not_a_boolean", "audit_not_a_boolean", "block_not_a_table",
            "override_not_a_table", "override_unknown", "export_not_a_table",
            "artifact_not_a_path", "acknowledged_not_a_list", "annotations_not_a_table"}
      [] OTHER -> {"meta", "meta_name", "meta_unknown", "meta_name_not_a_string", "unknown_kind",
            "nodes_not_an_array", "supply_not_a_table", "merge_not_a_table", "unknown_strategy",
            "annotations_not_a_table", "preprocessors_not_an_array", "trainable", "author_callable",
            "trainable_unknown", "trainable_header_missing", "config_not_a_table",
            "streamable_not_a_boolean", "services_not_a_table"}
OddEntry == {"missing", "unknown", "map_not_a_table", "channel_not_a_string", "name_not_a_string"}
Odd == UNION {{[d EXCEPT !.odd = {<<0, x>>}] : x \in OddIn(d)} : d \in EachSort}
       \cup {[d EXCEPT !.odd = {<<1, x>>}] :
                d \in {RootDoc, PipelineDoc, BundleDoc, TrainableDoc}, x \in OddEntry}

(* Sections too many or too few.                                           *)
Sectioned ==
    UNION {{[d EXCEPT !.sections = @ \cup {"z"}]} \cup {[d EXCEPT !.sections = @ \ {x}] : x \in d.sections}
           : d \in EachSort}
    \cup {[LogDoc EXCEPT !.sections = @ \cup {"output_schema"}],
          [MakeDoc EXCEPT !.sections = @ \cup {"transport_schema"}],
          [MakeDoc EXCEPT !.sections = @ \cup {"hook"}]}

(* Field tables: every token and table form at every kind of position.     *)
Tokens == {<<"str">>, <<"table">>, <<"secret_ref">>, <<"list", "[", "str", "]">>,
           <<"list", "[", "table", "]">>, <<"dict", "[", "str", ",", "int", "]">>,
           <<"dict", "[", "int", ",", "str", "]">>,
           <<"dict", "[", "str", ",", "list", "[", "int", "]", "]">>,
           <<"tuple", "[", "str", ",", "dict", "[", "str", ",", "int", "]", "]">>,
           <<"tuple", "[", "]">>, <<"list", "[", "str", "]", "|", "None">>,
           <<"list", "[", "str", "|", "None", "]">>, <<"secret_ref", "|", "None">>,
           <<"table", "|", "None">>, <<"None", "|", "str">>, <<"str", "|", "None", "|", "None">>,
           <<"Literal", "[", "'x'", ",", "'y'", "]">>, <<"Literal", "[", "]">>,
           <<"list", "[", "secret_ref", "]">>, <<"set", "[", "str", "]">>, <<"bytes">>}
holding(toks) == <<<<"fields", <<tok(toks)>>>>>>
Forms == {tok(t) : t \in Tokens}
    \cup {spelt(holding(<<"str">>)), spelt(holding(<<"table">>)), spelt(holding(<<"secret_ref">>)),
          spelt(holding(<<"int", "|", "None">>)), spelt(<<<<"fields", <<>>>>>>), spelt(<<>>),
          spelt(<<<<"type", <<"str">>>>, <<"fields", <<str>>>>>>),
          spelt(<<<<"item", holding(<<"str">>)>>>>), spelt(<<<<"value", holding(<<"int">>)>>>>),
          spelt(<<<<"item", <<<<"type", <<"str">>>>>>>>>>),
          spelt(<<<<"item", <<<<"value", holding(<<"str">>)>>>>>>>>),
          spelt(<<<<"fields", <<keyed(str, {"builtin"})>>>>>>),
          spelt(<<<<"fields", <<keyed(str, {"description"})>>>>>>)}
    \cup {nullable(tok(<<"list", "[", "str", "]">>), n) : n \in {"true", "false", "other"}}
    \cup {nullable(tok(<<"int", "|", "None">>), "true")}
    \cup {keyed(str, {k}) : k \in {"builtin", "dotted", "dotted_no_table", "unknown", "description",
                                   "prose_not_string", "default", "default_null"}}
    \cup {keyed(tok(<<"table">>), {"default_date"})}
Fielded ==
    UNION {{[MakeDoc EXCEPT !.reads[1].field = f], [MakeDoc EXCEPT !.outputs[1].field = f],
            [MakeDoc EXCEPT !.bindings["k"].fields[1].field = f],
            [LogDoc EXCEPT !.transport[1].field = f],
            [ApiDoc EXCEPT !.identity[1].field = f], [ApiDoc EXCEPT !.transport[1].field = f],
            [ApiDoc EXCEPT !.config[2].field = f],
            [RootDoc EXCEPT !.inputs[1].field = f], [TrainableDoc EXCEPT !.trained[1].field = f]} :
           f \in Forms}

(* Values out of place, and the rest.                                      *)
oddNull == oneOf("null", int("1"))
alsoFile == Keyed("file" :> s("f") @@ "z" :> s("1"))
Valued ==
    {[MakeDoc EXCEPT !.bindings["g"].params["text"] = v] : v \in {oddNull, null, alsoFile, int("1")}}
    \cup {[MakeDoc EXCEPT !.bindings["g"].compile = c] : c \in {"dotted", "bare", "not_a_string"}}
    \cup {[MakeDoc EXCEPT !.bindings["g"].keys = {"delivery"}],
          [MakeDoc EXCEPT !.bindings["k"].delivery = "unknown"],
          [MakeDoc EXCEPT !.bindings["k"].default = <<oddNull>>],
          [MakeDoc EXCEPT !.outputs = <<>>], [ApiDoc EXCEPT !.identity = <<>>],
          [ApiDoc EXCEPT !.transport = <<>>], [TrainableDoc EXCEPT !.trained = <<>>],
          [TrainableDoc EXCEPT !.reads = <<>>], [TrainableDoc EXCEPT !.outputs = <<>>],
          [RootDoc EXCEPT !.outputs = <<>>], [BundleDoc EXCEPT !.decl.nodes = <<>>],
          [LogDoc EXCEPT !.transport[1].name = "i"], [LogDoc EXCEPT !.transport[1].name = "services"],
          [ApiDoc EXCEPT !.transport[1].name = "remaining_budget_ms"],
          [ApiDoc EXCEPT !.owned = "shipped"], [ApiDoc EXCEPT !.owned = "changed"]}
    \cup {[CallDoc EXCEPT !.services[1].keys = k] :
            k \in {{}, {"type", "z"}, {"type", "type_not_a_string"}}}
    \cup {[d EXCEPT !.decl.supply["a"].config = "mode" :> oddNull @@ ApiConfig] : d \in {RootDoc, TrainableDoc}}
    \cup {[d EXCEPT !.decl.supply["a"].identity = "id" :> oddNull] : d \in {RootDoc, TrainableDoc}}
    \cup {[RootDoc EXCEPT !.decl.nodes[1].values = "c" :> v] : v \in {oddNull, alsoFile}}
    \cup {[BundleDoc EXCEPT !.decl.nodes[1].values = "k" :> oddNull],
          [TrainableDoc EXCEPT !.decl.pre[1].values = "c" :> oddNull],
          [TrainableDoc EXCEPT !.decl.config = "temp" :> oddNull],
          [DeploymentDoc EXCEPT !.decl.transport["a"]["url"] = oddNull],
          [DeploymentDoc EXCEPT !.decl.hooks[<<"log">>]["sink"] = oddNull],
          [DeploymentDoc EXCEPT !.decl.pipelines = "p" :> Override("a" :> ("url" :> oddNull), <<>>)]}

OneDocument ==
    {[Base EXCEPT !.docs = <<d>>] : d \in EachSort \cup Odd \cup Sectioned \cup Fielded \cup Valued}

(* All of them in the order of the command line, the files read after.     *)
AllDocuments ==
    {[Base EXCEPT !.resolve = TRUE,
                  !.docs = <<ApiDoc, LogDoc, MakeDoc, CallDoc, TrainableDoc, PipelineDoc, BundleDoc,
                             RootDoc, DeploymentDoc>>]}

(* Types that no document of the above spells.                             *)
Rich == {ListOf(DictOf(TupleType(<<text, ListOf(prim("int"))>>))),
         DictOf(LiteralOf(<<"'x'", "'y'">>)), Optional(TupleType(<<DictOf(text), text>>))}
RichTypes ==
    {[Base EXCEPT !.handlers = ("list" :> handler("transform", <<>>, <<port("o", t)>>, <<>>)) @@ @] :
        t \in Rich}

Documents == OneDocument \cup AllDocuments \cup RichTypes
AllRegistries == <<Nestings, Wirings, Supplies, {PortedTo(u)}, Files, Documents>>
=============================================================================
