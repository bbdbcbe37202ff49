----------------------------- MODULE FileResolution -----------------------------
(***************************************************************************)
(* The pass that reads the files bindings are supplied from, before a       *)
(* declaration is compiled or hashed: `resolve_pipeline_bindings`, then     *)
(* `resolve_compile_param_files`.  A value still to be read is              *)
(*   [form |-> "path", file]                                               *)
(* and is replaced by its content, read in the directory of the declaration *)
(* that supplied it.  Every composition met is registered again with its    *)
(* values read.  A registry has, besides the fields CompilePipeline reads,  *)
(*   dirs  : [root, comps, handlers], the directory of a declaration; ""   *)
(*           when a path has none, no entry when no path was registered    *)
(*   files : <<directory, file>> -> its content, `NotToml` when it does    *)
(*           not parse, `NotText` when it is not UTF-8 either; what is not *)
(*           in it does not exist                                          *)
(* The recursion is the variable `walk`, a frame per declaration being read.*)
(***************************************************************************)
EXTENDS CompilePipeline

(* A registry's parts, as far as this pass touches them.                    *)
HasValues(e) == e.form = "handler" => "values" \in DOMAIN e
NodeList(nodes) == IsList(nodes) /\ \A i \in DOMAIN nodes : HasValues(nodes[i])
Shaped(r) ==
    /\ {"root", "comps", "handlers", "dirs", "files"} \subseteq DOMAIN r
    /\ "nodes" \in DOMAIN r.root /\ NodeList(r.root.nodes)
    /\ IsFiniteSet(DOMAIN r.comps)
    /\ \A p \in DOMAIN r.comps :
        IF r.comps[p].kind = "trainable"
        THEN /\ "pre" \in DOMAIN r.comps[p]
             /\ \A i \in DOMAIN r.comps[p].pre : "values" \in DOMAIN r.comps[p].pre[i]
        ELSE "nodes" \in DOMAIN r.comps[p] /\ NodeList(r.comps[p].nodes)

ASSUME RegistriesShaped == \A k \in DOMAIN Registries : \A r \in Registries[k] : Shaped(r)

VARIABLES phase, walk

resolution == <<phase, walk>>

NotToml == [form |-> "not_toml"]
NotText == [form |-> "not_text"]

IsPath(v) == v.form = "path"
Open(values) == \E b \in DOMAIN values : IsPath(values[b])

(* `_read_external_file`; what a value and what a parameter makes of it:    *)
(* `_resolve_one`, `_resolve_values` and `_resolve_compile_param`.         *)
Holds(dir, v, contents) == IsPath(v) => /\ <<dir, v.file>> \in DOMAIN reg.files
                                        /\ reg.files[<<dir, v.file>>] \notin contents
Readable(dir, values) == \A b \in DOMAIN values : Holds(dir, values[b], {NotToml, NotText})
ReadableAsText(dir, params) == \A k \in DOMAIN params : Holds(dir, params[k], {NotText})
ReadAll(dir, values) ==
    [b \in DOMAIN values |->
        IF IsPath(values[b]) THEN FromFile(reg.files[<<dir, values[b].file>>]) ELSE values[b]]

(* A raise ends the load; what was registered again stays so.              *)
RefuseFile(check) ==
    /\ outcome' = [status |-> "refused",
                   faults |-> {[unit |-> "-", group |-> "resolve", check |-> check, about |-> <<>>]}]
    /\ walk' = <<>> /\ phase' = "refused"
    /\ UNCHANGED <<reg, stack, done>>
Unsupported == RefuseFile("external_binding_unsupported")

WalkFrame(path, kind, dir, nodes) ==
    [path |-> path, kind |-> kind, dir |-> dir, nodes |-> nodes, at |-> 1]

(* The caller hands in the directory of the pipeline's own declaration.    *)
RootWalk(r) == <<WalkFrame("root", "pipeline", r.dirs.root, r.root.nodes)>>

Reading == walk[Len(walk)]
Node == Reading.nodes[Reading.at]
AtNode(form) == /\ walk # <<>> /\ Reading.at <= Len(Reading.nodes)
                /\ Node.form = form

ResolveHandlerNode ==
    /\ AtNode("handler")
    /\ IF \/ Reading.kind = "pipeline" /\ Reading.dir = "" /\ Open(Node.values)
          \/ ~Readable(Reading.dir, Node.values)
       THEN Unsupported
       ELSE /\ walk' = [walk EXCEPT ![Len(walk)] =
                 [Reading EXCEPT !.nodes[Reading.at].values = ReadAll(Reading.dir, @), !.at = @ + 1]]
            /\ UNCHANGED <<vars, phase>>

(* The values of a composition's own, which need a directory to be read in. *)
OwnValues(c) ==
    IF c.kind = "trainable" THEN {c.pre[i].values : i \in DOMAIN c.pre}
    ELSE {c.nodes[i].values : i \in {j \in DOMAIN c.nodes : c.nodes[j].form = "handler"}}
NeedsAnchor(c) == \E values \in OwnValues(c) : Open(values)

(* Mutant of AnchorOf: a composition is read where its embedder is.        *)
AnchorOfOuter(path) == Reading.dir
(* `_composition_anchor_dir`: the composition's own directory.             *)
AnchorOf(path) == IF path \in DOMAIN reg.dirs.comps THEN reg.dirs.comps[path] ELSE ""

(* `resolve_composition_bindings`.                                         *)
ResolveTrainable(path, c) ==
    IF \E values \in OwnValues(c) : ~Readable(AnchorOf(path), values) THEN Unsupported
    ELSE /\ reg' = [reg EXCEPT !.comps[path].pre =
                [i \in DOMAIN c.pre |-> [c.pre[i] EXCEPT !.values = ReadAll(AnchorOf(path), @)]]]
         /\ walk' = [walk EXCEPT ![Len(walk)].at = @ + 1]
         /\ UNCHANGED <<stack, outcome, done, phase>>

(* `_resolve_composition_ref`.                                             *)
ResolveComposition ==
    /\ AtNode("composition")
    /\ LET path == Node.name
           c == reg.comps[path]
       IN
       IF path \notin DOMAIN reg.comps THEN RefuseFile("handler_name_resolution")
       ELSE IF \E k \in DOMAIN walk : walk[k].path = path THEN RefuseFile("composition_cycle")
       ELSE IF NeedsAnchor(c) /\ path \notin DOMAIN reg.dirs.comps THEN Unsupported
       ELSE IF c.kind = "trainable" THEN ResolveTrainable(path, c)
       ELSE /\ walk' = Append(walk, WalkFrame(path, c.kind, AnchorOf(path), c.nodes))
            /\ UNCHANGED <<vars, phase>>

(* Mutant of ReturnResolved: the embedder stays where it was.              *)
ReturnInPlace ==
    /\ walk # <<>> /\ Reading.at > Len(Reading.nodes)
    /\ IF Len(walk) = 1
       THEN /\ reg' = [reg EXCEPT !.root.nodes = Reading.nodes]
            /\ walk' = <<>> /\ phase' = "params"
       ELSE /\ reg' = [reg EXCEPT !.comps[Reading.path].nodes = Reading.nodes]
            /\ walk' = SubSeq(walk, 1, Len(walk) - 1)
            /\ UNCHANGED phase
    /\ UNCHANGED <<stack, outcome, done>>

(* A declaration read to its end is registered again, the root's returned.  *)
ReturnResolved ==
    /\ walk # <<>> /\ Reading.at > Len(Reading.nodes)
    /\ IF Len(walk) = 1
       THEN /\ reg' = [reg EXCEPT !.root.nodes = Reading.nodes]
            /\ walk' = <<>> /\ phase' = "params"
       ELSE /\ reg' = [reg EXCEPT !.comps[Reading.path].nodes = Reading.nodes]
            /\ walk' = [SubSeq(walk, 1, Len(walk) - 1) EXCEPT ![Len(walk) - 1].at = @ + 1]
            /\ UNCHANGED phase
    /\ UNCHANGED <<stack, outcome, done>>

(* The compile parameters of every registered handler, read as text.  They  *)
(* are stamped after all are read: a refusal leaves none of them stamped.  *)
ParamsOf(h) == {h.bindings[b].params : b \in {d \in DOMAIN h.bindings : h.bindings[d].compile}}
WithFileParams == {n \in DOMAIN reg.handlers : \E ps \in ParamsOf(reg.handlers[n]) : Open(ps)}
HandlerDir(n) == reg.dirs.handlers[n]
Stamped(n) ==
    LET bindings == reg.handlers[n].bindings IN
    [reg.handlers[n] EXCEPT !.bindings =
        [b \in DOMAIN bindings |-> [bindings[b] EXCEPT !.params = ReadAll(HandlerDir(n), @)]]]

ResolveParams ==
    /\ phase = "params"
    /\ IF \E n \in WithFileParams :
            \/ n \notin DOMAIN reg.dirs.handlers
            \/ \E ps \in ParamsOf(reg.handlers[n]) : ~ReadableAsText(HandlerDir(n), ps)
       THEN Unsupported
       ELSE /\ reg' = [reg EXCEPT !.handlers =
                [n \in DOMAIN @ |-> IF n \in WithFileParams THEN Stamped(n) ELSE @[n]]]
            /\ phase' = "compile"
            /\ stack' = <<Frame("root", reg.root)>>
            /\ UNCHANGED <<walk, outcome, done>>

Resolve == ResolveHandlerNode \/ ResolveComposition \/ ReturnResolved \/ ResolveParams

(* The pass is handed declarations as they were parsed, none of whose       *)
(* values has been read from a file, and is followed by compile.            *)
Unread(values) == \A b \in DOMAIN values : values[b].form # "file"
AsParsed(r) ==
    /\ \A i \in DOMAIN r.root.nodes : r.root.nodes[i].form = "handler" => Unread(r.root.nodes[i].values)
    /\ \A p \in DOMAIN r.comps : \A values \in OwnValues(r.comps[p]) : Unread(values)

FilesInit ==
    /\ \E k \in DOMAIN Registries : reg \in Registries[k]
    /\ AsParsed(reg)
    /\ phase = "files" /\ walk = RootWalk(reg)
    /\ stack = <<>> /\ outcome = [status |-> "compiling"] /\ done = {}

FilesNext == Resolve \/ (Next /\ UNCHANGED resolution)
FilesSpec == FilesInit /\ [][FilesNext]_<<vars, resolution>>

(***************************************************************************)
(* Properties.                                                             *)
(***************************************************************************)

(* The directory a declaration's values are read in, and the values.       *)
Home(p) == IF p \in DOMAIN reg.dirs.comps THEN reg.dirs.comps[p] ELSE ""
ReadIn == {<<reg.dirs.root, e.values>> : e \in {x \in ToSet(reg.root.nodes) : x.form = "handler"}}
          \cup UNION {{<<Home(p), values>> : values \in OwnValues(reg.comps[p])} :
                      p \in Reached(reg, Named(reg, reg.root.nodes))}

(* Once the pass is through, nothing that is compiled and hashed is still a *)
(* path, and each value read is that of a file in the directory of the      *)
(* declaration that supplied it, whoever embeds it and in whatever order   *)
(* the embedders were walked.                                              *)
FilesResolvedAtHome ==
    phase = "compile" =>
        \A home \in ReadIn : \A b \in DOMAIN home[2] :
            /\ ~IsPath(home[2][b])
            /\ home[2][b].form = "file" =>
                    \E f \in DOMAIN reg.files : f[1] = home[1] /\ reg.files[f] = home[2][b].content
=============================================================================
