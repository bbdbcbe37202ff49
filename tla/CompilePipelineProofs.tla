------------------------ MODULE CompilePipelineProofs ------------------------
(***************************************************************************)
(* What holds of `compile_pipeline` for every set of registries: its       *)
(* recursion never meets a declaration twice and is no deeper than there   *)
(* are pipeline compositions; merge entries govern only the channels of    *)
(* the declaration that wrote them; a graph it hands on is one the walk    *)
(* may take, and what its nodes call is supplied and covered; a composition *)
(* that reaches itself never compiles; what is going to stream at run time  *)
(* has only hooks behind it; and a declaration has one answer, however      *)
(* often and from wherever it is compiled.                                 *)
(***************************************************************************)
EXTENDS CompilePipeline, FunctionTheorems, FiniteSetTheorems, SequenceTheorems,
        WellFoundedInduction, TLAPS

(***************************************************************************)
(* The inductive invariant.                                                *)
(***************************************************************************)
FrameFields == {"path", "decl", "nodes", "pc", "at", "flat", "merges", "scoped",
                "names", "bounds", "faults", "supply"}

(* A node as `GraphOf` takes it: its shape, whatever its channels.          *)
NodeShaped(n) ==
    /\ n.kind \in Kinds /\ n.streams \in BOOLEAN
    /\ IsList(n.reads) /\ IsList(n.writes)
    /\ n.kind = "hook" => n.writes = <<>>
    /\ n.kind \in {"transform", "service", "trainable"} => n.writes # <<>>
    /\ n.streams => n.kind \in {"trainable", "pipeline"}

(* The service-typed bindings a node calls through, and the scope they are *)
(* supplied in.                                                            *)
NodeServices(r, n) ==
    IF n.kind = "trainable" THEN ToSet(r.comps[n.from].services)
    ELSE ToSet(r.handlers[n.name].services)
SupplyOf(r, decl, n) == IF n.from = "outer" THEN decl.supply ELSE r.comps[n.from].supply

Serves(r, supply, sb) ==
    /\ sb.name \in DOMAIN supply /\ supply[sb.name].type = sb.type
    /\ sb.type \in DOMAIN r.types

(* No preprocessor calls through the handle of its composition's own        *)
(* backend: the one case in which compile leaves the supplied config alone.*)
HandlesApart(r) ==
    \A p \in Embeds(r, "trainable") : \A i \in DOMAIN r.comps[p].pre :
        LET e == r.comps[p].pre[i] IN
        e.name \in DOMAIN r.handlers =>
            \A sb \in ToSet(r.handlers[e.name].services) :
                sb.name \notin {b.name : b \in ToSet(r.comps[p].services)}

Configures(r, supply, sb) == ConfigFaults(supply[sb.name].config, r.types[sb.type]) = {}

(* What a node declares, of bindings and of config, is supplied.           *)
Configured(r, supply, n) ==
    IF n.kind = "trainable"
    THEN ConfigFaults(r.comps[n.from].config, r.types[r.comps[n.from].services[1].type]) = {}
    ELSE /\ SchemaSupplyFaults(r.handlers[n.name].bindings, n.values) = {}
         /\ HandlesApart(r) => \A sb \in NodeServices(r, n) : Configures(r, supply, sb)

(* Where a node comes from: an embed, a handler entry of the declaration,   *)
(* or a trainable composition entry, whose supplies have been checked.     *)
Names(e, n) == e.name = n.name /\ e.values = n.values
IsMember(r, e, n) == Names(e, n) /\ e.id = n.member /\ e.name \in DOMAIN r.handlers

FromHandler(r, f, n) ==
    /\ n.from = "outer" /\ n.kind \in {"transform", "service", "hook"}
    /\ n.name \in DOMAIN r.handlers
    /\ \E i \in DOMAIN f.nodes : f.nodes[i].form = "handler" /\ Names(f.nodes[i], n)

FromTrainable(r, f, n) ==
    /\ n.kind # "pipeline"
    /\ n.from \in Embeds(r, "trainable")
    /\ \E i \in DOMAIN f.nodes : f.nodes[i].form = "composition" /\ f.nodes[i].name = n.from
    /\ Len(r.comps[n.from].services) = 1
    /\ n.kind # "trainable" =>
        \E i \in DOMAIN r.comps[n.from].pre : IsMember(r, r.comps[n.from].pre[i], n)
    /\ f.supply = {} =>
        /\ \A sb \in NodeServices(r, n) : Serves(r, r.comps[n.from].supply, sb)
        /\ Configured(r, r.comps[n.from].supply, n)

NodeTraced(r, f, n) ==
    \/ n.kind = "pipeline" /\ n.from \in Embeds(r, "pipeline")
    \/ FromHandler(r, f, n)
    \/ FromTrainable(r, f, n)

FlatHolds(r, f) ==
    /\ IsList(f.flat)
    /\ \A n \in ToSet(f.flat) : NodeShaped(n) /\ NodeTraced(r, f, n)

(* What a node calls is supplied in its scope.                             *)
Supplied(r, decl, n) ==
    n.kind # "pipeline" =>
        /\ \A sb \in NodeServices(r, n) : Serves(r, SupplyOf(r, decl, n), sb)
        /\ Configured(r, SupplyOf(r, decl, n), n)

(* The rules of group B that look at no type.                              *)
TopologyRules(g) ==
    /\ SingleAssignment(g)
    /\ MergeDeclared(g)
    /\ MergeWired(g)
    /\ InputClosed(g)
    /\ BoundaryLive(g)

(* Who declared a merge entry can be told from its channel: the pipeline   *)
(* itself, or a composition that scoped it.                                *)
MergesTraced(f) ==
    f.pc # "substitute" =>
        /\ DOMAIN f.decl.merge \subseteq DOMAIN f.merges
        /\ \A c \in DOMAIN f.merges :
            /\ c \in DOMAIN f.decl.merge <=> f.merges[c].by = "outer"
            /\ c \notin DOMAIN f.decl.merge => c \in f.scoped

(* A channel no boundary field can be spelled as.                          *)
Deep(chan) == chan \in Seq(STRING) /\ Len(chan) >= 2

(* What a frame has shown once it has passed a group.                      *)
GroupsPassed(r, f) ==
    /\ f.pc \in {"topology", "coverage"} => DOMAIN f.decl.merge \cap f.scoped = {}
    /\ f.pc = "coverage" => /\ TopologyRules(GraphOf(f))
                            /\ \A n \in ToSet(f.flat) : Supplied(r, f.decl, n)

FrameHolds(r, f) ==
    /\ DOMAIN f = FrameFields
    /\ f.path \in {"root"} \cup Embeds(r, "pipeline")
    /\ PipelineTyped(f.decl)
    /\ f.pc = "substitute" => f.flat = <<>>
    /\ FlatHolds(r, f)
    /\ \A c \in f.scoped : Deep(c)
    /\ MergesTraced(f)
    /\ GroupsPassed(r, f)

Simple(s) == \A i, j \in DOMAIN s : s[i].path = s[j].path => i = j

(* A stack of calls: all but the innermost are flattening, all but the      *)
(* outermost an embed.                                                     *)
StackHolds(r, s) ==
    /\ \E S : s \in Seq(S)
    /\ \A k \in DOMAIN s : k # 1 => s[k].path \in Embeds(r, "pipeline")
    /\ Simple(s)
    /\ \A k \in DOMAIN s : FrameHolds(r, s[k])
    /\ \A k \in DOMAIN s : k # Len(s) => s[k].pc = "flatten"

(* A transport block that covers a handle is complete for a type, with a    *)
(* reserved null only where the field is nullable.                         *)
BlockFits(fields, block) ==
    /\ DOMAIN block = FieldNames(fields)
    /\ \A f \in ToSet(fields) : ExplicitNull(block[f.name]) = "yes" => IsNullable(f)
CoveredBy(r, name, sb) ==
    \A d \in ToSet(r.deployment) :
        LET blocks == Covering(d, name, "transport", sb.name)
        IN  blocks # {} /\ \A b \in blocks : BlockFits(r.types[sb.type].transport, b)

(* The address a hook's transport block is found at.                       *)
Bare == {"transform", "service", "hook"}
AddressOf(r, n) == IF n.from = "outer" THEN <<n.name>> ELSE <<r.comps[n.from].name, n.member>>
HookCovered(r, name, n) ==
    \A d \in ToSet(r.deployment) : \E b \in Covering(d, name, "hooks", AddressOf(r, n)) :
        FieldNames(r.handlers[n.name].transport) \subseteq DOMAIN b

UnitHolds(r, d) ==
    /\ Walkable(d.graph) /\ \E C : d.graph \in GraphsOver(C)
    /\ \A c \in DOMAIN d.merges : c \in d.graph.scoped <=> d.merges[c].by # "outer"
    /\ IsList(d.flat)
    /\ \A n \in ToSet(d.flat) :
        /\ n.kind = "pipeline" => n.from \in Embeds(r, "pipeline")
        /\ n.kind = "trainable" => /\ n.from \in Embeds(r, "trainable")
                                   /\ Len(r.comps[n.from].services) = 1
        /\ n.kind \in {"transform", "service", "hook"} => n.name \in DOMAIN r.handlers
        /\ Supplied(r, d.decl, n)
        /\ n.kind # "pipeline" => \A sb \in NodeServices(r, n) : CoveredBy(r, d.decl.name, sb)
        /\ n.kind \in Bare /\ r.handlers[n.name].kind = "hook" => HookCovered(r, d.decl.name, n)

IInv ==
    /\ {"outer", "root"} \cap DOMAIN reg.comps = {} /\ RegistryTyped(reg)
    /\ StackHolds(reg, stack)
    /\ \A d \in done : UnitHolds(reg, d)

(* Whatever a step does to the calls above it, the outermost call goes on,  *)
(* or is answered.                                                         *)
RootStep ==
    /\ reg' = reg /\ done \subseteq done'
    /\ \/ stack' # <<>> /\ stack'[1].path = stack[1].path /\ outcome' = outcome
       \/ stack' = <<>> /\ outcome'.status = "refused"
       \/ /\ stack' = <<>> /\ outcome'.status = "compiled"
          /\ \E d \in done' : d.path = stack[1].path

(***************************************************************************)
(* The stack moves in three ways, and each keeps what holds of it.         *)
(***************************************************************************)

(* The innermost call goes on.                                             *)
LEMMA SwapKeeps ==
    ASSUME NEW r, NEW s, StackHolds(r, s), s # <<>>,
           NEW g, FrameHolds(r, g), g.path = s[Len(s)].path
    PROVE  StackHolds(r, [s EXCEPT ![Len(s)] = g])
<1>1. PICK S : s \in Seq(S)  BY DEF StackHolds
<1>2. s \in Seq(S \cup {g}) /\ Len(s) \in 1..Len(s) /\ Len(s) \in Nat
  BY <1>1
<1> DEFINE t == [s EXCEPT ![Len(s)] = g]
<1>3. /\ t \in Seq(S \cup {g}) /\ Len(t) = Len(s) /\ DOMAIN t = DOMAIN s
      /\ \A k \in DOMAIN s : t[k] = IF k = Len(s) THEN g ELSE s[k]
  BY <1>2
<1>4. Len(s) \in DOMAIN s  BY <1>2
<1> HIDE DEF t
<1>5. \A k \in DOMAIN t : FrameHolds(r, t[k])
  BY <1>3 DEF StackHolds
<1>6. \A k \in DOMAIN t : k # Len(t) => t[k].pc = "flatten"
  BY <1>3 DEF StackHolds
<1>7. \A k \in DOMAIN t : t[k].path = s[k].path
  BY <1>3, <1>4
<1>8. Simple(t)
  BY <1>3, <1>7 DEF Simple, StackHolds
<1>9. StackHolds(r, t)
  BY <1>3, <1>5, <1>6, <1>7, <1>8 DEF StackHolds
<1> QED  BY <1>9 DEF t

(* It calls another, under a path that is not on the stack.                *)
LEMMA PushKeeps ==
    ASSUME NEW r, NEW s, StackHolds(r, s), s # <<>>, s[Len(s)].pc = "flatten",
           NEW h, FrameHolds(r, h), \A k \in DOMAIN s : s[k].path # h.path,
           h.path \in Embeds(r, "pipeline")
    PROVE  StackHolds(r, Append(s, h))
<1>1. PICK S : s \in Seq(S)  BY DEF StackHolds
<1>2. s \in Seq(S \cup {h}) /\ Len(s) \in Nat /\ DOMAIN s = 1..Len(s)
  BY <1>1
<1> DEFINE t == Append(s, h)
<1>3. /\ t \in Seq(S \cup {h}) /\ Len(t) = Len(s) + 1
      /\ DOMAIN t = DOMAIN s \cup {Len(s) + 1}
      /\ t[Len(s) + 1] = h
      /\ \A k \in DOMAIN s : t[k] = s[k]
  BY <1>2
<1> HIDE DEF t
<1>4. \A k \in DOMAIN t : FrameHolds(r, t[k])
  BY <1>3 DEF StackHolds
<1>5. \A k \in DOMAIN t : k # Len(t) => t[k].pc = "flatten"
  BY <1>2, <1>3 DEF StackHolds
<1>6. Simple(t)
  BY <1>2, <1>3 DEF Simple, StackHolds
<1>7. StackHolds(r, t)
  BY <1>3, <1>4, <1>5, <1>6 DEF StackHolds
<1> QED  BY <1>7 DEF t

(* Arithmetic of positions.                                                *)
LEMMA JustBelowTheTop ==
    ASSUME NEW n \in Nat, n # 0, n # 1
    PROVE  n - 1 \in 1..n /\ n - 1 # n
  OBVIOUS

LEMMA BelowTheTop ==
    ASSUME NEW n \in Nat, NEW k \in 1..(n - 2)
    PROVE  k \in 1..n /\ k # n
  OBVIOUS

(* It returns, or raises, to its caller.                                   *)
LEMMA PopKeeps ==
    ASSUME NEW r, NEW s, StackHolds(r, s), s # <<>>, Len(s) # 1,
           NEW g, FrameHolds(r, g), g.path = s[Len(s) - 1].path
    PROVE  StackHolds(r, Append(SubSeq(s, 1, Len(s) - 2), g))
<1>1. PICK S : s \in Seq(S)  BY DEF StackHolds
<1>2. s \in Seq(S \cup {g}) /\ Len(s) \in Nat /\ Len(s) >= 2 /\ DOMAIN s = 1..Len(s)
  <2>1. s \in Seq(S \cup {g}) /\ Len(s) \in Nat /\ DOMAIN s = 1..Len(s)
    BY <1>1
  <2>2. Len(s) # 0  BY <2>1, EmptySeq
  <2> QED  BY <2>1, <2>2
<1> DEFINE m == Len(s) - 2
<1> DEFINE b == SubSeq(s, 1, m)
<1>3. b \in Seq(S \cup {g}) /\ Len(b) = m /\ m \in Nat /\ \A k \in 1..m : b[k] = s[k]
  BY <1>2, SubSeqProperties
<1> DEFINE t == Append(b, g)
<1> HIDE DEF b
<1>4. /\ t \in Seq(S \cup {g}) /\ Len(t) = m + 1
      /\ DOMAIN t = 1..(m + 1)
      /\ t[m + 1] = g
      /\ \A k \in 1..m : t[k] = s[k]
  BY <1>3
<1> HIDE DEF t
<1>10. \A k \in 1..m : k \in DOMAIN s
  BY <1>2
<1>5. \A k \in DOMAIN t : FrameHolds(r, t[k])
  <2>1. \A k \in 1..m : FrameHolds(r, t[k])  BY <1>4, <1>10 DEF StackHolds
  <2>2. \A k \in DOMAIN t : k = m + 1 \/ k \in 1..m  BY <1>3, <1>4
  <2> HIDE DEF m
  <2> QED  BY <1>4, <2>1, <2>2
<1>6. \A k \in DOMAIN t : k # Len(t) => t[k].pc = "flatten"
  <2> SUFFICES ASSUME NEW k \in 1..m PROVE t[k].pc = "flatten"
    BY <1>3, <1>4
  <2>1. k \in 1..(Len(s) - 2)  OBVIOUS
  <2>2. k \in DOMAIN s /\ k # Len(s)
    BY <1>2, <2>1, BelowTheTop
  <2> QED  BY <1>4, <2>2 DEF StackHolds
<1>7. \A k \in DOMAIN t : t[k].path = s[k].path /\ k \in DOMAIN s
  BY <1>2, <1>3, <1>4
<1>8. Simple(t)
  BY <1>7 DEF Simple, StackHolds
<1>9. StackHolds(r, t)
  BY <1>4, <1>5, <1>6, <1>7, <1>8 DEF StackHolds
<1> QED  BY <1>9 DEF t, b, m

(* None of them touches the outermost call's path.                         *)
LEMMA RootStays ==
    ASSUME NEW r, NEW s, StackHolds(r, s), s # <<>>, NEW g
    PROVE  /\ g.path = s[Len(s)].path =>
                LET t == [s EXCEPT ![Len(s)] = g] IN t # <<>> /\ t[1].path = s[1].path
           /\ LET t == Append(s, g) IN t # <<>> /\ t[1].path = s[1].path
           /\ Len(s) # 1 /\ g.path = s[Len(s) - 1].path =>
                LET t == Append(SubSeq(s, 1, Len(s) - 2), g) IN t # <<>> /\ t[1].path = s[1].path
<1>1. PICK S : s \in Seq(S)  BY DEF StackHolds
<1>2. s \in Seq(S \cup {g}) /\ Len(s) \in Nat /\ Len(s) # 0 /\ DOMAIN s = 1..Len(s)
  BY <1>1, EmptySeq
<1>3. ASSUME g.path = s[Len(s)].path
      PROVE  LET t == [s EXCEPT ![Len(s)] = g] IN t # <<>> /\ t[1].path = s[1].path
  <2> DEFINE t == [s EXCEPT ![Len(s)] = g]
  <2>1. DOMAIN t = DOMAIN s /\ 1 \in DOMAIN s /\ t[1] = IF Len(s) = 1 THEN g ELSE s[1]
    BY <1>2
  <2> HIDE DEF t
  <2>2. t # <<>> /\ t[1].path = s[1].path
    BY <1>3, <2>1
  <2> QED  BY <2>2 DEF t
<1>4. LET t == Append(s, g) IN t # <<>> /\ t[1].path = s[1].path
  <2> DEFINE t == Append(s, g)
  <2>1. 1 \in DOMAIN t /\ t[1] = s[1]
    BY <1>2
  <2> HIDE DEF t
  <2>2. t # <<>> /\ t[1].path = s[1].path  BY <2>1
  <2> QED  BY <2>2 DEF t
<1>5. ASSUME Len(s) # 1, g.path = s[Len(s) - 1].path
      PROVE  LET t == Append(SubSeq(s, 1, Len(s) - 2), g) IN t # <<>> /\ t[1].path = s[1].path
  <2> DEFINE m == Len(s) - 2
             b == SubSeq(s, 1, m)
             t == Append(b, g)
  <2>1. m \in Nat /\ (m = 0 => Len(s) - 1 = 1)  BY <1>2, <1>5
  <2>2. b \in Seq(S \cup {g}) /\ Len(b) = m /\ \A k \in 1..m : b[k] = s[k]
    <3>1. 1 \in 1..(Len(s) + 1) /\ m \in 0..Len(s)  BY <1>2, <2>1
    <3> HIDE DEF m
    <3>2. /\ b \in Seq(S \cup {g})
          /\ Len(b) = IF 1 <= m THEN m - 1 + 1 ELSE 0
          /\ \A i \in 1..(m - 1 + 1) : b[i] = s[1 + i - 1]
      BY <1>2, <3>1, SubSeqProperties
    <3> HIDE DEF b
    <3> QED  BY <2>1, <3>2
  <2> HIDE DEF b, m
  <2>3. /\ 1 \in DOMAIN t /\ t[m + 1] = g /\ \A k \in 1..m : t[k] = s[k]
    BY <2>1, <2>2
  <2> HIDE DEF t
  <2>4. t[1].path = s[1].path
    <3>1. CASE m = 0
      <4>1. t[1] = g  BY <2>3, <3>1
      <4>2. g.path = s[1].path  BY <1>5, <2>1, <3>1
      <4> QED  BY <4>1, <4>2
    <3>2. CASE m # 0
      <4>1. 1 \in 1..m  BY <2>1, <3>2
      <4> QED  BY <2>3, <4>1
    <3> QED  BY <3>1, <3>2
  <2>5. t # <<>>  BY <2>3
  <2> QED  BY <2>4, <2>5 DEF t, b, m
<1> QED  BY <1>3, <1>4, <1>5

(* The outermost call is over.                                             *)
LEMMA EmptyHolds == ASSUME NEW r PROVE StackHolds(r, <<>>)
<1>1. <<>> \in Seq({})  OBVIOUS
<1> QED  BY <1>1 DEF StackHolds, Simple

-----------------------------------------------------------------------------
(* The nodes a declaration flattens to.                                    *)

LEMMA ListOfValues ==
    ASSUME NEW n \in Nat, NEW s, s = [i \in 1..n |-> s[i]]
    PROVE  IsList(s) /\ Len(s) = n /\ DOMAIN s = 1..n
<1>1. s \in [1..n -> ToSet(s)]  BY DEF ToSet
<1> QED  BY <1>1 DEF IsList

LEMMA ListFacts ==
    ASSUME NEW s, IsList(s)
    PROVE  /\ Len(s) \in Nat /\ DOMAIN s = 1..Len(s)
           /\ s # <<>> => 1 \in DOMAIN s
           /\ \A i \in DOMAIN s : s[i] \in ToSet(s)
<1>1. s \in Seq(ToSet(s))  BY DEF IsList
<1>2. Len(s) \in Nat /\ DOMAIN s = 1..Len(s)  BY <1>1
<1>3. s # <<>> => Len(s) # 0  BY <1>1, EmptySeq
<1>4. s # <<>> => 1 \in DOMAIN s  BY <1>2, <1>3
<1>5. \A i \in DOMAIN s : s[i] \in ToSet(s)  BY DEF ToSet
<1> QED  BY <1>2, <1>4, <1>5

(* A list's elements are those of a set it is a sequence over.             *)
LEMMA ListOver ==
    ASSUME NEW G, NEW s \in Seq(G)
    PROVE  IsList(s) /\ ToSet(s) \subseteq G
<1>1. s \in [1..Len(s) -> G] /\ Len(s) \in Nat  OBVIOUS
<1>2. s = [i \in 1..Len(s) |-> s[i]]  BY <1>1
<1>3. IsList(s)  BY <1>1, <1>2, ListOfValues
<1>4. ToSet(s) \subseteq G  BY <1>1 DEF ToSet
<1> QED  BY <1>3, <1>4

LEMMA EmptyList == IsList(<<>>) /\ ToSet(<<>>) = {} /\ DOMAIN <<>> = {}
<1>1. <<>> \in Seq({}) /\ DOMAIN <<>> = {}  OBVIOUS
<1>2. IsList(<<>>)  BY <1>1, ListOver
<1> QED  BY <1>1, <1>2 DEF ToSet

LEMMA ImageIsFinite ==
    ASSUME NEW S, IsFiniteSet(S), NEW h, h = [x \in S |-> h[x]]
    PROVE  IsFiniteSet({h[x] : x \in S})
<1> DEFINE T == {h[x] : x \in S}
<1>1. h \in [S -> T] /\ \A t \in T : \E x \in S : h[x] = t  OBVIOUS
<1>2. h \in Surjection(S, T)  BY <1>1 DEF Surjection
<1> HIDE DEF T
<1>3. IsFiniteSet(T)  BY <1>2, FS_Surjection
<1> QED  BY <1>3 DEF T

(* What scoping leaves: a boundary channel or one no boundary can name.    *)
Scoped(t, chan) == chan \in Boundary(t) \/ Deep(chan)

LEMMA ScopeIsDeep ==
    ASSUME NEW t, t.name \in STRING, NEW chan \in Dotted
    PROVE  Scoped(t, Scope(t, chan)) /\ (chan \notin Boundary(t) => Deep(Scope(t, chan)))
<1>1. chan \in Seq(STRING) /\ Len(chan) \in Nat /\ Len(chan) # 0
  BY EmptySeq DEF Dotted
<1> DEFINE d == <<t.name>> \o chan
<1>2. d \in Seq(STRING) /\ Len(d) >= 2
  <2>1. <<t.name>> \in Seq(STRING) /\ Len(<<t.name>>) = 1  OBVIOUS
  <2>2. d \in Seq(STRING) /\ Len(d) = 1 + Len(chan)
    BY <1>1, <2>1, ConcatProperties
  <2> QED  BY <1>1, <2>2
<1> HIDE DEF d
<1>3. Scope(t, chan) = IF chan \in Boundary(t) THEN chan ELSE d
  BY DEF Scope, d
<1> QED  BY <1>2, <1>3 DEF Scoped, Deep

WireFields == {"chan", "type", "mapped"}

LEMMA WireLists ==
    ASSUME NEW ports, PortList(ports), NEW map
    PROVE  LET ws == Wire(ports, map) IN
           /\ IsList(ws) /\ (ports # <<>> => ws # <<>>)
           /\ \A i \in DOMAIN ws : DOMAIN ws[i] = WireFields
           /\ MapTyped(map) => \A i \in DOMAIN ws : ws[i].chan \in Dotted
<1> DEFINE ws == Wire(ports, map)
<1>1. /\ Len(ports) \in Nat /\ DOMAIN ports = 1..Len(ports)
      /\ ports # <<>> => 1 \in DOMAIN ports
  BY ListFacts DEF PortList
<1>2. /\ DOMAIN ws = DOMAIN ports
      /\ \A i \in DOMAIN ports : ws[i] =
            [chan   |-> IF ports[i].name \in DOMAIN map THEN map[ports[i].name]
                                                        ELSE <<ports[i].name>>,
             type   |-> ports[i].type,
             mapped |-> ports[i].name \in DOMAIN map]
      /\ ws = [i \in DOMAIN ports |-> ws[i]]
  BY DEF Wire
<1> HIDE DEF ws
<1>3. IsList(ws)  BY <1>1, <1>2, ListOfValues
<1>4. ports # <<>> => ws # <<>>  BY <1>1, <1>2
<1>5. \A i \in DOMAIN ws : DOMAIN ws[i] = WireFields
  BY <1>2 DEF WireFields
<1>6. ASSUME MapTyped(map), NEW i \in DOMAIN ws PROVE ws[i].chan \in Dotted
  <2>1. ports[i].name \in STRING  BY <1>2, <1>6 DEF PortList
  <2>2. <<ports[i].name>> \in Dotted
    BY <2>1 DEF Dotted
  <2>3. ws[i].chan = IF ports[i].name \in DOMAIN map THEN map[ports[i].name]
                                                    ELSE <<ports[i].name>>
    BY <1>2, <1>6
  <2> QED  BY <1>6, <2>2, <2>3 DEF MapTyped
<1>7. /\ IsList(ws) /\ (ports # <<>> => ws # <<>>)
      /\ \A i \in DOMAIN ws : DOMAIN ws[i] = WireFields
      /\ MapTyped(map) => \A i \in DOMAIN ws : ws[i].chan \in Dotted
  BY <1>3, <1>4, <1>5, <1>6
<1> QED  BY <1>7 DEF ws

LEMMA ScopedWireLists ==
    ASSUME NEW t, t.name \in STRING, NEW ws, IsList(ws),
           \A i \in DOMAIN ws : DOMAIN ws[i] = WireFields /\ ws[i].chan \in Dotted
    PROVE  LET vs == ScopeWires(t, ws) IN
           /\ IsList(vs) /\ (ws # <<>> => vs # <<>>)
           /\ \A v \in ToSet(vs) : Scoped(t, v.chan)
<1> DEFINE vs == ScopeWires(t, ws)
<1>1. /\ Len(ws) \in Nat /\ DOMAIN ws = 1..Len(ws) /\ (ws # <<>> => 1 \in DOMAIN ws)
  BY ListFacts
<1>2. /\ DOMAIN vs = DOMAIN ws /\ vs = [i \in DOMAIN ws |-> vs[i]]
      /\ \A i \in DOMAIN ws : vs[i] = [ws[i] EXCEPT !.chan = Scope(t, ws[i].chan)]
  BY DEF ScopeWires
<1> HIDE DEF vs
<1>3. IsList(vs) /\ (ws # <<>> => vs # <<>>)
  BY <1>1, <1>2, ListOfValues
<1>4. ASSUME NEW i \in DOMAIN ws PROVE Scoped(t, vs[i].chan)
  <2>1. vs[i].chan = Scope(t, ws[i].chan)
    BY <1>2 DEF WireFields
  <2> QED  BY <2>1, ScopeIsDeep
<1>5. \A v \in ToSet(vs) : Scoped(t, v.chan)
  BY <1>2, <1>4 DEF ToSet
<1> QED  BY <1>3, <1>5 DEF vs

NodeFields == {"kind", "from", "name", "member", "values", "reads", "writes", "streams"}

(* What `_make_node` builds from an entry and the handler it names.          *)
NodeOfEntry(n, e, h, from) ==
    /\ DOMAIN n = NodeFields /\ NodeShaped(n)
    /\ n.kind = h.kind /\ n.kind \in {"transform", "service", "hook"}
    /\ n.from = from /\ n.name = e.name /\ n.values = e.values /\ n.streams = FALSE
    /\ n.reads = Wire(h.reads, e.rmap)
    /\ n.writes = IF h.kind = "hook" THEN <<>> ELSE Wire(h.writes, e.wmap)

LEMMA HandlerNodes ==
    ASSUME RegistryTyped(reg), NEW e, e.name \in DOMAIN reg.handlers, NEW from, NEW member
    PROVE  /\ NodeOfEntry(HandlerNode(e, from, member), e, reg.handlers[e.name], from)
           /\ HandlerNode(e, from, member).member = member
<1> DEFINE n == HandlerNode(e, from, member)
           h == reg.handlers[e.name]
<1>1. HandlerTyped(h)  BY DEF RegistryTyped
<1>2. /\ DOMAIN n = NodeFields /\ n.kind = h.kind /\ n.from = from /\ n.name = e.name
      /\ n.values = e.values /\ n.member = member /\ n.streams = FALSE /\ n.reads = Wire(h.reads, e.rmap)
      /\ n.writes = IF h.kind = "hook" THEN <<>> ELSE Wire(h.writes, e.wmap)
  BY DEF HandlerNode, FlatNode, NodeFields
<1> HIDE DEF n, h
<1>3. IsList(Wire(h.reads, e.rmap)) /\ IsList(Wire(h.writes, e.wmap))
      /\ (h.writes # <<>> => Wire(h.writes, e.wmap) # <<>>)
  BY <1>1, WireLists DEF HandlerTyped
<1>4. IsList(<<>>)  BY EmptyList
<1>5. NodeShaped(n)
  BY <1>1, <1>2, <1>3, <1>4 DEF NodeShaped, HandlerTyped, Kinds
<1>6. NodeOfEntry(n, e, h, from)
  BY <1>1, <1>2, <1>5 DEF HandlerTyped, NodeOfEntry
<1> QED  BY <1>2, <1>6 DEF n, h

(* Scoping keeps a node's shape, and tells its internal channels apart.    *)
WiresTyped(ws) ==
    IsList(ws) /\ \A i \in DOMAIN ws : DOMAIN ws[i] = WireFields /\ ws[i].chan \in Dotted

WiresScoped(t, n) == \A w \in ToSet(n.reads) \cup ToSet(n.writes) : Scoped(t, w.chan)

LEMMA ScopedNodes ==
    ASSUME NEW t, t.name \in STRING, NEW n, DOMAIN n = NodeFields, NodeShaped(n),
           WiresTyped(n.reads), WiresTyped(n.writes)
    PROVE  LET m == ScopeNode(t, n) IN
           /\ NodeShaped(m) /\ WiresScoped(t, m)
           /\ m.kind = n.kind /\ m.from = n.from /\ m.name = n.name
           /\ m.values = n.values /\ m.member = n.member
<1> DEFINE m == ScopeNode(t, n)
<1>1. /\ m.kind = n.kind /\ m.from = n.from /\ m.name = n.name /\ m.streams = n.streams
      /\ m.values = n.values /\ m.member = n.member
      /\ m.reads = ScopeWires(t, n.reads) /\ m.writes = ScopeWires(t, n.writes)
  BY DEF ScopeNode, NodeFields
<1> HIDE DEF m
<1>2. /\ IsList(m.reads) /\ IsList(m.writes) /\ (n.writes # <<>> => m.writes # <<>>)
      /\ WiresScoped(t, m)
  BY <1>1, ScopedWireLists DEF WiresTyped, WiresScoped
<1>3. n.writes = <<>> => m.writes = <<>>
  <2>1. DOMAIN m.writes = DOMAIN n.writes  BY <1>1 DEF ScopeWires
  <2> QED  BY <1>2, <2>1, ListFacts
<1>4. NodeShaped(m)
  BY <1>1, <1>2, <1>3 DEF NodeShaped
<1> QED  BY <1>1, <1>2, <1>4 DEF m

LEMMA PreNodesHold ==
    ASSUME RegistryTyped(reg), NEW path, NEW t, TrainableTyped(t), NEW i \in DOMAIN t.pre,
           t.pre[i].name \in DOMAIN reg.handlers
    PROVE  LET m == PreNode(path, t, i) IN
           /\ NodeShaped(m) /\ WiresScoped(t, m)
           /\ m.kind \in {"transform", "service", "hook"} /\ m.from = path
           /\ IsMember(reg, t.pre[i], m)
<1> DEFINE e == t.pre[i]
           n == HandlerNode(e, path, e.id)
           h == reg.handlers[e.name]
<1>0. NodeOfEntry(n, e, h, path) /\ n.member = e.id  BY HandlerNodes
<1>2. PreNode(path, t, i) = ScopeNode(t, n)  BY DEF PreNode
<1>3. HandlerTyped(h) /\ MapTyped(e.rmap) /\ MapTyped(e.wmap) /\ t.name \in STRING
  BY DEF RegistryTyped, TrainableTyped
<1> HIDE DEF n, h, e
<1>1. /\ DOMAIN n = NodeFields /\ NodeShaped(n)
      /\ n.kind \in {"transform", "service", "hook"}
      /\ n.from = path /\ n.name = e.name /\ n.values = e.values
      /\ n.reads = Wire(h.reads, e.rmap)
      /\ n.writes = IF h.kind = "hook" THEN <<>> ELSE Wire(h.writes, e.wmap)
  BY <1>0 DEF NodeOfEntry
<1>4. WiresTyped(<<>>)  BY EmptyList DEF WiresTyped
<1>5. WiresTyped(n.reads) /\ WiresTyped(n.writes)
  BY <1>1, <1>3, <1>4, WireLists DEF HandlerTyped, WiresTyped
<1> DEFINE m == ScopeNode(t, n)
<1>6. /\ NodeShaped(m) /\ WiresScoped(t, m) /\ m.kind = n.kind /\ m.from = n.from
      /\ m.name = n.name /\ m.values = n.values /\ m.member = n.member
  BY <1>1, <1>3, <1>5, ScopedNodes
<1> HIDE DEF m
<1>7. IsMember(reg, e, m)  BY <1>0, <1>1, <1>6 DEF IsMember, Names, e
<1> QED  BY <1>1, <1>2, <1>6, <1>7 DEF e, m

LEMMA OwnNodeHolds ==
    ASSUME NEW path, NEW t, TrainableTyped(t)
    PROVE  LET m == OwnNode(path, t) IN
           NodeShaped(m) /\ WiresScoped(t, m) /\ m.kind = "trainable" /\ m.from = path
<1> DEFINE n == FlatNode("trainable", path, Wire(t.reads, <<>>), Wire(t.writes, <<>>),
                         t.streamable)
<1>1. /\ DOMAIN n = NodeFields /\ n.kind = "trainable" /\ n.from = path
      /\ n.streams = t.streamable /\ n.reads = Wire(t.reads, <<>>)
      /\ n.writes = Wire(t.writes, <<>>)
  BY DEF FlatNode, NodeFields
<1>2. OwnNode(path, t) = ScopeNode(t, n)  BY DEF OwnNode
<1> HIDE DEF n
<1>3. MapTyped(<<>>)
  <2>1. DOMAIN <<>> = {}  OBVIOUS
  <2> QED  BY <2>1 DEF MapTyped
<1>4. WiresTyped(n.reads) /\ WiresTyped(n.writes) /\ n.writes # <<>>
  BY <1>1, <1>3, WireLists DEF TrainableTyped, WiresTyped
<1>5. NodeShaped(n)
  BY <1>1, <1>4 DEF NodeShaped, WiresTyped, Kinds, TrainableTyped
<1> QED  BY <1>1, <1>2, <1>4, <1>5, ScopedNodes DEF TrainableTyped

-----------------------------------------------------------------------------
(* Every set of naturals has a least element.                              *)
LEMMA LeastNat ==
    ASSUME NEW T, T \subseteq Nat, T # {}
    PROVE  \E n \in T : \A m \in T : n <= m
<1> DEFINE R == OpToRel(<, Nat)
<1>1. PICK n \in T : \A m \in T : ~(<<m, n>> \in R)
  <2>1. IsWellFoundedOn(R, Nat)  BY NatLessThanWellFounded
  <2> HIDE DEF R
  <2> QED  BY <2>1, WFMin
<1>2. \A m \in T : ~(m < n)
  BY <1>1 DEF OpToRel
<1> QED  BY <1>2

(* A set that holds 0 and each successor holds every natural.              *)
LEMMA SetInduction ==
    ASSUME NEW P, 0 \in P, \A n \in Nat : n \in P => n + 1 \in P
    PROVE  Nat \subseteq P
<1> SUFFICES ASSUME Nat \ P # {} PROVE FALSE  OBVIOUS
<1>1. PICK n \in Nat \ P : \A m \in Nat \ P : n <= m
  BY LeastNat
<1>2. n # 0 /\ n - 1 \in Nat /\ n = (n - 1) + 1 /\ ~(n <= n - 1)
  BY <1>1
<1> QED  BY <1>1, <1>2

(* `TrainableNodes`: the preprocessors kept so far, by recursion.          *)
PreNodes(path, t) == {PreNode(path, t, i) : i \in {j \in DOMAIN t.pre : t.pre[j].name \in DOMAIN reg.handlers}}

Listing(path, t, n, b) ==
    b = [i \in 0..n |->
            IF i = 0 THEN <<>>
            ELSE IF Flattened(t, i) THEN Append(b[i - 1], PreNode(path, t, i)) ELSE b[i - 1]]

LEMMA ListingsExist == \A path, t : \A n \in Nat : \E b : Listing(path, t, n, b)
<1> SUFFICES ASSUME NEW path, NEW t PROVE \A n \in Nat : \E b : Listing(path, t, n, b)
  OBVIOUS
<1> DEFINE P == {n \in Nat : \E b : Listing(path, t, n, b)}
<1>1. 0 \in P
  <2> DEFINE b == [i \in 0..0 |-> <<>>]
  <2>1. Listing(path, t, 0, b)  BY DEF Listing
  <2> HIDE DEF b
  <2> QED  BY <2>1
<1>2. \A n \in Nat : n \in P => n + 1 \in P
  <2> SUFFICES ASSUME NEW n \in Nat, NEW b, Listing(path, t, n, b)
               PROVE  \E c : Listing(path, t, n + 1, c)
    OBVIOUS
  <2> DEFINE last == IF Flattened(t, n + 1) THEN Append(b[n], PreNode(path, t, n + 1)) ELSE b[n]
             c == [i \in 0..(n + 1) |-> IF i = n + 1 THEN last ELSE b[i]]
  <2> HIDE DEF last
  <2>1. \A i \in 0..n : c[i] = b[i]  OBVIOUS
  <2>2. \A i \in 0..n : b[i] =
            IF i = 0 THEN <<>>
            ELSE IF Flattened(t, i) THEN Append(b[i - 1], PreNode(path, t, i)) ELSE b[i - 1]
    BY DEF Listing
  <2>3. \A i \in 0..(n + 1) : c[i] =
            IF i = 0 THEN <<>>
            ELSE IF Flattened(t, i) THEN Append(c[i - 1], PreNode(path, t, i)) ELSE c[i - 1]
    <3> SUFFICES ASSUME NEW i \in 0..(n + 1)
                 PROVE  c[i] = IF i = 0 THEN <<>>
                        ELSE IF Flattened(t, i) THEN Append(c[i - 1], PreNode(path, t, i)) ELSE c[i - 1]
      OBVIOUS
    <3>1. CASE i = n + 1
      <4>1. c[i] = last /\ i # 0 /\ i - 1 = n /\ n \in 0..n  BY <3>1
      <4> HIDE DEF c
      <4> QED  BY <2>1, <3>1, <4>1 DEF last
    <3>2. CASE i # n + 1
      <4>1. i \in 0..n /\ (i # 0 => i - 1 \in 0..n)  BY <3>2
      <4> HIDE DEF c
      <4> QED  BY <2>1, <2>2, <4>1
    <3> QED  BY <3>1, <3>2
  <2>4. c = [i \in 0..(n + 1) |-> c[i]]  OBVIOUS
  <2> HIDE DEF c
  <2>5. Listing(path, t, n + 1, c)  BY <2>3, <2>4 DEF Listing
  <2> QED  BY <2>5
<1> HIDE DEF P
<1>3. Nat \subseteq P  BY <1>1, <1>2, SetInduction
<1> QED  BY <1>3 DEF P

(* The preprocessors that are kept, then the trainable.                     *)
LEMMA TrainableNodesEnd ==
    ASSUME NEW path, NEW t, IsList(t.pre)
    PROVE  \E b \in Seq(PreNodes(path, t)) : TrainableNodes(path, t) = Append(b, OwnNode(path, t))
<1> DEFINE N == Len(t.pre)
           G == PreNodes(path, t)
           B == CHOOSE b : Listing(path, t, N, b)
<1>1. N \in Nat /\ DOMAIN t.pre = 1..N  BY ListFacts
<1>2. Listing(path, t, N, B)
  <2> HIDE DEF N
  <2>1. \E b : Listing(path, t, N, b)  BY <1>1, ListingsExist
  <2> QED  BY <2>1
<1>3. TrainableNodes(path, t) = Append(B[N], OwnNode(path, t))
  BY DEF TrainableNodes, Listing
<1>4. \A i \in DOMAIN t.pre : Flattened(t, i) => PreNode(path, t, i) \in G
  BY DEF Flattened, PreNodes
<1> HIDE DEF N, B, G
<1> DEFINE P == {n \in Nat : n <= N => B[n] \in Seq(G)}
<1>6. 0 \in P
  <2>1. 0 \in 0..N  BY <1>1
  <2>2. B[0] = <<>>  BY <1>2, <2>1 DEF Listing
  <2>3. <<>> \in Seq(G)  OBVIOUS
  <2>4. B[0] \in Seq(G)  BY <2>2, <2>3
  <2> QED  BY <2>4
<1>7. \A n \in Nat : n \in P => n + 1 \in P
  <2> SUFFICES ASSUME NEW n \in Nat, B[n] \in Seq(G), n + 1 <= N
               PROVE  B[n + 1] \in Seq(G)
    BY <1>1
  <2>1. n + 1 \in 0..N /\ n + 1 # 0 /\ (n + 1) - 1 = n /\ n + 1 \in DOMAIN t.pre
    BY <1>1
  <2>2. B[n + 1] = IF Flattened(t, n + 1) THEN Append(B[n], PreNode(path, t, n + 1)) ELSE B[n]
    BY <1>2, <2>1 DEF Listing
  <2>3. CASE Flattened(t, n + 1)
    <3>1. PreNode(path, t, n + 1) \in G  BY <1>4, <2>1, <2>3
    <3> QED  BY <2>2, <2>3, <3>1
  <2>4. CASE ~Flattened(t, n + 1)  BY <2>2, <2>4
  <2> QED  BY <2>3, <2>4
<1> HIDE DEF P
<1>8. Nat \subseteq P  BY <1>6, <1>7, SetInduction
<1>9. B[N] \in Seq(G)  BY <1>1, <1>8 DEF P
<1> QED  BY <1>3, <1>9 DEF G

LEMMA TrainableNodesList ==
    ASSUME NEW path, NEW t, IsList(t.pre)
    PROVE  TrainableNodes(path, t) \in Seq(PreNodes(path, t) \cup {OwnNode(path, t)})
<1> DEFINE G == PreNodes(path, t)
           own == OwnNode(path, t)
<1>1. PICK b \in Seq(G) : TrainableNodes(path, t) = Append(b, own)
  BY TrainableNodesEnd
<1> HIDE DEF G, own
<1>2. b \in Seq(G \cup {own})  OBVIOUS
<1>3. Append(b, own) \in Seq(G \cup {own})  BY <1>2
<1> QED  BY <1>1, <1>3 DEF G, own

-----------------------------------------------------------------------------
(* The steps that change the innermost call only, and those that leave it. *)

LEMMA TopHolds ==
    ASSUME StackHolds(reg, stack), stack # <<>>
    PROVE  FrameHolds(reg, Top) /\ Len(stack) \in DOMAIN stack
<1>1. PICK S : stack \in Seq(S)  BY DEF StackHolds
<1>2. Len(stack) \in DOMAIN stack  BY <1>1, EmptySeq
<1> QED  BY <1>2 DEF StackHolds, Top

LEMMA InnerPath ==
    ASSUME NEW r, NEW s, StackHolds(r, s), s # <<>>, Len(s) # 1
    PROVE  s[Len(s)].path \in Embeds(r, "pipeline")
<1>1. PICK S : s \in Seq(S)  BY DEF StackHolds
<1>2. Len(s) \in DOMAIN s  BY <1>1, EmptySeq
<1> QED  BY <1>2 DEF StackHolds

LEMMA CallerHolds ==
    ASSUME StackHolds(reg, stack), stack # <<>>, Len(stack) # 1
    PROVE  LET caller == stack[Len(stack) - 1]
           IN  FrameHolds(reg, caller) /\ caller.pc = "flatten"
<1>1. PICK S : stack \in Seq(S)  BY DEF StackHolds
<1>2. Len(stack) \in Nat /\ Len(stack) # 0 /\ DOMAIN stack = 1..Len(stack)
  BY <1>1, EmptySeq
<1>3. Len(stack) - 1 \in DOMAIN stack /\ Len(stack) - 1 # Len(stack)
  BY <1>2, JustBelowTheTop
<1> QED  BY <1>3 DEF StackHolds

(* The shape of a node is the node's, and its origin stays as long as the   *)
(* entries do; supplies can only turn out worse.                           *)
LEMMA GrownFlat ==
    ASSUME NEW r, NEW f, FlatHolds(r, f), NEW g, g.nodes = f.nodes,
           g.supply = {} => f.supply = {},
           NEW more, IsList(more), g.flat = f.flat \o more,
           \A n \in ToSet(more) : NodeShaped(n) /\ NodeTraced(r, g, n)
    PROVE  FlatHolds(r, g)
<1> DEFINE G == ToSet(f.flat) \cup ToSet(more)
<1>1. f.flat \in Seq(ToSet(f.flat)) /\ more \in Seq(ToSet(more))
  BY DEF FlatHolds, IsList
<1>2. f.flat \in Seq(G) /\ more \in Seq(G)  BY <1>1
<1> HIDE DEF G
<1>3. g.flat \in Seq(G)  BY <1>2
<1>4. IsList(g.flat) /\ ToSet(g.flat) \subseteq G  BY <1>3, ListOver
<1>5. \A n \in ToSet(f.flat) : NodeShaped(n) /\ NodeTraced(r, g, n)
  BY DEF FlatHolds, NodeTraced, FromHandler, FromTrainable
<1> QED  BY <1>4, <1>5 DEF FlatHolds, G

LEMMA SameFlat ==
    ASSUME NEW r, NEW f, FlatHolds(r, f), NEW g,
           g.nodes = f.nodes, g.flat = f.flat, g.supply = f.supply
    PROVE  FlatHolds(r, g)
  BY DEF FlatHolds, NodeTraced, FromHandler, FromTrainable

LEMMA OneMoreNode ==
    ASSUME NEW r, NEW f, FlatHolds(r, f), NEW g, g.nodes = f.nodes, g.supply = f.supply,
           NEW n, g.flat = Append(f.flat, n), NodeShaped(n), NodeTraced(r, g, n)
    PROVE  FlatHolds(r, g)
<1>1. <<n>> \in Seq({n})  OBVIOUS
<1>2. IsList(<<n>>) /\ ToSet(<<n>>) \subseteq {n}  BY <1>1, ListOver
<1>3. g.flat = f.flat \o <<n>>
  <2>1. f.flat \in Seq(ToSet(f.flat) \cup {n})
    <3>1. f.flat \in Seq(ToSet(f.flat))  BY DEF FlatHolds, IsList
    <3> QED  BY <3>1
  <2> QED  BY <2>1
<1>4. \A m \in ToSet(<<n>>) : NodeShaped(m) /\ NodeTraced(r, g, m)  BY <1>2
<1> DEFINE more == <<n>>
<1>5. /\ IsList(more) /\ g.flat = f.flat \o more
      /\ \A m \in ToSet(more) : NodeShaped(m) /\ NodeTraced(r, g, m)
  BY <1>2, <1>3, <1>4
<1> HIDE DEF more
<1> QED  BY <1>5, GrownFlat

(* What flattening adds beside nodes, merge entries and scoped channels is  *)
(* free.                                                                   *)
SameWiring(f, g) ==
    /\ DOMAIN g = FrameFields /\ g.path = f.path /\ g.pc = f.pc /\ g.nodes = f.nodes
    /\ g.decl = f.decl /\ g.merges = f.merges /\ g.scoped = f.scoped

LEMMA WiredHolds ==
    ASSUME NEW r, NEW f, FrameHolds(r, f), f.pc = "flatten",
           NEW g, SameWiring(f, g), FlatHolds(r, g)
    PROVE  FrameHolds(r, g)
  BY DEF SameWiring, FrameHolds, MergesTraced, GroupsPassed

LEMMA AmendedHolds ==
    ASSUME NEW r, NEW f, FrameHolds(r, f), f.pc = "flatten",
           NEW g, SameWiring(f, g), g.flat = f.flat, g.supply = f.supply
    PROVE  FrameHolds(r, g)
<1>1. FlatHolds(r, g)  BY SameFlat DEF FrameHolds, SameWiring
<1> QED  BY <1>1, WiredHolds

Kept == IInv' /\ RootStep

LEMMA ReplaceKeeps ==
    ASSUME IInv, stack # <<>>, UNCHANGED <<reg, outcome, done>>,
           NEW g, Replace(g), FrameHolds(reg, g), g.path = Top.path
    PROVE  Kept
<1>1. StackHolds(reg, [stack EXCEPT ![Len(stack)] = g])
  BY SwapKeeps DEF IInv, Top
<1>2. stack' # <<>> /\ stack'[1].path = stack[1].path
  BY RootStays DEF IInv, Replace, Top
<1> QED  BY <1>1, <1>2 DEF IInv, Replace, Kept, RootStep

LEMMA RaiseKeeps ==
    ASSUME IInv, stack # <<>>, NEW faults, Raise(faults)
    PROVE  Kept
<1>1. CASE Len(stack) = 1
  BY <1>1, EmptyHolds DEF Raise, IInv, Kept, RootStep
<1>2. CASE Len(stack) # 1
  <2> DEFINE caller == stack[Len(stack) - 1]
             g == [caller EXCEPT !.faults = @ \cup faults, !.at = @ + 1]
  <2>1. FrameHolds(reg, caller) /\ caller.pc = "flatten"
    BY <1>2, CallerHolds DEF IInv
  <2>2. DOMAIN caller = FrameFields  BY <2>1 DEF FrameHolds
  <2>3. SameWiring(caller, g) /\ g.flat = caller.flat /\ g.supply = caller.supply
    BY <2>2 DEF SameWiring, FrameFields
  <2> HIDE DEF g
  <2>6. FrameHolds(reg, g) /\ g.path = caller.path
    BY <2>1, <2>3, AmendedHolds DEF SameWiring
  <2>4. StackHolds(reg, Append(SubSeq(stack, 1, Len(stack) - 2), g))
    BY <1>2, <2>6, PopKeeps DEF IInv
  <2>5. /\ stack' = Append(SubSeq(stack, 1, Len(stack) - 2), g)
        /\ UNCHANGED <<reg, outcome, done>>
    BY <1>2 DEF Raise, g
  <2>7. stack' # <<>> /\ stack'[1].path = stack[1].path
    BY <1>2, <2>5, <2>6, RootStays DEF IInv
  <2> QED  BY <2>4, <2>5, <2>7 DEF IInv, Kept, RootStep
<1> QED  BY <1>1, <1>2

LEMMA SkipKeeps ==
    ASSUME IInv, stack # <<>>, Top.pc = "flatten", NEW faults, SkipNode(faults)
    PROVE  Kept
<1> DEFINE g == [Top EXCEPT !.faults = @ \cup faults, !.at = @ + 1]
<1>1. FrameHolds(reg, Top)  BY TopHolds DEF IInv
<1>2. DOMAIN Top = FrameFields  BY <1>1 DEF FrameHolds
<1>3. SameWiring(Top, g) /\ g.flat = Top.flat /\ g.supply = Top.supply
  BY <1>2 DEF SameWiring, FrameFields
<1>4. Replace(g) /\ UNCHANGED <<reg, outcome, done>>  BY DEF SkipNode
<1> HIDE DEF g
<1>5. FrameHolds(reg, g) /\ g.path = Top.path
  BY <1>1, <1>3, AmendedHolds DEF SameWiring
<1> QED  BY <1>4, <1>5, ReplaceKeeps

LEMMA EmptyFlat ==
    ASSUME NEW r, NEW f, f.flat = <<>>
    PROVE  FlatHolds(r, f)
<1>1. IsList(f.flat) /\ ToSet(f.flat) = {}  BY EmptyList
<1> QED  BY <1>1 DEF FlatHolds

(* A frame as it is entered has passed nothing.                            *)
LEMMA EnteredHolds ==
    ASSUME NEW r, NEW path \in {"root"} \cup Embeds(r, "pipeline"), NEW decl, PipelineTyped(decl)
    PROVE  FrameHolds(r, Frame(path, decl)) /\ Frame(path, decl).path = path
<1>1. FlatHolds(r, Frame(path, decl))  BY EmptyFlat DEF Frame
<1> QED  BY <1>1 DEF FrameHolds, FrameFields, Frame, MergesTraced, GroupsPassed

(* The outermost call is made, of a registry that is typed.                *)
RegistryGiven == RegistryTyped(reg) /\ {"outer", "root"} \cap DOMAIN reg.comps = {}
Beginning ==
    /\ RegistryGiven
    /\ stack = <<Frame("root", reg.root)>> /\ outcome = [status |-> "compiling"] /\ done = {}

LEMMA InitBegins == Init => Beginning
  BY OuterIsNoPath, RegistriesTyped DEF Init, Beginning, RegistryGiven

LEMMA IInvInit == Beginning => IInv
<1> SUFFICES ASSUME Beginning PROVE IInv  OBVIOUS
<1>1. {"outer", "root"} \cap DOMAIN reg.comps = {}  BY DEF Beginning, RegistryGiven
<1>6. RegistryTyped(reg)  BY DEF Beginning, RegistryGiven
<1> DEFINE f == Frame("root", reg.root)
<1>2. FrameHolds(reg, f)  BY <1>6, EnteredHolds DEF RegistryTyped
<1> HIDE DEF f
<1>3. /\ <<f>> \in Seq({f}) /\ Len(<<f>>) = 1 /\ DOMAIN <<f>> = {1} /\ <<f>>[1] = f
  OBVIOUS
<1>4. StackHolds(reg, <<f>>)  BY <1>2, <1>3 DEF StackHolds, Simple
<1>5. stack = <<f>> /\ done = {}  BY DEF Beginning, f
<1> QED  BY <1>1, <1>4, <1>5, <1>6 DEF IInv

-----------------------------------------------------------------------------
(* A frame as a step leaves it, field by field.                            *)

LEMMA StartedFrames ==
    ASSUME NEW f, DOMAIN f = FrameFields
    PROVE  LET g == Started(f) IN
           /\ DOMAIN g = FrameFields /\ g.path = f.path /\ g.decl = f.decl /\ g.pc = "flatten"
           /\ g.nodes = Substituted(reg, f.decl.nodes) /\ g.at = f.at /\ g.flat = f.flat
           /\ g.merges = [c \in DOMAIN f.decl.merge |->
                            [strategy |-> f.decl.merge[c], by |-> "outer"]]
           /\ g.scoped = f.scoped /\ g.names = f.names /\ g.bounds = f.bounds
           /\ g.faults = f.faults /\ g.supply = f.supply
<1> DEFINE nodes == Substituted(reg, f.decl.nodes)
           merges == [c \in DOMAIN f.decl.merge |->
                        [strategy |-> f.decl.merge[c], by |-> "outer"]]
<1>1. Started(f) = [f EXCEPT !.pc = "flatten", !.nodes = nodes, !.merges = merges]
  BY DEF Started
<1> HIDE DEF nodes, merges
<1> QED  BY <1>1 DEF FrameFields, nodes, merges

LEMMA WithHandlerFrames ==
    ASSUME NEW f, DOMAIN f = FrameFields
    PROVE  LET g == WithHandler(f)
               e == EntryOf(f)
           IN
           /\ DOMAIN g = FrameFields /\ g.path = f.path /\ g.decl = f.decl /\ g.pc = f.pc
           /\ g.nodes = f.nodes /\ g.at = f.at + 1
           /\ g.flat = Append(f.flat, HandlerNode(e, "outer", "-"))
           /\ g.merges = f.merges /\ g.scoped = f.scoped /\ g.names = f.names
           /\ g.bounds = f.bounds /\ g.supply = f.supply
           /\ g.faults = f.faults \cup HandlerFaults(f, <<"entry", f.at>>,
                                        reg.handlers[e.name], e.rmap, e.wmap)
<1> DEFINE found == HandlerFaults(f, <<"entry", f.at>>, reg.handlers[EntryOf(f).name],
                                  EntryOf(f).rmap, EntryOf(f).wmap)
           node == HandlerNode(EntryOf(f), "outer", "-")
<1> HIDE DEF found, node
<1>1. WithHandler(f) = [f EXCEPT !.at = f.at + 1, !.faults = f.faults \cup found,
                                 !.flat = Append(f.flat, node)]
  BY DEF WithHandler, found, node
<1> QED  BY <1>1 DEF FrameFields, found, node

LEMMA WithTrainableFrames ==
    ASSUME NEW f, DOMAIN f = FrameFields
    PROVE  LET g == WithTrainable(f)
               path == EntryOf(f).name
               t == reg.comps[path]
               nodes == TrainableNodes(path, t)
               inner == DOMAIN t.merge \ Boundary(t)
               own == {c \in inner : Scope(t, c) \notin DOMAIN f.merges}
           IN
           /\ DOMAIN g = FrameFields /\ g.path = f.path /\ g.decl = f.decl /\ g.pc = f.pc
           /\ g.nodes = f.nodes /\ g.at = f.at + 1
           /\ g.flat = f.flat \o nodes /\ g.names = f.names \cup {t.name}
           /\ g.merges = [c \in DOMAIN f.merges \cup {Scope(t, c) : c \in own} |->
                            IF c \in DOMAIN f.merges THEN f.merges[c]
                            ELSE [strategy |-> t.merge[Tail(c)], by |-> path]]
           /\ g.scoped = f.scoped \cup {Scope(t, c) : c \in inner}
                                  \cup (WiredBy(nodes) \ Boundary(t))
           /\ g.supply = f.supply \cup CompositionSupplyFaults(f, t)
           /\ g.faults = f.faults \cup StreamFaults(f, t.streamable)
                \cup {Fault(f, "A", "channel_write_overlap", <<"merge", f.at, c>>) :
                        c \in DOMAIN t.merge \ own}
                \cup UNION {PreprocessorFaults(f, t, i) : i \in DOMAIN t.pre}
<1> DEFINE path == EntryOf(f).name
           t == reg.comps[path]
           nodes == TrainableNodes(path, t)
           inner == DOMAIN t.merge \ Boundary(t)
           own == {c \in inner : Scope(t, c) \notin DOMAIN f.merges}
           taken == {Scope(t, c) : c \in own}
           positions == (Len(f.flat) + 1)..(Len(f.flat) + Len(nodes))
           names == f.names \cup {t.name}
           flat == f.flat \o nodes
           found == f.faults \cup StreamFaults(f, t.streamable)
                \cup {Fault(f, "A", "channel_write_overlap", <<"merge", f.at, c>>) :
                        c \in DOMAIN t.merge \ own}
                \cup UNION {PreprocessorFaults(f, t, i) : i \in DOMAIN t.pre}
           supply == f.supply \cup CompositionSupplyFaults(f, t)
           merges == [c \in DOMAIN f.merges \cup taken |->
                        IF c \in DOMAIN f.merges THEN f.merges[c]
                        ELSE [strategy |-> t.merge[Tail(c)], by |-> path]]
           scoped == f.scoped \cup {Scope(t, c) : c \in inner}
                              \cup (WiredBy(nodes) \ Boundary(t))
           bounds == f.bounds \cup {[inputs |-> ToSet(t.inputs), outputs |-> ToSet(t.outputs),
                                      positions |-> positions, ref |-> f.at]}
<1>1. WithTrainable(f) =
        [f EXCEPT !.at = f.at + 1, !.names = names, !.flat = flat, !.faults = found,
                  !.supply = supply, !.merges = merges, !.scoped = scoped, !.bounds = bounds]
  BY Zenon DEF WithTrainable
<1> HIDE DEF names, flat, found, supply, merges, scoped, bounds
<1>2. LET g == WithTrainable(f) IN
      /\ DOMAIN g = FrameFields /\ g.path = f.path /\ g.decl = f.decl /\ g.pc = f.pc
      /\ g.nodes = f.nodes /\ g.at = f.at + 1 /\ g.flat = flat /\ g.names = names
      /\ g.merges = merges /\ g.scoped = scoped /\ g.supply = supply /\ g.faults = found
  BY <1>1 DEF FrameFields
<1> QED  BY <1>2 DEF names, flat, found, supply, merges, scoped

LEMMA SeenFrames ==
    ASSUME NEW f, DOMAIN f = FrameFields
    PROVE  LET g == Seen(f)
               path == EntryOf(f).name
           IN
           /\ DOMAIN g = FrameFields /\ g.path = f.path /\ g.decl = f.decl /\ g.pc = f.pc
           /\ g.nodes = f.nodes /\ g.at = f.at /\ g.flat = f.flat
           /\ g.names = f.names \cup {reg.comps[path].name}
           /\ g.merges = f.merges /\ g.scoped = f.scoped
           /\ g.bounds = f.bounds /\ g.supply = f.supply
           /\ g.faults = f.faults \cup StreamFaults(f, EmbedStreams(reg, path) = "yes")
<1> DEFINE found == StreamFaults(f, EmbedStreams(reg, EntryOf(f).name) = "yes")
           name == reg.comps[EntryOf(f).name].name
<1> HIDE DEF found, name
<1>1. Seen(f) = [f EXCEPT !.names = f.names \cup {name}, !.faults = f.faults \cup found]
  BY DEF Seen, found, name
<1> QED  BY <1>1 DEF FrameFields, found, name

-----------------------------------------------------------------------------
(* One lemma per action.                                                   *)

LEMMA SubstituteKeeps == ASSUME IInv, Substitute PROVE Kept
<1> DEFINE g == Started(Top)
<1>1. CASE Cyclic \in ToSet(Substituted(reg, Top.decl.nodes))
  BY <1>1, RaiseKeeps DEF Substitute
<1>2. CASE Cyclic \notin ToSet(Substituted(reg, Top.decl.nodes))
  <2>1. stack # <<>> /\ Replace(g) /\ UNCHANGED <<reg, outcome, done>>
    BY <1>2 DEF Substitute
  <2>2. FrameHolds(reg, Top) /\ Top.flat = <<>>
    BY <2>1, TopHolds DEF IInv, FrameHolds, Substitute
  <2>3. DOMAIN Top = FrameFields  BY <2>2 DEF FrameHolds
  <2>4. /\ DOMAIN g = FrameFields /\ g.path = Top.path /\ g.pc = "flatten"
        /\ g.decl = Top.decl /\ g.scoped = Top.scoped /\ g.flat = Top.flat
        /\ g.merges = [c \in DOMAIN Top.decl.merge |->
                        [strategy |-> Top.decl.merge[c], by |-> "outer"]]
    BY <2>3, StartedFrames
  <2> HIDE DEF g
  <2>5. MergesTraced(g)  BY <2>4 DEF MergesTraced
  <2>7. FlatHolds(reg, g)  BY <2>2, <2>4, EmptyFlat
  <2>6. FrameHolds(reg, g) /\ g.path = Top.path
    BY <2>2, <2>4, <2>5, <2>7 DEF FrameHolds, GroupsPassed
  <2> QED  BY <2>1, <2>6, ReplaceKeeps
<1> QED  BY <1>1, <1>2

LEMMA FlattenHandlerKeeps == ASSUME IInv, FlattenHandler PROVE Kept
<1>1. stack # <<>> /\ Top.pc = "flatten"  BY DEF FlattenHandler, Flattening
<1>2. CASE Entry.name \notin DOMAIN reg.handlers
  BY <1>1, <1>2, SkipKeeps DEF FlattenHandler
<1>3. CASE Entry.name \in DOMAIN reg.handlers
  <2> DEFINE node == HandlerNode(Entry, "outer", "-")
             g == WithHandler(Top)
  <2>1. Replace(g) /\ UNCHANGED <<reg, outcome, done>>
    BY <1>3 DEF FlattenHandler
  <2>2. FrameHolds(reg, Top)  BY <1>1, TopHolds DEF IInv
  <2>3. DOMAIN Top = FrameFields  BY <2>2 DEF FrameHolds
  <2>4. SameWiring(Top, g) /\ g.flat = Append(Top.flat, node) /\ g.supply = Top.supply
    BY <2>3, WithHandlerFrames DEF SameWiring, Entry
  <2> HIDE DEF g
  <2>6. NodeShaped(node) /\ NodeTraced(reg, g, node)
    <3>1. /\ NodeShaped(node) /\ node.kind \in {"transform", "service", "hook"}
          /\ node.from = "outer" /\ node.name = Entry.name /\ node.values = Entry.values
      <4>1. NodeOfEntry(node, Entry, reg.handlers[Entry.name], "outer")
        BY <1>3, HandlerNodes DEF IInv
      <4> QED  BY <4>1 DEF NodeOfEntry
    <3>2. Top.at \in DOMAIN Top.nodes /\ Entry = Top.nodes[Top.at] /\ Entry.form = "handler"
      BY DEF FlattenHandler, Flattening, Entry, EntryOf
    <3>3. g.nodes = Top.nodes  BY <2>4 DEF SameWiring
    <3> QED  BY <1>3, <3>1, <3>2, <3>3 DEF NodeTraced, FromHandler, Names
  <2>7. FlatHolds(reg, g)
    BY <2>2, <2>4, <2>6, OneMoreNode DEF FrameHolds, SameWiring
  <2>5. FrameHolds(reg, g) /\ g.path = Top.path
    BY <1>1, <2>2, <2>4, <2>7, WiredHolds DEF SameWiring
  <2> QED  BY <1>1, <2>1, <2>5, ReplaceKeeps
<1> QED  BY <1>2, <1>3

LEMMA SkipCompositionKeeps == ASSUME IInv, SkipComposition PROVE Kept
<1>1. stack # <<>> /\ Top.pc = "flatten"  BY DEF SkipComposition, Flattening
<1> QED  BY <1>1, SkipKeeps DEF SkipComposition

(* What a trainable composition contributes, node by node.                  *)
LEMMA TrainableNodesHold ==
    ASSUME RegistryTyped(reg), NEW path, NEW t, TrainableTyped(t)
    PROVE  /\ IsList(TrainableNodes(path, t))
           /\ \A n \in ToSet(TrainableNodes(path, t)) :
                /\ NodeShaped(n) /\ WiresScoped(t, n) /\ n.kind # "pipeline"
                /\ n.from = path
                /\ n.kind # "trainable" => \E i \in Registered(t) : IsMember(reg, t.pre[i], n)
<1>1. /\ IsList(TrainableNodes(path, t))
      /\ ToSet(TrainableNodes(path, t)) \subseteq PreNodes(path, t) \cup {OwnNode(path, t)}
  <2>1. TrainableNodes(path, t) \in Seq(PreNodes(path, t) \cup {OwnNode(path, t)})
    BY TrainableNodesList DEF TrainableTyped
  <2> QED  BY <2>1, ListOver
<1>2. ASSUME NEW n \in PreNodes(path, t)
      PROVE  /\ NodeShaped(n) /\ WiresScoped(t, n) /\ n.kind # "pipeline"
             /\ n.from = path
             /\ \E i \in Registered(t) : IsMember(reg, t.pre[i], n)
  <2>1. PICK i \in DOMAIN t.pre : t.pre[i].name \in DOMAIN reg.handlers /\ n = PreNode(path, t, i)
    BY <1>2 DEF PreNodes
  <2>2. i \in Registered(t)  BY <2>1 DEF Registered
  <2>3. /\ NodeShaped(n) /\ WiresScoped(t, n) /\ n.kind \in {"transform", "service", "hook"}
        /\ n.from = path /\ IsMember(reg, t.pre[i], n)
    BY <2>1, PreNodesHold
  <2> QED  BY <2>2, <2>3
<1> QED  BY <1>1, <1>2, OwnNodeHolds

(* A scope whose supply has no fault serves each of its bindings.          *)
LEMMA FaultlessSupply ==
    ASSUME NEW r, NEW declared, NEW supplies, NEW backend,
           ServiceSupplyFaults(r.types, declared, supplies, backend) = {}, NEW sb \in declared
    PROVE  /\ Serves(r, supplies, sb)
           /\ sb.name \notin backend => Configures(r, supplies, sb)
<1>1. OneSupplyFaults(r.types, sb, supplies, backend) = {}
  BY DEF ServiceSupplyFaults
<1> QED  BY <1>1 DEF OneSupplyFaults, Serves, Configures

LEMMA CompositionServes ==
    ASSUME NEW f, NEW t, CompositionSupplyFaults(f, t) = {},
           NEW sb \in ToSet(t.services) \cup
                UNION {ToSet(reg.handlers[t.pre[i].name].services) : i \in Registered(t)}
    PROVE  /\ Serves(reg, t.supply, sb)
           /\ sb.name \notin {b.name : b \in ToSet(t.services)} => Configures(reg, t.supply, sb)
<1> DEFINE declared == ToSet(t.services) \cup
                UNION {ToSet(reg.handlers[t.pre[i].name].services) : i \in Registered(t)}
           backend == {b.name : b \in ToSet(t.services)}
<1>1. {Fault(f, "B", x[1], <<"composition", f.at>> \o x[2]) :
            x \in ServiceSupplyFaults(reg.types, declared, t.supply, backend)} = {}
  BY Zenon DEF CompositionSupplyFaults
<1> HIDE DEF declared, backend
<1>2. ServiceSupplyFaults(reg.types, declared, t.supply, backend) = {}
  BY <1>1
<1>3. /\ Serves(reg, t.supply, sb)
      /\ sb.name \notin backend => Configures(reg, t.supply, sb)
  BY <1>2, FaultlessSupply DEF declared
<1> QED  BY <1>3 DEF backend

(* A composition without a fault in its supplies has its nodes configured.  *)
LEMMA CompositionConfigures ==
    ASSUME NEW f, NEW path \in Embeds(reg, "trainable"), NEW t, t = reg.comps[path],
           CompositionSupplyFaults(f, t) = {},
           NEW n, n.from = path,
           n.kind # "trainable" => \E i \in Registered(t) : IsMember(reg, t.pre[i], n)
    PROVE  Configured(reg, t.supply, n)
<1>1. CASE n.kind = "trainable"
  <2>1. {Fault(f, "B", x[1], <<"trainable", f.at>> \o x[2]) :
            x \in ConfigFaults(t.config, Backend(t))} = {}
    BY Zenon DEF CompositionSupplyFaults
  <2>2. ConfigFaults(t.config, Backend(t)) = {}  BY <2>1
  <2> QED  BY <1>1, <2>2 DEF Configured, Backend
<1>2. CASE n.kind # "trainable"
  <2>1. PICK i \in Registered(t) : IsMember(reg, t.pre[i], n)  BY <1>2
  <2> DEFINE found(j) == {Fault(f, "B", x[1], <<"member", f.at, j>> \o x[2]) :
                x \in SchemaSupplyFaults(reg.handlers[t.pre[j].name].bindings, t.pre[j].values)}
  <2>2. UNION {found(j) : j \in Registered(t)} = {}
    BY Zenon DEF CompositionSupplyFaults
  <2>3. found(i) = {}
    <3> HIDE DEF found
    <3> QED  BY <2>2
  <2>4. SchemaSupplyFaults(reg.handlers[n.name].bindings, n.values) = {}
    <3>1. SchemaSupplyFaults(reg.handlers[t.pre[i].name].bindings, t.pre[i].values) = {}
      BY <2>3
    <3> QED  BY <2>1, <3>1 DEF IsMember, Names
  <2>5. ASSUME HandlesApart(reg), NEW sb \in NodeServices(reg, n)
        PROVE  Configures(reg, t.supply, sb)
    <3>1. sb \in ToSet(reg.handlers[t.pre[i].name].services)
      BY <1>2, <2>1, <2>5 DEF NodeServices, IsMember, Names
    <3>2. sb.name \notin {b.name : b \in ToSet(t.services)}
      BY <2>1, <2>5, <3>1 DEF HandlesApart, Registered
    <3> QED  BY <3>1, <3>2, CompositionServes
  <2> QED  BY <1>2, <2>4, <2>5 DEF Configured
<1> QED  BY <1>1, <1>2

LEMMA FlattenTrainableKeeps == ASSUME IInv, FlattenTrainable PROVE Kept
<1>1. /\ stack # <<>> /\ Top.pc = "flatten"
      /\ Entry.name \in DOMAIN reg.comps
  BY DEF FlattenTrainable, Flattens, Flattening, Embeds
<1>2. FrameHolds(reg, Top)  BY <1>1, TopHolds DEF IInv
<1>3. DOMAIN Top = FrameFields  BY <1>2 DEF FrameHolds
<1>7. Entry.name \in Embeds(reg, "trainable") /\ TrainableTyped(reg.comps[Entry.name])
  BY DEF FlattenTrainable, Flattens, Embeds, IInv, RegistryTyped
<1>8. RegistryTyped(reg)  BY DEF IInv
<1> DEFINE t == reg.comps[Entry.name]
           placed == StreamFaults(Top, t.streamable)
           broken == {Fault(Top, "A", x, <<"entry", Top.at>>) : x \in BackendFault(t)}
<1>4. CASE BackendFault(t) # {}
  <2> HIDE DEF placed, broken
  <2> DEFINE g == [Top EXCEPT !.at = @ + 1, !.names = @ \cup {t.name},
                              !.faults = @ \cup placed \cup broken]
  <2>1. Replace(g) /\ UNCHANGED <<reg, outcome, done>>
    BY <1>4 DEF FlattenTrainable, placed, broken
  <2>2. SameWiring(Top, g) /\ g.flat = Top.flat /\ g.supply = Top.supply
    BY <1>3 DEF SameWiring, FrameFields
  <2> HIDE DEF g
  <2>3. FrameHolds(reg, g) /\ g.path = Top.path
    BY <1>1, <1>2, <2>2, AmendedHolds DEF SameWiring
  <2> QED  BY <1>1, <2>1, <2>3, ReplaceKeeps
<1>5. CASE BackendFault(t) = {} /\ BrokenNull(t.config, Backend(t))
  BY <1>1, <1>5, RaiseKeeps DEF FlattenTrainable
<1>6. CASE BackendFault(t) = {} /\ ~BrokenNull(t.config, Backend(t))
  <2> DEFINE nodes == TrainableNodes(Entry.name, t)
             inner == DOMAIN t.merge \ Boundary(t)
             own == {c \in inner : Scope(t, c) \notin DOMAIN Top.merges}
             taken == {Scope(t, c) : c \in own}
             supply == Top.supply \cup CompositionSupplyFaults(Top, t)
             merges == [c \in DOMAIN Top.merges \cup taken |->
                          IF c \in DOMAIN Top.merges THEN Top.merges[c]
                          ELSE [strategy |-> t.merge[Tail(c)], by |-> Entry.name]]
             scoped == Top.scoped \cup {Scope(t, c) : c \in inner}
                                  \cup (WiredBy(nodes) \ Boundary(t))
             flat == Top.flat \o nodes
             g == WithTrainable(Top)
  <2>1. Replace(g) /\ UNCHANGED <<reg, outcome, done>>
    BY <1>6 DEF FlattenTrainable
  <2>10. /\ IsList(nodes)
         /\ \A n \in ToSet(nodes) : /\ NodeShaped(n) /\ WiresScoped(t, n) /\ n.kind # "pipeline"
                                    /\ n.from = Entry.name
                                    /\ n.kind # "trainable" => \E i \in Registered(t) :
                                                                IsMember(reg, t.pre[i], n)
    BY <1>7, <1>8, TrainableNodesHold
  <2>11. \A c \in scoped : Deep(c)
    <3>1. \A c \in Top.scoped : Deep(c)  BY <1>2 DEF FrameHolds
    <3>2. \A c \in inner : Deep(Scope(t, c))
      BY <1>7, ScopeIsDeep DEF TrainableTyped
    <3>3. \A c \in WiredBy(nodes) \ Boundary(t) : Deep(c)
      BY <2>10 DEF WiredBy, WiresScoped, Scoped
    <3> QED  BY <3>1, <3>2, <3>3
  <2>12. supply = {} => Top.supply = {} /\ CompositionSupplyFaults(Top, t) = {}
    OBVIOUS
  <2>2. taken \cap DOMAIN Top.merges = {} /\ taken \subseteq scoped
    OBVIOUS
  <2>3. Top.scoped \subseteq scoped  OBVIOUS
  <2>4. Entry.name # "outer"  BY <1>1 DEF IInv
  <2>5. MergesTraced(Top)  BY <1>2 DEF FrameHolds
  <2>6. /\ DOMAIN g = FrameFields /\ g.path = Top.path /\ g.pc = Top.pc /\ g.nodes = Top.nodes
        /\ g.decl = Top.decl /\ g.merges = merges /\ g.scoped = scoped
        /\ g.flat = flat /\ g.supply = supply
    BY <1>3, WithTrainableFrames DEF Entry
  <2> HIDE DEF flat, supply, scoped, nodes, g, taken
  (* The entries taken from the composition are new, and marked as its own. *)
  <2>7. /\ DOMAIN merges = DOMAIN Top.merges \cup taken
        /\ \A c \in DOMAIN Top.merges : merges[c] = Top.merges[c]
        /\ \A c \in taken : merges[c].by = Entry.name
    BY <2>2
  <2> HIDE DEF merges
  <2>8. MergesTraced(g)
    BY <1>1, <2>2, <2>3, <2>4, <2>5, <2>6, <2>7 DEF MergesTraced
  <2>13. \A n \in ToSet(nodes) : NodeShaped(n) /\ NodeTraced(reg, g, n)
    <3> SUFFICES ASSUME NEW n \in ToSet(nodes) PROVE NodeTraced(reg, g, n)
      BY <2>10
    <3>1. Top.at \in DOMAIN g.nodes /\ g.nodes[Top.at] = Entry /\ Entry.form = "composition"
      BY <2>6 DEF FlattenTrainable, Flattens, Flattening, Entry, EntryOf
    <3>2. n.kind # "trainable" => \E i \in DOMAIN t.pre : IsMember(reg, t.pre[i], n)
      BY <2>10 DEF Registered
    <3>3. g.supply = {} => /\ \A sb \in NodeServices(reg, n) : Serves(reg, t.supply, sb)
                           /\ Configured(reg, t.supply, n)
      <4> SUFFICES ASSUME CompositionSupplyFaults(Top, t) = {}
                   PROVE  /\ \A sb \in NodeServices(reg, n) : Serves(reg, t.supply, sb)
                          /\ Configured(reg, t.supply, n)
        BY <2>6, <2>12
      <4>1. ASSUME NEW sb \in NodeServices(reg, n) PROVE Serves(reg, t.supply, sb)
        <5>1. sb \in ToSet(t.services) \cup
                     UNION {ToSet(reg.handlers[t.pre[i].name].services) : i \in Registered(t)}
          BY <2>10, <4>1 DEF NodeServices, IsMember, Names
        <5> QED  BY <5>1, CompositionServes
      <4>2. Configured(reg, t.supply, n)  BY <1>7, <2>10, CompositionConfigures
      <4> QED  BY <4>1, <4>2
    <3>4. Len(t.services) = 1  BY <1>6 DEF BackendFault
    <3> QED
      BY <1>7, <2>10, <3>1, <3>2, <3>3, <3>4 DEF NodeTraced, FromTrainable
  <2>14. FlatHolds(reg, g)
    BY <1>2, <2>6, <2>10, <2>12, <2>13, GrownFlat DEF FrameHolds, flat
  <2>9. FrameHolds(reg, g) /\ g.path = Top.path
    BY <1>1, <1>2, <2>6, <2>8, <2>11, <2>14 DEF FrameHolds, GroupsPassed
  <2> QED  BY <1>1, <2>1, <2>9, ReplaceKeeps
<1> QED  BY <1>4, <1>5, <1>6

LEMMA FlattenEmbedKeeps == ASSUME IInv, FlattenEmbed PROVE Kept
<1>1. /\ stack # <<>> /\ Top.pc = "flatten"
      /\ Entry.name \in Embeds(reg, "pipeline")
  BY DEF FlattenEmbed, Flattens, Flattening
<1>2. FrameHolds(reg, Top)  BY <1>1, TopHolds DEF IInv
<1>3. DOMAIN Top = FrameFields  BY <1>2 DEF FrameHolds
<1> DEFINE p == reg.comps[Entry.name]
           streams == EmbedStreams(reg, Entry.name)
           cycle == EmbedCycleFaults(Top)
           seen == Seen(Top)
<1>4. SameWiring(Top, seen) /\ seen.flat = Top.flat /\ seen.supply = Top.supply
  BY <1>3, SeenFrames DEF SameWiring
<1> HIDE DEF streams, cycle, seen
<1> DEFINE g == [seen EXCEPT !.at = @ + 1, !.faults = @ \cup cycle]
<1>5. SameWiring(seen, g) /\ g.flat = seen.flat /\ g.supply = seen.supply
  <2>1. DOMAIN seen = FrameFields  BY <1>4 DEF SameWiring
  <2> QED  BY <2>1 DEF SameWiring, FrameFields
<1>6. CASE streams = "raises"
  BY <1>1, <1>6, RaiseKeeps DEF FlattenEmbed, streams
<1>7. CASE streams # "raises" /\ OnStack(Entry.name)
  <2>1. Replace(g) /\ UNCHANGED <<reg, outcome, done>>
    BY <1>7 DEF FlattenEmbed, streams, seen, cycle
  <2> HIDE DEF g
  <2>2. FrameHolds(reg, g) /\ g.path = Top.path
    BY <1>1, <1>2, <1>4, <1>5, AmendedHolds DEF SameWiring
  <2> QED  BY <1>1, <2>1, <2>2, ReplaceKeeps
<1>8. CASE streams # "raises" /\ ~OnStack(Entry.name)
  <2> DEFINE s == [stack EXCEPT ![Len(stack)] = seen]
             h == Frame(Entry.name, p)
  <2>1. stack' = Append(s, h) /\ UNCHANGED <<reg, outcome, done>>
    BY <1>8 DEF FlattenEmbed, streams, seen
  <2> HIDE DEF g
  <2>2. FrameHolds(reg, seen) /\ seen.path = Top.path /\ seen.pc = "flatten"
    BY <1>1, <1>2, <1>4, AmendedHolds DEF SameWiring
  <2>3. StackHolds(reg, s)
    BY <1>1, <2>2, SwapKeeps DEF IInv, Top
  <2>4. FrameHolds(reg, h) /\ h.path = Entry.name
    <3>1. PipelineTyped(p)  BY <1>1 DEF IInv, RegistryTyped, Embeds
    <3> QED  BY <1>1, <3>1, EnteredHolds
  <2>5. /\ DOMAIN s = DOMAIN stack /\ Len(s) = Len(stack)
        /\ s[Len(stack)] = seen
        /\ \A k \in DOMAIN stack : k # Len(stack) => s[k] = stack[k]
    <3>1. PICK S : stack \in Seq(S)  BY DEF IInv, StackHolds
    <3>2. stack \in Seq(S \cup {seen}) /\ Len(stack) \in DOMAIN stack
      BY <1>1, <3>1, TopHolds DEF IInv
    <3> QED  BY <3>2
  <2>6. s # <<>> /\ s[Len(s)].pc = "flatten"
    BY <1>1, <2>2, <2>5, TopHolds DEF IInv
  <2>7. \A k \in DOMAIN s : s[k].path = stack[k].path
    BY <2>2, <2>5 DEF Top
  <2>8. \A k \in DOMAIN s : s[k].path # h.path
    BY <1>8, <2>4, <2>5, <2>7 DEF OnStack
  <2> HIDE DEF s, h
  <2>9. StackHolds(reg, Append(s, h))
    BY <1>1, <2>3, <2>4, <2>6, <2>8, PushKeeps
  <2>10. stack' # <<>> /\ stack'[1].path = stack[1].path
    <3>1. Append(s, h) # <<>> /\ Append(s, h)[1].path = s[1].path
      BY <2>3, <2>6, RootStays
    <3>2. 1 \in DOMAIN s
      <4>1. PICK S : s \in Seq(S)  BY <2>3 DEF StackHolds
      <4> QED  BY <2>6, <4>1, EmptySeq
    <3> QED  BY <2>1, <2>7, <3>1, <3>2
  <2> QED  BY <2>1, <2>9, <2>10 DEF IInv, Kept, RootStep
<1> QED  BY <1>6, <1>7, <1>8

-----------------------------------------------------------------------------
(* Group B without a fault is a graph that keeps the topology rules.       *)

LEMMA GraphNodes ==
    ASSUME NEW f
    PROVE  /\ DOMAIN GraphOf(f).nodes = DOMAIN f.flat
           /\ \A n \in DOMAIN f.flat :
                /\ GraphOf(f).nodes[n].reads = ToSet(Chans(f.flat[n].reads))
                /\ GraphOf(f).nodes[n].writes = Chans(f.flat[n].writes)
           /\ GraphOf(f).inputs = Fields(ToSet(f.decl.inputs))
           /\ GraphOf(f).outputs = Fields(ToSet(f.decl.outputs))
           /\ GraphOf(f).merged = DOMAIN f.merges
           /\ GraphOf(f).scoped = f.scoped
  BY DEF GraphOf

LEMMA FaultlessRules ==
    ASSUME NEW f, TopologyFaults(f) = {}
    PROVE  TopologyRules(GraphOf(f))
<1> DEFINE g == GraphOf(f)
<1>1. /\ \A n \in DOMAIN f.flat :
            ToSet(Chans(f.flat[n].reads)) \cap ToSet(Chans(f.flat[n].writes)) = {}
      /\ MergeFaults(f) = {} /\ ClosureFaults(f) = {}
      /\ \A b \in Boundaries(f) : DeadFaults(f, b) = {}
  <2>1. \A n \in DOMAIN f.flat :
            ToSet(Chans(f.flat[n].reads)) \cap ToSet(Chans(f.flat[n].writes)) = {}
    <3> SUFFICES ASSUME NEW n \in DOMAIN f.flat,
                        ToSet(Chans(f.flat[n].reads)) \cap ToSet(Chans(f.flat[n].writes)) # {}
                 PROVE  FALSE
      OBVIOUS
    <3>1. Fault(f, "B", "single_assignment", <<"node", n>>) \in TopologyFaults(f)
      BY Zenon DEF TopologyFaults
    <3> QED  BY <3>1
  <2>2. /\ MergeFaults(f) \subseteq TopologyFaults(f)
        /\ ClosureFaults(f) \subseteq TopologyFaults(f)
    BY Zenon DEF TopologyFaults
  <2>3. \A b \in Boundaries(f) : DeadFaults(f, b) \subseteq TopologyFaults(f)
    BY Zenon DEF TopologyFaults
  <2> QED  BY <2>1, <2>2, <2>3
<1>2. SingleAssignment(g)
  <2> SUFFICES ASSUME NEW n \in DOMAIN f.flat, NEW p \in DOMAIN g.nodes[n].writes
               PROVE  g.nodes[n].writes[p] \notin g.nodes[n].reads
    BY GraphNodes DEF SingleAssignment, Positions
  <2>1. g.nodes[n].writes[p] \in ToSet(Chans(f.flat[n].writes))
    BY GraphNodes DEF ToSet
  <2> QED  BY <1>1, <2>1, GraphNodes
<1>3. MergeDeclared(g) /\ MergeWired(g)
  BY <1>1 DEF MergeFaults, MergeDeclared, MergeWired
<1>4. InputClosed(g)
  <2> SUFFICES ASSUME NEW n \in DOMAIN f.flat, NEW c \in g.nodes[n].reads,
                      c \notin g.inputs, ~\E w \in WritePorts(g, c) : w[1] < n
               PROVE  FALSE
    BY GraphNodes DEF InputClosed, Positions
  <2> HIDE DEF g
  <2>0. c \in ToSet(Chans(f.flat[n].reads))
    BY GraphNodes DEF g
  <2>1. PICK i \in DOMAIN f.flat[n].reads : c = f.flat[n].reads[i].chan
    BY <2>0 DEF ToSet, Chans
  <2> DEFINE v == f.flat[n].reads[i]
             nw == <<n, v>>
  <2>2. v \in ToSet(f.flat[n].reads) /\ f.flat[n] \in ToSet(f.flat)
    BY <2>1 DEF ToSet
  <2>3. nw \in (DOMAIN f.flat) \X UNION {ToSet(m.reads) : m \in ToSet(f.flat)}
    BY <2>2
  <2>4. ClosureFaults(f) # {}
    BY <2>1, <2>2, <2>3 DEF ClosureFaults, g
  <2> QED  BY <1>1, <2>4
<1>5. BoundaryLive(g)
  <2> DEFINE b == [inputs |-> ToSet(f.decl.inputs), outputs |-> ToSet(f.decl.outputs),
                   positions |-> DOMAIN f.flat, ref |-> 0]
             own == {f.flat[i] : i \in b.positions}
             reads == UNION {ToSet(Chans(n.reads)) : n \in own}
             writes == UNION {ToSet(Chans(n.writes)) : n \in own}
  <2>1. DeadFaults(f, b) = {}  BY <1>1 DEF Boundaries
  <2>2. b.inputs = ToSet(f.decl.inputs) /\ b.outputs = ToSet(f.decl.outputs)
        /\ b.positions = DOMAIN f.flat
    OBVIOUS
  <2> HIDE DEF b
  <2>3. (Fields(b.inputs) \ reads) \cup (Fields(b.outputs) \ writes) = {}
    <3> SUFFICES ASSUME NEW c \in (Fields(b.inputs) \ reads) \cup (Fields(b.outputs) \ writes)
                 PROVE  FALSE
      OBVIOUS
    <3>1. Fault(f, "B", "inputs_outputs_dead", <<"boundary", b.ref, c>>) \in DeadFaults(f, b)
      BY Zenon DEF DeadFaults
    <3> QED  BY <2>1, <3>1
  <2>4. reads \subseteq ReadChannels(g)
    <3> SUFFICES ASSUME NEW n \in DOMAIN f.flat, NEW c \in ToSet(Chans(f.flat[n].reads))
                 PROVE  c \in ReadChannels(g)
      BY <2>2
    <3>1. n \in Positions(g) /\ c \in g.nodes[n].reads
      BY GraphNodes DEF Positions
    <3> QED  BY <3>1 DEF ReadChannels
  <2>5. writes \subseteq WrittenChannels(g)
    <3> SUFFICES ASSUME NEW n \in DOMAIN f.flat, NEW c \in ToSet(Chans(f.flat[n].writes))
                 PROVE  c \in WrittenChannels(g)
      BY <2>2
    <3>1. n \in Positions(g) /\ c \in ToSet(g.nodes[n].writes)
      BY GraphNodes DEF Positions
    <3> QED  BY <3>1 DEF WrittenChannels, ToSet
  <2>6. g.inputs = Fields(b.inputs) /\ g.outputs = Fields(b.outputs)
    BY <2>2, GraphNodes
  <2> HIDE DEF reads, writes, g
  <2> QED  BY <2>3, <2>4, <2>5, <2>6 DEF BoundaryLive
<1> QED  BY <1>2, <1>3, <1>4, <1>5 DEF TopologyRules

-----------------------------------------------------------------------------
(* The steps from group to group, and the answer.                          *)

LEMMA CloseGroupAKeeps == ASSUME IInv, CloseGroupA PROVE Kept
<1> DEFINE faults == Top.faults \cup ScopedMergeFaults(Top)
           g == [Top EXCEPT !.pc = "topology"]
<1>1. stack # <<>> /\ Top.pc = "flatten"  BY DEF CloseGroupA
<1>2. CASE faults # {}
  BY <1>1, <1>2, RaiseKeeps DEF CloseGroupA
<1>3. CASE faults = {}
  <2>1. Replace(g) /\ UNCHANGED <<reg, outcome, done>>
    BY <1>3 DEF CloseGroupA
  <2>2. FrameHolds(reg, Top)  BY <1>1, TopHolds DEF IInv
  <2>3. DOMAIN Top = FrameFields  BY <2>2 DEF FrameHolds
  <2>4. /\ DOMAIN g = FrameFields /\ g.path = Top.path /\ g.pc = "topology"
        /\ g.decl = Top.decl /\ g.merges = Top.merges /\ g.scoped = Top.scoped
        /\ g.flat = Top.flat /\ g.nodes = Top.nodes /\ g.supply = Top.supply
    BY <2>3 DEF FrameFields
  <2>5. DOMAIN Top.decl.merge \cap Top.scoped = {}
    BY <1>3 DEF ScopedMergeFaults
  <2> HIDE DEF g
  <2>7. FlatHolds(reg, g)  BY <2>2, <2>4, SameFlat DEF FrameHolds
  <2>6. FrameHolds(reg, g) /\ g.path = Top.path
    BY <1>1, <2>2, <2>4, <2>5, <2>7 DEF FrameHolds, MergesTraced, GroupsPassed
  <2> QED  BY <1>1, <2>1, <2>6, ReplaceKeeps
<1> QED  BY <1>2, <1>3

(* Group B without a fault is a declaration whose nodes are all supplied.  *)
LEMMA FaultlessSupplied ==
    ASSUME "outer" \notin DOMAIN reg.comps, NEW f, FlatHolds(reg, f), TopologyFaults(f) = {}
    PROVE  \A n \in ToSet(f.flat) : Supplied(reg, f.decl, n)
<1>1. BindingFaults(f) = {} /\ f.supply = {}
  BY Zenon DEF TopologyFaults
<1> SUFFICES ASSUME NEW n \in ToSet(f.flat), n.kind # "pipeline"
             PROVE  /\ \A sb \in NodeServices(reg, n) : Serves(reg, SupplyOf(reg, f.decl, n), sb)
                    /\ Configured(reg, SupplyOf(reg, f.decl, n), n)
  BY DEF Supplied
<1>2. CASE FromTrainable(reg, f, n)
  <2>1. n.from # "outer"  BY <1>2 DEF FromTrainable, Embeds
  <2>2. /\ \A x \in NodeServices(reg, n) : Serves(reg, reg.comps[n.from].supply, x)
        /\ Configured(reg, reg.comps[n.from].supply, n)
    BY <1>1, <1>2 DEF FromTrainable
  <2> QED  BY <2>1, <2>2 DEF SupplyOf
<1>3. CASE FromHandler(reg, f, n)
  <2> DEFINE declared == UNION {ToSet(reg.handlers[f.nodes[i].name].services) : i \in HandlerEntries(f)}
             found(j) == {Fault(f, "B", x[1], <<"entry", j>> \o x[2]) :
                x \in SchemaSupplyFaults(reg.handlers[f.nodes[j].name].bindings, f.nodes[j].values)}
  <2>1. /\ {Fault(f, "B", x[1], <<"pipeline">> \o x[2]) :
                x \in ServiceSupplyFaults(reg.types, declared, f.decl.supply, {})} = {}
        /\ UNION {found(j) : j \in HandlerEntries(f)} = {}
    BY <1>1, Zenon DEF BindingFaults
  <2>2. PICK i \in HandlerEntries(f) : Names(f.nodes[i], n)
    BY <1>3 DEF FromHandler, HandlerEntries, Names
  <2>3. NodeServices(reg, n) \subseteq declared
    BY <1>3, <2>2 DEF FromHandler, NodeServices, Names
  <2>4. found(i) = {}
    <3> HIDE DEF found
    <3> QED  BY <2>1
  <2>5. SchemaSupplyFaults(reg.handlers[n.name].bindings, n.values) = {}
    <3>1. SchemaSupplyFaults(reg.handlers[f.nodes[i].name].bindings, f.nodes[i].values) = {}
      BY <2>4
    <3> QED  BY <2>2, <3>1 DEF Names
  <2> HIDE DEF declared
  <2>6. ServiceSupplyFaults(reg.types, declared, f.decl.supply, {}) = {}
    BY <2>1
  <2>7. \A sb \in NodeServices(reg, n) : Serves(reg, f.decl.supply, sb)
                                        /\ Configures(reg, f.decl.supply, sb)
    BY <2>3, <2>6, FaultlessSupply
  <2>8. n.kind # "trainable"  BY <1>3 DEF FromHandler
  <2>9. Configured(reg, f.decl.supply, n)
    BY <2>5, <2>7, <2>8 DEF Configured
  <2> QED  BY <1>3, <2>7, <2>9 DEF FromHandler, SupplyOf
<1>4. NodeTraced(reg, f, n)  BY DEF FlatHolds
<1> QED  BY <1>2, <1>3, <1>4 DEF NodeTraced

LEMMA CheckTopologyKeeps == ASSUME IInv, CheckTopology PROVE Kept
<1> DEFINE g == [Top EXCEPT !.pc = "coverage"]
<1>1. stack # <<>> /\ Top.pc = "topology"  BY DEF CheckTopology
<1>2. CASE TopologyFaults(Top) # {}
  BY <1>1, <1>2, RaiseKeeps DEF CheckTopology
<1>3. CASE TopologyFaults(Top) = {}
  <2>1. Replace(g) /\ UNCHANGED <<reg, outcome, done>>
    BY <1>3 DEF CheckTopology
  <2>2. FrameHolds(reg, Top)  BY <1>1, TopHolds DEF IInv
  <2>3. DOMAIN Top = FrameFields  BY <2>2 DEF FrameHolds
  <2>4. /\ DOMAIN g = FrameFields /\ g.path = Top.path /\ g.pc = "coverage"
        /\ g.decl = Top.decl /\ g.merges = Top.merges /\ g.scoped = Top.scoped
        /\ g.flat = Top.flat /\ g.nodes = Top.nodes /\ g.supply = Top.supply
    BY <2>3 DEF FrameFields
  <2> HIDE DEF g
  <2>8. FlatHolds(reg, Top)  BY <2>2 DEF FrameHolds
  <2>9. \A n \in ToSet(Top.flat) : Supplied(reg, Top.decl, n)
    BY <1>3, <2>8, FaultlessSupplied DEF IInv
  <2>7. FlatHolds(reg, g) /\ \A n \in ToSet(g.flat) : Supplied(reg, g.decl, n)
    <3>1. FlatHolds(reg, g)  BY <2>4, <2>8, SameFlat
    <3> QED  BY <2>4, <2>9, <3>1
  <2>5. TopologyRules(GraphOf(g))
    <3>1. GraphOf(g) = GraphOf(Top)  BY <2>4 DEF GraphOf
    <3> QED  BY <1>3, <3>1, FaultlessRules
  <2>6. FrameHolds(reg, g) /\ g.path = Top.path
    BY <1>1, <2>2, <2>4, <2>5, <2>7 DEF FrameHolds, MergesTraced, GroupsPassed
  <2> QED  BY <1>1, <2>1, <2>6, ReplaceKeeps
<1> QED  BY <1>2, <1>3

LEMMA CheckCoverageKeeps == ASSUME IInv, CheckCoverage PROVE Kept
  BY RaiseKeeps DEF CheckCoverage

-----------------------------------------------------------------------------
(* What a call delivers.                                                   *)

LEMMA GraphIsTyped ==
    ASSUME NEW r, NEW f, FlatHolds(r, f)
    PROVE  WellKinded(GraphOf(f)) /\ \E C : GraphOf(f) \in GraphsOver(C)
<1> DEFINE g == GraphOf(f)
           C == WiredChannels(g) \cup g.inputs \cup g.outputs \cup g.merged \cup g.scoped
<1>1. /\ DOMAIN g = {"nodes", "inputs", "outputs", "merged", "scoped"}
      /\ g = [nodes |-> g.nodes, inputs |-> g.inputs, outputs |-> g.outputs,
              merged |-> g.merged, scoped |-> g.scoped]
      /\ g.nodes = [i \in DOMAIN f.flat |-> g.nodes[i]]
      /\ \A i \in DOMAIN f.flat : g.nodes[i] =
            [kind |-> f.flat[i].kind, reads |-> ToSet(Chans(f.flat[i].reads)),
             writes |-> Chans(f.flat[i].writes), streams |-> f.flat[i].streams]
  BY DEF GraphOf
<1> HIDE DEF g
<1>2. Len(f.flat) \in Nat /\ DOMAIN f.flat = 1..Len(f.flat)
  BY ListFacts DEF FlatHolds
<1>3. \A i \in DOMAIN f.flat : NodeShaped(f.flat[i])
  BY ListFacts DEF FlatHolds
<1>4. DOMAIN g.nodes = DOMAIN f.flat  BY <1>1
<1>10. \A i \in DOMAIN f.flat :
        /\ g.nodes[i] = [kind |-> g.nodes[i].kind, reads |-> g.nodes[i].reads,
                         writes |-> g.nodes[i].writes, streams |-> g.nodes[i].streams]
        /\ g.nodes[i].kind = f.flat[i].kind /\ g.nodes[i].streams = f.flat[i].streams
        /\ g.nodes[i].writes = Chans(f.flat[i].writes)
  <2> SUFFICES ASSUME NEW i \in DOMAIN f.flat
               PROVE  /\ g.nodes[i] = [kind |-> g.nodes[i].kind, reads |-> g.nodes[i].reads,
                             writes |-> g.nodes[i].writes, streams |-> g.nodes[i].streams]
                      /\ g.nodes[i].kind = f.flat[i].kind
                      /\ g.nodes[i].streams = f.flat[i].streams
                      /\ g.nodes[i].writes = Chans(f.flat[i].writes)
    OBVIOUS
  <2> DEFINE n == g.nodes[i]
             k == f.flat[i].kind
             rs == ToSet(Chans(f.flat[i].reads))
             ws == Chans(f.flat[i].writes)
             st == f.flat[i].streams
  <2>1. n = [kind |-> k, reads |-> rs, writes |-> ws, streams |-> st]  BY <1>1
  <2> HIDE DEF n, k, rs, ws, st
  <2>2. /\ n = [kind |-> n.kind, reads |-> n.reads, writes |-> n.writes, streams |-> n.streams]
        /\ n.kind = k /\ n.streams = st /\ n.writes = ws
    BY <2>1
  <2> QED  BY <2>2 DEF n, k, ws, st
<1>5. ASSUME NEW i \in DOMAIN f.flat
      PROVE  g.nodes[i] \in NodesOver(C, Seq(C))
  <2> DEFINE ws == f.flat[i].writes
             n == g.nodes[i]
  <2>1. /\ n = [kind |-> n.kind, reads |-> n.reads, writes |-> n.writes, streams |-> n.streams]
        /\ n.kind = f.flat[i].kind /\ n.streams = f.flat[i].streams /\ n.writes = Chans(ws)
    BY <1>10
  <2>2. n.reads \subseteq C
    BY <1>4 DEF WiredChannels, ReadChannels, Positions
  <2>3. \A p \in DOMAIN n.writes : n.writes[p] \in C
    BY <1>4 DEF WiredChannels, WrittenChannels, Positions
  <2>4. Len(ws) \in Nat /\ DOMAIN ws = 1..Len(ws)
    BY <1>3, ListFacts DEF NodeShaped
  <2>5. n.writes = [p \in 1..Len(ws) |-> n.writes[p]]
    BY <2>1, <2>4 DEF Chans
  <2>6. n.kind \in Kinds /\ n.streams \in BOOLEAN
    BY <1>3, <2>1 DEF NodeShaped
  <2> HIDE DEF C, n, ws
  <2>7. n.writes \in [1..Len(ws) -> C]
    BY <2>3, <2>5
  <2>8. n.writes \in Seq(C)
    BY <2>4, <2>7
  <2>9. n \in NodesOver(C, Seq(C))
    BY <2>1, <2>2, <2>6, <2>8 DEF NodesOver
  <2> QED  BY <2>9 DEF n
<1>6. g.nodes \in Seq(NodesOver(C, Seq(C)))
  <2> HIDE DEF C
  <2>1. g.nodes \in [1..Len(f.flat) -> NodesOver(C, Seq(C))]
    BY <1>1, <1>2, <1>5
  <2> QED  BY <1>2, <2>1
<1>7. g.inputs \subseteq C /\ g.outputs \subseteq C /\ g.merged \subseteq C /\ g.scoped \subseteq C
  OBVIOUS
<1>8. g \in GraphsOver(C)
  <2> HIDE DEF C
  <2> QED  BY <1>1, <1>6, <1>7 DEF GraphsOver
<1>9. WellKinded(g)
  <2> SUFFICES ASSUME NEW i \in DOMAIN f.flat
               PROVE  /\ g.nodes[i].kind = "hook" => g.nodes[i].writes = <<>>
                      /\ g.nodes[i].kind \in {"transform", "service", "trainable"} =>
                              g.nodes[i].writes # <<>>
                      /\ g.nodes[i].streams => g.nodes[i].kind \in {"trainable", "pipeline"}
    BY <1>4 DEF WellKinded, Positions, Kind
  <2> DEFINE ws == f.flat[i].writes
  <2>1. /\ g.nodes[i].kind = f.flat[i].kind /\ g.nodes[i].streams = f.flat[i].streams
        /\ g.nodes[i].writes = Chans(ws)
    BY <1>10
  <2>2. NodeShaped(f.flat[i])  BY <1>3
  <2>3. DOMAIN Chans(ws) = DOMAIN ws  BY DEF Chans
  <2>4. ws = <<>> => Chans(ws) = <<>>
    <3>1. ASSUME ws = <<>> PROVE DOMAIN ws = {}  BY <3>1
    <3>2. ASSUME ws = <<>> PROVE Chans(ws) = [p \in {} |-> ws[p].chan]
      BY <3>1, <3>2 DEF Chans
    <3>3. \A h : DOMAIN h = {} /\ h = [x \in DOMAIN h |-> h[x]] => h = <<>>
      OBVIOUS
    <3> QED  BY <2>3, <3>1, <3>2, <3>3
  <2>5. ws # <<>> => Chans(ws) # <<>>
    BY <2>2, <2>3, ListFacts DEF NodeShaped
  <2> QED  BY <2>1, <2>2, <2>4, <2>5 DEF NodeShaped
<1> QED  BY <1>8, <1>9 DEF g

LEMMA BoundariesStayApart ==
    ASSUME NEW f, PipelineTyped(f.decl), \A c \in f.scoped : Deep(c)
    PROVE  ScopedApart(GraphOf(f))
<1>1. ASSUME NEW ports, PortList(ports), NEW c \in Fields(ToSet(ports))
      PROVE  ~Deep(c)
  <2>1. PICK i \in DOMAIN ports : c = <<ports[i].name>>
    BY <1>1 DEF Fields, ToSet
  <2>2. Len(c) = 1  BY <2>1
  <2> QED  BY <2>2 DEF Deep
<1>2. \A c \in Fields(ToSet(f.decl.inputs)) \cup Fields(ToSet(f.decl.outputs)) : ~Deep(c)
  BY <1>1 DEF PipelineTyped
<1> QED  BY <1>2, GraphNodes DEF ScopedApart

(* A block without a fault fits.                                           *)
LEMMA FaultlessBlock ==
    ASSUME NEW fields, NEW b, NEW unknown, NEW missing, NEW about,
           BlockFaults(fields, b, unknown, missing, FALSE, about) = {}
    PROVE  BlockFits(fields, b)
<1>1. DOMAIN b = FieldNames(fields)
  <2>1. DOMAIN b \subseteq FieldNames(fields)
    <3>1. {<<unknown, Append(about, k)>> : k \in DOMAIN b \ FieldNames(fields)} = {}
      BY DEF BlockFaults
    <3> QED  BY <3>1
  <2>2. FieldNames(fields) \subseteq DOMAIN b
    <3>1. {<<missing, Append(about, k)>> : k \in FieldNames(fields) \ DOMAIN b} = {}
      BY DEF BlockFaults
    <3> QED  BY <3>1
  <2> QED  BY <2>1, <2>2
<1>2. ASSUME NEW f \in ToSet(fields), ExplicitNull(b[f.name]) = "yes"
      PROVE  IsNullable(f)
  <2>1. f.name \in DOMAIN b  BY <1>1 DEF FieldNames, ToSet
  <2>2. ValueFaults(f, b[f.name], Append(about, f.name), {}) = {}
    BY <2>1 DEF BlockFaults
  <2> QED  BY <1>2, <2>2 DEF ValueFaults
<1> QED  BY <1>1, <1>2 DEF BlockFits

(* The handles of a scope that is composed.                                *)
LEMMA HandleBound ==
    ASSUME IsFiniteSet(DOMAIN reg.comps), NEW f,
           NEW s \in {f.decl} \cup TrainablesOf(f), NEW h \in DOMAIN s.supply
    PROVE  /\ h \in DOMAIN BoundTypes(f)
           /\ s.supply[h].type \in BoundTypes(f)[h]
           /\ IsFiniteSet(BoundTypes(f)[h])
<1> DEFINE scopes == {f.decl} \cup TrainablesOf(f)
           bound == {x.supply[h].type : x \in {y \in scopes : h \in DOMAIN y.supply}}
<1>1. h \in DOMAIN BoundTypes(f) /\ BoundTypes(f)[h] = bound
  BY DEF BoundTypes
<1>2. s.supply[h].type \in bound  OBVIOUS
<1>3. IsFiniteSet(bound)
  <2>1. TrainablesOf(f) \subseteq {reg.comps[p] : p \in DOMAIN reg.comps}
    BY DEF TrainablesOf, Embeds
  <2>2. IsFiniteSet({reg.comps[p] : p \in DOMAIN reg.comps})
    <3> DEFINE P == DOMAIN reg.comps
               c == [p \in P |-> reg.comps[p]]
    <3>1. c = [p \in P |-> c[p]] /\ {c[p] : p \in P} = {reg.comps[p] : p \in DOMAIN reg.comps}
      OBVIOUS
    <3>2. IsFiniteSet(P)  OBVIOUS
    <3> HIDE DEF P, c
    <3>3. IsFiniteSet({c[p] : p \in P})  BY <3>1, <3>2, ImageIsFinite
    <3> QED  BY <3>1, <3>3
  <2>3. IsFiniteSet(TrainablesOf(f))  BY <2>1, <2>2, FS_Subset
  <2>4. IsFiniteSet(scopes)  BY <2>3, FS_Singleton, FS_Union
  <2> HIDE DEF scopes
  <2>5. IsFiniteSet({y \in scopes : h \in DOMAIN y.supply})
    BY <2>4, FS_Subset
  <2> DEFINE Y == {y \in scopes : h \in DOMAIN y.supply}
  <2> DEFINE ty == [x \in Y |-> x.supply[h].type]
  <2>6. bound = {ty[x] : x \in Y} /\ ty = [x \in Y |-> ty[x]]  OBVIOUS
  <2>7. IsFiniteSet(Y)  BY <2>5
  <2> HIDE DEF Y, bound, ty
  <2>8. IsFiniteSet({ty[x] : x \in Y})  BY <2>6, <2>7, ImageIsFinite
  <2> QED  BY <2>6, <2>8
<1> QED  BY <1>1, <1>2, <1>3

(* One block serves one type.                                              *)
LEMMA FaultlessHandle ==
    ASSUME NEW types, NEW h, NEW bound, IsFiniteSet(bound), NEW blocks,
           HandleFaults(types, h, bound, blocks) = {}, NEW ty \in bound, ty \in DOMAIN types
    PROVE  blocks # {} /\ \A b \in blocks : BlockFits(types[ty].transport, b)
<1>1. Cardinality(bound) \in Nat /\ Cardinality(bound) # 0
  BY FS_CardinalityType, FS_EmptySet
<1> DEFINE torn   == <<"transport_handle_coherence", <<"handle", h>>>>
           absent == <<"transport_coverage", <<"handle", h>>>>
           faults(t, b) == BlockFaults(types[t].transport, b, "identity_transport_placement",
                                       "transport_coverage", FALSE, <<"handle", h>>)
           over(b) == UNION {faults(t, b) : t \in bound \cap DOMAIN types}
           rest == UNION {over(b) : b \in blocks}
           n == Cardinality(bound)
<1>2. (CASE n > 1 -> {torn} [] n = 1 /\ blocks = {} -> {absent} [] OTHER -> rest) = {}
  BY Zenon DEF HandleFaults
<1>3. \A b \in blocks : faults(ty, b) \subseteq rest
  <2> SUFFICES ASSUME NEW b \in blocks PROVE faults(ty, b) \subseteq rest  OBVIOUS
  <2> HIDE DEF faults
  <2>1. faults(ty, b) \subseteq over(b)  OBVIOUS
  <2> HIDE DEF over
  <2>2. over(b) \subseteq rest  OBVIOUS
  <2> QED  BY <2>1, <2>2
<1>4. n \in Nat /\ n # 0  BY <1>1
<1> HIDE DEF torn, absent, rest, faults, n
<1>5. ~(n > 1)  BY <1>2
<1>6. n = 1  BY <1>4, <1>5
<1>7. blocks # {} /\ rest = {}  BY <1>2, <1>6
<1>8. \A b \in blocks : faults(ty, b) = {}  BY <1>3, <1>7
<1> QED  BY <1>7, <1>8, FaultlessBlock DEF faults

LEMMA CoveredIsFaultless ==
    ASSUME NEW f, Uncovered(f) = {}, NEW d \in ToSet(reg.deployment)
    PROVE  CoverageFaults(reg.types, d, f.decl.name, BoundTypes(f), HookAddresses(f)) = {}
<1> DEFINE all == CoverageFaults(reg.types, d, f.decl.name, BoundTypes(f), HookAddresses(f))
<1>1. {Fault(f, "C", x[1], x[2]) : x \in all} = {}  BY Zenon DEF Uncovered
<1> HIDE DEF all
<1>2. all = {}  BY <1>1
<1> QED  BY <1>2 DEF all

LEMMA FaultlessCoverage ==
    ASSUME RegistryTyped(reg), "outer" \notin DOMAIN reg.comps,
           NEW f, FlatHolds(reg, f), Uncovered(f) = {},
           NEW n \in ToSet(f.flat), n.kind # "pipeline", Supplied(reg, f.decl, n),
           NEW sb \in NodeServices(reg, n)
    PROVE  CoveredBy(reg, f.decl.name, sb)
<1> DEFINE s == IF n.from = "outer" THEN f.decl ELSE reg.comps[n.from]
<1>1. s \in {f.decl} \cup TrainablesOf(f)
  BY DEF FlatHolds, NodeTraced, FromTrainable, FromHandler, TrainablesOf, ToSet
<1>2. s.supply = SupplyOf(reg, f.decl, n)  BY DEF SupplyOf
<1>3. Serves(reg, s.supply, sb)  BY <1>2 DEF Supplied
<1> HIDE DEF s
<1>4. /\ sb.name \in DOMAIN BoundTypes(f) /\ sb.type \in BoundTypes(f)[sb.name]
      /\ IsFiniteSet(BoundTypes(f)[sb.name]) /\ sb.type \in DOMAIN reg.types
  BY <1>1, <1>3, HandleBound DEF Serves, RegistryTyped
<1> SUFFICES ASSUME NEW d \in ToSet(reg.deployment)
             PROVE  LET blocks == Covering(d, f.decl.name, "transport", sb.name)
                    IN  blocks # {} /\ \A b \in blocks : BlockFits(reg.types[sb.type].transport, b)
  BY DEF CoveredBy
<1> DEFINE blocks == Covering(d, f.decl.name, "transport", sb.name)
<1>5. CoverageFaults(reg.types, d, f.decl.name, BoundTypes(f), HookAddresses(f)) = {}
  BY CoveredIsFaultless
<1>6. HandleFaults(reg.types, sb.name, BoundTypes(f)[sb.name], blocks) = {}
  BY <1>4, <1>5, Zenon DEF CoverageFaults
<1> QED  BY <1>4, <1>6, FaultlessHandle

(* A hook of the graph is among the hooks that are covered.                *)
LEMMA HookIsAddressed ==
    ASSUME "outer" \notin DOMAIN reg.comps, NEW f, FlatHolds(reg, f),
           NEW n \in ToSet(f.flat), n.kind \in Bare, reg.handlers[n.name].kind = "hook"
    PROVE  <<AddressOf(reg, n), reg.handlers[n.name].transport>> \in HookAddresses(f)
<1>1. FromHandler(reg, f, n) \/ FromTrainable(reg, f, n)
  BY DEF FlatHolds, NodeTraced, Bare
<1>2. CASE FromHandler(reg, f, n)
  <2>1. PICK i \in DOMAIN f.nodes : f.nodes[i].form = "handler" /\ f.nodes[i].name = n.name
    BY <1>2 DEF FromHandler, Names
  <2>2. IsHook(reg, f.nodes[i])  BY <1>2, <2>1 DEF IsHook, FromHandler
  <2>3. AddressOf(reg, n) = <<f.nodes[i].name>>  BY <1>2, <2>1 DEF AddressOf, FromHandler
  <2> QED  BY <2>1, <2>2, <2>3 DEF HookAddresses
<1>3. CASE FromTrainable(reg, f, n)
  <2> DEFINE t == reg.comps[n.from]
  <2>1. n.from # "outer" /\ n.kind # "trainable"  BY <1>3 DEF FromTrainable, Embeds, Bare
  <2>2. PICK i \in DOMAIN t.pre : IsMember(reg, t.pre[i], n)  BY <1>3, <2>1 DEF FromTrainable
  <2>3. t \in TrainablesOf(f)  BY <1>3 DEF FromTrainable, TrainablesOf, ToSet
  <2>4. i \in {j \in Registered(t) : reg.handlers[t.pre[j].name].kind = "hook"}
    BY <2>2 DEF Registered, IsMember, Names
  <2>5. AddressOf(reg, n) = <<t.name, t.pre[i].id>> /\ n.name = t.pre[i].name
    BY <2>1, <2>2 DEF AddressOf, IsMember, Names
  <2> HIDE DEF t
  <2> QED  BY <2>3, <2>4, <2>5 DEF HookAddresses
<1> QED  BY <1>1, <1>2, <1>3

LEMMA FaultlessHook ==
    ASSUME NEW fields, NEW hook, NEW blocks, HookFaults(fields, hook, blocks) = {}
    PROVE  \E b \in blocks : FieldNames(fields) \subseteq DOMAIN b
<1>1. blocks # {}  BY DEF HookFaults
<1>2. PICK b \in blocks : TRUE  BY <1>1
<1> DEFINE faults(x) == BlockFaults(fields, x, "hook_transport_coverage",
                            "hook_transport_coverage", TRUE, <<"hook", hook>>)
<1>3. UNION {faults(x) : x \in blocks} = {}  BY <1>1, Zenon DEF HookFaults
<1>4. faults(b) = {}
  <2> HIDE DEF faults
  <2> QED  BY <1>3
<1>5. {<<"hook_transport_coverage", Append(<<"hook", hook>>, k)>> :
            k \in FieldNames(fields) \ DOMAIN b} = {}
  BY <1>4 DEF BlockFaults
<1>6. FieldNames(fields) \ DOMAIN b = {}  BY <1>5
<1> QED  BY <1>6

LEMMA FaultlessHookCoverage ==
    ASSUME "outer" \notin DOMAIN reg.comps, NEW f, FlatHolds(reg, f), Uncovered(f) = {},
           NEW n \in ToSet(f.flat), n.kind \in Bare, reg.handlers[n.name].kind = "hook"
    PROVE  HookCovered(reg, f.decl.name, n)
<1> DEFINE h == <<AddressOf(reg, n), reg.handlers[n.name].transport>>
<1>1. h \in HookAddresses(f)  BY HookIsAddressed
<1> SUFFICES ASSUME NEW d \in ToSet(reg.deployment)
             PROVE  \E b \in Covering(d, f.decl.name, "hooks", AddressOf(reg, n)) :
                        FieldNames(reg.handlers[n.name].transport) \subseteq DOMAIN b
  BY DEF HookCovered
<1> DEFINE faults(x) == HookFaults(x[2], x[1], Covering(d, f.decl.name, "hooks", x[1]))
<1>2. CoverageFaults(reg.types, d, f.decl.name, BoundTypes(f), HookAddresses(f)) = {}
  BY CoveredIsFaultless
<1>3. UNION {faults(x) : x \in HookAddresses(f)} = {}
  BY <1>2, Zenon DEF CoverageFaults
<1>4. faults(h) = {}
  <2> HIDE DEF faults, h
  <2> QED  BY <1>1, <1>3
<1>5. HookFaults(reg.handlers[n.name].transport, AddressOf(reg, n),
                 Covering(d, f.decl.name, "hooks", AddressOf(reg, n))) = {}
  BY <1>4
<1> QED  BY <1>5, FaultlessHook

(* What a call delivers has passed every group.                            *)
LEMMA DeliveredHolds ==
    ASSUME RegistryTyped(reg), "outer" \notin DOMAIN reg.comps,
           NEW f, FrameHolds(reg, f), f.pc = "coverage", Uncovered(f) = {}
    PROVE  UnitHolds(reg, Unit(f)) /\ Unit(f).path = f.path
<1> DEFINE d == Unit(f)
<1>1. /\ d.graph = GraphOf(f) /\ d.merges = f.merges /\ d.flat = f.flat /\ d.path = f.path
      /\ d.graph.scoped = f.scoped
      /\ d.decl = [f.decl EXCEPT !.nodes = f.nodes]
  BY GraphNodes DEF Unit
<1> HIDE DEF d
<1>2. /\ TopologyRules(GraphOf(f)) /\ DOMAIN f.decl.merge \cap f.scoped = {}
      /\ FlatHolds(reg, f) /\ PipelineTyped(f.decl)
      /\ \A n \in ToSet(f.flat) : Supplied(reg, f.decl, n)
      /\ \A c \in f.scoped : Deep(c)
  BY DEF FrameHolds, GroupsPassed
<1>3. \A c \in DOMAIN f.merges : c \in f.scoped <=> f.merges[c].by # "outer"
  BY <1>2 DEF FrameHolds, MergesTraced
<1>4. Walkable(d.graph) /\ \E C : d.graph \in GraphsOver(C)
  BY <1>1, <1>2, GraphIsTyped, BoundariesStayApart DEF Walkable, TopologyRules
<1>5. d.decl.supply = f.decl.supply /\ d.decl.name = f.decl.name
  BY <1>1, <1>2 DEF PipelineTyped
<1>6. ASSUME NEW n \in ToSet(f.flat)
      PROVE  /\ n.kind = "pipeline" => n.from \in Embeds(reg, "pipeline")
             /\ n.kind = "trainable" => /\ n.from \in Embeds(reg, "trainable")
                                        /\ Len(reg.comps[n.from].services) = 1
             /\ n.kind \in {"transform", "service", "hook"} => n.name \in DOMAIN reg.handlers
  <2>1. NodeTraced(reg, f, n)  BY <1>2 DEF FlatHolds
  <2> QED  BY <2>1 DEF NodeTraced, FromHandler, FromTrainable, Embeds, IsMember, Names
<1>7. \A n \in ToSet(f.flat) : Supplied(reg, d.decl, n)
  BY <1>2, <1>5 DEF Supplied, SupplyOf
<1>8. \A n \in ToSet(f.flat) : n.kind # "pipeline" =>
        \A sb \in NodeServices(reg, n) : CoveredBy(reg, d.decl.name, sb)
  BY <1>2, <1>5, FaultlessCoverage
<1>9. \A n \in ToSet(f.flat) : n.kind \in Bare /\ reg.handlers[n.name].kind = "hook" =>
        HookCovered(reg, d.decl.name, n)
  BY <1>2, <1>5, FaultlessHookCoverage
<1>10. IsList(d.flat)  BY <1>1, <1>2 DEF FlatHolds
<1>11. UnitHolds(reg, d)
  BY <1>1, <1>3, <1>4, <1>6, <1>7, <1>8, <1>10, <1>9 DEF UnitHolds
<1> QED  BY <1>1, <1>11 DEF d

LEMMA EmbedNodeShaped ==
    ASSUME NEW path, NEW p, PipelineTyped(p), NEW streams \in BOOLEAN
    PROVE  LET n == EmbedNode(path, p, streams)
           IN  NodeShaped(n) /\ n.kind = "pipeline" /\ n.from = path
<1> DEFINE n == EmbedNode(path, p, streams)
<1>1. /\ n.kind = "pipeline" /\ n.from = path /\ n.streams = streams
      /\ n.reads = Wire(p.inputs, <<>>) /\ n.writes = Wire(p.outputs, <<>>)
  BY DEF EmbedNode, FlatNode
<1> HIDE DEF n
<1>2. IsList(n.reads) /\ IsList(n.writes)
  BY <1>1, WireLists DEF PipelineTyped
<1>3. NodeShaped(n)  BY <1>1, <1>2 DEF NodeShaped, Kinds
<1> QED  BY <1>1, <1>3 DEF n

LEMMA DeliverKeeps == ASSUME IInv, Deliver PROVE Kept
<1>1. stack # <<>> /\ Top.pc = "coverage" /\ Uncovered(Top) = {}
  BY DEF Deliver
<1>2. FrameHolds(reg, Top)  BY <1>1, TopHolds DEF IInv
<1>3. UnitHolds(reg, Unit(Top)) /\ Unit(Top).path = Top.path
  BY <1>1, <1>2, DeliveredHolds DEF IInv
<1>4. done' = done \cup {Unit(Top)} /\ reg' = reg  BY DEF Deliver
<1>5. \A d \in done' : UnitHolds(reg, d)  BY <1>3, <1>4 DEF IInv
<1>6. CASE Len(stack) = 1
  <2>1. stack' = <<>> /\ outcome'.status = "compiled"  BY <1>6 DEF Deliver
  <2>2. \E d \in done' : d.path = stack[1].path
    BY <1>3, <1>4, <1>6 DEF Top
  <2> QED  BY <1>4, <1>5, <2>1, <2>2, EmptyHolds DEF IInv, Kept, RootStep
<1>7. CASE Len(stack) # 1
  <2> DEFINE caller == stack[Len(stack) - 1]
             node == EmbedNode(Top.path, Top.decl, StreamRoute(GraphOf(Top)) # 0)
  <2>1. FrameHolds(reg, caller) /\ caller.pc = "flatten"
    BY <1>1, <1>7, CallerHolds DEF IInv
  <2>2. DOMAIN caller = FrameFields  BY <2>1 DEF FrameHolds
  <2>3. Top.path \in Embeds(reg, "pipeline")
    BY <1>1, <1>7, InnerPath DEF IInv, Top
  <2>4. NodeShaped(node) /\ node.kind = "pipeline" /\ node.from = Top.path
    BY <1>2, EmbedNodeShaped DEF FrameHolds
  <2> HIDE DEF node
  <2> DEFINE g == [caller EXCEPT !.flat = Append(@, node), !.at = @ + 1]
  <2>5. /\ SameWiring(caller, g) /\ g.flat = Append(caller.flat, node)
        /\ g.supply = caller.supply
    BY <2>2 DEF SameWiring, FrameFields
  <2>6. /\ stack' = Append(SubSeq(stack, 1, Len(stack) - 2), g)
        /\ UNCHANGED <<reg, outcome>>
    BY <1>7 DEF Deliver, node
  <2> HIDE DEF g
  <2>7. FlatHolds(reg, g)
    <3>1. NodeTraced(reg, g, node)  BY <2>3, <2>4 DEF NodeTraced
    <3> QED  BY <2>1, <2>4, <2>5, <3>1, OneMoreNode DEF FrameHolds, SameWiring
  <2>8. FrameHolds(reg, g) /\ g.path = caller.path
    BY <2>1, <2>5, <2>7, WiredHolds DEF SameWiring
  <2>9. StackHolds(reg, Append(SubSeq(stack, 1, Len(stack) - 2), g))
    BY <1>1, <1>7, <2>8, PopKeeps DEF IInv
  <2>10. stack' # <<>> /\ stack'[1].path = stack[1].path
    BY <1>1, <1>7, <2>6, <2>8, RootStays DEF IInv
  <2> QED  BY <1>4, <1>5, <2>6, <2>9, <2>10 DEF IInv, Kept, RootStep
<1> QED  BY <1>6, <1>7

-----------------------------------------------------------------------------

LEMMA NextKeeps == ASSUME IInv, Next PROVE Kept
  BY SubstituteKeeps, FlattenHandlerKeeps, SkipCompositionKeeps,
     FlattenTrainableKeeps, FlattenEmbedKeeps, CloseGroupAKeeps,
     CheckTopologyKeeps, CheckCoverageKeeps, DeliverKeeps DEF Next

LEMMA StepKeeps == IInv /\ [Next]_vars => IInv'
<1> SUFFICES ASSUME IInv, [Next]_vars PROVE IInv'  OBVIOUS
<1>1. CASE UNCHANGED vars  BY <1>1 DEF vars, IInv
<1>2. CASE Next  BY <1>2, NextKeeps DEF Kept
<1> QED  BY <1>1, <1>2

(* The inductive invariant holds of every compilation.                     *)
THEOREM CompileInvariant == Spec => []IInv
  BY InitBegins, IInvInit, StepKeeps, PTL DEF Spec

(* `_flatten_pipeline_embed` recurses without end on no set of             *)
(* declarations: a pipeline is never compiled inside its own compilation,  *)
(* however embeds, bundles and trainables contain each other.              *)
THEOREM StackNeverRepeats == Spec => []StackIsSimple
<1>1. IInv => StackIsSimple  BY DEF IInv, StackHolds, Simple, StackIsSimple
<1> QED  BY <1>1, CompileInvariant, PTL

(* A merge entry of a compiled graph governs a composition's internal      *)
(* channel exactly when that composition declared it: an outer declaration *)
(* can neither reach into a composition nor be overridden by one.          *)
THEOREM MergesKeepTheirScope == Spec => []MergesStayInScope
<1>1. IInv => MergesStayInScope  BY DEF IInv, UnitHolds, MergesStayInScope
<1> QED  BY <1>1, CompileInvariant, PTL

RulesHoldOfGraphs == \A d \in done : TopologyRules(d.graph)

(* Every graph that is handed on, the embedded ones included, keeps the    *)
(* topology rules that the walk takes for granted: no node reads what it   *)
(* writes, several contributors have a strategy, every strategy a channel, *)
(* every read a value upstream, every boundary field a port.               *)
THEOREM CompiledGraphsKeepTheRules == Spec => []RulesHoldOfGraphs
<1>1. IInv => RulesHoldOfGraphs
  BY DEF IInv, UnitHolds, RulesHoldOfGraphs, Walkable, TopologyRules
<1> QED  BY <1>1, CompileInvariant, PTL

(* What the run takes for granted of the graph it is handed.               *)
HandedOnWalkable == \A d \in done : Walkable(d.graph) /\ \E C : d.graph \in GraphsOver(C)

(* Every graph that `compile_pipeline` hands on is one over which the walk  *)
(* has been shown to be right: beside the topology rules, each node has the *)
(* ports its kind needs, and no internal channel is a boundary field.      *)
THEOREM CompiledGraphsAreWalkable == Spec => []HandedOnWalkable
<1>1. IInv => HandedOnWalkable  BY DEF IInv, UnitHolds, HandedOnWalkable
<1> QED  BY <1>1, CompileInvariant, PTL

DepthBounded ==
    IsFiniteSet(Embeds(reg, "pipeline")) =>
        Len(stack) <= Cardinality({"root"} \cup Embeds(reg, "pipeline"))

(* The recursion of `_flatten_pipeline_embed` is no deeper than there are  *)
(* pipelines to compile.                                                   *)
THEOREM RecursionIsBounded == Spec => []DepthBounded
<1>1. IInv => DepthBounded
  <2> SUFFICES ASSUME IInv, IsFiniteSet(Embeds(reg, "pipeline"))
               PROVE  Len(stack) <= Cardinality({"root"} \cup Embeds(reg, "pipeline"))
    BY DEF DepthBounded
  <2> DEFINE paths == {"root"} \cup Embeds(reg, "pipeline")
             f == [k \in 1..Len(stack) |-> stack[k].path]
  <2>1. PICK S : stack \in Seq(S)  BY DEF IInv, StackHolds
  <2>2. Len(stack) \in Nat /\ DOMAIN stack = 1..Len(stack)  BY <2>1
  <2>3. f \in [1..Len(stack) -> paths]
    BY <2>2 DEF IInv, StackHolds, FrameHolds
  <2>4. \A i, j \in 1..Len(stack) : f[i] = f[j] => i = j
    BY <2>2 DEF IInv, StackHolds, Simple
  <2>5. IsFiniteSet(paths)
    BY FS_AddElement, FS_Singleton, FS_Union
  <2> HIDE DEF paths, f
  <2>6. f \in Injection(1..Len(stack), paths)
    BY <2>3, <2>4 DEF Injection, IsInjective
  <2>7. Cardinality(1..Len(stack)) <= Cardinality(paths)
    BY <2>5, <2>6, FS_Injection
  <2>8. Cardinality(1..Len(stack)) = Len(stack)
    <3> DEFINE n == Len(stack)
    <3>1. n \in Nat /\ 1 \in Int /\ n \in Int  BY <2>2
    <3> HIDE DEF n
    <3>2. Cardinality(1..n) = IF 1 > n THEN 0 ELSE n - 1 + 1
      BY <3>1, FS_Interval
    <3>3. Cardinality(1..n) = n  BY <3>1, <3>2
    <3> QED  BY <3>3 DEF n
  <2> QED  BY <2>7, <2>8 DEF paths
<1> QED  BY <1>1, CompileInvariant, PTL

(***************************************************************************)
(* Recursion over the naturals.                                            *)
(***************************************************************************)

(* One round of the closure that `Reached` computes.                       *)
Round(r, X) == X \cup UNION {Contained(r, p) : p \in X}

Rounds(r, from, n, g) ==
    g = [k \in 0..n |-> IF k = 0 THEN from ELSE Round(r, g[k - 1])]

LEMMA RoundsExist == \A r, from : \A n \in Nat : \E g : Rounds(r, from, n, g)
<1> SUFFICES ASSUME NEW r, NEW from PROVE \A n \in Nat : \E g : Rounds(r, from, n, g)
  OBVIOUS
<1> DEFINE P == {n \in Nat : \E g : Rounds(r, from, n, g)}
<1>1. 0 \in P
  <2> DEFINE g == [k \in 0..0 |-> from]
  <2>1. Rounds(r, from, 0, g)  BY DEF Rounds
  <2> HIDE DEF g
  <2> QED  BY <2>1
<1>2. \A n \in Nat : n \in P => n + 1 \in P
  <2> SUFFICES ASSUME NEW n \in Nat, NEW g, Rounds(r, from, n, g)
               PROVE  \E h : Rounds(r, from, n + 1, h)
    OBVIOUS
  <2> DEFINE h == [k \in 0..(n + 1) |-> IF k = n + 1 THEN Round(r, g[n]) ELSE g[k]]
  <2>1. \A k \in 0..n : h[k] = g[k]  OBVIOUS
  <2>2. \A k \in 0..n : g[k] = IF k = 0 THEN from ELSE Round(r, g[k - 1])
    BY DEF Rounds
  <2>3. \A k \in 0..(n + 1) : h[k] = IF k = 0 THEN from ELSE Round(r, h[k - 1])
    <3> SUFFICES ASSUME NEW k \in 0..(n + 1)
                 PROVE  h[k] = IF k = 0 THEN from ELSE Round(r, h[k - 1])
      OBVIOUS
    <3>1. CASE k = n + 1
      <4>1. h[k] = Round(r, g[n]) /\ k # 0 /\ k - 1 = n /\ n \in 0..n  BY <3>1
      <4> HIDE DEF h
      <4> QED  BY <2>1, <4>1
    <3>2. CASE k # n + 1
      <4>1. k \in 0..n /\ (k # 0 => k - 1 \in 0..n)  BY <3>2
      <4> HIDE DEF h
      <4> QED  BY <2>1, <2>2, <4>1
    <3> QED  BY <3>1, <3>2
  <2>4. h = [k \in 0..(n + 1) |-> h[k]]  OBVIOUS
  <2> HIDE DEF h
  <2>5. Rounds(r, from, n + 1, h)  BY <2>3, <2>4 DEF Rounds
  <2> QED  BY <2>5
<1> HIDE DEF P
<1>3. Nat \subseteq P  BY <1>1, <1>2, SetInduction
<1> QED  BY <1>3 DEF P

(* What is reached from inside a closed set stays in it.                   *)
LEMMA ReachedStaysIn ==
    ASSUME NEW r, IsFiniteSet(DOMAIN r.comps), NEW from, NEW S, from \subseteq S,
           \A p \in S : Contained(r, p) \subseteq S
    PROVE  Reached(r, from) \subseteq S
<1> DEFINE N == Cardinality(DOMAIN r.comps)
           W == CHOOSE g : Rounds(r, from, N, g)
<1>1. N \in Nat  BY FS_CardinalityType
<1>2. Rounds(r, from, N, W)
  <2> HIDE DEF N
  <2>1. \E g : Rounds(r, from, N, g)  BY <1>1, RoundsExist
  <2> QED  BY <2>1
<1>3. Reached(r, from) = W[N]
  BY DEF Reached, Rounds, Round
<1> HIDE DEF N, W
<1> DEFINE P == {n \in Nat : n <= N => W[n] \subseteq S}
<1>4. 0 \in P
  <2>1. 0 \in 0..N  BY <1>1
  <2>2. W[0] = from  BY <1>2, <2>1 DEF Rounds
  <2> QED  BY <2>2
<1>5. \A n \in Nat : n \in P => n + 1 \in P
  <2> SUFFICES ASSUME NEW n \in Nat, W[n] \subseteq S, n + 1 <= N
               PROVE  W[n + 1] \subseteq S
    BY <1>1
  <2>1. n + 1 \in 0..N /\ n + 1 # 0 /\ (n + 1) - 1 = n  BY <1>1
  <2>2. W[n + 1] = Round(r, W[n])  BY <1>2, <2>1 DEF Rounds
  <2> QED  BY <2>2 DEF Round
<1> HIDE DEF P
<1>6. Nat \subseteq P  BY <1>4, <1>5, SetInduction
<1> QED  BY <1>1, <1>3, <1>6 DEF P

(***************************************************************************)
(* Cycles: sets of compositions in which nothing reaches itself.           *)
(***************************************************************************)
Closed(r, S) == S \subseteq DOMAIN r.comps /\ \A p \in S : Contained(r, p) \subseteq S
Founded(r, S) == \A T \in SUBSET S : T # {} => \E p \in T : Contained(r, p) \cap T = {}

LEMMA FoundedUnion ==
    ASSUME NEW r, NEW S, Closed(r, S), Founded(r, S), NEW N, Founded(r, N),
           N \subseteq DOMAIN r.comps, \A p \in N : Contained(r, p) \subseteq S \cup N
    PROVE  Closed(r, S \cup N) /\ Founded(r, S \cup N)
<1>1. Closed(r, S \cup N)  BY DEF Closed
<1>2. ASSUME NEW T \in SUBSET (S \cup N), T # {}
      PROVE  \E p \in T : Contained(r, p) \cap T = {}
  <2>1. CASE T \cap S # {}
    <3>1. PICK p \in T \cap S : Contained(r, p) \cap (T \cap S) = {}
      BY <2>1 DEF Founded
    <3>2. Contained(r, p) \subseteq S  BY DEF Closed
    <3> QED  BY <3>1, <3>2
  <2>2. CASE T \cap S = {}
    <3>1. T \in SUBSET N  BY <2>2
    <3> QED  BY <1>2, <3>1 DEF Founded
  <2> QED  BY <2>1, <2>2
<1>3. Founded(r, S \cup N)  BY <1>2 DEF Founded
<1> QED  BY <1>1, <1>3

LEMMA FoundedOneMore ==
    ASSUME NEW r, NEW S, Closed(r, S), Founded(r, S),
           NEW p \in DOMAIN r.comps, Contained(r, p) \subseteq S
    PROVE  Closed(r, S \cup {p}) /\ Founded(r, S \cup {p})
<1>1. CASE p \in S
  <2>1. S \cup {p} = S  BY <1>1
  <2> QED  BY <2>1
<1>2. CASE p \notin S
  <2>1. Founded(r, {p})  BY <1>2 DEF Founded
  <2> QED  BY <2>1, FoundedUnion
<1> QED  BY <1>1, <1>2

(* In a founded set, what a member leads to lies in a closed set without it.*)
LEMMA FoundedApart ==
    ASSUME NEW r, NEW S, Closed(r, S), Founded(r, S)
    PROVE  \A p \in S : \E C \in SUBSET S : /\ Closed(r, C)
                                            /\ Contained(r, p) \subseteq C /\ p \notin C
<1> DEFINE Apart(p, C) == Closed(r, C) /\ Contained(r, p) \subseteq C /\ p \notin C
           T == {p \in S : \A C \in SUBSET S : ~Apart(p, C)}
<1> SUFFICES ASSUME T # {} PROVE FALSE  OBVIOUS
<1>1. PICK p \in T : Contained(r, p) \cap T = {}  BY DEF Founded
<1> DEFINE Away == {C \in SUBSET S : Closed(r, C) /\ p \notin C}
           U == UNION Away
<1>2. U \in SUBSET S /\ Closed(r, U) /\ p \notin U  BY DEF Closed
<1>3. ASSUME NEW q \in Contained(r, p) PROVE q \in U
  <2>1. q \in S /\ q \notin T  BY <1>1, <1>3 DEF Closed
  <2>2. PICK C \in SUBSET S : Apart(q, C)  BY <2>1
  <2> DEFINE E == C \cup {q}
  <2>3. E \in SUBSET S /\ Closed(r, E)  BY <2>1, <2>2 DEF Closed
  <2>4. p # q  BY <1>1, <1>3
  <2>5. p \notin C  BY <1>3, <2>2 DEF Closed
  <2>6. E \in Away /\ q \in E  BY <2>3, <2>4, <2>5
  <2> QED  BY <2>6
<1>4. Apart(p, U)  BY <1>2, <1>3
<1> QED  BY <1>2, <1>4

LEMMA FoundedIsAcyclic ==
    ASSUME NEW r, IsFiniteSet(DOMAIN r.comps), NEW S, Closed(r, S), Founded(r, S),
           NEW p \in S
    PROVE  p \notin Reached(r, Contained(r, p))
<1>1. PICK C \in SUBSET S : Closed(r, C) /\ Contained(r, p) \subseteq C /\ p \notin C
  BY FoundedApart
<1>2. Reached(r, Contained(r, p)) \subseteq C  BY <1>1, ReachedStaysIn DEF Closed
<1> QED  BY <1>1, <1>2

-----------------------------------------------------------------------------
(* `FlattenSeq` of lists.                                                  *)
Joinings(ss, n, f) == f = [i \in 1..n |-> IF i = 1 THEN ss[i] ELSE f[i - 1] \o ss[i]]

LEMMA JoiningsExist == \A ss : \A n \in Nat : \E f : Joinings(ss, n, f)
<1> SUFFICES ASSUME NEW ss PROVE \A n \in Nat : \E f : Joinings(ss, n, f)
  OBVIOUS
<1> DEFINE P == {n \in Nat : \E f : Joinings(ss, n, f)}
<1>1. 0 \in P
  <2> DEFINE f == [i \in 1..0 |-> ss[i]]
  <2>1. Joinings(ss, 0, f)  BY DEF Joinings
  <2> HIDE DEF f
  <2> QED  BY <2>1
<1>2. \A n \in Nat : n \in P => n + 1 \in P
  <2> SUFFICES ASSUME NEW n \in Nat, NEW f, Joinings(ss, n, f)
               PROVE  \E g : Joinings(ss, n + 1, g)
    OBVIOUS
  <2> DEFINE last == IF n + 1 = 1 THEN ss[n + 1] ELSE f[n] \o ss[n + 1]
             g == [i \in 1..(n + 1) |-> IF i = n + 1 THEN last ELSE f[i]]
  <2> HIDE DEF last
  <2>1. \A i \in 1..n : g[i] = f[i]  OBVIOUS
  <2>2. \A i \in 1..n : f[i] = IF i = 1 THEN ss[i] ELSE f[i - 1] \o ss[i]
    BY DEF Joinings
  <2>3. \A i \in 1..(n + 1) : g[i] = IF i = 1 THEN ss[i] ELSE g[i - 1] \o ss[i]
    <3> SUFFICES ASSUME NEW i \in 1..(n + 1)
                 PROVE  g[i] = IF i = 1 THEN ss[i] ELSE g[i - 1] \o ss[i]
      OBVIOUS
    <3>1. CASE i = n + 1
      <4>1. g[i] = last /\ i - 1 = n /\ (i # 1 => n \in 1..n)  BY <3>1
      <4> HIDE DEF g
      <4> QED  BY <2>1, <3>1, <4>1 DEF last
    <3>2. CASE i # n + 1
      <4>1. i \in 1..n /\ (i # 1 => i - 1 \in 1..n)  BY <3>2
      <4> HIDE DEF g
      <4> QED  BY <2>1, <2>2, <4>1
    <3> QED  BY <3>1, <3>2
  <2>4. g = [i \in 1..(n + 1) |-> g[i]]  OBVIOUS
  <2> HIDE DEF g
  <2>5. Joinings(ss, n + 1, g)  BY <2>3, <2>4 DEF Joinings
  <2> QED  BY <2>5
<1> HIDE DEF P
<1>3. Nat \subseteq P  BY <1>1, <1>2, SetInduction
<1> QED  BY <1>3 DEF P

(* Two lists one after the other.                                          *)
LEMMA TwoLists ==
    ASSUME NEW a, IsList(a), NEW b, IsList(b)
    PROVE  /\ IsList(a \o b)
           /\ ToSet(a) \subseteq ToSet(a \o b) /\ ToSet(b) \subseteq ToSet(a \o b)
<1> DEFINE G == ToSet(a) \cup ToSet(b)
           c == a \o b
<1>1. a \in Seq(ToSet(a)) /\ b \in Seq(ToSet(b))  BY DEF IsList
<1>2. a \in Seq(G) /\ b \in Seq(G)  BY <1>1
<1> HIDE DEF G
<1>3. /\ c \in Seq(G) /\ Len(c) = Len(a) + Len(b) /\ Len(a) \in Nat /\ Len(b) \in Nat
      /\ DOMAIN c = 1..(Len(a) + Len(b)) /\ DOMAIN a = 1..Len(a) /\ DOMAIN b = 1..Len(b)
      /\ \A i \in 1..Len(a) : c[i] = a[i]
      /\ \A i \in 1..Len(b) : c[Len(a) + i] = b[i]
  BY <1>2
<1> HIDE DEF c
<1>4. IsList(c)  BY <1>3, ListOver
<1>5. \A i \in DOMAIN a : i \in DOMAIN c /\ c[i] = a[i]  BY <1>3
<1>6. \A i \in DOMAIN b : Len(a) + i \in DOMAIN c /\ c[Len(a) + i] = b[i]  BY <1>3
<1>7. ToSet(a) \subseteq ToSet(c)  BY <1>5 DEF ToSet
<1>8. ToSet(b) \subseteq ToSet(c)  BY <1>6 DEF ToSet
<1>9. IsList(c) /\ ToSet(a) \subseteq ToSet(c) /\ ToSet(b) \subseteq ToSet(c)
  BY <1>4, <1>7, <1>8
<1> QED  BY <1>9 DEF c

LEMMA FlattenSeqHolds ==
    ASSUME NEW ss, IsList(ss), \A i \in DOMAIN ss : IsList(ss[i])
    PROVE  /\ IsList(FlattenSeq(ss))
           /\ \A i \in DOMAIN ss : ToSet(ss[i]) \subseteq ToSet(FlattenSeq(ss))
<1> DEFINE N == Len(ss)
           F == CHOOSE f : Joinings(ss, N, f)
<1>1. N \in Nat /\ DOMAIN ss = 1..N  BY ListFacts
<1>2. CASE N = 0
  <2>1. FlattenSeq(ss) = ss  BY <1>2 DEF FlattenSeq
  <2>2. DOMAIN ss = {}  BY <1>1, <1>2
  <2> QED  BY <2>1, <2>2
<1>3. CASE N # 0
  <2>1. Joinings(ss, N, F)
    <3> HIDE DEF N
    <3>1. \E f : Joinings(ss, N, f)  BY <1>1, JoiningsExist
    <3> QED  BY <3>1
  <2>2. FlattenSeq(ss) = F[N]  BY <1>3 DEF FlattenSeq, Joinings
  <2> HIDE DEF N, F
  <2>3. \A i \in 1..N : F[i] = IF i = 1 THEN ss[i] ELSE F[i - 1] \o ss[i]
    BY <2>1 DEF Joinings
  <2> DEFINE Good(n) == IsList(F[n]) /\ \A i \in 1..n : ToSet(ss[i]) \subseteq ToSet(F[n])
             P == {n \in Nat : n \in 1..N => Good(n)}
  <2>4. 0 \in P  OBVIOUS
  <2>5. \A n \in Nat : n \in P => n + 1 \in P
    <3> HIDE DEF Good
    <3> SUFFICES ASSUME NEW n \in Nat, n \in 1..N => Good(n), n + 1 \in 1..N
                 PROVE  Good(n + 1)
      OBVIOUS
    <3> USE DEF Good
    <3>1. IsList(ss[n + 1])  BY <1>1
    <3>2. CASE n = 0
      <4>1. F[1] = ss[1] /\ n + 1 = 1 /\ \A i \in 1..1 : i = 1  BY <2>3, <3>2
      <4> QED  BY <3>1, <4>1
    <3>3. CASE n # 0
      <4>1. n \in 1..N /\ n + 1 # 1 /\ (n + 1) - 1 = n  BY <1>1, <3>3
      <4>2. F[n + 1] = F[n] \o ss[n + 1]  BY <2>3, <4>1
      <4>3. Good(n)  BY <4>1
      <4>4. /\ IsList(F[n + 1]) /\ ToSet(F[n]) \subseteq ToSet(F[n + 1])
            /\ ToSet(ss[n + 1]) \subseteq ToSet(F[n + 1])
        BY <3>1, <4>2, <4>3, TwoLists
      <4>5. \A i \in 1..(n + 1) : i = n + 1 \/ i \in 1..n  OBVIOUS
      <4> QED  BY <4>3, <4>4, <4>5
    <3> QED  BY <3>2, <3>3
  <2> HIDE DEF P
  <2>6. Nat \subseteq P  BY <2>4, <2>5, SetInduction
  <2>7. N \in 1..N  BY <1>1, <1>3
  <2>8. Good(N)  BY <1>1, <2>6, <2>7 DEF P
  <2> QED  BY <1>1, <2>2, <2>8
<1> QED  BY <1>2, <1>3

-----------------------------------------------------------------------------
(* `Substituted`: what the recursion over bundles computes.                 *)
Bundles(r) == Embeds(r, "bundle")

(* The parts a list of entries is put together from, f giving the bundles'. *)
Parts(r, f, nodes) ==
    [i \in DOMAIN nodes |-> IF IsBundle(r, nodes[i]) THEN f[nodes[i].name] ELSE <<nodes[i]>>]

Inlining(r, g, s, p) ==
    IF p \in s THEN <<Cyclic>> ELSE FlattenSeq(Parts(r, g[s \cup {p}], r.comps[p].nodes))
Inlines(r, g) ==
    g = [s \in SUBSET Bundles(r) |-> [p \in Bundles(r) |-> Inlining(r, g, s, p)]]

(* The bundles still left to be met get fewer.                             *)
LEMMA FewerAreLeft ==
    ASSUME NEW B, IsFiniteSet(B), NEW s \in SUBSET B, NEW p \in B \ s
    PROVE  /\ s \cup {p} \in SUBSET B
           /\ Cardinality(B \ s) \in Nat /\ Cardinality(B \ (s \cup {p})) \in Nat
           /\ Cardinality(B \ (s \cup {p})) < Cardinality(B \ s)
<1>1. IsFiniteSet(B \ s)  BY FS_Subset
<1>2. B \ (s \cup {p}) = (B \ s) \ {p}  OBVIOUS
<1>3. /\ IsFiniteSet((B \ s) \ {p})
      /\ Cardinality((B \ s) \ {p}) = Cardinality(B \ s) - 1
  BY <1>1, FS_RemoveElement
<1>4. Cardinality(B \ s) \in Nat /\ Cardinality((B \ s) \ {p}) \in Nat
  BY <1>1, <1>3, FS_CardinalityType
<1>5. /\ Cardinality(B \ (s \cup {p})) \in Nat
      /\ Cardinality(B \ (s \cup {p})) = Cardinality(B \ s) - 1
  BY <1>2, <1>3, <1>4
<1>6. Cardinality(B \ (s \cup {p})) < Cardinality(B \ s)  BY <1>4, <1>5
<1>7. s \cup {p} \in SUBSET B  OBVIOUS
<1> QED  BY <1>4, <1>5, <1>6, <1>7

LEMMA InliningExists ==
    ASSUME NEW r, IsFiniteSet(Bundles(r))
    PROVE  \E g : Inlines(r, g)
<1> DEFINE B == Bundles(r)
           Row(g, s) == [p \in B |-> Inlining(r, g, s, p)]
           Right(g, n) == /\ g = [s \in SUBSET B |-> g[s]]
                          /\ \A s \in SUBSET B : Cardinality(B \ s) < n => g[s] = Row(g, s)
           P == {n \in Nat : \E g : Right(g, n)}
<1>1. 0 \in P
  <2> DEFINE g == [s \in SUBSET B |-> s]
  <2>1. g = [s \in SUBSET B |-> g[s]]  OBVIOUS
  <2>2. \A s \in SUBSET B : Cardinality(B \ s) \in Nat
    BY FS_Subset, FS_CardinalityType
  <2>3. \A s \in SUBSET B : ~(Cardinality(B \ s) < 0)  BY <2>2
  <2> HIDE DEF g
  <2>4. Right(g, 0)  BY <2>1, <2>3
  <2> HIDE DEF Right
  <2> QED  BY <2>4
<1>2. \A n \in Nat : n \in P => n + 1 \in P
  <2> SUFFICES ASSUME NEW n \in Nat, NEW g, Right(g, n)
               PROVE  \E h : Right(h, n + 1)
    <3> HIDE DEF Right
    <3> QED  OBVIOUS
  <2> DEFINE h == [s \in SUBSET B |-> Row(g, s)]
  <2>1. h = [s \in SUBSET B |-> h[s]] /\ \A s \in SUBSET B : h[s] = Row(g, s)
    OBVIOUS
  <2> HIDE DEF h
  <2>2. ASSUME NEW s \in SUBSET B, Cardinality(B \ s) < n + 1
        PROVE  h[s] = Row(h, s)
    <3>1. ASSUME NEW p \in B PROVE Inlining(r, g, s, p) = Inlining(r, h, s, p)
      <4>1. CASE p \in s  BY <4>1 DEF Inlining
      <4>2. CASE p \notin s
        <5>1. /\ s \cup {p} \in SUBSET B /\ Cardinality(B \ s) \in Nat
              /\ Cardinality(B \ (s \cup {p})) \in Nat
              /\ Cardinality(B \ (s \cup {p})) < Cardinality(B \ s)
          BY <4>2, FewerAreLeft
        <5>2. Cardinality(B \ (s \cup {p})) < n  BY <2>2, <5>1
        <5>3. g[s \cup {p}] = Row(g, s \cup {p})  BY <5>1, <5>2
        <5> HIDE DEF Row
        <5>4. g[s \cup {p}] = h[s \cup {p}]  BY <2>1, <5>1, <5>3
        <5> QED  BY <5>4 DEF Inlining
      <4> QED  BY <4>1, <4>2
    <3>2. Row(g, s) = Row(h, s)  BY <3>1
    <3> HIDE DEF Row
    <3> QED  BY <2>1, <3>2
  <2>3. Right(h, n + 1)
    <3> HIDE DEF Row
    <3> QED  BY <2>1, <2>2
  <2> HIDE DEF Right
  <2> QED  BY <2>3
<1> HIDE DEF P
<1>3. Nat \subseteq P  BY <1>1, <1>2, SetInduction
<1>4. Cardinality(B) + 1 \in Nat
  BY FS_CardinalityType
<1>5. PICK g : Right(g, Cardinality(B) + 1)
  <2> HIDE DEF Right
  <2> QED  BY <1>3, <1>4 DEF P
<1>6. ASSUME NEW s \in SUBSET B PROVE g[s] = Row(g, s)
  <2>1. /\ Cardinality(B \ s) \in Nat /\ Cardinality(B) \in Nat
        /\ Cardinality(B \ s) <= Cardinality(B)
    <3>1. B \ s \in SUBSET B  OBVIOUS
    <3> QED  BY <3>1, FS_Subset, FS_CardinalityType
  <2>2. Cardinality(B \ s) < Cardinality(B) + 1  BY <2>1
  <2> QED  BY <1>5, <2>2
<1>7. g = [s \in SUBSET B |-> Row(g, s)]
  <2>1. g = [s \in SUBSET B |-> g[s]]  BY <1>5
  <2> HIDE DEF Row
  <2> QED  BY <1>6, <2>1
<1>8. Inlines(r, g)  BY <1>7 DEF Inlines
<1> QED  BY <1>8

(* The nodes of the declarations are lists.                                *)
Listed(r) == IsFiniteSet(Bundles(r)) /\ \A p \in Bundles(r) : IsList(r.comps[p].nodes)

LEMMA PartsHold ==
    ASSUME NEW r, NEW f, NEW nodes, IsList(nodes), \A p \in Bundles(r) : IsList(f[p])
    PROVE  LET all == FlattenSeq(Parts(r, f, nodes))
           IN  /\ IsList(all)
               /\ \A i \in DOMAIN nodes :
                    IF IsBundle(r, nodes[i]) THEN ToSet(f[nodes[i].name]) \subseteq ToSet(all)
                    ELSE nodes[i] \in ToSet(all)
<1> DEFINE ss == Parts(r, f, nodes)
<1>1. Len(nodes) \in Nat /\ DOMAIN nodes = 1..Len(nodes)  BY ListFacts
<1>2. /\ DOMAIN ss = DOMAIN nodes
      /\ \A i \in DOMAIN nodes :
            ss[i] = IF IsBundle(r, nodes[i]) THEN f[nodes[i].name] ELSE <<nodes[i]>>
  BY DEF Parts
<1>3. ss = [i \in 1..Len(nodes) |-> ss[i]]  BY <1>1 DEF Parts
<1> HIDE DEF ss
<1>4. IsList(ss)  BY <1>1, <1>3, ListOfValues
<1>5. \A e : IsList(<<e>>) /\ e \in ToSet(<<e>>)
  <2> TAKE e
  <2>1. <<e>> \in Seq({e}) /\ 1 \in DOMAIN <<e>> /\ <<e>>[1] = e  OBVIOUS
  <2>2. IsList(<<e>>)  BY <2>1, ListOver
  <2> QED  BY <2>1, <2>2 DEF ToSet
<1>6. \A i \in DOMAIN ss : IsList(ss[i])
  BY <1>2, <1>5 DEF IsBundle, Bundles
<1>7. /\ IsList(FlattenSeq(ss))
      /\ \A i \in DOMAIN ss : ToSet(ss[i]) \subseteq ToSet(FlattenSeq(ss))
  BY <1>4, <1>6, FlattenSeqHolds
<1>8. \A i \in DOMAIN nodes :
        IF IsBundle(r, nodes[i]) THEN ToSet(f[nodes[i].name]) \subseteq ToSet(FlattenSeq(ss))
        ELSE nodes[i] \in ToSet(FlattenSeq(ss))
  BY <1>2, <1>5, <1>7
<1> QED  BY <1>7, <1>8 DEF ss

LEMMA InlinedLists ==
    ASSUME NEW r, Listed(r), NEW g, Inlines(r, g)
    PROVE  \A s \in SUBSET Bundles(r) : \A p \in Bundles(r) : IsList(g[s][p])
<1> DEFINE B == Bundles(r)
           Lists(n) == \A s \in SUBSET B : Cardinality(B \ s) < n => \A p \in B : IsList(g[s][p])
           P == {n \in Nat : Lists(n)}
<1>1. IsFiniteSet(B)  BY DEF Listed
<1>2. \A s \in SUBSET B : Cardinality(B \ s) \in Nat
  BY <1>1, FS_Subset, FS_CardinalityType
<1>3. \A s \in SUBSET B : \A p \in B : g[s][p] = Inlining(r, g, s, p)
  BY DEF Inlines
<1>4. 0 \in P
  <2>1. \A s \in SUBSET B : ~(Cardinality(B \ s) < 0)  BY <1>2
  <2> QED  BY <2>1
<1>5. \A n \in Nat : n \in P => n + 1 \in P
  <2> SUFFICES ASSUME NEW n \in Nat, Lists(n) PROVE Lists(n + 1)
    <3> HIDE DEF Lists
    <3> QED  OBVIOUS
  <2> SUFFICES ASSUME NEW s \in SUBSET B, Cardinality(B \ s) < n + 1, NEW p \in B
               PROVE  IsList(g[s][p])
    OBVIOUS
  <2>1. CASE p \in s
    <3>1. g[s][p] = <<Cyclic>>  BY <1>3, <2>1 DEF Inlining
    <3>2. <<Cyclic>> \in Seq({Cyclic})  OBVIOUS
    <3> QED  BY <3>1, <3>2, ListOver
  <2>2. CASE p \notin s
    <3>1. /\ s \cup {p} \in SUBSET B /\ Cardinality(B \ s) \in Nat
          /\ Cardinality(B \ (s \cup {p})) \in Nat
          /\ Cardinality(B \ (s \cup {p})) < Cardinality(B \ s)
      BY <1>1, <2>2, FewerAreLeft
    <3>2. Cardinality(B \ (s \cup {p})) < n  BY <3>1
    <3>3. \A q \in B : IsList(g[s \cup {p}][q])  BY <3>1, <3>2
    <3>4. IsList(r.comps[p].nodes)  BY DEF Listed
    <3>5. IsList(FlattenSeq(Parts(r, g[s \cup {p}], r.comps[p].nodes)))
      BY <3>3, <3>4, PartsHold
    <3> QED  BY <1>3, <2>2, <3>5 DEF Inlining
  <2> QED  BY <2>1, <2>2
<1> HIDE DEF P
<1>6. Nat \subseteq P  BY <1>4, <1>5, SetInduction
<1>7. ASSUME NEW s \in SUBSET B, NEW p \in B PROVE IsList(g[s][p])
  <2>1. /\ Cardinality(B \ s) + 1 \in Nat
        /\ Cardinality(B \ s) < Cardinality(B \ s) + 1
    BY <1>2
  <2>2. Lists(Cardinality(B \ s) + 1)  BY <1>6, <2>1 DEF P
  <2> QED  BY <2>1, <2>2
<1> QED  BY <1>7

(* What a bundle inlined without meeting itself holds.                     *)
LEMMA InlinedHolds ==
    ASSUME NEW r, Listed(r), NEW g, Inlines(r, g),
           NEW s \in SUBSET Bundles(r), NEW p \in Bundles(r), Cyclic \notin ToSet(g[s][p])
    PROVE  /\ p \notin s /\ s \cup {p} \in SUBSET Bundles(r)
           /\ \A e \in ToSet(r.comps[p].nodes) :
                IF IsBundle(r, e) THEN ToSet(g[s \cup {p}][e.name]) \subseteq ToSet(g[s][p])
                ELSE e \in ToSet(g[s][p])
<1> DEFINE nodes == r.comps[p].nodes
<1>1. g[s][p] = Inlining(r, g, s, p)  BY DEF Inlines
<1>2. p \notin s
  <2> SUFFICES ASSUME p \in s PROVE FALSE  OBVIOUS
  <2>1. g[s][p] = <<Cyclic>>  BY <1>1 DEF Inlining
  <2>2. Cyclic \in ToSet(<<Cyclic>>)  BY DEF ToSet
  <2> QED  BY <2>1, <2>2
<1>3. s \cup {p} \in SUBSET Bundles(r)  OBVIOUS
<1>4. \A q \in Bundles(r) : IsList(g[s \cup {p}][q])  BY <1>3, InlinedLists
<1>5. IsList(nodes)  BY DEF Listed
<1>6. g[s][p] = FlattenSeq(Parts(r, g[s \cup {p}], nodes))
  BY <1>1, <1>2 DEF Inlining
<1> HIDE DEF nodes
<1>7. \A i \in DOMAIN nodes :
        IF IsBundle(r, nodes[i])
        THEN ToSet(g[s \cup {p}][nodes[i].name]) \subseteq ToSet(g[s][p])
        ELSE nodes[i] \in ToSet(g[s][p])
  BY <1>4, <1>5, <1>6, PartsHold
<1>8. \A e \in ToSet(nodes) :
        IF IsBundle(r, e) THEN ToSet(g[s \cup {p}][e.name]) \subseteq ToSet(g[s][p])
        ELSE e \in ToSet(g[s][p])
  BY <1>7 DEF ToSet
<1> QED  BY <1>2, <1>3, <1>8 DEF nodes

LEMMA SubstitutedHolds ==
    ASSUME NEW r, Listed(r), NEW nodes, IsList(nodes)
    PROVE  \E g : /\ Inlines(r, g)
                  /\ IsList(Substituted(r, nodes))
                  /\ \A e \in ToSet(nodes) :
                        IF IsBundle(r, e)
                        THEN ToSet(g[{}][e.name]) \subseteq ToSet(Substituted(r, nodes))
                        ELSE e \in ToSet(Substituted(r, nodes))
<1> DEFINE g == CHOOSE h : Inlines(r, h)
<1>1. Inlines(r, g)
  <2>1. \E h : Inlines(r, h)  BY InliningExists DEF Listed
  <2> QED  BY <2>1
<1>2. Substituted(r, nodes) = FlattenSeq(Parts(r, g[{}], nodes))
  BY DEF Substituted, Inlines, Inlining, Parts, Bundles
<1> HIDE DEF g
<1>3. {} \in SUBSET Bundles(r)  OBVIOUS
<1>4. \A q \in Bundles(r) : IsList(g[{}][q])  BY <1>1, <1>3, InlinedLists
<1>5. /\ IsList(Substituted(r, nodes))
      /\ \A i \in DOMAIN nodes :
            IF IsBundle(r, nodes[i])
            THEN ToSet(g[{}][nodes[i].name]) \subseteq ToSet(Substituted(r, nodes))
            ELSE nodes[i] \in ToSet(Substituted(r, nodes))
  BY <1>2, <1>4, PartsHold
<1>6. \A e \in ToSet(nodes) :
        IF IsBundle(r, e) THEN ToSet(g[{}][e.name]) \subseteq ToSet(Substituted(r, nodes))
        ELSE e \in ToSet(Substituted(r, nodes))
  BY <1>5 DEF ToSet
<1> QED  BY <1>1, <1>5, <1>6

(* Bundles that can be inlined are founded.                                *)
LEMMA InlinedFounded ==
    ASSUME NEW r, Listed(r), NEW g, Inlines(r, g),
           NEW T, T \subseteq Bundles(r), T # {},
           \A p \in T : \E s \in SUBSET Bundles(r) : Cyclic \notin ToSet(g[s][p])
    PROVE  \E p \in T : Contained(r, p) \cap T = {}
<1> DEFINE B == Bundles(r)
           Uncut(s, p) == Cyclic \notin ToSet(g[s][p])
           M == {Cardinality(B \ s) : s \in {x \in SUBSET B : \E p \in T : Uncut(x, p)}}
<1>1. IsFiniteSet(B)  BY DEF Listed
<1>2. \A s \in SUBSET B : Cardinality(B \ s) \in Nat
  BY <1>1, FS_Subset, FS_CardinalityType
<1>3. M \subseteq Nat /\ M # {}  BY <1>2
<1>4. PICK n \in M : \A m \in M : n <= m
  <2> HIDE DEF M
  <2> QED  BY <1>3, LeastNat
<1>5. PICK s \in SUBSET B : n = Cardinality(B \ s) /\ \E p \in T : Uncut(s, p)
  OBVIOUS
<1>6. PICK p \in T : Uncut(s, p)  BY <1>5
<1>7. /\ p \notin s /\ s \cup {p} \in SUBSET B
      /\ \A e \in ToSet(r.comps[p].nodes) :
            IsBundle(r, e) => ToSet(g[s \cup {p}][e.name]) \subseteq ToSet(g[s][p])
  BY <1>6, InlinedHolds
<1>8. ASSUME NEW q \in Contained(r, p) \cap T PROVE FALSE
  <2>1. PICK e \in ToSet(r.comps[p].nodes) : e.form = "composition" /\ e.name = q
    BY <1>8 DEF Contained, Named
  <2>2. IsBundle(r, e)  BY <2>1 DEF IsBundle, Bundles
  <2>3. Uncut(s \cup {p}, q)  BY <1>6, <1>7, <2>1, <2>2
  <2>4. Cardinality(B \ (s \cup {p})) \in M  BY <1>7, <2>3
  <2>5. /\ Cardinality(B \ s) \in Nat /\ Cardinality(B \ (s \cup {p})) \in Nat
        /\ Cardinality(B \ (s \cup {p})) < Cardinality(B \ s)
    BY <1>1, <1>7, FewerAreLeft
  <2>6. n <= Cardinality(B \ (s \cup {p}))  BY <1>4, <2>4
  <2> HIDE DEF M
  <2> QED  BY <1>5, <2>5, <2>6
<1> QED  BY <1>8

(* An entry whose composition is among the finished ones.                  *)
EntryFinished(r, S, e) ==
    e.form = "composition" /\ e.name \in DOMAIN r.comps => e.name \in S

(* When all that is left of the nodes is finished, the bundles are.        *)
LEMMA BundlesFinish ==
    ASSUME NEW r, Listed(r), NEW S, Closed(r, S), Founded(r, S), NEW nodes, IsList(nodes),
           Cyclic \notin ToSet(Substituted(r, nodes)),
           \A e \in ToSet(Substituted(r, nodes)) : EntryFinished(r, S, e)
    PROVE  \E N : /\ S \subseteq N /\ Closed(r, N) /\ Founded(r, N)
                  /\ Named(r, nodes) \subseteq N
<1>1. PICK g : /\ Inlines(r, g)
               /\ \A e \in ToSet(nodes) :
                    IF IsBundle(r, e)
                    THEN ToSet(g[{}][e.name]) \subseteq ToSet(Substituted(r, nodes))
                    ELSE e \in ToSet(Substituted(r, nodes))
  BY SubstitutedHolds
<1> DEFINE B == Bundles(r)
           Done(s, p) == /\ Cyclic \notin ToSet(g[s][p])
                         /\ \A e \in ToSet(g[s][p]) : EntryFinished(r, S, e)
           N == {p \in B : \E s \in SUBSET B : Done(s, p)}
<1>2. Founded(r, N)
  <2> SUFFICES ASSUME NEW T \in SUBSET N, T # {} PROVE \E p \in T : Contained(r, p) \cap T = {}
    BY DEF Founded
  <2>1. T \subseteq B  OBVIOUS
  <2>2. \A p \in T : \E s \in SUBSET B : Cyclic \notin ToSet(g[s][p])  OBVIOUS
  <2> HIDE DEF N
  <2> QED  BY <1>1, <2>1, <2>2, InlinedFounded
<1>3. N \subseteq DOMAIN r.comps  BY DEF Bundles, Embeds
<1>4. ASSUME NEW p \in N PROVE Contained(r, p) \subseteq S \cup N
  <2>1. PICK s \in SUBSET B : Done(s, p)  OBVIOUS
  <2>2. /\ s \cup {p} \in SUBSET B
        /\ \A e \in ToSet(r.comps[p].nodes) :
            IF IsBundle(r, e) THEN ToSet(g[s \cup {p}][e.name]) \subseteq ToSet(g[s][p])
            ELSE e \in ToSet(g[s][p])
    BY <1>1, <2>1, InlinedHolds
  <2> SUFFICES ASSUME NEW q \in Contained(r, p) PROVE q \in S \cup N  OBVIOUS
  <2>3. PICK e \in ToSet(r.comps[p].nodes) :
            e.form = "composition" /\ e.name = q /\ q \in DOMAIN r.comps
    BY DEF Contained, Named
  <2>4. CASE IsBundle(r, e)
    <3>1. q \in B  BY <2>3, <2>4 DEF IsBundle, Bundles
    <3>2. Done(s \cup {p}, q)  BY <2>1, <2>2, <2>3, <2>4
    <3> QED  BY <2>2, <3>1, <3>2
  <2>5. CASE ~IsBundle(r, e)
    <3>1. EntryFinished(r, S, e)  BY <2>1, <2>2, <2>5
    <3> QED  BY <2>3, <3>1 DEF EntryFinished
  <2> QED  BY <2>4, <2>5
<1>5. Named(r, nodes) \subseteq S \cup N
  <2> SUFFICES ASSUME NEW q \in Named(r, nodes) PROVE q \in S \cup N  OBVIOUS
  <2>1. PICK e \in ToSet(nodes) : e.form = "composition" /\ e.name = q /\ q \in DOMAIN r.comps
    BY DEF Named
  <2>2. CASE IsBundle(r, e)
    <3>1. q \in B /\ {} \in SUBSET B  BY <2>1, <2>2 DEF IsBundle, Bundles
    <3>2. Done({}, q)  BY <1>1, <2>1, <2>2
    <3> QED  BY <3>1, <3>2
  <2>3. CASE ~IsBundle(r, e)
    <3>1. EntryFinished(r, S, e)  BY <1>1, <2>1, <2>3
    <3> QED  BY <2>1, <3>1 DEF EntryFinished
  <2> QED  BY <2>2, <2>3
<1> HIDE DEF N
<1>6. Closed(r, S \cup N) /\ Founded(r, S \cup N)  BY <1>2, <1>3, <1>4, FoundedUnion
<1> QED  BY <1>5, <1>6

-----------------------------------------------------------------------------
(* The inductive invariant: what the entries a frame has gone through name  *)
(* is finished, unless a fault has been found, and where a frame waits it   *)
(* waits for the call above it.                                            *)
FrameFinished(r, S, f) ==
    /\ f.at \in Nat \ {0}
    /\ f.pc = "substitute" => f.at = 1
    /\ f.pc # "substitute" => /\ f.nodes = Substituted(r, f.decl.nodes)
                              /\ Cyclic \notin ToSet(f.nodes)
    /\ f.faults = {} => \A i \in DOMAIN f.nodes : i < f.at => EntryFinished(r, S, f.nodes[i])
    /\ f.pc \in {"topology", "coverage"} => f.faults = {} /\ f.at \notin DOMAIN f.nodes

DeclOf(r, path) == IF path = "root" THEN r.root ELSE r.comps[path]
WaitsFor(f, path) ==
    /\ f.at \in DOMAIN f.nodes
    /\ f.nodes[f.at].form = "composition" /\ f.nodes[f.at].name = path

CallsFinished(r, S, s) ==
    \A k \in DOMAIN s :
        /\ s[k].decl = DeclOf(r, s[k].path)
        /\ FrameFinished(r, S, s[k])
        /\ k # Len(s) => WaitsFor(s[k], s[k + 1].path)

(* What was handed on is finished with, and so is all it names.             *)
UnitsFinished(r, S, units) ==
    \A d \in units : /\ Named(r, DeclOf(r, d.path).nodes) \subseteq S
                     /\ d.path # "root" => d.path \in S

(* The outermost declaration is compiled before anything else is answered.  *)
RootComesFirst ==
    outcome.status = "compiled" \/ (stack # <<>> /\ stack[1].path # "root") =>
        \E d \in done : d.path = "root"

Holding(S) == /\ Closed(reg, S) /\ Founded(reg, S)
              /\ CallsFinished(reg, S, stack) /\ UnitsFinished(reg, S, done)

CyclesInv == IInv /\ RootComesFirst /\ \E S : Holding(S)

LEMMA MoreIsFinished ==
    ASSUME NEW r, NEW S, NEW N, S \subseteq N, NEW f, FrameFinished(r, S, f)
    PROVE  FrameFinished(r, N, f)
  BY DEF FrameFinished, EntryFinished

LEMMA UnitsFinishedMore ==
    ASSUME NEW r, NEW S, NEW N, S \subseteq N, NEW units, UnitsFinished(r, S, units)
    PROVE  UnitsFinished(r, N, units)
  BY DEF UnitsFinished

LEMMA CallsFinishedMore ==
    ASSUME NEW r, NEW S, NEW N, S \subseteq N, NEW s, CallsFinished(r, S, s)
    PROVE  CallsFinished(r, N, s)
  BY MoreIsFinished DEF CallsFinished

LEMMA SwapFinished ==
    ASSUME NEW r, NEW S, NEW s, StackHolds(r, s), s # <<>>, CallsFinished(r, S, s),
           NEW g, FrameFinished(r, S, g),
           g.decl = s[Len(s)].decl, g.path = s[Len(s)].path
    PROVE  CallsFinished(r, S, [s EXCEPT ![Len(s)] = g])
<1>1. PICK X : s \in Seq(X)  BY DEF StackHolds
<1>2. s \in Seq(X \cup {g}) /\ Len(s) \in Nat /\ Len(s) # 0 /\ DOMAIN s = 1..Len(s)
  BY <1>1, EmptySeq
<1> DEFINE t == [s EXCEPT ![Len(s)] = g]
<1>3. /\ Len(t) = Len(s) /\ DOMAIN t = DOMAIN s
      /\ \A k \in DOMAIN s : t[k] = IF k = Len(s) THEN g ELSE s[k]
  BY <1>2
<1>4. Len(s) \in DOMAIN s /\ \A k \in DOMAIN s : k # Len(s) => k + 1 \in DOMAIN s
  BY <1>2
<1> HIDE DEF t
<1>5. \A k \in DOMAIN s : t[k].path = s[k].path /\ t[k].decl = s[k].decl
  BY <1>3
<1>6. \A k \in DOMAIN t : FrameFinished(r, S, t[k]) /\ t[k].decl = DeclOf(r, t[k].path)
  BY <1>3, <1>5 DEF CallsFinished, DeclOf
<1>7. \A k \in DOMAIN t : k # Len(t) => WaitsFor(t[k], t[k + 1].path)
  BY <1>3, <1>4, <1>5 DEF CallsFinished
<1>8. CallsFinished(r, S, t)  BY <1>6, <1>7 DEF CallsFinished
<1> QED  BY <1>8 DEF t

LEMMA PushFinished ==
    ASSUME NEW r, NEW S, NEW s, StackHolds(r, s), s # <<>>, CallsFinished(r, S, s),
           NEW h, FrameFinished(r, S, h), h.decl = DeclOf(r, h.path),
           WaitsFor(s[Len(s)], h.path)
    PROVE  CallsFinished(r, S, Append(s, h))
<1>1. PICK X : s \in Seq(X)  BY DEF StackHolds
<1>2. s \in Seq(X \cup {h}) /\ Len(s) \in Nat /\ Len(s) # 0 /\ DOMAIN s = 1..Len(s)
  BY <1>1, EmptySeq
<1> DEFINE t == Append(s, h)
<1>3. /\ Len(t) = Len(s) + 1 /\ DOMAIN t = DOMAIN s \cup {Len(s) + 1}
      /\ t[Len(s) + 1] = h /\ \A k \in DOMAIN s : t[k] = s[k]
  BY <1>2
<1>4. /\ Len(s) + 1 # 1 /\ Len(s) + 1 \notin DOMAIN s
      /\ \A k \in DOMAIN s : k # Len(s) => k + 1 \in DOMAIN s
  BY <1>2
<1> HIDE DEF t
<1>5. \A k \in DOMAIN t : FrameFinished(r, S, t[k]) /\ t[k].decl = DeclOf(r, t[k].path)
  BY <1>3, <1>4 DEF CallsFinished, DeclOf
<1>6. \A k \in DOMAIN t : k # Len(t) => WaitsFor(t[k], t[k + 1].path)
  BY <1>3, <1>4 DEF CallsFinished
<1>7. CallsFinished(r, S, t)  BY <1>5, <1>6 DEF CallsFinished
<1> QED  BY <1>7 DEF t

LEMMA PositionsBelow ==
    ASSUME NEW n \in Nat, n >= 2
    PROVE  /\ (n - 2) + 1 = n - 1
           /\ \A k \in 1..((n - 2) + 1) : k \in 1..n /\ (k \in 1..(n - 2) \/ k = (n - 2) + 1)
           /\ \A k \in 1..(n - 2) : /\ k \in 1..((n - 2) + 1) /\ k # n
                                   /\ k + 1 \in 1..((n - 2) + 1)
  OBVIOUS

LEMMA PopFinished ==
    ASSUME NEW r, NEW S, NEW s, StackHolds(r, s), s # <<>>, Len(s) # 1, CallsFinished(r, S, s),
           NEW g, FrameFinished(r, S, g),
           g.decl = s[Len(s) - 1].decl, g.path = s[Len(s) - 1].path
    PROVE  CallsFinished(r, S, Append(SubSeq(s, 1, Len(s) - 2), g))
<1>1. PICK X : s \in Seq(X)  BY DEF StackHolds
<1>2. s \in Seq(X \cup {g}) /\ Len(s) \in Nat /\ Len(s) >= 2 /\ DOMAIN s = 1..Len(s)
  <2>1. s \in Seq(X \cup {g}) /\ Len(s) \in Nat /\ DOMAIN s = 1..Len(s)  BY <1>1
  <2>2. Len(s) # 0  BY <2>1, EmptySeq
  <2> QED  BY <2>1, <2>2
<1> DEFINE m == Len(s) - 2
           b == SubSeq(s, 1, m)
<1>3. b \in Seq(X \cup {g}) /\ Len(b) = m /\ m \in Nat /\ \A k \in 1..m : b[k] = s[k]
  BY <1>2, SubSeqProperties
<1> DEFINE t == Append(b, g)
<1> HIDE DEF b
<1>4. /\ Len(t) = m + 1 /\ DOMAIN t = 1..(m + 1) /\ t[m + 1] = g
      /\ \A k \in 1..m : t[k] = s[k]
  BY <1>3
<1>5. /\ m + 1 = Len(s) - 1
      /\ \A k \in 1..(m + 1) : k \in 1..Len(s) /\ (k \in 1..m \/ k = m + 1)
      /\ \A k \in 1..m : k \in 1..(m + 1) /\ k # Len(s) /\ k + 1 \in 1..(m + 1)
  BY <1>2, PositionsBelow
<1> HIDE DEF t, m
<1>6. \A k \in 1..(m + 1) : t[k].path = s[k].path /\ t[k].decl = s[k].decl
  BY <1>4, <1>5
<1>7. \A k \in DOMAIN t : FrameFinished(r, S, t[k]) /\ t[k].decl = DeclOf(r, t[k].path)
  BY <1>2, <1>4, <1>5, <1>6 DEF CallsFinished, DeclOf
<1>8. \A k \in DOMAIN t : k # Len(t) => WaitsFor(t[k], t[k + 1].path)
  <2> SUFFICES ASSUME NEW k \in 1..m PROVE WaitsFor(t[k], t[k + 1].path)
    BY <1>4, <1>5
  <2>1. WaitsFor(s[k], s[k + 1].path)  BY <1>2, <1>5 DEF CallsFinished
  <2> QED  BY <1>4, <1>5, <1>6, <2>1
<1>9. CallsFinished(r, S, t)  BY <1>7, <1>8 DEF CallsFinished
<1> QED  BY <1>9 DEF t, b, m

(* A frame goes on to its next entry.                                      *)
LEMMA NextEntry ==
    ASSUME NEW r, NEW S, NEW f, FrameFinished(r, S, f), f.pc = "flatten",
           NEW g, g.pc = f.pc, g.decl = f.decl, g.nodes = f.nodes, g.at = f.at + 1,
           g.faults = {} => f.faults = {} /\ EntryFinished(r, S, f.nodes[f.at]),
           IsList(f.nodes)
    PROVE  FrameFinished(r, S, g)
<1>1. DOMAIN f.nodes = 1..Len(f.nodes) /\ Len(f.nodes) \in Nat  BY ListFacts
<1>2. f.at \in Nat \ {0}  BY DEF FrameFinished
<1>3. g.at \in Nat \ {0} /\ \A i \in DOMAIN f.nodes : i < g.at => i < f.at \/ i = f.at
  BY <1>1, <1>2
<1> QED  BY <1>3 DEF FrameFinished

(* What the registry's declarations are, and the frame at hand.             *)
LEMMA RegistryListed ==
    ASSUME IInv
    PROVE  /\ Listed(reg) /\ IsList(reg.root.nodes) /\ IsFiniteSet(DOMAIN reg.comps)
           /\ \A p \in Embeds(reg, "pipeline") : IsList(reg.comps[p].nodes)
<1>1. RegistryTyped(reg)  BY DEF IInv
<1>2. IsFiniteSet(DOMAIN reg.comps) /\ Bundles(reg) \subseteq DOMAIN reg.comps
  BY <1>1 DEF RegistryTyped, Bundles, Embeds
<1>3. IsFiniteSet(Bundles(reg))  BY <1>2, FS_Subset
<1>4. \A p \in Bundles(reg) : IsList(reg.comps[p].nodes)
  BY <1>1 DEF RegistryTyped, Bundles, Embeds
<1>5. \A p \in Embeds(reg, "pipeline") : IsList(reg.comps[p].nodes)
  BY <1>1 DEF RegistryTyped, PipelineTyped, Embeds
<1>6. IsList(reg.root.nodes)  BY <1>1 DEF RegistryTyped, PipelineTyped
<1> QED  BY <1>2, <1>3, <1>4, <1>5, <1>6 DEF Listed

(* The frame at the top, and the one that waits for it.                    *)
LEMMA TopFinished ==
    ASSUME IInv, NEW S, Holding(S), stack # <<>>
    PROVE  /\ FrameFinished(reg, S, Top) /\ DOMAIN Top = FrameFields
           /\ IsList(Top.decl.nodes) /\ Top.decl = DeclOf(reg, Top.path)
           /\ Top.pc # "substitute" => IsList(Top.nodes)
<1>1. Len(stack) \in DOMAIN stack /\ FrameHolds(reg, Top)  BY TopHolds DEF IInv
<1>2. FrameFinished(reg, S, Top) /\ Top.decl = DeclOf(reg, Top.path)
  BY <1>1 DEF Holding, CallsFinished, Top
<1>3. IsList(Top.decl.nodes)  BY <1>1 DEF FrameHolds, PipelineTyped
<1>4. IsList(Substituted(reg, Top.decl.nodes))
  BY <1>3, RegistryListed, SubstitutedHolds
<1> QED  BY <1>1, <1>2, <1>3, <1>4 DEF FrameFinished, FrameHolds

LEMMA CallerFinished ==
    ASSUME IInv, NEW S, Holding(S), stack # <<>>, Len(stack) # 1
    PROVE  LET caller == stack[Len(stack) - 1]
           IN  /\ FrameFinished(reg, S, caller) /\ DOMAIN caller = FrameFields
               /\ caller.pc = "flatten" /\ IsList(caller.nodes)
               /\ WaitsFor(caller, Top.path)
<1> DEFINE caller == stack[Len(stack) - 1]
<1>1. PICK X : stack \in Seq(X)  BY DEF IInv, StackHolds
<1>2. Len(stack) \in Nat /\ Len(stack) # 0 /\ DOMAIN stack = 1..Len(stack)
  BY <1>1, EmptySeq
<1>3. /\ Len(stack) - 1 \in DOMAIN stack /\ Len(stack) - 1 # Len(stack)
      /\ (Len(stack) - 1) + 1 = Len(stack)
  <2>1. Len(stack) - 1 \in DOMAIN stack /\ Len(stack) - 1 # Len(stack)
    BY <1>2, JustBelowTheTop
  <2>2. (Len(stack) - 1) + 1 = Len(stack)  BY <1>2
  <2> QED  BY <2>1, <2>2
<1>4. FrameHolds(reg, caller) /\ caller.pc = "flatten"
  BY CallerHolds DEF IInv
<1>5. FrameFinished(reg, S, caller) /\ WaitsFor(caller, Top.path)
  BY <1>3 DEF Holding, CallsFinished, Top
<1>6. IsList(caller.decl.nodes)  BY <1>4 DEF FrameHolds, PipelineTyped
<1>7. IsList(Substituted(reg, caller.decl.nodes))
  BY <1>6, RegistryListed, SubstitutedHolds
<1>8. IsList(caller.nodes)  BY <1>4, <1>5, <1>7 DEF FrameFinished
<1> QED  BY <1>4, <1>5, <1>8 DEF FrameHolds

FinishedNext == \E S : Holding(S)'

LEMMA ReplaceFinished ==
    ASSUME IInv, NEW S, Holding(S), stack # <<>>, UNCHANGED <<reg, outcome, done>>,
           NEW N, S \subseteq N, Closed(reg, N), Founded(reg, N),
           NEW g, Replace(g), FrameFinished(reg, N, g), g.decl = Top.decl, g.path = Top.path
    PROVE  FinishedNext
<1>1. CallsFinished(reg, N, stack)  BY CallsFinishedMore DEF Holding
<1>2. CallsFinished(reg, N, [stack EXCEPT ![Len(stack)] = g])
  BY <1>1, SwapFinished DEF IInv, Top
<1>4. UnitsFinished(reg, N, done)  BY UnitsFinishedMore DEF Holding
<1>3. Holding(N)'  BY <1>2, <1>4 DEF Holding, Replace
<1> QED  BY <1>3 DEF FinishedNext

(* A caller whose call has been answered, by a unit or by a fault.         *)
LEMMA ReturnFinished ==
    ASSUME IInv, NEW S, Holding(S), stack # <<>>, Len(stack) # 1,
           reg' = reg,
           NEW N, S \subseteq N, Closed(reg, N), Founded(reg, N),
           UnitsFinished(reg, N, done'),
           NEW g, stack' = Append(SubSeq(stack, 1, Len(stack) - 2), g),
           FrameFinished(reg, N, g), g.decl = stack[Len(stack) - 1].decl,
           g.path = stack[Len(stack) - 1].path
    PROVE  FinishedNext
<1>1. CallsFinished(reg, N, stack)  BY CallsFinishedMore DEF Holding
<1>2. CallsFinished(reg, N, Append(SubSeq(stack, 1, Len(stack) - 2), g))
  BY <1>1, PopFinished DEF IInv
<1>3. Holding(N)'  BY <1>2 DEF Holding
<1> QED  BY <1>3 DEF FinishedNext

LEMMA NoCalls == ASSUME NEW r, NEW S PROVE CallsFinished(r, S, <<>>)
<1>1. DOMAIN <<>> = {}  OBVIOUS
<1> QED  BY <1>1 DEF CallsFinished

LEMMA RaiseFinished ==
    ASSUME IInv, NEW S, Holding(S), stack # <<>>, NEW faults, faults # {}, Raise(faults)
    PROVE  FinishedNext
<1>1. CASE Len(stack) = 1
  <2>1. stack' = <<>> /\ UNCHANGED <<reg, done>>
    BY <1>1 DEF Raise
  <2>2. Holding(S)'  BY <2>1, NoCalls DEF Holding
  <2> QED  BY <2>2 DEF FinishedNext
<1>2. CASE Len(stack) # 1
  <2> DEFINE caller == stack[Len(stack) - 1]
             g == [caller EXCEPT !.faults = @ \cup faults, !.at = @ + 1]
  <2>1. /\ FrameFinished(reg, S, caller) /\ DOMAIN caller = FrameFields
        /\ caller.pc = "flatten" /\ IsList(caller.nodes)
    BY <1>2, CallerFinished
  <2>2. /\ stack' = Append(SubSeq(stack, 1, Len(stack) - 2), g)
        /\ UNCHANGED <<reg, outcome, done>>
    BY <1>2 DEF Raise
  <2> HIDE DEF caller
  <2>3. /\ g.pc = caller.pc /\ g.decl = caller.decl /\ g.nodes = caller.nodes
        /\ g.path = caller.path /\ g.at = caller.at + 1 /\ g.faults # {}
    BY <2>1 DEF FrameFields
  <2> HIDE DEF g
  <2>4. FrameFinished(reg, S, g)  BY <2>1, <2>3, NextEntry
  <2>5. Closed(reg, S) /\ Founded(reg, S) /\ UnitsFinished(reg, S, done')
    BY <2>2 DEF Holding
  <2> QED  BY <1>2, <2>2, <2>3, <2>4, <2>5, ReturnFinished DEF caller
<1> QED  BY <1>1, <1>2

(* The frame at hand goes on to its next entry.                            *)
LEMMA StepFinished ==
    ASSUME IInv, NEW S, Holding(S), stack # <<>>, Top.pc = "flatten",
           UNCHANGED <<reg, outcome, done>>,
           NEW N, S \subseteq N, Closed(reg, N), Founded(reg, N),
           NEW g, Replace(g), g.pc = Top.pc, g.decl = Top.decl, g.nodes = Top.nodes,
           g.path = Top.path, g.at = Top.at + 1,
           g.faults = {} => Top.faults = {} /\ EntryFinished(reg, N, Entry)
    PROVE  FinishedNext
<1>1. FrameFinished(reg, S, Top) /\ IsList(Top.nodes)  BY TopFinished
<1>2. FrameFinished(reg, N, Top)  BY <1>1, MoreIsFinished
<1>3. FrameFinished(reg, N, g)  BY <1>1, <1>2, NextEntry DEF Entry, EntryOf
<1> QED  BY <1>3, ReplaceFinished

LEMMA SkipFinished ==
    ASSUME IInv, NEW S, Holding(S), stack # <<>>, Top.pc = "flatten",
           NEW faults, faults # {}, SkipNode(faults)
    PROVE  FinishedNext
<1> DEFINE g == [Top EXCEPT !.faults = @ \cup faults, !.at = @ + 1]
<1>1. Replace(g) /\ UNCHANGED <<reg, outcome, done>>  BY DEF SkipNode
<1>2. DOMAIN Top = FrameFields  BY TopFinished
<1>3. /\ g.pc = Top.pc /\ g.decl = Top.decl /\ g.nodes = Top.nodes
      /\ g.path = Top.path /\ g.at = Top.at + 1 /\ g.faults # {}
  BY <1>2 DEF FrameFields
<1> HIDE DEF g
<1>4. Closed(reg, S) /\ Founded(reg, S)  BY DEF Holding
<1> QED  BY <1>1, <1>3, <1>4, StepFinished

-----------------------------------------------------------------------------
(* One lemma per action.                                                   *)

LEMMA SubstituteFinished ==
    ASSUME IInv, NEW S, Holding(S), Substitute PROVE FinishedNext
<1> DEFINE nodes == Substituted(reg, Top.decl.nodes)
           g == Started(Top)
<1>1. stack # <<>> /\ Top.pc = "substitute"  BY DEF Substitute
<1>2. CASE Cyclic \in ToSet(nodes)
  <2>1. Raise({Fault(Top, "-", "composition_cycle", <<"bundle">>)})
    BY <1>2 DEF Substitute
  <2> QED  BY <1>1, <2>1, RaiseFinished
<1>3. CASE Cyclic \notin ToSet(nodes)
  <2>1. Replace(g) /\ UNCHANGED <<reg, outcome, done>>
    BY <1>3 DEF Substitute
  <2>2. FrameFinished(reg, S, Top) /\ DOMAIN Top = FrameFields /\ IsList(Top.decl.nodes)
    BY <1>1, TopFinished
  <2>3. IsList(nodes)  BY <2>2, RegistryListed, SubstitutedHolds
  <2>4. /\ g.pc = "flatten" /\ g.decl = Top.decl /\ g.path = Top.path
        /\ g.at = Top.at /\ g.nodes = nodes
    BY <2>2, StartedFrames
  <2>5. g.at = 1  BY <1>1, <2>2, <2>4 DEF FrameFinished
  <2>6. \A i \in DOMAIN nodes : ~(i < 1)
    <3> HIDE DEF nodes
    <3>1. DOMAIN nodes = 1..Len(nodes) /\ Len(nodes) \in Nat  BY <2>3, ListFacts
    <3> QED  BY <3>1
  <2> HIDE DEF g
  <2>7. FrameFinished(reg, S, g)  BY <1>3, <2>4, <2>5, <2>6 DEF FrameFinished
  <2>8. Closed(reg, S) /\ Founded(reg, S)  BY DEF Holding
  <2> QED  BY <1>1, <2>1, <2>4, <2>7, <2>8, ReplaceFinished
<1> QED  BY <1>2, <1>3

LEMMA FlattenHandlerFinished ==
    ASSUME IInv, NEW S, Holding(S), FlattenHandler PROVE FinishedNext
<1>1. stack # <<>> /\ Top.pc = "flatten" /\ Entry.form = "handler"
  BY DEF FlattenHandler, Flattening
<1>2. CASE Entry.name \notin DOMAIN reg.handlers
  BY <1>1, <1>2, SkipFinished DEF FlattenHandler
<1>3. CASE Entry.name \in DOMAIN reg.handlers
  <2> DEFINE g == WithHandler(Top)
  <2>1. Replace(g) /\ UNCHANGED <<reg, outcome, done>>
    BY <1>3 DEF FlattenHandler
  <2>2. DOMAIN Top = FrameFields  BY <1>1, TopFinished
  <2>3. /\ g.pc = Top.pc /\ g.decl = Top.decl /\ g.nodes = Top.nodes
        /\ g.path = Top.path /\ g.at = Top.at + 1 /\ (g.faults = {} => Top.faults = {})
    BY <2>2, WithHandlerFrames
  <2> HIDE DEF g
  <2>4. EntryFinished(reg, S, Entry)  BY <1>1 DEF EntryFinished
  <2>5. Closed(reg, S) /\ Founded(reg, S)  BY DEF Holding
  <2> QED  BY <1>1, <2>1, <2>3, <2>4, <2>5, StepFinished
<1> QED  BY <1>2, <1>3

LEMMA SkipCompositionFinished ==
    ASSUME IInv, NEW S, Holding(S), SkipComposition PROVE FinishedNext
<1>1. stack # <<>> /\ Top.pc = "flatten"  BY DEF SkipComposition, Flattening
<1> QED  BY <1>1, SkipFinished DEF SkipComposition

LEMMA FlattenTrainableFinished ==
    ASSUME IInv, NEW S, Holding(S), FlattenTrainable PROVE FinishedNext
<1>1. stack # <<>> /\ Top.pc = "flatten" /\ Entry.name \in Embeds(reg, "trainable")
  BY DEF FlattenTrainable, Flattens, Flattening
<1>2. DOMAIN Top = FrameFields  BY <1>1, TopFinished
<1> DEFINE N == S \cup {Entry.name}
<1>3. S \subseteq N /\ Closed(reg, N) /\ Founded(reg, N)
  <2>1. Entry.name \in DOMAIN reg.comps /\ Contained(reg, Entry.name) = {}
    BY <1>1 DEF Embeds, Contained
  <2> QED  BY <2>1, FoundedOneMore DEF Holding
<1>4. EntryFinished(reg, N, Entry)  BY DEF EntryFinished
<1> HIDE DEF N
<1> DEFINE t == reg.comps[Entry.name]
<1>5. CASE BackendFault(t) = {} /\ BrokenNull(t.config, Backend(t))
  <2>1. Raise({Fault(Top, "-", "malformed_declaration", <<"entry", Top.at>>)})
    BY <1>5 DEF FlattenTrainable
  <2> QED  BY <1>1, <2>1, RaiseFinished
<1>6. CASE ~(BackendFault(t) = {} /\ BrokenNull(t.config, Backend(t)))
  <2>1. \E g : /\ Replace(g) /\ UNCHANGED <<reg, outcome, done>>
               /\ g.pc = Top.pc /\ g.decl = Top.decl /\ g.nodes = Top.nodes
               /\ g.path = Top.path /\ g.at = Top.at + 1 /\ (g.faults = {} => Top.faults = {})
    <3>1. CASE BackendFault(t) # {}
      <4> DEFINE placed == StreamFaults(Top, t.streamable)
                 broken == {Fault(Top, "A", x, <<"entry", Top.at>>) : x \in BackendFault(t)}
      <4> HIDE DEF placed, broken
      <4> DEFINE g == [Top EXCEPT !.at = @ + 1, !.names = @ \cup {t.name},
                                  !.faults = @ \cup placed \cup broken]
      <4>1. Replace(g) /\ UNCHANGED <<reg, outcome, done>>
        BY <3>1 DEF FlattenTrainable, placed, broken
      <4>2. /\ g.pc = Top.pc /\ g.decl = Top.decl /\ g.nodes = Top.nodes
            /\ g.path = Top.path /\ g.at = Top.at + 1 /\ (g.faults = {} => Top.faults = {})
        BY <1>2 DEF FrameFields
      <4> HIDE DEF g
      <4> QED  BY <4>1, <4>2
    <3>2. CASE BackendFault(t) = {} /\ ~BrokenNull(t.config, Backend(t))
      <4> DEFINE g == WithTrainable(Top)
      <4>1. Replace(g) /\ UNCHANGED <<reg, outcome, done>>
        BY <3>2 DEF FlattenTrainable
      <4>2. /\ g.pc = Top.pc /\ g.decl = Top.decl /\ g.nodes = Top.nodes
            /\ g.path = Top.path /\ g.at = Top.at + 1 /\ (g.faults = {} => Top.faults = {})
        BY <1>2, WithTrainableFrames
      <4> HIDE DEF g
      <4> QED  BY <4>1, <4>2
    <3> QED  BY <1>6, <3>1, <3>2
  <2> QED  BY <1>1, <1>3, <1>4, <2>1, StepFinished
<1> QED  BY <1>5, <1>6

LEMMA FlattenEmbedFinished ==
    ASSUME IInv, NEW S, Holding(S), FlattenEmbed PROVE FinishedNext
<1>1. /\ stack # <<>> /\ Top.pc = "flatten" /\ Entry.name \in Embeds(reg, "pipeline")
      /\ Top.at \in DOMAIN Top.nodes /\ Entry.form = "composition"
  BY DEF FlattenEmbed, Flattens, Flattening
<1>2. FrameFinished(reg, S, Top) /\ DOMAIN Top = FrameFields  BY <1>1, TopFinished
<1>9. Closed(reg, S) /\ Founded(reg, S) /\ CallsFinished(reg, S, stack)  BY DEF Holding
<1> DEFINE p == reg.comps[Entry.name]
           streams == EmbedStreams(reg, Entry.name)
           cycle == EmbedCycleFaults(Top)
           seen == Seen(Top)
<1>3. cycle # {}  BY DEF EmbedCycleFaults
<1>4. /\ DOMAIN seen = FrameFields /\ seen.pc = Top.pc /\ seen.decl = Top.decl
      /\ seen.nodes = Top.nodes /\ seen.path = Top.path /\ seen.at = Top.at
      /\ seen.faults = {} => Top.faults = {}
      /\ seen.flat = Top.flat /\ seen.supply = Top.supply
      /\ seen.merges = Top.merges /\ seen.scoped = Top.scoped
  BY <1>2, SeenFrames
<1> HIDE DEF streams, cycle, seen
<1> DEFINE g == [seen EXCEPT !.at = @ + 1, !.faults = @ \cup cycle]
<1>5. CASE streams = "raises"
  <2>1. Raise({Fault(Top, "-", "composition_cycle", <<"bundle">>)})
    BY <1>5 DEF FlattenEmbed, streams
  <2> QED  BY <1>1, <2>1, RaiseFinished
<1>6. CASE streams # "raises" /\ OnStack(Entry.name)
  <2>1. Replace(g) /\ UNCHANGED <<reg, outcome, done>>
    BY <1>6 DEF FlattenEmbed, streams, seen, cycle
  <2>2. /\ g.pc = Top.pc /\ g.decl = Top.decl /\ g.nodes = Top.nodes
        /\ g.path = Top.path /\ g.at = Top.at + 1 /\ g.faults # {}
    BY <1>3, <1>4 DEF FrameFields
  <2> HIDE DEF g
  <2> QED  BY <1>1, <1>9, <2>1, <2>2, StepFinished
<1>7. CASE streams # "raises" /\ ~OnStack(Entry.name)
  <2> DEFINE s == [stack EXCEPT ![Len(stack)] = seen]
             h == Frame(Entry.name, p)
  <2>1. stack' = Append(s, h) /\ UNCHANGED <<reg, outcome, done>>
    BY <1>7 DEF FlattenEmbed, streams, seen
  <2> HIDE DEF g
  <2>2. FrameFinished(reg, S, seen)  BY <1>1, <1>2, <1>4 DEF FrameFinished
  <2>3. CallsFinished(reg, S, s)
    BY <1>1, <1>4, <1>9, <2>2, SwapFinished DEF IInv, Top
  <2>4. FrameHolds(reg, seen)
    <3>1. FrameHolds(reg, Top)  BY <1>1, TopHolds DEF IInv
    <3>2. SameWiring(Top, seen)  BY <1>4 DEF SameWiring
    <3> QED  BY <1>1, <1>4, <3>1, <3>2, AmendedHolds
  <2>5. StackHolds(reg, s)  BY <1>1, <1>4, <2>4, SwapKeeps DEF IInv, Top
  <2>6. Len(s) = Len(stack) /\ s[Len(stack)] = seen /\ s # <<>>
    <3>1. PICK X : stack \in Seq(X)  BY DEF IInv, StackHolds
    <3>2. stack \in Seq(X \cup {seen}) /\ Len(stack) \in DOMAIN stack
      BY <1>1, <3>1, TopHolds DEF IInv
    <3>3. DOMAIN s = DOMAIN stack /\ Len(s) = Len(stack) /\ s[Len(stack)] = seen
      BY <3>2
    <3>4. DOMAIN <<>> = {}  OBVIOUS
    <3> QED  BY <3>2, <3>3, <3>4
  <2>7. WaitsFor(s[Len(s)], Entry.name)
    BY <1>1, <1>4, <2>6 DEF WaitsFor, Entry, EntryOf
  <2>8. h.decl = DeclOf(reg, h.path) /\ h.path = Entry.name /\ FrameFinished(reg, S, h)
    <3>1. \A i \in DOMAIN <<>> : ~(i < 1)  OBVIOUS
    <3>2. Entry.name # "root"  BY <1>1 DEF IInv, Embeds
    <3> QED  BY <3>1, <3>2 DEF Frame, FrameFinished, DeclOf
  <2> HIDE DEF s, h
  <2>9. CallsFinished(reg, S, Append(s, h))
    BY <2>3, <2>5, <2>6, <2>7, <2>8, PushFinished
  <2>10. Holding(S)'  BY <2>1, <2>9 DEF Holding
  <2> QED  BY <2>10 DEF FinishedNext
<1> QED  BY <1>5, <1>6, <1>7

LEMMA CloseGroupAFinished ==
    ASSUME IInv, NEW S, Holding(S), CloseGroupA PROVE FinishedNext
<1> DEFINE faults == Top.faults \cup ScopedMergeFaults(Top)
           g == [Top EXCEPT !.pc = "topology"]
<1>1. stack # <<>> /\ Top.pc = "flatten" /\ Top.at \notin DOMAIN Top.nodes
  BY DEF CloseGroupA
<1>2. CASE faults # {}
  BY <1>1, <1>2, RaiseFinished DEF CloseGroupA
<1>3. CASE faults = {}
  <2>1. Replace(g) /\ UNCHANGED <<reg, outcome, done>>
    BY <1>3 DEF CloseGroupA
  <2>2. FrameFinished(reg, S, Top) /\ DOMAIN Top = FrameFields  BY <1>1, TopFinished
  <2>3. /\ g.pc = "topology" /\ g.decl = Top.decl /\ g.nodes = Top.nodes /\ g.path = Top.path
        /\ g.at = Top.at /\ g.faults = Top.faults
    BY <2>2 DEF FrameFields
  <2>4. Top.faults = {}  BY <1>3
  <2> HIDE DEF g
  <2>5. FrameFinished(reg, S, g)  BY <1>1, <2>2, <2>3, <2>4 DEF FrameFinished
  <2>6. Closed(reg, S) /\ Founded(reg, S)  BY DEF Holding
  <2> QED  BY <1>1, <2>1, <2>3, <2>5, <2>6, ReplaceFinished
<1> QED  BY <1>2, <1>3

LEMMA CheckTopologyFinished ==
    ASSUME IInv, NEW S, Holding(S), CheckTopology PROVE FinishedNext
<1> DEFINE g == [Top EXCEPT !.pc = "coverage"]
<1>1. stack # <<>> /\ Top.pc = "topology"  BY DEF CheckTopology
<1>2. CASE TopologyFaults(Top) # {}
  BY <1>1, <1>2, RaiseFinished DEF CheckTopology
<1>3. CASE TopologyFaults(Top) = {}
  <2>1. Replace(g) /\ UNCHANGED <<reg, outcome, done>>
    BY <1>3 DEF CheckTopology
  <2>2. FrameFinished(reg, S, Top) /\ DOMAIN Top = FrameFields  BY <1>1, TopFinished
  <2>3. /\ g.pc = "coverage" /\ g.decl = Top.decl /\ g.nodes = Top.nodes /\ g.path = Top.path
        /\ g.at = Top.at /\ g.faults = Top.faults
    BY <2>2 DEF FrameFields
  <2> HIDE DEF g
  <2>4. FrameFinished(reg, S, g)  BY <1>1, <2>2, <2>3 DEF FrameFinished
  <2>5. Closed(reg, S) /\ Founded(reg, S)  BY DEF Holding
  <2> QED  BY <1>1, <2>1, <2>3, <2>4, <2>5, ReplaceFinished
<1> QED  BY <1>2, <1>3

LEMMA CheckCoverageFinished ==
    ASSUME IInv, NEW S, Holding(S), CheckCoverage PROVE FinishedNext
  BY RaiseFinished DEF CheckCoverage

(* Everything that a declaration about to be handed on names is finished.  *)
LEMMA DeliveredFinished ==
    ASSUME IInv, NEW S, Holding(S), stack # <<>>, Top.pc = "coverage"
    PROVE  \E N : /\ S \subseteq N /\ Closed(reg, N) /\ Founded(reg, N)
                  /\ Named(reg, Top.decl.nodes) \subseteq N
<1>1. /\ FrameFinished(reg, S, Top) /\ IsList(Top.decl.nodes) /\ IsList(Top.nodes)
  BY TopFinished
<1>2. /\ Top.nodes = Substituted(reg, Top.decl.nodes) /\ Cyclic \notin ToSet(Top.nodes)
      /\ Top.at \in Nat \ {0} /\ Top.at \notin DOMAIN Top.nodes
      /\ \A i \in DOMAIN Top.nodes : i < Top.at => EntryFinished(reg, S, Top.nodes[i])
  BY <1>1 DEF FrameFinished
<1>3. DOMAIN Top.nodes = 1..Len(Top.nodes) /\ Len(Top.nodes) \in Nat  BY <1>1, ListFacts
<1>4. \A i \in DOMAIN Top.nodes : i < Top.at  BY <1>2, <1>3
<1>5. \A e \in ToSet(Top.nodes) : EntryFinished(reg, S, e)  BY <1>2, <1>4 DEF ToSet
<1>6. Closed(reg, S) /\ Founded(reg, S)  BY DEF Holding
<1>7. Listed(reg)  BY RegistryListed
<1> QED  BY <1>1, <1>2, <1>5, <1>6, <1>7, BundlesFinish

LEMMA DeliverFinished ==
    ASSUME IInv, NEW S, Holding(S), Deliver PROVE FinishedNext
<1>1. /\ stack # <<>> /\ Top.pc = "coverage" /\ reg' = reg /\ done' = done \cup {Unit(Top)}
      /\ Unit(Top).path = Top.path
  BY DEF Deliver, Unit
<1>2. PICK N : /\ S \subseteq N /\ Closed(reg, N) /\ Founded(reg, N)
               /\ Named(reg, Top.decl.nodes) \subseteq N
  BY <1>1, DeliveredFinished
<1>3. Top.decl = DeclOf(reg, Top.path) /\ Top.path \in {"root"} \cup Embeds(reg, "pipeline")
  BY <1>1, TopFinished, TopHolds DEF IInv, FrameHolds
<1>6. PICK M : /\ N \subseteq M /\ Closed(reg, M) /\ Founded(reg, M)
               /\ Top.path # "root" => Top.path \in M
  <2>1. CASE Top.path = "root"  BY <1>2, <2>1
  <2>2. CASE Top.path # "root"
    <3>1. Top.path \in DOMAIN reg.comps /\ Contained(reg, Top.path) \subseteq N
      BY <1>2, <1>3, <2>2 DEF Embeds, Contained, DeclOf
    <3>2. Closed(reg, N \cup {Top.path}) /\ Founded(reg, N \cup {Top.path})
      BY <1>2, <3>1, FoundedOneMore
    <3> QED  BY <3>2
  <2> QED  BY <2>1, <2>2
<1>7. UnitsFinished(reg, M, done')
  <2>1. UnitsFinished(reg, M, done)
    BY <1>2, <1>6, UnitsFinishedMore DEF Holding
  <2>2. Named(reg, DeclOf(reg, Top.path).nodes) \subseteq M  BY <1>2, <1>3, <1>6
  <2> QED  BY <1>1, <1>6, <2>1, <2>2 DEF UnitsFinished
<1>4. CASE Len(stack) = 1
  <2>1. stack' = <<>>  BY <1>4 DEF Deliver
  <2>3. Holding(M)'  BY <1>1, <1>6, <1>7, <2>1, NoCalls DEF Holding
  <2> QED  BY <2>3 DEF FinishedNext
<1>5. CASE Len(stack) # 1
  <2> DEFINE caller == stack[Len(stack) - 1]
             node == EmbedNode(Top.path, Top.decl, StreamRoute(GraphOf(Top)) # 0)
  <2> HIDE DEF node
  <2> DEFINE g == [caller EXCEPT !.flat = Append(@, node), !.at = @ + 1]
  <2>1. /\ FrameFinished(reg, S, caller) /\ DOMAIN caller = FrameFields
        /\ caller.pc = "flatten" /\ IsList(caller.nodes) /\ WaitsFor(caller, Top.path)
    BY <1>1, <1>5, CallerFinished
  <2>2. stack' = Append(SubSeq(stack, 1, Len(stack) - 2), g)
    BY <1>5 DEF Deliver, node
  <2>3. S \subseteq M  BY <1>2, <1>6
  <2> HIDE DEF caller
  <2>4. /\ g.pc = caller.pc /\ g.decl = caller.decl /\ g.nodes = caller.nodes
        /\ g.path = caller.path /\ g.at = caller.at + 1 /\ g.faults = caller.faults
    BY <2>1 DEF FrameFields
  <2>5. EntryFinished(reg, M, caller.nodes[caller.at])
    <3>1. Top.path # "root"
      BY <1>1, <1>5, InnerPath DEF IInv, Top, Embeds
    <3> QED  BY <1>6, <2>1, <3>1 DEF WaitsFor, EntryFinished
  <2> HIDE DEF g
  <2>6. FrameFinished(reg, M, caller)  BY <2>1, <2>3, MoreIsFinished
  <2>7. FrameFinished(reg, M, g)  BY <2>1, <2>4, <2>5, <2>6, NextEntry
  <2> QED
    BY <1>1, <1>5, <1>6, <1>7, <2>2, <2>3, <2>4, <2>7, ReturnFinished DEF caller
<1> QED  BY <1>4, <1>5

(* A step of a compilation leaves the outermost declaration to the end.     *)
LEMMA RootStaysFirst ==
    ASSUME RootStep, RootComesFirst, stack # <<>> PROVE RootComesFirst'
  BY DEF RootStep, RootComesFirst

LEMMA NextCalls == ASSUME Next PROVE stack # <<>>
  BY DEF Next, Substitute, FlattenHandler, SkipComposition, FlattenTrainable, FlattenEmbed,
         CloseGroupA, CheckTopology, CheckCoverage, Deliver, Flattens, Flattening

LEMMA CyclesInvInit == Beginning => CyclesInv
<1> SUFFICES ASSUME Beginning PROVE CyclesInv  OBVIOUS
<1>1. IInv  BY IInvInit
<1> DEFINE f == Frame("root", reg.root)
<1>2. stack = <<f>> /\ outcome.status # "compiled" /\ done = {} /\ f.path = "root"
  BY DEF Beginning, Frame
<1>3. f.decl = reg.root /\ FrameFinished(reg, {}, f)
  <2>1. \A i \in DOMAIN <<>> : ~(i < 1)  OBVIOUS
  <2> QED  BY <2>1 DEF Frame, FrameFinished
<1> HIDE DEF f
<1>4. Len(<<f>>) = 1 /\ DOMAIN <<f>> = {1} /\ <<f>>[1] = f  OBVIOUS
<1>5. CallsFinished(reg, {}, stack)  BY <1>2, <1>3, <1>4 DEF CallsFinished, DeclOf
<1>6. Closed(reg, {}) /\ Founded(reg, {})  BY DEF Closed, Founded
<1>7. Holding({})  BY <1>2, <1>5, <1>6 DEF Holding, UnitsFinished
<1>8. RootComesFirst  BY <1>2, <1>4 DEF RootComesFirst
<1> QED  BY <1>1, <1>7, <1>8 DEF CyclesInv

LEMMA CyclesInvStep == CyclesInv /\ [Next]_vars => CyclesInv'
<1> SUFFICES ASSUME CyclesInv, [Next]_vars PROVE CyclesInv'  OBVIOUS
<1>1. IInv  BY DEF CyclesInv
<1>2. PICK S : Holding(S)  BY DEF CyclesInv
<1>3. IInv'  BY <1>1, StepKeeps
<1>6. RootComesFirst  BY DEF CyclesInv
<1>4. CASE UNCHANGED vars
  <2>1. Holding(S)'  BY <1>2, <1>4 DEF vars, Holding
  <2>2. RootComesFirst'  BY <1>4, <1>6 DEF vars, RootComesFirst
  <2> QED  BY <1>3, <2>1, <2>2 DEF CyclesInv
<1>5. CASE Next
  <2>1. FinishedNext
    BY <1>1, <1>2, <1>5, SubstituteFinished, FlattenHandlerFinished,
       SkipCompositionFinished, FlattenTrainableFinished, FlattenEmbedFinished,
       CloseGroupAFinished, CheckTopologyFinished, CheckCoverageFinished,
       DeliverFinished DEF Next
  <2>2. PICK N : Holding(N)'  BY <2>1 DEF FinishedNext
  <2>3. RootComesFirst'  BY <1>1, <1>5, <1>6, NextKeeps, NextCalls, RootStaysFirst DEF Kept
  <2> QED  BY <1>3, <2>2, <2>3 DEF CyclesInv
<1> QED  BY <1>4, <1>5

(* The compositions that a compilation has finished with are closed under  *)
(* naming and nothing among them reaches itself.                           *)
THEOREM CyclesInvariant == Spec => []CyclesInv
  BY InitBegins, CyclesInvInit, CyclesInvStep, PTL DEF Spec

LEMMA FinishedIsAcyclic == CyclesInv => NoCycleCompiles
<1> SUFFICES ASSUME CyclesInv, outcome.status = "compiled",
                    NEW p \in Reached(reg, Named(reg, reg.root.nodes))
             PROVE  p \notin Reached(reg, Contained(reg, p))
  BY DEF NoCycleCompiles
<1>1. PICK S : Closed(reg, S) /\ Founded(reg, S) /\ Named(reg, reg.root.nodes) \subseteq S
  <2>1. \E d \in done : d.path = "root"  BY DEF CyclesInv, RootComesFirst
  <2> QED  BY <2>1 DEF CyclesInv, Holding, UnitsFinished, DeclOf
<1>2. IsFiniteSet(DOMAIN reg.comps)  BY RegistryListed DEF CyclesInv
<1>3. Reached(reg, Named(reg, reg.root.nodes)) \subseteq S
  BY <1>1, <1>2, ReachedStaysIn DEF Closed
<1> QED  BY <1>1, <1>2, <1>3, FoundedIsAcyclic

(* A pipeline that reaches a composition from itself is compiled by none of *)
(* its callers, whatever mixture of embeds and bundles the cycle is made    *)
(* of: the bundle stack of `substitute_bundle_nodes` and the embed stack of *)
(* `_flatten_pipeline_embed` between them miss no cycle.                    *)
THEOREM CyclesNeverCompile == Spec => []NoCycleCompiles
  BY FinishedIsAcyclic, CyclesInvariant, PTL

(***************************************************************************)
(* What the scan `_embed_terminal_streams` answers.                         *)
(***************************************************************************)

LEMMA FlattenSeqOver ==
    ASSUME NEW G, NEW ss, IsList(ss), \A i \in DOMAIN ss : ss[i] \in Seq(G)
    PROVE  FlattenSeq(ss) \in Seq(G)
<1> DEFINE N == Len(ss)
           F == CHOOSE f : Joinings(ss, N, f)
<1>1. N \in Nat /\ DOMAIN ss = 1..N  BY ListFacts
<1>2. CASE N = 0
  <2>1. FlattenSeq(ss) = ss  BY <1>2 DEF FlattenSeq
  <2>2. ss = <<>>  BY <1>2, EmptySeq DEF IsList
  <2> QED  BY <2>1, <2>2
<1>3. CASE N # 0
  <2>1. Joinings(ss, N, F)
    <3> HIDE DEF N
    <3>1. \E f : Joinings(ss, N, f)  BY <1>1, JoiningsExist
    <3> QED  BY <3>1
  <2>2. FlattenSeq(ss) = F[N]  BY <1>3 DEF FlattenSeq, Joinings
  <2> HIDE DEF N, F
  <2>3. \A i \in 1..N : F[i] = IF i = 1 THEN ss[i] ELSE F[i - 1] \o ss[i]
    BY <2>1 DEF Joinings
  <2> DEFINE P == {n \in Nat : n \in 1..N => F[n] \in Seq(G)}
  <2>4. 0 \in P  OBVIOUS
  <2>5. \A n \in Nat : n \in P => n + 1 \in P
    <3> SUFFICES ASSUME NEW n \in Nat, n \in 1..N => F[n] \in Seq(G), n + 1 \in 1..N
                 PROVE  F[n + 1] \in Seq(G)
      OBVIOUS
    <3>1. ss[n + 1] \in Seq(G)  BY <1>1
    <3>2. CASE n = 0
      <4>1. F[1] = ss[1] /\ n + 1 = 1  BY <2>3, <3>2
      <4> QED  BY <3>1, <4>1
    <3>3. CASE n # 0
      <4>1. n \in 1..N /\ n + 1 # 1 /\ (n + 1) - 1 = n  BY <1>1, <3>3
      <4>2. F[n + 1] = F[n] \o ss[n + 1]  BY <2>3, <4>1
      <4> QED  BY <3>1, <4>1, <4>2
    <3> QED  BY <3>2, <3>3
  <2> HIDE DEF P
  <2>6. Nat \subseteq P  BY <2>4, <2>5, SetInduction
  <2>7. N \in 1..N  BY <1>1, <1>3
  <2>8. F[N] \in Seq(G)  BY <1>1, <2>6, <2>7 DEF P
  <2> QED  BY <2>2, <2>8
<1> QED  BY <1>2, <1>3

(* What a list of entries is made of, in terms of the compositions C that   *)
(* it leads to.                                                            *)
Leads(r, C, G, nodes) ==
    \A e \in ToSet(nodes) : IF IsBundle(r, e) THEN e.name \in C ELSE e \in G

LEMMA PartsOver ==
    ASSUME NEW r, NEW nodes, IsList(nodes), NEW C, NEW G, Leads(r, C, G, nodes),
           NEW f, \A p \in C \cap Bundles(r) : f[p] \in Seq(G)
    PROVE  FlattenSeq(Parts(r, f, nodes)) \in Seq(G)
<1> DEFINE ss == Parts(r, f, nodes)
<1>1. Len(nodes) \in Nat /\ DOMAIN nodes = 1..Len(nodes)  BY ListFacts
<1>2. /\ DOMAIN ss = DOMAIN nodes
      /\ \A i \in DOMAIN nodes :
            ss[i] = IF IsBundle(r, nodes[i]) THEN f[nodes[i].name] ELSE <<nodes[i]>>
  BY DEF Parts
<1>3. ss = [i \in 1..Len(nodes) |-> ss[i]]  BY <1>1 DEF Parts
<1> HIDE DEF ss
<1>4. IsList(ss)  BY <1>1, <1>3, ListOfValues
<1>5. ASSUME NEW i \in DOMAIN ss PROVE ss[i] \in Seq(G)
  <2>1. nodes[i] \in ToSet(nodes)  BY <1>2, ListFacts
  <2>2. CASE IsBundle(r, nodes[i])
    <3>1. nodes[i].name \in C \cap Bundles(r)
      BY <2>1, <2>2 DEF Leads, IsBundle, Bundles
    <3> QED  BY <1>2, <2>2, <3>1
  <2>3. CASE ~IsBundle(r, nodes[i])
    <3>1. nodes[i] \in G  BY <2>1, <2>3 DEF Leads
    <3>2. \A e \in G : <<e>> \in Seq(G)  OBVIOUS
    <3>3. ss[i] = <<nodes[i]>>  BY <1>2, <2>3
    <3> QED  BY <3>1, <3>2, <3>3
  <2> QED  BY <2>2, <2>3
<1>6. FlattenSeq(ss) \in Seq(G)  BY <1>4, <1>5, FlattenSeqOver
<1> QED  BY <1>6 DEF ss

LEMMA InlinedOver ==
    ASSUME NEW r, Listed(r), NEW g, Inlines(r, g), NEW C, NEW G, Cyclic \in G,
           \A p \in C \cap Bundles(r) : Leads(r, C, G, r.comps[p].nodes)
    PROVE  \A s \in SUBSET Bundles(r) : \A p \in C \cap Bundles(r) : g[s][p] \in Seq(G)
<1> DEFINE B == Bundles(r)
           Over(n) == \A s \in SUBSET B : Cardinality(B \ s) < n =>
                            \A p \in C \cap B : g[s][p] \in Seq(G)
           P == {n \in Nat : Over(n)}
<1>1. IsFiniteSet(B)  BY DEF Listed
<1>2. \A s \in SUBSET B : Cardinality(B \ s) \in Nat
  BY <1>1, FS_Subset, FS_CardinalityType
<1>3. \A s \in SUBSET B : \A p \in B : g[s][p] = Inlining(r, g, s, p)
  BY DEF Inlines
<1>4. 0 \in P
  <2>1. \A s \in SUBSET B : ~(Cardinality(B \ s) < 0)  BY <1>2
  <2> QED  BY <2>1
<1>5. \A n \in Nat : n \in P => n + 1 \in P
  <2> SUFFICES ASSUME NEW n \in Nat, Over(n) PROVE Over(n + 1)
    <3> HIDE DEF Over
    <3> QED  OBVIOUS
  <2> SUFFICES ASSUME NEW s \in SUBSET B, Cardinality(B \ s) < n + 1, NEW p \in C \cap B
               PROVE  g[s][p] \in Seq(G)
    OBVIOUS
  <2>1. CASE p \in s
    <3>1. g[s][p] = <<Cyclic>>  BY <1>3, <2>1 DEF Inlining
    <3> QED  BY <3>1
  <2>2. CASE p \notin s
    <3>1. /\ s \cup {p} \in SUBSET B /\ Cardinality(B \ s) \in Nat
          /\ Cardinality(B \ (s \cup {p})) \in Nat
          /\ Cardinality(B \ (s \cup {p})) < Cardinality(B \ s)
      BY <1>1, <2>2, FewerAreLeft
    <3>2. Cardinality(B \ (s \cup {p})) < n  BY <3>1
    <3>3. \A q \in C \cap B : g[s \cup {p}][q] \in Seq(G)  BY <3>1, <3>2
    <3>4. IsList(r.comps[p].nodes)  BY DEF Listed
    <3>5. FlattenSeq(Parts(r, g[s \cup {p}], r.comps[p].nodes)) \in Seq(G)
      BY <3>3, <3>4, PartsOver
    <3> QED  BY <1>3, <2>2, <3>5 DEF Inlining
  <2> QED  BY <2>1, <2>2
<1> HIDE DEF P
<1>6. Nat \subseteq P  BY <1>4, <1>5, SetInduction
<1>7. ASSUME NEW s \in SUBSET B, NEW p \in C \cap B PROVE g[s][p] \in Seq(G)
  <2>1. /\ Cardinality(B \ s) + 1 \in Nat
        /\ Cardinality(B \ s) < Cardinality(B \ s) + 1
    BY <1>2
  <2>2. Over(Cardinality(B \ s) + 1)  BY <1>6, <2>1 DEF P
  <2> QED  BY <2>1, <2>2
<1> QED  BY <1>7

(* After substitution the entries lead nowhere the declaration does not.    *)
LEMMA SubstitutedLeads ==
    ASSUME NEW r, Listed(r), NEW nodes, IsList(nodes),
           NEW C, \A p \in C : Contained(r, p) \subseteq C, Named(r, nodes) \subseteq C
    PROVE  \A e \in ToSet(Substituted(r, nodes)) :
                e = Cyclic \/ (EntryFinished(r, C, e) /\ ~IsBundle(r, e))
<1> DEFINE U == ToSet(nodes) \cup UNION {ToSet(r.comps[p].nodes) : p \in Bundles(r)}
           G == {Cyclic} \cup {e \in U : EntryFinished(r, C, e) /\ ~IsBundle(r, e)}
           g == CHOOSE h : Inlines(r, h)
<1>1. Inlines(r, g)
  <2>1. \E h : Inlines(r, h)  BY InliningExists DEF Listed
  <2> QED  BY <2>1
<1>2. Substituted(r, nodes) = FlattenSeq(Parts(r, g[{}], nodes))
  BY DEF Substituted, Inlines, Inlining, Parts, Bundles
<1> HIDE DEF g
<1>3. ASSUME NEW ns, ToSet(ns) \subseteq U, Named(r, ns) \subseteq C
      PROVE  Leads(r, C, G, ns)
  <2> SUFFICES ASSUME NEW e \in ToSet(ns)
               PROVE  IF IsBundle(r, e) THEN e.name \in C ELSE e \in G
    BY DEF Leads
  <2>1. EntryFinished(r, C, e)  BY <1>3 DEF EntryFinished, Named
  <2>2. IsBundle(r, e) => e.name \in C
    BY <2>1 DEF IsBundle, Embeds, EntryFinished
  <2> QED  BY <1>3, <2>1, <2>2
<1>4. ASSUME NEW p \in C \cap Bundles(r) PROVE Leads(r, C, G, r.comps[p].nodes)
  <2>1. Named(r, r.comps[p].nodes) \subseteq C
    BY DEF Contained, Bundles, Embeds
  <2> HIDE DEF G
  <2> QED  BY <1>3, <2>1
<1>5. Leads(r, C, G, nodes)
  <2> HIDE DEF G
  <2> QED  BY <1>3
<1>6. Cyclic \in G  OBVIOUS
<1>7. \A e \in G : e = Cyclic \/ (EntryFinished(r, C, e) /\ ~IsBundle(r, e))  OBVIOUS
<1> HIDE DEF G
<1>8. \A p \in C \cap Bundles(r) : g[{}][p] \in Seq(G)
  BY <1>1, <1>4, <1>6, InlinedOver
<1>9. Substituted(r, nodes) \in Seq(G)  BY <1>2, <1>5, <1>8, PartsOver
<1>10. ToSet(Substituted(r, nodes)) \subseteq G  BY <1>9, ListOver
<1> QED  BY <1>7, <1>10

(* Everything reached is among what is reached.                            *)
LEMMA ReachedCloses ==
    ASSUME NEW r, IsFiniteSet(DOMAIN r.comps), NEW from, from \subseteq DOMAIN r.comps,
           \A p \in DOMAIN r.comps : Contained(r, p) \subseteq DOMAIN r.comps
    PROVE  /\ from \subseteq Reached(r, from) /\ Reached(r, from) \subseteq DOMAIN r.comps
           /\ \A p \in Reached(r, from) : Contained(r, p) \subseteq Reached(r, from)
<1> DEFINE D == DOMAIN r.comps
           N == Cardinality(D)
           W == CHOOSE g : Rounds(r, from, N, g)
           Still(X) == \A p \in X : Contained(r, p) \subseteq X
<1>1. N \in Nat  BY FS_CardinalityType
<1>2. Rounds(r, from, N, W)
  <2> HIDE DEF N
  <2>1. \E g : Rounds(r, from, N, g)  BY <1>1, RoundsExist
  <2> QED  BY <2>1
<1>3. Reached(r, from) = W[N]
  BY DEF Reached, Rounds, Round
<1>4. \A X \in SUBSET D : IsFiniteSet(X) /\ Cardinality(X) \in Nat
  BY FS_Subset, FS_CardinalityType
<1> HIDE DEF W
<1> DEFINE Grown(n) == /\ from \subseteq W[n] /\ W[n] \in SUBSET D
                       /\ Still(W[n]) \/ Cardinality(W[n]) >= n
           P == {n \in Nat : n <= N => Grown(n)}
<1>5. 0 \in P
  <2>1. 0 \in 0..N  BY <1>1
  <2>2. W[0] = from  BY <1>2, <2>1 DEF Rounds
  <2>3. Cardinality(from) >= 0  BY <1>4
  <2> QED  BY <2>2, <2>3
<1>6. \A n \in Nat : n \in P => n + 1 \in P
  <2> SUFFICES ASSUME NEW n \in Nat, Grown(n), n + 1 <= N PROVE Grown(n + 1)
    <3> HIDE DEF Grown
    <3> QED  BY <1>1
  <2>1. n + 1 \in 0..N /\ n + 1 # 0 /\ (n + 1) - 1 = n  BY <1>1
  <2>2. W[n + 1] = Round(r, W[n])  BY <1>2, <2>1 DEF Rounds
  <2>3. W[n] \subseteq W[n + 1] /\ W[n + 1] \in SUBSET D  BY <2>2 DEF Round
  <2>4. CASE Still(W[n])
    <3>1. W[n + 1] = W[n]  BY <2>2, <2>4 DEF Round
    <3> QED  BY <2>4, <3>1
  <2>5. CASE W[n + 1] = W[n] /\ ~Still(W[n])
    BY <2>2, <2>5 DEF Round
  <2>6. CASE ~Still(W[n]) /\ W[n + 1] # W[n]
    <3> HIDE DEF D
    <3>1. Cardinality(W[n]) < Cardinality(W[n + 1])
      BY <1>4, <2>3, <2>6, FS_Subset
    <3>2. Cardinality(W[n]) >= n /\ Cardinality(W[n]) \in Nat /\ Cardinality(W[n + 1]) \in Nat
      BY <1>4, <2>3, <2>6
    <3>3. Cardinality(W[n + 1]) >= n + 1  BY <3>1, <3>2
    <3> QED  BY <2>3, <3>3
  <2> QED  BY <2>4, <2>5, <2>6
<1> HIDE DEF P
<1>7. Nat \subseteq P  BY <1>5, <1>6, SetInduction
<1>8. Grown(N)
  <2>1. N \in P /\ N <= N  BY <1>1, <1>7
  <2> QED  BY <2>1 DEF P
<1>9. Still(W[N])
  <2> SUFFICES ASSUME Cardinality(W[N]) >= N PROVE Still(W[N])
    BY <1>8
  <2>1. W[N] = D
    <3> SUFFICES ASSUME W[N] # D PROVE FALSE  OBVIOUS
    <3>1. W[N] \in SUBSET D /\ Cardinality(W[N]) \in Nat  BY <1>4, <1>8
    <3>2. Cardinality(W[N]) <= N /\ (N = Cardinality(W[N]) => D = W[N])
      BY <3>1, FS_Subset
    <3> QED  BY <1>1, <3>1, <3>2
  <2> QED  BY <2>1
<1> QED  BY <1>3, <1>8, <1>9

(* One answer of the scan, and the answers for every chain of meta.names.   *)
MetaNames(r) == {r.comps[p].name : p \in Embeds(r, "pipeline")}
LastEntries(r, ns) ==
    {i \in DOMAIN ns : ~IsHook(r, ns[i]) /\ \A j \in DOMAIN ns : j > i => IsHook(r, ns[j])}
Scanning(r, h, seen, p) ==
    LET ns == Substituted(r, r.comps[p].nodes)
        last == LastEntries(r, ns)
    IN  IF r.comps[p].name \in seen THEN "no"
        ELSE IF Cyclic \in ToSet(ns) THEN "raises"
        ELSE IF last = {} THEN "no"
        ELSE LET e == ns[CHOOSE i \in last : TRUE] IN
             IF e.form = "handler" \/ e.name \notin DOMAIN r.comps THEN "no"
             ELSE IF e.name \in Embeds(r, "pipeline")
             THEN h[seen \cup {r.comps[p].name}][e.name]
             ELSE IF r.comps[e.name].streamable THEN "yes" ELSE "no"
Scans(r, h) ==
    h = [seen \in SUBSET MetaNames(r) |->
            [p \in Embeds(r, "pipeline") |-> Scanning(r, h, seen, p)]]
Answers(r) == CHOOSE h : Scans(r, h)

LEMMA ScanExists ==
    ASSUME NEW r, IsFiniteSet(MetaNames(r))
    PROVE  Scans(r, Answers(r))
<1> DEFINE B == MetaNames(r)
           Paths == Embeds(r, "pipeline")
           Row(g, s) == [p \in Paths |-> Scanning(r, g, s, p)]
           Right(g, n) == /\ g = [s \in SUBSET B |-> g[s]]
                          /\ \A s \in SUBSET B : Cardinality(B \ s) < n => g[s] = Row(g, s)
           P == {n \in Nat : \E g : Right(g, n)}
<1>1. 0 \in P
  <2> DEFINE g == [s \in SUBSET B |-> s]
  <2>1. g = [s \in SUBSET B |-> g[s]]  OBVIOUS
  <2>2. \A s \in SUBSET B : Cardinality(B \ s) \in Nat
    BY FS_Subset, FS_CardinalityType
  <2>3. \A s \in SUBSET B : ~(Cardinality(B \ s) < 0)  BY <2>2
  <2> HIDE DEF g
  <2>4. Right(g, 0)  BY <2>1, <2>3
  <2> HIDE DEF Right
  <2> QED  BY <2>4
<1>2. \A n \in Nat : n \in P => n + 1 \in P
  <2> SUFFICES ASSUME NEW n \in Nat, NEW g, Right(g, n)
               PROVE  \E h : Right(h, n + 1)
    <3> HIDE DEF Right
    <3> QED  OBVIOUS
  <2> DEFINE h == [s \in SUBSET B |-> Row(g, s)]
  <2>1. h = [s \in SUBSET B |-> h[s]] /\ \A s \in SUBSET B : h[s] = Row(g, s)
    OBVIOUS
  <2> HIDE DEF h
  <2>2. ASSUME NEW s \in SUBSET B, Cardinality(B \ s) < n + 1
        PROVE  h[s] = Row(h, s)
    <3>1. ASSUME NEW p \in Paths PROVE Scanning(r, g, s, p) = Scanning(r, h, s, p)
      <4>1. CASE r.comps[p].name \in s  BY <4>1 DEF Scanning
      <4>2. CASE r.comps[p].name \notin s
        <5> DEFINE name == r.comps[p].name
        <5>6. name \in B \ s  BY <4>2 DEF MetaNames
        <5>7. IsFiniteSet(B)  OBVIOUS
        <5>1. /\ s \cup {name} \in SUBSET B /\ Cardinality(B \ s) \in Nat
              /\ Cardinality(B \ (s \cup {name})) \in Nat
              /\ Cardinality(B \ (s \cup {name})) < Cardinality(B \ s)
          <6> HIDE DEF name, B, Row
          <6> QED  BY <5>6, <5>7, FewerAreLeft
        <5>2. Cardinality(B \ (s \cup {name})) < n  BY <2>2, <5>1
        <5>3. g[s \cup {name}] = Row(g, s \cup {name})  BY <5>1, <5>2
        <5> HIDE DEF Row
        <5>4. g[s \cup {name}] = h[s \cup {name}]  BY <2>1, <5>1, <5>3
        <5> QED  BY <5>4 DEF Scanning
      <4> QED  BY <4>1, <4>2
    <3>2. Row(g, s) = Row(h, s)  BY <3>1
    <3> HIDE DEF Row
    <3> QED  BY <2>1, <3>2
  <2>3. Right(h, n + 1)
    <3> HIDE DEF Row
    <3> QED  BY <2>1, <2>2
  <2> HIDE DEF Right
  <2> QED  BY <2>3
<1> HIDE DEF P
<1>3. Nat \subseteq P  BY <1>1, <1>2, SetInduction
<1>4. Cardinality(B) + 1 \in Nat
  BY FS_CardinalityType
<1>5. PICK g : Right(g, Cardinality(B) + 1)
  <2> HIDE DEF Right
  <2> QED  BY <1>3, <1>4 DEF P
<1>6. ASSUME NEW s \in SUBSET B PROVE g[s] = Row(g, s)
  <2>1. /\ Cardinality(B \ s) \in Nat /\ Cardinality(B) \in Nat
        /\ Cardinality(B \ s) <= Cardinality(B)
    <3>1. B \ s \in SUBSET B  OBVIOUS
    <3> QED  BY <3>1, FS_Subset, FS_CardinalityType
  <2>2. Cardinality(B \ s) < Cardinality(B) + 1  BY <2>1
  <2> QED  BY <1>5, <2>2
<1>7. g = [s \in SUBSET B |-> Row(g, s)]
  <2>1. g = [s \in SUBSET B |-> g[s]]  BY <1>5
  <2> HIDE DEF Row
  <2> QED  BY <1>6, <2>1
<1>8. Scans(r, g)  BY <1>7 DEF Scans
<1> HIDE DEF Row, Right
<1> QED  BY <1>8 DEF Answers

LEMMA ScanAnswers ==
    ASSUME NEW r, NEW path PROVE EmbedStreams(r, path) = Answers(r)[{}][path]
  BY DEF EmbedStreams, Answers, Scans, Scanning, LastEntries, MetaNames

(* The scan takes p for streaming whatever it went through before, unless   *)
(* it met one of the meta.names that p leads to.                           *)
StreamsYes(r, p) ==
    \A seen \in SUBSET MetaNames(r) :
        (\A q \in ({p} \cup Reached(r, Contained(r, p))) \cap Embeds(r, "pipeline") :
            r.comps[q].name \notin seen)
        => Answers(r)[seen][p] = "yes"

(* An entry that streams.                                                  *)
Streams(r, e) ==
    /\ e.form = "composition" /\ e.name \in DOMAIN r.comps
    /\ IF e.name \in Embeds(r, "pipeline") THEN StreamsYes(r, e.name)
                                           ELSE r.comps[e.name].streamable = TRUE

(* No pipeline embeds, at any depth, another one of its own meta.name.      *)
NestedApart(r) ==
    \A p, q \in Embeds(r, "pipeline") :
        q \in Reached(r, Contained(r, p)) /\ r.comps[p].name = r.comps[q].name => p = q

LEMMA PipelinesNamed ==
    ASSUME NEW r, IsFiniteSet(DOMAIN r.comps) PROVE IsFiniteSet(MetaNames(r))
<1> DEFINE Paths == Embeds(r, "pipeline")
           h == [p \in Paths |-> r.comps[p].name]
<1>1. IsFiniteSet(Paths)
  <2>1. Paths \subseteq DOMAIN r.comps  BY DEF Embeds
  <2> QED  BY <2>1, FS_Subset
<1>2. MetaNames(r) = {h[p] : p \in Paths}  BY DEF MetaNames
<1>3. h = [p \in Paths |-> h[p]]  OBVIOUS
<1> HIDE DEF h, Paths
<1>4. IsFiniteSet({h[p] : p \in Paths})  BY <1>1, <1>3, ImageIsFinite
<1> QED  BY <1>2, <1>4

LEMMA StreamsOn ==
    ASSUME NEW r, IsFiniteSet(DOMAIN r.comps), Listed(r), NestedApart(r),
           NEW p \in Embeds(r, "pipeline"), IsList(r.comps[p].nodes),
           p \notin Reached(r, Contained(r, p)),
           NEW ns, ns = Substituted(r, r.comps[p].nodes), Cyclic \notin ToSet(ns),
           NEW i \in DOMAIN ns, Streams(r, ns[i]),
           \A j \in DOMAIN ns : j > i => IsHook(r, ns[j])
    PROVE  StreamsYes(r, p)
<1> DEFINE C == Reached(r, Contained(r, p))
           Paths == Embeds(r, "pipeline")
           e == ns[i]
           name == r.comps[p].name
<1>1. IsList(ns) /\ DOMAIN ns = 1..Len(ns) /\ Len(ns) \in Nat
  BY SubstitutedHolds, ListFacts
<1>2. \A q \in DOMAIN r.comps : Contained(r, q) \subseteq DOMAIN r.comps
  BY DEF Contained, Named
<1>3. p \in DOMAIN r.comps /\ r.comps[p].kind = "pipeline"  BY DEF Embeds
<1>4. /\ Contained(r, p) \subseteq C /\ C \subseteq DOMAIN r.comps
      /\ \A q \in C : Contained(r, q) \subseteq C
  BY <1>2, <1>3, ReachedCloses
<1>5. Scans(r, Answers(r))  BY PipelinesNamed, ScanExists
<1>6. \A seen \in SUBSET MetaNames(r) : \A q \in Paths :
        Answers(r)[seen][q] = Scanning(r, Answers(r), seen, q)
  <2> DEFINE h == Answers(r)
  <2>1. Scans(r, h)  BY <1>5
  <2> HIDE DEF h
  <2>2. \A seen \in SUBSET MetaNames(r) : \A q \in Paths :
            h[seen][q] = Scanning(r, h, seen, q)
    BY <2>1 DEF Scans
  <2> QED  BY <2>2 DEF h
<1>7. LastEntries(r, ns) = {i}
  <2>1. ~IsHook(r, e)  BY DEF IsHook, Streams
  <2>2. \A j \in LastEntries(r, ns) : j = i
    <3> SUFFICES ASSUME NEW j \in LastEntries(r, ns), j # i PROVE FALSE  OBVIOUS
    <3>1. j \in DOMAIN ns /\ ~IsHook(r, ns[j]) /\ (i > j => IsHook(r, ns[i]))
      BY DEF LastEntries
    <3>2. j > i \/ i > j  BY <1>1, <3>1
    <3> QED  BY <2>1, <3>1, <3>2
  <2>3. i \in LastEntries(r, ns)  BY <2>1 DEF LastEntries
  <2> QED  BY <2>2, <2>3
<1>8. (CHOOSE j \in LastEntries(r, ns) : TRUE) = i  BY <1>7
<1>9. e.name \in C
  <2>1. Contained(r, p) = Named(r, r.comps[p].nodes)  BY <1>3 DEF Contained
  <2>2. e \in ToSet(ns)  BY <1>1, ListFacts
  <2>3. EntryFinished(r, C, e)
    <3> HIDE DEF C, e
    <3> QED  BY <1>4, <2>1, <2>2, SubstitutedLeads
  <2> QED  BY <2>3 DEF EntryFinished, Streams
<1>10. SUFFICES ASSUME NEW seen \in SUBSET MetaNames(r),
                       \A q \in ({p} \cup C) \cap Paths : r.comps[q].name \notin seen
                PROVE  Answers(r)[seen][p] = "yes"
  BY DEF StreamsYes
<1>11. name \notin seen /\ name \in MetaNames(r)  BY <1>10 DEF MetaNames
<1>12. Answers(r)[seen][p] = Scanning(r, Answers(r), seen, p)  BY <1>6
<1>13. /\ e.form = "composition" /\ e.name \in DOMAIN r.comps
       /\ e.name \notin Paths => r.comps[e.name].streamable
       /\ e.name \in Paths => StreamsYes(r, e.name)
  BY DEF Streams
<1>14. Scanning(r, Answers(r), seen, p) =
        IF e.name \in Paths THEN Answers(r)[seen \cup {name}][e.name] ELSE "yes"
  <2> DEFINE l == LastEntries(r, ns)
             c == CHOOSE j \in l : TRUE
  <2>1. l # {} /\ c = i  BY <1>7, <1>8
  <2>2. Scanning(r, Answers(r), seen, p) =
            IF ns[c].form = "handler" \/ ns[c].name \notin DOMAIN r.comps THEN "no"
            ELSE IF ns[c].name \in Paths THEN Answers(r)[seen \cup {name}][ns[c].name]
            ELSE IF r.comps[ns[c].name].streamable THEN "yes" ELSE "no"
    <3> HIDE DEF Paths
    <3> QED  BY <1>11, <2>1 DEF Scanning, Paths
  <2> HIDE DEF l, c, name
  <2> QED  BY <1>13, <2>1, <2>2
<1>15. CASE e.name \in Paths
  <2> DEFINE q == e.name
             deeper == Reached(r, Contained(r, q))
  <2>1. deeper \subseteq C
    <3> HIDE DEF C
    <3> QED  BY <1>4, <1>9, ReachedStaysIn
  <2>2. ASSUME NEW x \in ({q} \cup deeper) \cap Paths PROVE r.comps[x].name \notin seen \cup {name}
    <3>1. x \in C /\ x \in Paths  BY <1>9, <2>1, <2>2
    <3>2. x # p  BY <3>1
    <3> QED  BY <1>10, <3>1, <3>2 DEF NestedApart
  <2>3. seen \cup {name} \in SUBSET MetaNames(r)  BY <1>11
  <2> HIDE DEF name, C, deeper, q
  <2> QED  BY <1>12, <1>13, <1>14, <1>15, <2>2, <2>3 DEF StreamsYes, deeper, q
<1> HIDE DEF name, C
<1> QED  BY <1>12, <1>14, <1>15

-----------------------------------------------------------------------------
(* What the three moves of the stack leave of its frames.                   *)
LEMMA SwappedFrames ==
    ASSUME NEW r, NEW s, StackHolds(r, s), s # <<>>, NEW g
    PROVE  LET t == [s EXCEPT ![Len(s)] = g]
           IN  /\ DOMAIN t = DOMAIN s /\ Len(t) = Len(s) /\ Len(s) \in DOMAIN s
               /\ \A k \in DOMAIN s : t[k] = IF k = Len(s) THEN g ELSE s[k]
<1>1. PICK X : s \in Seq(X)  BY DEF StackHolds
<1>2. s \in Seq(X \cup {g}) /\ Len(s) \in DOMAIN s  BY <1>1, EmptySeq
<1> QED  BY <1>2

LEMMA PushedFrames ==
    ASSUME NEW r, NEW s, StackHolds(r, s), NEW h
    PROVE  LET t == Append(s, h)
           IN  /\ DOMAIN t = DOMAIN s \cup {Len(s) + 1} /\ Len(t) = Len(s) + 1
               /\ Len(s) + 1 \notin DOMAIN s
               /\ \A k \in DOMAIN t : t[k] = IF k = Len(t) THEN h ELSE s[k]
<1>1. PICK X : s \in Seq(X)  BY DEF StackHolds
<1>2. s \in Seq(X \cup {h}) /\ Len(s) \in Nat /\ DOMAIN s = 1..Len(s)  BY <1>1
<1> DEFINE t == Append(s, h)
<1>3. /\ DOMAIN t = DOMAIN s \cup {Len(s) + 1} /\ Len(t) = Len(s) + 1
      /\ t[Len(s) + 1] = h /\ \A k \in DOMAIN s : t[k] = s[k]
  BY <1>2
<1>4. Len(s) + 1 \notin DOMAIN s  BY <1>2
<1> QED  BY <1>3, <1>4

LEMMA BelowTheCaller ==
    ASSUME NEW n \in Nat, n >= 2
    PROVE  /\ n - 2 \in Nat /\ (n - 2) + 1 = n - 1
           /\ \A k \in 1..((n - 2) + 1) : k \in 1..n /\ k # n
           /\ \A k \in 1..((n - 2) + 1) : k # (n - 2) + 1 => k \in 1..(n - 2)
  OBVIOUS

LEMMA PoppedFrames ==
    ASSUME NEW r, NEW s, StackHolds(r, s), s # <<>>, Len(s) # 1, NEW g
    PROVE  LET t == Append(SubSeq(s, 1, Len(s) - 2), g)
           IN  /\ Len(t) = Len(s) - 1
               /\ \A k \in DOMAIN t : /\ k \in DOMAIN s /\ k # Len(s)
                                      /\ t[k] = IF k = Len(t) THEN g ELSE s[k]
<1>1. PICK X : s \in Seq(X)  BY DEF StackHolds
<1>2. s \in Seq(X \cup {g}) /\ Len(s) \in Nat /\ Len(s) >= 2 /\ DOMAIN s = 1..Len(s)
  <2>1. s \in Seq(X \cup {g}) /\ Len(s) \in Nat /\ DOMAIN s = 1..Len(s)  BY <1>1
  <2>2. Len(s) # 0  BY <2>1, EmptySeq
  <2> QED  BY <2>1, <2>2
<1> DEFINE m == Len(s) - 2
           b == SubSeq(s, 1, m)
<1>3. b \in Seq(X \cup {g}) /\ Len(b) = m /\ m \in Nat /\ \A k \in 1..m : b[k] = s[k]
  BY <1>2, SubSeqProperties
<1> DEFINE t == Append(b, g)
<1> HIDE DEF b
<1>4. /\ Len(t) = m + 1 /\ DOMAIN t = 1..(m + 1) /\ t[m + 1] = g
      /\ \A k \in 1..m : t[k] = s[k]
  BY <1>3
<1> HIDE DEF t
<1>5. \A k \in 1..(m + 1) : k \in DOMAIN s /\ k # Len(s) /\ (k # m + 1 => k \in 1..m)
  BY <1>2, BelowTheCaller
<1>6. m + 1 = Len(s) - 1  BY <1>2
<1> HIDE DEF m
<1>7. \A k \in DOMAIN t : /\ k \in DOMAIN s /\ k # Len(s)
                          /\ t[k] = IF k = Len(t) THEN g ELSE s[k]
  BY <1>4, <1>5
<1> QED  BY <1>4, <1>6, <1>7 DEF t, b, m

-----------------------------------------------------------------------------
(* A frame without a fault has resolved what it has gone through, and a node *)
(* of it that streams has nothing but hooks behind it, in the declaration   *)
(* as in the flat sequence.                                                *)
Resolved(r, e) ==
    \/ e.form = "handler" /\ e.name \in DOMAIN r.handlers
    \/ e.form = "composition" /\ e.name \in DOMAIN r.comps

StreamsTraced(r, f) ==
    f.faults = {} =>
        /\ \A j \in DOMAIN f.nodes : j < f.at => Resolved(r, f.nodes[j])
        /\ \A k \in DOMAIN f.flat : f.flat[k].streams =>
            /\ \E i \in DOMAIN f.nodes : /\ i < f.at /\ Streams(r, f.nodes[i])
                                         /\ ~NonHookFollows(r, f.nodes, i)
            /\ \A m \in DOMAIN f.flat : m > k => f.flat[m].kind = "hook"

(* A frame that waits for an embed has seen that the embed may stream.      *)
EmbedPlaced(r, f) ==
    f.faults = {} /\ EmbedStreams(r, f.nodes[f.at].name) = "yes" => ~NonHookFollows(r, f.nodes, f.at)

StreamsHold(r, s) ==
    \A k \in DOMAIN s : StreamsTraced(r, s[k]) /\ (k # Len(s) => EmbedPlaced(r, s[k]))

UnitsStream == \A d \in done : StreamableTerminal(d.graph)
StreamInv == CyclesInv /\ (NestedApart(reg) => StreamsHold(reg, stack) /\ UnitsStream)

(* The next entry of a frame.                                              *)
LEMMA StreamsGoOn ==
    ASSUME NEW r, NEW f, StreamsTraced(r, f), IsList(f.nodes), IsList(f.flat),
           f.at \in DOMAIN f.nodes,
           NEW more, IsList(more),
           NEW g, g.nodes = f.nodes, g.at = f.at + 1, g.flat = f.flat \o more,
           g.faults = {} =>
               /\ f.faults = {} /\ Resolved(r, f.nodes[f.at])
               /\ IsHook(r, f.nodes[f.at]) => \A m \in DOMAIN more : more[m].kind = "hook"
               /\ \A m \in DOMAIN more : more[m].streams =>
                    /\ m = Len(more) /\ Streams(r, f.nodes[f.at])
                    /\ ~NonHookFollows(r, f.nodes, f.at)
    PROVE  StreamsTraced(r, g)
<1> SUFFICES ASSUME g.faults = {} PROVE StreamsTraced(r, g)  BY DEF StreamsTraced
<1>1. /\ DOMAIN f.nodes = 1..Len(f.nodes) /\ Len(f.nodes) \in Nat
      /\ DOMAIN f.flat = 1..Len(f.flat) /\ Len(f.flat) \in Nat
      /\ DOMAIN more = 1..Len(more) /\ Len(more) \in Nat
  BY ListFacts
<1>2. f.at \in Nat /\ \A j \in DOMAIN f.nodes : j < g.at => j < f.at \/ j = f.at
  BY <1>1
<1>9. \A j \in DOMAIN f.nodes : j < f.at => j < g.at
  BY <1>1
<1>10. f.at < g.at  BY <1>2
<1>3. \A j \in DOMAIN g.nodes : j < g.at => Resolved(r, g.nodes[j])
  BY <1>2 DEF StreamsTraced
<1> DEFINE n == Len(f.flat)
<1>4. /\ DOMAIN g.flat = 1..(n + Len(more))
      /\ \A k \in 1..n : g.flat[k] = f.flat[k]
      /\ \A k \in DOMAIN more : g.flat[n + k] = more[k]
  <2>1. f.flat \in Seq(ToSet(f.flat) \cup ToSet(more)) /\ more \in Seq(ToSet(f.flat) \cup ToSet(more))
    <3>1. f.flat \in Seq(ToSet(f.flat)) /\ more \in Seq(ToSet(more))  BY DEF IsList
    <3> QED  BY <3>1
  <2> QED  BY <2>1
<1>5. \A k \in DOMAIN g.flat : k \in 1..n \/ (k - n \in DOMAIN more /\ k = n + (k - n))
  BY <1>1, <1>4
<1>6. ASSUME NEW k \in DOMAIN g.flat, g.flat[k].streams, k \in 1..n
      PROVE  /\ \E i \in DOMAIN g.nodes : /\ i < g.at /\ Streams(r, g.nodes[i])
                                          /\ ~NonHookFollows(r, g.nodes, i)
             /\ \A m \in DOMAIN g.flat : m > k => g.flat[m].kind = "hook"
  <2>1. k \in DOMAIN f.flat /\ f.flat[k].streams  BY <1>1, <1>4, <1>6
  <2>2. PICK i \in DOMAIN f.nodes : /\ i < f.at /\ Streams(r, f.nodes[i])
                                    /\ ~NonHookFollows(r, f.nodes, i)
    BY <2>1 DEF StreamsTraced
  <2>3. \A m \in DOMAIN f.flat : m > k => f.flat[m].kind = "hook"
    BY <2>1 DEF StreamsTraced
  <2>4. IsHook(r, f.nodes[f.at])
    <3>1. f.at > i  BY <1>1, <2>2
    <3> QED  BY <2>2, <3>1 DEF NonHookFollows, Resolved
  <2>5. ASSUME NEW m \in DOMAIN g.flat, m > k PROVE g.flat[m].kind = "hook"
    <3>1. CASE m \in 1..n  BY <1>1, <1>4, <2>3, <2>5, <3>1
    <3>2. CASE m \notin 1..n
      <4>1. m - n \in DOMAIN more /\ g.flat[m] = more[m - n]  BY <1>4, <1>5, <3>2
      <4> QED  BY <2>4, <4>1
    <3> QED  BY <3>1, <3>2
  <2> QED  BY <1>9, <2>2, <2>5
<1>7. ASSUME NEW k \in DOMAIN g.flat, g.flat[k].streams, k \notin 1..n
      PROVE  /\ \E i \in DOMAIN g.nodes : /\ i < g.at /\ Streams(r, g.nodes[i])
                                          /\ ~NonHookFollows(r, g.nodes, i)
             /\ \A m \in DOMAIN g.flat : m > k => g.flat[m].kind = "hook"
  <2>1. k - n \in DOMAIN more /\ g.flat[k] = more[k - n]  BY <1>4, <1>5, <1>7
  <2>2. k - n = Len(more) /\ Streams(r, f.nodes[f.at]) /\ ~NonHookFollows(r, f.nodes, f.at)
    BY <1>7, <2>1
  <2>3. \A m \in DOMAIN g.flat : ~(m > k)  BY <1>1, <1>4, <2>2
  <2> QED  BY <1>10, <2>2, <2>3
<1> QED  BY <1>3, <1>6, <1>7 DEF StreamsTraced

(* The moves of the stack.                                                 *)
StreamsNext == StreamsHold(reg, stack)' /\ UnitsStream'

LEMMA ReplaceStreams ==
    ASSUME IInv, stack # <<>>, StreamsHold(reg, stack), UnitsStream,
           UNCHANGED <<reg, outcome, done>>, NEW g, Replace(g), StreamsTraced(reg, g)
    PROVE  StreamsNext
<1> DEFINE t == [stack EXCEPT ![Len(stack)] = g]
<1>1. /\ DOMAIN t = DOMAIN stack /\ Len(t) = Len(stack)
      /\ \A k \in DOMAIN stack : t[k] = IF k = Len(stack) THEN g ELSE stack[k]
  BY SwappedFrames DEF IInv
<1>2. stack' = t  BY DEF Replace
<1> HIDE DEF t
<1>3. StreamsHold(reg, t)  BY <1>1 DEF StreamsHold
<1> QED  BY <1>2, <1>3 DEF StreamsNext, UnitsStream

LEMMA ReturnStreams ==
    ASSUME IInv, stack # <<>>, Len(stack) # 1, StreamsHold(reg, stack), UnitsStream', reg' = reg,
           NEW g, StreamsTraced(reg, g), stack' = Append(SubSeq(stack, 1, Len(stack) - 2), g)
    PROVE  StreamsNext
<1> DEFINE t == Append(SubSeq(stack, 1, Len(stack) - 2), g)
<1>1. \A k \in DOMAIN t : /\ k \in DOMAIN stack /\ k # Len(stack)
                          /\ t[k] = IF k = Len(t) THEN g ELSE stack[k]
  BY PoppedFrames DEF IInv
<1>2. stack' = t  OBVIOUS
<1> HIDE DEF t
<1>3. StreamsHold(reg, t)  BY <1>1 DEF StreamsHold
<1> QED  BY <1>2, <1>3 DEF StreamsNext

LEMMA NoStreams == ASSUME NEW r PROVE StreamsHold(r, <<>>)
<1>1. DOMAIN <<>> = {}  OBVIOUS
<1> QED  BY <1>1 DEF StreamsHold

LEMMA RaiseStreams ==
    ASSUME IInv, stack # <<>>, StreamsHold(reg, stack), UnitsStream,
           NEW faults, faults # {}, Raise(faults)
    PROVE  StreamsNext
<1>1. CASE Len(stack) = 1
  <2>1. stack' = <<>> /\ UNCHANGED <<reg, done>>  BY <1>1 DEF Raise
  <2> QED  BY <2>1, NoStreams DEF StreamsNext, UnitsStream
<1>2. CASE Len(stack) # 1
  <2> DEFINE caller == stack[Len(stack) - 1]
             g == [caller EXCEPT !.faults = @ \cup faults, !.at = @ + 1]
  <2>1. DOMAIN caller = FrameFields  BY <1>2, CallerHolds DEF IInv, FrameHolds
  <2>2. /\ stack' = Append(SubSeq(stack, 1, Len(stack) - 2), g)
        /\ UNCHANGED <<reg, outcome, done>>
    BY <1>2 DEF Raise
  <2> HIDE DEF caller
  <2>3. g.faults # {}  BY <2>1 DEF FrameFields
  <2> HIDE DEF g
  <2>4. StreamsTraced(reg, g)  BY <2>3 DEF StreamsTraced
  <2>5. UnitsStream'  BY <2>2 DEF UnitsStream
  <2> QED  BY <1>2, <2>2, <2>4, <2>5, ReturnStreams
<1> QED  BY <1>1, <1>2

LEMMA SkipStreams ==
    ASSUME IInv, stack # <<>>, StreamsHold(reg, stack), UnitsStream,
           NEW faults, faults # {}, SkipNode(faults)
    PROVE  StreamsNext
<1> DEFINE g == [Top EXCEPT !.faults = @ \cup faults, !.at = @ + 1]
<1>1. Replace(g) /\ UNCHANGED <<reg, outcome, done>>  BY DEF SkipNode
<1>2. DOMAIN Top = FrameFields  BY TopHolds DEF IInv, FrameHolds
<1>3. g.faults # {}  BY <1>2 DEF FrameFields
<1> HIDE DEF g
<1>4. StreamsTraced(reg, g)  BY <1>3 DEF StreamsTraced
<1> QED  BY <1>1, <1>4, ReplaceStreams

-----------------------------------------------------------------------------
(* One lemma per action, of a compilation as StreamInv has it.              *)
Streaming == CyclesInv /\ NestedApart(reg) /\ StreamsHold(reg, stack) /\ UnitsStream

LEMMA TopStreams ==
    ASSUME Streaming, stack # <<>>
    PROVE  /\ StreamsTraced(reg, Top) /\ DOMAIN Top = FrameFields /\ IsList(Top.flat)
           /\ Top.pc # "substitute" => IsList(Top.nodes)
<1>1. IInv /\ StackHolds(reg, stack)  BY DEF Streaming, CyclesInv, IInv
<1>2. PICK S : Holding(S)  BY DEF Streaming, CyclesInv
<1>3. FrameHolds(reg, Top) /\ Len(stack) \in DOMAIN stack  BY <1>1, TopHolds
<1>4. StreamsTraced(reg, Top)  BY <1>3 DEF Streaming, StreamsHold, Top
<1>5. Top.pc # "substitute" => IsList(Top.nodes)  BY <1>1, <1>2, TopFinished
<1> QED  BY <1>3, <1>4, <1>5 DEF FrameHolds, FlatHolds

LEMMA SubstituteStreams == ASSUME Streaming, Substitute PROVE StreamsNext
<1>1. /\ stack # <<>> /\ Top.pc = "substitute" /\ IInv
      /\ StreamsHold(reg, stack) /\ UnitsStream
  BY DEF Substitute, Streaming, CyclesInv
<1>2. CASE Cyclic \in ToSet(Substituted(reg, Top.decl.nodes))
  <2>1. Raise({Fault(Top, "-", "composition_cycle", <<"bundle">>)})
    BY <1>2 DEF Substitute
  <2> QED  BY <1>1, <2>1, RaiseStreams
<1>3. CASE Cyclic \notin ToSet(Substituted(reg, Top.decl.nodes))
  <2> DEFINE g == Started(Top)
  <2>1. Replace(g) /\ UNCHANGED <<reg, outcome, done>>
    BY <1>3 DEF Substitute
  <2>2. DOMAIN Top = FrameFields /\ Top.flat = <<>>
    BY <1>1, TopHolds DEF IInv, FrameHolds
  <2>3. Top.at = 1 /\ IsList(Top.decl.nodes)
    <3>1. PICK S : Holding(S)  BY DEF Streaming, CyclesInv
    <3> QED  BY <1>1, <3>1, TopFinished DEF FrameFinished
  <2>4. g.nodes = Substituted(reg, Top.decl.nodes) /\ g.at = 1 /\ g.flat = <<>>
    BY <2>2, <2>3, StartedFrames
  <2> HIDE DEF g
  <2>5. IsList(g.nodes)  BY <1>1, <2>3, <2>4, RegistryListed, SubstitutedHolds
  <2>6. \A j \in DOMAIN g.nodes : ~(j < g.at)
    <3>1. DOMAIN g.nodes = 1..Len(g.nodes) /\ Len(g.nodes) \in Nat  BY <2>5, ListFacts
    <3> QED  BY <2>4, <3>1
  <2>7. DOMAIN g.flat = {}  BY <2>4, EmptyList
  <2>8. StreamsTraced(reg, g)  BY <2>6, <2>7 DEF StreamsTraced
  <2> QED  BY <1>1, <2>1, <2>8, ReplaceStreams
<1> QED  BY <1>2, <1>3

LEMMA OneNode ==
    ASSUME NEW ns, IsList(ns), NEW n
    PROVE  /\ IsList(<<n>>) /\ Append(ns, n) = ns \o <<n>>
           /\ DOMAIN <<n>> = {1} /\ Len(<<n>>) = 1 /\ <<n>>[1] = n
<1>1. ns \in Seq(ToSet(ns))  BY DEF IsList
<1>2. ns \in Seq(ToSet(ns) \cup {n}) /\ <<n>> \in Seq({n})  BY <1>1
<1>3. IsList(<<n>>)  BY <1>2, ListOver
<1> QED  BY <1>2, <1>3

LEMMA FlattenHandlerStreams == ASSUME Streaming, FlattenHandler PROVE StreamsNext
<1>1. /\ stack # <<>> /\ Top.pc = "flatten" /\ Top.at \in DOMAIN Top.nodes
      /\ Entry.form = "handler" /\ Entry = Top.nodes[Top.at] /\ EntryOf(Top) = Entry
      /\ IInv /\ StreamsHold(reg, stack) /\ UnitsStream
  BY DEF FlattenHandler, Flattening, Streaming, CyclesInv, Entry, EntryOf
<1>2. CASE Entry.name \notin DOMAIN reg.handlers
  BY <1>1, <1>2, SkipStreams DEF FlattenHandler
<1>3. CASE Entry.name \in DOMAIN reg.handlers
  <2> DEFINE g == WithHandler(Top)
             n == HandlerNode(Entry, "outer", "-")
             more == <<n>>
  <2>1. Replace(g) /\ UNCHANGED <<reg, outcome, done>>
    BY <1>3 DEF FlattenHandler
  <2>2. /\ StreamsTraced(reg, Top) /\ DOMAIN Top = FrameFields /\ IsList(Top.flat)
        /\ IsList(Top.nodes)
    BY <1>1, TopStreams
  <2>3. NodeOfEntry(n, Entry, reg.handlers[Entry.name], "outer")
    BY <1>1, <1>3, HandlerNodes DEF IInv
  <2>4. /\ g.nodes = Top.nodes /\ g.at = Top.at + 1 /\ g.flat = Append(Top.flat, n)
        /\ g.faults = {} => Top.faults = {}
    BY <1>1, <2>2, WithHandlerFrames
  <2> HIDE DEF g, n
  <2>5. /\ IsList(more) /\ Append(Top.flat, n) = Top.flat \o more /\ DOMAIN more = {1}
        /\ more[1] = n
    BY <2>2, OneNode
  <2> HIDE DEF more
  <2>6. n.streams = FALSE /\ n.kind = reg.handlers[Entry.name].kind  BY <2>3 DEF NodeOfEntry
  <2>7. Resolved(reg, Entry) /\ (IsHook(reg, Entry) => n.kind = "hook")
    BY <1>1, <1>3, <2>6 DEF Resolved, IsHook
  <2>9. /\ g.flat = Top.flat \o more /\ IsList(more)
        /\ \A m \in DOMAIN more : ~more[m].streams
        /\ IsHook(reg, Entry) => \A m \in DOMAIN more : more[m].kind = "hook"
    BY <2>4, <2>5, <2>6, <2>7
  <2>10. g.faults = {} =>
            /\ Top.faults = {} /\ Resolved(reg, Top.nodes[Top.at])
            /\ IsHook(reg, Top.nodes[Top.at]) => \A m \in DOMAIN more : more[m].kind = "hook"
            /\ \A m \in DOMAIN more : more[m].streams =>
                    /\ m = Len(more) /\ Streams(reg, Top.nodes[Top.at])
                    /\ ~NonHookFollows(reg, Top.nodes, Top.at)
    BY <1>1, <2>4, <2>7, <2>9
  <2>11. g.nodes = Top.nodes /\ g.at = Top.at + 1 /\ Top.at \in DOMAIN Top.nodes
    BY <1>1, <2>4
  <2>8. StreamsTraced(reg, g)
    BY <2>2, <2>9, <2>10, <2>11, StreamsGoOn
  <2> QED  BY <1>1, <2>1, <2>8, ReplaceStreams
<1> QED  BY <1>2, <1>3

LEMMA SkipCompositionStreams == ASSUME Streaming, SkipComposition PROVE StreamsNext
<1>1. stack # <<>> /\ IInv /\ StreamsHold(reg, stack) /\ UnitsStream
  BY DEF SkipComposition, Flattening, Streaming, CyclesInv
<1> QED  BY <1>1, SkipStreams DEF SkipComposition

(* Of the nodes of a trainable composition only the last can stream.        *)
LEMMA TrainableStreamsLast ==
    ASSUME RegistryTyped(reg), NEW path, NEW t, TrainableTyped(t)
    PROVE  LET nodes == TrainableNodes(path, t)
           IN  IsList(nodes) /\ \A m \in DOMAIN nodes :
                    nodes[m].streams => m = Len(nodes) /\ t.streamable
<1> DEFINE nodes == TrainableNodes(path, t)
           own == OwnNode(path, t)
           G == PreNodes(path, t)
<1>1. PICK b \in Seq(G) : nodes = Append(b, own)
  BY TrainableNodesEnd DEF TrainableTyped
<1>2. \A n \in G : n.streams = FALSE
  <2> SUFFICES ASSUME NEW i \in DOMAIN t.pre, t.pre[i].name \in DOMAIN reg.handlers
               PROVE  PreNode(path, t, i).streams = FALSE
    BY DEF PreNodes
  <2> DEFINE m == PreNode(path, t, i)
  <2>1. NodeShaped(m) /\ m.kind \in {"transform", "service", "hook"}
    BY PreNodesHold
  <2> HIDE DEF m
  <2>2. m.streams = FALSE  BY <2>1 DEF NodeShaped
  <2> QED  BY <2>2 DEF m
<1>3. own.streams = t.streamable  BY DEF OwnNode, ScopeNode, FlatNode
<1> HIDE DEF own, G, nodes
<1>4. b \in Seq(G \cup {own})  BY <1>1
<1>5. nodes \in Seq(G \cup {own})  BY <1>1, <1>4
<1>6. IsList(nodes)  BY <1>5, ListOver
<1>7. Len(nodes) = Len(b) + 1 /\ DOMAIN nodes = DOMAIN b \cup {Len(b) + 1}
      /\ nodes[Len(b) + 1] = own /\ \A k \in DOMAIN b : nodes[k] = b[k] /\ b[k] \in G
  BY <1>1, <1>4
<1>8. \A m \in DOMAIN nodes : nodes[m].streams => m = Len(nodes) /\ t.streamable
  BY <1>2, <1>3, <1>7
<1> QED  BY <1>6, <1>8 DEF nodes

LEMMA FlattenTrainableStreams == ASSUME Streaming, FlattenTrainable PROVE StreamsNext
<1>1. /\ stack # <<>> /\ Top.pc = "flatten" /\ Top.at \in DOMAIN Top.nodes
      /\ Entry.form = "composition" /\ Entry = Top.nodes[Top.at] /\ EntryOf(Top) = Entry
      /\ Entry.name \in Embeds(reg, "trainable")
      /\ IInv /\ StreamsHold(reg, stack) /\ UnitsStream
  BY DEF FlattenTrainable, Flattens, Flattening, Streaming, CyclesInv, Entry, EntryOf
<1>2. /\ StreamsTraced(reg, Top) /\ DOMAIN Top = FrameFields /\ IsList(Top.flat)
      /\ IsList(Top.nodes)
  BY <1>1, TopStreams
<1> DEFINE t == reg.comps[Entry.name]
<1>3. RegistryTyped(reg) /\ TrainableTyped(t) /\ t.kind = "trainable"
  BY <1>1 DEF IInv, RegistryTyped, Embeds
<1>4. CASE BackendFault(t) # {}
  <2> DEFINE placed == StreamFaults(Top, t.streamable)
             broken == {Fault(Top, "A", x, <<"entry", Top.at>>) : x \in BackendFault(t)}
             g == [Top EXCEPT !.at = @ + 1, !.names = @ \cup {t.name},
                              !.faults = @ \cup placed \cup broken]
  <2>1. broken # {}  BY <1>4
  <2>2. Replace(g) /\ UNCHANGED <<reg, outcome, done>>
    BY <1>4 DEF FlattenTrainable
  <2> HIDE DEF placed, broken
  <2>3. g.faults # {}  BY <1>2, <2>1 DEF FrameFields
  <2> HIDE DEF g
  <2>4. StreamsTraced(reg, g)  BY <2>3 DEF StreamsTraced
  <2> QED  BY <1>1, <2>2, <2>4, ReplaceStreams
<1>5. CASE BackendFault(t) = {} /\ BrokenNull(t.config, Backend(t))
  <2>1. Raise({Fault(Top, "-", "malformed_declaration", <<"entry", Top.at>>)})
    BY <1>5 DEF FlattenTrainable
  <2> QED  BY <1>1, <2>1, RaiseStreams
<1>6. CASE BackendFault(t) = {} /\ ~BrokenNull(t.config, Backend(t))
  <2> DEFINE g == WithTrainable(Top)
             more == TrainableNodes(Entry.name, t)
  <2>1. Replace(g) /\ UNCHANGED <<reg, outcome, done>>
    BY <1>6 DEF FlattenTrainable
  <2>2. IsList(more) /\ \A m \in DOMAIN more : more[m].streams => m = Len(more) /\ t.streamable
    BY <1>3, TrainableStreamsLast
  <2>3. /\ g.nodes = Top.nodes /\ g.at = Top.at + 1 /\ g.flat = Top.flat \o more
        /\ g.faults = {} => Top.faults = {} /\ StreamFaults(Top, t.streamable) = {}
    BY <1>1, <1>2, WithTrainableFrames
  <2> HIDE DEF g, more
  <2>4. Resolved(reg, Entry) /\ ~IsHook(reg, Entry)
    BY <1>1 DEF Resolved, IsHook, Embeds
  <2>5. t.streamable => Streams(reg, Entry)
    BY <1>1, <1>3 DEF Streams, Embeds, TrainableTyped
  <2>6. g.faults = {} /\ t.streamable => ~NonHookFollows(reg, Top.nodes, Top.at)
    BY <2>3 DEF StreamFaults
  <2>7. StreamsTraced(reg, g)
    BY <1>1, <1>2, <2>2, <2>3, <2>4, <2>5, <2>6, StreamsGoOn
  <2> QED  BY <1>1, <2>1, <2>7, ReplaceStreams
<1> QED  BY <1>4, <1>5, <1>6

LEMMA FlattenEmbedStreams == ASSUME Streaming, FlattenEmbed PROVE StreamsNext
<1>1. /\ stack # <<>> /\ Top.pc = "flatten" /\ Top.at \in DOMAIN Top.nodes
      /\ EntryOf(Top) = Entry /\ EntryOf(Top) = Top.nodes[Top.at]
      /\ IInv /\ StreamsHold(reg, stack) /\ UnitsStream
  BY DEF FlattenEmbed, Flattens, Flattening, Streaming, CyclesInv, Entry, EntryOf
<1>2. StreamsTraced(reg, Top) /\ DOMAIN Top = FrameFields
  BY <1>1, TopStreams
<1> DEFINE p == reg.comps[Entry.name]
           streams == EmbedStreams(reg, Entry.name)
           cycle == EmbedCycleFaults(Top)
           seen == Seen(Top)
<1>3. cycle # {}  BY DEF EmbedCycleFaults
<1>4. /\ DOMAIN seen = FrameFields /\ seen.nodes = Top.nodes /\ seen.at = Top.at
      /\ seen.flat = Top.flat
      /\ seen.faults = {} => Top.faults = {} /\ StreamFaults(Top, streams = "yes") = {}
  BY <1>1, <1>2, SeenFrames
<1>10. seen.faults = {} /\ streams = "yes" => ~NonHookFollows(reg, Top.nodes, Top.at)
  BY <1>4 DEF StreamFaults
<1> HIDE DEF cycle, seen
<1> DEFINE g == [seen EXCEPT !.at = @ + 1, !.faults = @ \cup cycle]
<1>5. CASE streams = "raises"
  <2>1. Raise({Fault(Top, "-", "composition_cycle", <<"bundle">>)})
    BY <1>5 DEF FlattenEmbed
  <2> QED  BY <1>1, <2>1, RaiseStreams
<1>6. CASE streams # "raises" /\ OnStack(Entry.name)
  <2>1. Replace(g) /\ UNCHANGED <<reg, outcome, done>>
    BY <1>6 DEF FlattenEmbed, seen, cycle
  <2>2. g.faults # {}
    BY <1>3, <1>4 DEF FrameFields
  <2> HIDE DEF g
  <2>3. StreamsTraced(reg, g)  BY <2>2 DEF StreamsTraced
  <2> QED  BY <1>1, <2>1, <2>3, ReplaceStreams
<1>7. CASE streams # "raises" /\ ~OnStack(Entry.name)
  <2> DEFINE s == [stack EXCEPT ![Len(stack)] = seen]
             h == Frame(Entry.name, p)
             t == Append(s, h)
  <2>1. stack' = t /\ UNCHANGED <<reg, outcome, done>>
    BY <1>7 DEF FlattenEmbed, seen
  <2> HIDE DEF g
  <2>2. StreamsTraced(reg, seen)  BY <1>2, <1>4 DEF StreamsTraced
  <2>3. EmbedPlaced(reg, seen)
    BY <1>1, <1>4, <1>10 DEF EmbedPlaced
  <2>4. StreamsTraced(reg, h)
    BY EmptyList DEF StreamsTraced, Frame
  <2>5. /\ DOMAIN s = DOMAIN stack /\ Len(s) = Len(stack)
        /\ \A k \in DOMAIN stack : s[k] = IF k = Len(stack) THEN seen ELSE stack[k]
    BY <1>1, SwappedFrames DEF IInv
  <2>6. /\ DOMAIN t = DOMAIN stack \cup {Len(stack) + 1} /\ Len(t) = Len(stack) + 1
        /\ Len(stack) + 1 \notin DOMAIN stack
        /\ \A k \in DOMAIN t : t[k] = IF k = Len(t) THEN h ELSE s[k]
    <3>1. PICK X : stack \in Seq(X)  BY <1>1 DEF IInv, StackHolds
    <3>2. s \in Seq(X \cup {seen, h}) /\ h \in X \cup {seen, h}
      <4>1. stack \in Seq(X \cup {seen, h}) /\ Len(stack) \in DOMAIN stack
        BY <1>1, <3>1, TopHolds DEF IInv
      <4> QED  BY <4>1
    <3>3. Len(stack) \in Nat /\ DOMAIN stack = 1..Len(stack)  BY <3>1
    <3> HIDE DEF s, h
    <3>4. /\ DOMAIN t = DOMAIN s \cup {Len(s) + 1} /\ Len(t) = Len(s) + 1
          /\ t[Len(s) + 1] = h /\ \A k \in DOMAIN s : t[k] = s[k]
      BY <3>2
    <3>5. Len(stack) + 1 \notin DOMAIN stack  BY <3>3
    <3> HIDE DEF t
    <3> QED  BY <2>5, <3>4, <3>5
  <2> HIDE DEF s, h, t
  <2>7. StreamsHold(reg, t)
    <3> SUFFICES ASSUME NEW k \in DOMAIN t
                 PROVE  StreamsTraced(reg, t[k]) /\ (k # Len(t) => EmbedPlaced(reg, t[k]))
      BY DEF StreamsHold
    <3>1. CASE k = Len(t)  BY <2>4, <2>6, <3>1
    <3>2. CASE k # Len(t) /\ k = Len(stack)  BY <2>2, <2>3, <2>5, <2>6, <3>2
    <3>3. CASE k # Len(t) /\ k # Len(stack)  BY <1>1, <2>5, <2>6, <3>3 DEF StreamsHold
    <3> QED  BY <3>1, <3>2, <3>3
  <2> QED  BY <1>1, <2>1, <2>7 DEF StreamsNext, UnitsStream
<1> QED  BY <1>5, <1>6, <1>7

LEMMA CloseGroupAStreams == ASSUME Streaming, CloseGroupA PROVE StreamsNext
<1> DEFINE faults == Top.faults \cup ScopedMergeFaults(Top)
           g == [Top EXCEPT !.pc = "topology"]
<1>1. stack # <<>> /\ IInv /\ StreamsHold(reg, stack) /\ UnitsStream
  BY DEF CloseGroupA, Streaming, CyclesInv
<1>2. CASE faults # {}
  BY <1>1, <1>2, RaiseStreams DEF CloseGroupA
<1>3. CASE faults = {}
  <2>1. Replace(g) /\ UNCHANGED <<reg, outcome, done>>
    BY <1>3 DEF CloseGroupA
  <2>2. StreamsTraced(reg, Top) /\ DOMAIN Top = FrameFields  BY <1>1, TopStreams
  <2>3. g.nodes = Top.nodes /\ g.at = Top.at /\ g.flat = Top.flat /\ g.faults = Top.faults
    BY <2>2 DEF FrameFields
  <2> HIDE DEF g
  <2>4. StreamsTraced(reg, g)  BY <2>2, <2>3 DEF StreamsTraced
  <2> QED  BY <1>1, <2>1, <2>4, ReplaceStreams
<1> QED  BY <1>2, <1>3

LEMMA CheckTopologyStreams == ASSUME Streaming, CheckTopology PROVE StreamsNext
<1> DEFINE g == [Top EXCEPT !.pc = "coverage"]
<1>1. stack # <<>> /\ IInv /\ StreamsHold(reg, stack) /\ UnitsStream
  BY DEF CheckTopology, Streaming, CyclesInv
<1>2. CASE TopologyFaults(Top) # {}
  BY <1>1, <1>2, RaiseStreams DEF CheckTopology
<1>3. CASE TopologyFaults(Top) = {}
  <2>1. Replace(g) /\ UNCHANGED <<reg, outcome, done>>
    BY <1>3 DEF CheckTopology
  <2>2. StreamsTraced(reg, Top) /\ DOMAIN Top = FrameFields  BY <1>1, TopStreams
  <2>3. g.nodes = Top.nodes /\ g.at = Top.at /\ g.flat = Top.flat /\ g.faults = Top.faults
    BY <2>2 DEF FrameFields
  <2> HIDE DEF g
  <2>4. StreamsTraced(reg, g)  BY <2>2, <2>3 DEF StreamsTraced
  <2> QED  BY <1>1, <2>1, <2>4, ReplaceStreams
<1> QED  BY <1>2, <1>3

LEMMA CheckCoverageStreams == ASSUME Streaming, CheckCoverage PROVE StreamsNext
<1>1. stack # <<>> /\ IInv /\ StreamsHold(reg, stack) /\ UnitsStream
  BY DEF CheckCoverage, Streaming, CyclesInv
<1> QED  BY <1>1, RaiseStreams DEF CheckCoverage

(* What a call hands on streams only where the scan said so.                *)
LEMMA DeliveredStreams ==
    ASSUME Streaming, stack # <<>>, Top.pc = "coverage"
    PROVE  /\ StreamableTerminal(GraphOf(Top))
           /\ Len(stack) # 1 /\ StreamRoute(GraphOf(Top)) # 0 =>
                StreamsYes(reg, Top.path) /\ EmbedStreams(reg, Top.path) = "yes"
<1>1. IInv /\ StackHolds(reg, stack) /\ StreamsTraced(reg, Top)
  BY TopStreams DEF Streaming, CyclesInv, IInv
<1>2. PICK S : Holding(S)  BY DEF Streaming, CyclesInv
<1>3. /\ FrameFinished(reg, S, Top) /\ Top.decl = DeclOf(reg, Top.path) /\ IsList(Top.nodes)
  BY <1>1, <1>2, TopFinished
<1>4. /\ Top.faults = {} /\ Top.at \notin DOMAIN Top.nodes /\ Top.at \in Nat \ {0}
      /\ Top.nodes = Substituted(reg, Top.decl.nodes) /\ Cyclic \notin ToSet(Top.nodes)
  BY <1>3 DEF FrameFinished
<1>5. \A j \in DOMAIN Top.nodes : j < Top.at
  <2>1. DOMAIN Top.nodes = 1..Len(Top.nodes) /\ Len(Top.nodes) \in Nat  BY <1>3, ListFacts
  <2> QED  BY <1>4, <2>1
<1>6. /\ \A j \in DOMAIN Top.nodes : Resolved(reg, Top.nodes[j])
      /\ \A k \in DOMAIN Top.flat : Top.flat[k].streams =>
            /\ \E i \in DOMAIN Top.nodes : /\ Streams(reg, Top.nodes[i])
                                           /\ ~NonHookFollows(reg, Top.nodes, i)
            /\ \A m \in DOMAIN Top.flat : m > k => Top.flat[m].kind = "hook"
  BY <1>1, <1>4, <1>5 DEF StreamsTraced
<1> DEFINE gr == GraphOf(Top)
<1>7. /\ DOMAIN gr.nodes = DOMAIN Top.flat
      /\ \A k \in DOMAIN Top.flat : /\ gr.nodes[k].kind = Top.flat[k].kind
                                    /\ gr.nodes[k].streams = Top.flat[k].streams
  BY DEF GraphOf
<1> HIDE DEF gr
<1>8. StreamableTerminal(gr)
  BY <1>6, <1>7 DEF StreamableTerminal, Positions, Kind
<1>9. ASSUME Len(stack) # 1, StreamRoute(gr) # 0
      PROVE  StreamsYes(reg, Top.path) /\ EmbedStreams(reg, Top.path) = "yes"
  <2> DEFINE p == Top.path
  <2>1. p \in Embeds(reg, "pipeline")
    BY <1>1, <1>9, InnerPath DEF Top
  <2>2. p # "root" /\ Top.decl = reg.comps[p] /\ p \in DOMAIN reg.comps
    BY <1>1, <1>3, <2>1 DEF IInv, Embeds, DeclOf
  <2>3. PICK k \in DOMAIN Top.flat : Top.flat[k].streams
    BY <1>7, <1>9 DEF StreamRoute, Positions
  <2>4. PICK i \in DOMAIN Top.nodes : /\ Streams(reg, Top.nodes[i])
                                      /\ ~NonHookFollows(reg, Top.nodes, i)
    BY <1>6, <2>3
  <2>5. \A j \in DOMAIN Top.nodes : j > i => IsHook(reg, Top.nodes[j])
    BY <1>6, <2>4 DEF NonHookFollows, Resolved
  <2>6. /\ Listed(reg) /\ IsFiniteSet(DOMAIN reg.comps) /\ IsList(reg.comps[p].nodes)
    BY <1>1, <2>1, RegistryListed
  <2>7. p \notin Reached(reg, Contained(reg, p))
    <3>1. PICK N : Closed(reg, N) /\ Founded(reg, N) /\ Named(reg, Top.decl.nodes) \subseteq N
      BY <1>1, <1>2, DeliveredFinished
    <3>2. Contained(reg, p) \subseteq N
      BY <2>1, <2>2, <3>1 DEF Contained, Embeds
    <3>3. Closed(reg, N \cup {p}) /\ Founded(reg, N \cup {p})
      BY <2>2, <3>1, <3>2, FoundedOneMore
    <3> QED  BY <2>6, <3>3, FoundedIsAcyclic
  <2>8. NestedApart(reg)  BY DEF Streaming
  <2>9. StreamsYes(reg, p)
    BY <1>4, <2>1, <2>2, <2>4, <2>5, <2>6, <2>7, <2>8, StreamsOn
  <2>10. Answers(reg)[{}][p] = "yes"
    <3>1. {} \in SUBSET MetaNames(reg)  OBVIOUS
    <3> QED  BY <2>9, <3>1 DEF StreamsYes
  <2> QED  BY <2>9, <2>10, ScanAnswers
<1> QED  BY <1>8, <1>9 DEF gr

LEMMA DeliverStreams == ASSUME Streaming, Deliver PROVE StreamsNext
<1>1. /\ stack # <<>> /\ Top.pc = "coverage" /\ reg' = reg /\ done' = done \cup {Unit(Top)}
      /\ IInv /\ StreamsHold(reg, stack) /\ UnitsStream
  BY DEF Deliver, Streaming, CyclesInv
<1>2. StreamableTerminal(GraphOf(Top))  BY <1>1, DeliveredStreams
<1>3. UnitsStream'
  <2>1. Unit(Top).graph = GraphOf(Top)  BY DEF Unit
  <2> QED  BY <1>1, <1>2, <2>1 DEF UnitsStream
<1>4. CASE Len(stack) = 1
  <2>1. stack' = <<>>  BY <1>4 DEF Deliver
  <2> QED  BY <1>1, <1>3, <2>1, NoStreams DEF StreamsNext
<1>5. CASE Len(stack) # 1
  <2> DEFINE caller == stack[Len(stack) - 1]
             streams == StreamRoute(GraphOf(Top)) # 0
             node == EmbedNode(Top.path, Top.decl, streams)
  <2>0. node.streams = streams /\ node.kind = "pipeline"  BY DEF EmbedNode, FlatNode
  <2>12. streams => StreamsYes(reg, Top.path) /\ EmbedStreams(reg, Top.path) = "yes"
    BY <1>1, <1>5, DeliveredStreams
  <2>11. stack' = Append(SubSeq(stack, 1, Len(stack) - 2),
                         [caller EXCEPT !.flat = Append(@, node), !.at = @ + 1])
    BY <1>5 DEF Deliver
  <2> HIDE DEF node, streams
  <2> DEFINE g == [caller EXCEPT !.flat = Append(@, node), !.at = @ + 1]
             more == <<node>>
  <2>1. PICK S : Holding(S)  BY DEF Streaming, CyclesInv
  <2>2. /\ DOMAIN caller = FrameFields /\ IsList(caller.nodes) /\ WaitsFor(caller, Top.path)
    BY <1>1, <1>5, <2>1, CallerFinished
  <2>3. IsList(caller.flat)
    BY <1>1, <1>5, CallerHolds DEF IInv, FrameHolds, FlatHolds
  <2>4. StreamsTraced(reg, caller) /\ EmbedPlaced(reg, caller)
    <3>1. PICK X : stack \in Seq(X)  BY <1>1 DEF IInv, StackHolds
    <3>2. Len(stack) \in Nat /\ Len(stack) # 0 /\ DOMAIN stack = 1..Len(stack)
      BY <1>1, <3>1, EmptySeq
    <3>3. Len(stack) - 1 \in DOMAIN stack /\ Len(stack) - 1 # Len(stack)
      BY <1>5, <3>2, JustBelowTheTop
    <3> QED  BY <1>1, <3>3 DEF StreamsHold
  <2>5. Top.path \in Embeds(reg, "pipeline")
    BY <1>1, <1>5, InnerPath DEF IInv, Top
  <2> HIDE DEF caller
  <2>6. /\ g.nodes = caller.nodes /\ g.at = caller.at + 1 /\ g.faults = caller.faults
        /\ g.flat = Append(caller.flat, node)
    BY <2>2 DEF FrameFields
  <2>7. stack' = Append(SubSeq(stack, 1, Len(stack) - 2), g)  BY <2>11
  <2> HIDE DEF g
  <2>8. /\ IsList(more) /\ g.flat = caller.flat \o more /\ Len(more) = 1
        /\ \A m \in DOMAIN more : m = 1 /\ more[m] = node
    BY <2>3, <2>6, OneNode
  <2> HIDE DEF more
  <2>9. /\ caller.at \in DOMAIN caller.nodes /\ caller.nodes[caller.at].form = "composition"
        /\ caller.nodes[caller.at].name = Top.path
    BY <2>2 DEF WaitsFor
  <2>10. /\ Resolved(reg, caller.nodes[caller.at]) /\ ~IsHook(reg, caller.nodes[caller.at])
         /\ streams => Streams(reg, caller.nodes[caller.at])
    BY <2>5, <2>9, <2>12 DEF Resolved, IsHook, Streams, Embeds
  <2>13. caller.faults = {} /\ streams => ~NonHookFollows(reg, caller.nodes, caller.at)
    BY <2>4, <2>9, <2>12 DEF EmbedPlaced
  <2>14. \A m \in DOMAIN more : m = Len(more) /\ more[m].streams = streams
    BY <2>0, <2>8
  <2>15. StreamsTraced(reg, g)
    BY <2>2, <2>3, <2>4, <2>6, <2>8, <2>9, <2>10, <2>13, <2>14, StreamsGoOn
  <2> QED  BY <1>1, <1>3, <1>5, <2>7, <2>15, ReturnStreams
<1> QED  BY <1>4, <1>5

LEMMA StreamInvInit == Beginning => StreamInv
<1> SUFFICES ASSUME Beginning PROVE StreamInv  OBVIOUS
<1>1. CyclesInv  BY CyclesInvInit
<1> DEFINE f == Frame("root", reg.root)
<1>2. stack = <<f>> /\ done = {}  BY DEF Beginning
<1>3. StreamsTraced(reg, f)  BY EmptyList DEF StreamsTraced, Frame
<1> HIDE DEF f
<1>4. Len(<<f>>) = 1 /\ DOMAIN <<f>> = {1} /\ <<f>>[1] = f  OBVIOUS
<1>5. StreamsHold(reg, stack)  BY <1>2, <1>3, <1>4 DEF StreamsHold
<1> QED  BY <1>1, <1>2, <1>5 DEF StreamInv, UnitsStream

LEMMA StreamInvStep == StreamInv /\ [Next]_vars => StreamInv'
<1> SUFFICES ASSUME StreamInv, [Next]_vars PROVE StreamInv'  OBVIOUS
<1>1. CyclesInv /\ CyclesInv'  BY CyclesInvStep DEF StreamInv
<1>2. reg' = reg
  BY <1>1, NextKeeps DEF CyclesInv, Kept, RootStep, vars
<1>3. SUFFICES ASSUME NestedApart(reg) PROVE StreamsNext
  BY <1>1, <1>2 DEF StreamInv, StreamsNext
<1>4. StreamsHold(reg, stack) /\ UnitsStream  BY <1>3 DEF StreamInv
<1>5. CASE UNCHANGED vars
  BY <1>4, <1>5 DEF vars, StreamsNext, UnitsStream
<1>6. CASE Next
  <2>1. Streaming  BY <1>1, <1>3, <1>4 DEF Streaming
  <2> QED
    BY <1>6, <2>1, SubstituteStreams, FlattenHandlerStreams, SkipCompositionStreams,
       FlattenTrainableStreams, FlattenEmbedStreams, CloseGroupAStreams,
       CheckTopologyStreams, CheckCoverageStreams, DeliverStreams DEF Next
<1> QED  BY <1>5, <1>6

(* What streams is known from the declarations, in every compilation.      *)
THEOREM StreamInvariant == Spec => []StreamInv
  BY InitBegins, StreamInvInit, StreamInvStep, PTL DEF Spec

LEMMA ScannedIsAccepted == StreamInv => (NestedApart(reg) => CompiledGraphsAreAccepted)
<1> SUFFICES ASSUME StreamInv, NestedApart(reg), NEW d \in done PROVE Accepted(d.graph)
  BY DEF CompiledGraphsAreAccepted
<1>1. Walkable(d.graph)  BY DEF StreamInv, CyclesInv, IInv, UnitHolds
<1>2. StreamableTerminal(d.graph)  BY DEF StreamInv, UnitsStream
<1> QED  BY <1>1, <1>2 DEF Accepted

(* Unless a pipeline embeds, at whatever depth, another one of its own      *)
(* meta.name, every graph that `compile_pipeline` hands on keeps every rule: *)
(* in particular what will stream at run time has only hooks behind it,      *)
(* although `_embed_terminal_streams` decided that from declarations before *)
(* the embed was compiled.                                                 *)
THEOREM ScannedGraphsAreAccepted ==
    Spec => [](NestedApart(reg) => CompiledGraphsAreAccepted)
  BY ScannedIsAccepted, StreamInvariant, PTL

-----------------------------------------------------------------------------
(* A compile call of a declaration that was answered once is answered again, *)
(* and alike, whatever calls it is made from.  A call that goes on without  *)
(* a fault goes on in one way, given what its embeds are answered with; the *)
(* frames that the answered calls have been through are therefore a trail   *)
(* that a second call cannot leave.                                        *)

NodeOf(d) == EmbedNode(d.path, d.decl, StreamRoute(d.graph) # 0)
Resumed(f, d) == [f EXCEPT !.flat = Append(@, NodeOf(d)), !.at = @ + 1]

AtEntry(f, form) ==
    f.pc = "flatten" /\ f.at \in DOMAIN f.nodes /\ EntryOf(f).form = form
AtComposition(f, kind) ==
    /\ AtEntry(f, "composition")
    /\ EntryOf(f).name \in Embeds(reg, kind) /\ reg.comps[EntryOf(f).name].name \notin f.names

(* The ways on that raise nothing and skip nothing.                        *)
Starts(f, g) ==
    /\ f.pc = "substitute" /\ Cyclic \notin ToSet(Substituted(reg, f.decl.nodes))
    /\ g = Started(f)
TakesHandler(f, g) ==
    AtEntry(f, "handler") /\ EntryOf(f).name \in DOMAIN reg.handlers /\ g = WithHandler(f)
TakesTrainable(f, g) ==
    /\ AtComposition(f, "trainable")
    /\ LET t == reg.comps[EntryOf(f).name]
       IN  BackendFault(t) = {} /\ ~BrokenNull(t.config, Backend(t))
    /\ g = WithTrainable(f)
AsksFor(f) ==
    AtComposition(f, "pipeline") /\ EmbedStreams(reg, EntryOf(f).name) # "raises"
TakesEmbed(D, f, g) ==
    AsksFor(f) /\ \E d \in D : d.path = EntryOf(f).name /\ g = Resumed(Seen(f), d)
EndsGroupA(f, g) ==
    /\ f.pc = "flatten" /\ f.at \notin DOMAIN f.nodes /\ ScopedMergeFaults(f) = {}
    /\ g = [f EXCEPT !.pc = "topology"]
EndsGroupB(f, g) ==
    f.pc = "topology" /\ TopologyFaults(f) = {} /\ g = [f EXCEPT !.pc = "coverage"]

GoesOn(D, f, g) ==
    \/ Starts(f, g) \/ TakesHandler(f, g) \/ TakesTrainable(f, g) \/ TakesEmbed(D, f, g)
    \/ EndsGroupA(f, g) \/ EndsGroupB(f, g)

HandedOn(D, path) == \E d \in D : d.path = path
OneAnswer(D) == \A d, e \in D : d.path = e.path => d = e

(* A trail: each of its frames goes on to another, or is answered.         *)
Trail(D, H) ==
    \A f \in H : /\ f.faults = {}
                 /\ IF f.pc = "coverage" THEN Uncovered(f) = {} /\ Unit(f) \in D
                    ELSE \E g \in H : GoesOn(D, f, g)
Begun(D, H) == \A d \in D : Frame(d.path, DeclOf(reg, d.path)) \in H

(* What a call has been through up to a frame.                             *)
Passed(D, f) ==
    \E P : /\ Frame(f.path, DeclOf(reg, f.path)) \in P \cup {f}
           /\ \A x \in P : /\ x.faults = {} /\ x.pc # "coverage"
                           /\ \E y \in P \cup {f} : GoesOn(D, x, y)

Embedded(D, f) == \A n \in ToSet(f.flat) : n.kind = "pipeline" => HandedOn(D, n.from)

Tracked(D, H, f) ==
    /\ Embedded(D, f)
    /\ IF HandedOn(D, f.path) THEN f \in H ELSE f.faults = {} => Passed(D, f)
Waiting(D, H, f) ==
    \E u : DOMAIN u = FrameFields /\ AsksFor(u) /\ Tracked(D, H, u) /\ f = Seen(u)

CallsTracked(D, H, s) ==
    \A k \in DOMAIN s : IF k = Len(s) THEN Tracked(D, H, s[k]) ELSE Waiting(D, H, s[k])

Trailing(H) == Trail(done, H) /\ Begun(done, H) /\ CallsTracked(done, H, stack)
AnswersAgree == OneAnswer(done) /\ \A d \in done : Embedded(done, d)
RecallInv == CyclesInv /\ AnswersAgree /\ \E H : Trailing(H)

(* A call that was answered once is not refused.                           *)
RecallNext ==
    /\ AnswersAgree' /\ \E H : Trailing(H)'
    /\ stack' = <<>> /\ HandedOn(done, stack[1].path) => outcome'.status # "refused"

(* None of it looks at the registry in another way when it is the same.     *)
LEMMA SameNodes ==
    ASSUME reg' = reg
    PROVE  /\ \A f : Started(f)' = Started(f)
           /\ \A e, from, member : HandlerNode(e, from, member)' = HandlerNode(e, from, member)
           /\ \A path, t : TrainableNodes(path, t)' = TrainableNodes(path, t)
<1>1. \A f : Started(f)' = Started(f)  BY DEF Started
<1>2. \A e, from, member : HandlerNode(e, from, member)' = HandlerNode(e, from, member)
  BY DEF HandlerNode
<1>3. \A path, t, i : PreNode(path, t, i)' = PreNode(path, t, i)  BY DEF PreNode, HandlerNode
<1>4. \A t, i : Flattened(t, i)' <=> Flattened(t, i)  BY DEF Flattened
<1>5. \A path, t : TrainableNodes(path, t)' = TrainableNodes(path, t)
  BY DEF TrainableNodes, Flattened, PreNode, HandlerNode
<1> QED  BY <1>1, <1>2, <1>5

LEMMA SameFaults ==
    ASSUME reg' = reg
    PROVE  /\ \A f, streams : StreamFaults(f, streams)' = StreamFaults(f, streams)
           /\ \A f, t, i : PreprocessorFaults(f, t, i)' = PreprocessorFaults(f, t, i)
           /\ \A f, t : CompositionSupplyFaults(f, t)' = CompositionSupplyFaults(f, t)
           /\ \A t : BackendFault(t)' = BackendFault(t) /\ Backend(t)' = Backend(t)
           /\ \A f : BindingFaults(f)' = BindingFaults(f)
           /\ \A f : Uncovered(f)' = Uncovered(f)
<1>1. \A f, streams : StreamFaults(f, streams)' = StreamFaults(f, streams)
  BY DEF StreamFaults
<1>2. \A f, t, i : PreprocessorFaults(f, t, i)' = PreprocessorFaults(f, t, i)
  BY DEF PreprocessorFaults
<1>3. \A t : BackendFault(t)' = BackendFault(t) /\ Backend(t)' = Backend(t)
  BY DEF BackendFault, Backend
<1>4. \A f, t : CompositionSupplyFaults(f, t)' = CompositionSupplyFaults(f, t)
  BY DEF CompositionSupplyFaults, Registered, Backend
<1>5. \A f : BindingFaults(f)' = BindingFaults(f)
  BY DEF BindingFaults, HandlerEntries
<1>6. \A f : BoundTypes(f)' = BoundTypes(f) /\ HookAddresses(f)' = HookAddresses(f)
  BY DEF BoundTypes, TrainablesOf, HookAddresses, Registered
<1>7. \A f : Uncovered(f)' = Uncovered(f)
  BY <1>6 DEF Uncovered
<1> QED  BY <1>1, <1>2, <1>3, <1>4, <1>5, <1>7

LEMMA SameFrames ==
    ASSUME reg' = reg
    PROVE  /\ \A f : WithHandler(f)' = WithHandler(f)
           /\ \A f : Seen(f)' = Seen(f)
           /\ \A f : WithTrainable(f)' = WithTrainable(f)
           /\ \A f : TopologyFaults(f)' = TopologyFaults(f)
<1>1. \A f : WithHandler(f)' = WithHandler(f)
  BY SameNodes DEF WithHandler
<1>2. \A f : Seen(f)' = Seen(f)
  <2> SUFFICES ASSUME NEW f PROVE Seen(f)' = Seen(f)  OBVIOUS
  <2> DEFINE found == StreamFaults(f, EmbedStreams(reg, EntryOf(f).name) = "yes")
             name == reg.comps[EntryOf(f).name].name
  <2>1. found' = found /\ name' = name  BY SameFaults
  <2>2. Seen(f) = [f EXCEPT !.names = @ \cup {name}, !.faults = @ \cup found]
    BY DEF Seen
  <2>3. Seen(f)' = [f EXCEPT !.names = @ \cup {name'}, !.faults = @ \cup found']
    BY DEF Seen
  <2> HIDE DEF found, name
  <2> QED  BY <2>1, <2>2, <2>3
<1>3. \A f : WithTrainable(f)' = WithTrainable(f)
  <2> SUFFICES ASSUME NEW f PROVE WithTrainable(f)' = WithTrainable(f)  OBVIOUS
  <2> DEFINE path == EntryOf(f).name
             t == reg.comps[path]
             nodes == TrainableNodes(path, t)
             inner == DOMAIN t.merge \ Boundary(t)
             own == {c \in inner : Scope(t, c) \notin DOMAIN f.merges}
             taken == {Scope(t, c) : c \in own}
             positions == (Len(f.flat) + 1)..(Len(f.flat) + Len(nodes))
             names == f.names \cup {t.name}
             flat == f.flat \o nodes
             found == f.faults \cup StreamFaults(f, t.streamable)
                \cup {Fault(f, "A", "channel_write_overlap", <<"merge", f.at, c>>) :
                        c \in DOMAIN t.merge \ own}
                \cup UNION {PreprocessorFaults(f, t, i) : i \in DOMAIN t.pre}
             supply == f.supply \cup CompositionSupplyFaults(f, t)
             merges == [c \in DOMAIN f.merges \cup taken |->
                        IF c \in DOMAIN f.merges THEN f.merges[c]
                        ELSE [strategy |-> t.merge[Tail(c)], by |-> path]]
             scoped == f.scoped \cup {Scope(t, c) : c \in inner}
                                \cup (WiredBy(nodes) \ Boundary(t))
             bounds == f.bounds \cup {[inputs |-> ToSet(t.inputs), outputs |-> ToSet(t.outputs),
                                      positions |-> positions, ref |-> f.at]}
  <2>1. WithTrainable(f) =
        [f EXCEPT !.at = f.at + 1, !.names = names, !.flat = flat, !.faults = found,
                  !.supply = supply, !.merges = merges, !.scoped = scoped, !.bounds = bounds]
    BY Zenon DEF WithTrainable
  <2>2. WithTrainable(f)' =
        [f EXCEPT !.at = f.at + 1, !.names = names', !.flat = flat', !.faults = found',
                  !.supply = supply', !.merges = merges', !.scoped = scoped', !.bounds = bounds']
    BY Zenon DEF WithTrainable
  <2>3. t' = t /\ nodes' = nodes  BY SameNodes
  <2>4. names' = names /\ flat' = flat /\ merges' = merges /\ scoped' = scoped
        /\ bounds' = bounds
    <3> HIDE DEF nodes
    <3> QED  BY <2>3
  <2>5. supply' = supply /\ found' = found
    <3>1. CompositionSupplyFaults(f, t)' = CompositionSupplyFaults(f, t)
      BY <2>3, SameFaults
    <3>2. StreamFaults(f, t.streamable)' = StreamFaults(f, t.streamable)
      BY <2>3, SameFaults
    <3> QED  BY <2>3, <3>1, <3>2, SameFaults
  <2> HIDE DEF names, flat, found, supply, merges, scoped, bounds
  <2> QED  BY <2>1, <2>2, <2>4, <2>5
<1>4. \A f : TopologyFaults(f)' = TopologyFaults(f)
  BY SameFaults DEF TopologyFaults
<1> QED  BY <1>1, <1>2, <1>3, <1>4

LEMMA SameWays ==
    ASSUME reg' = reg, NEW D, NEW f, NEW g
    PROVE  GoesOn(D, f, g)' <=> GoesOn(D, f, g)
  BY SameNodes, SameFaults, SameFrames
  DEF GoesOn, Starts, TakesHandler, TakesTrainable, TakesEmbed, EndsGroupA, EndsGroupB,
      AtEntry, AtComposition, AsksFor

LEMMA SameTrails ==
    ASSUME reg' = reg
    PROVE  /\ \A D, H : (Trail(D, H)' <=> Trail(D, H)) /\ (Begun(D, H)' <=> Begun(D, H))
           /\ \A D, H, s : CallsTracked(D, H, s)' <=> CallsTracked(D, H, s)
<1>1. \A D, H : (Trail(D, H)' <=> Trail(D, H)) /\ (Begun(D, H)' <=> Begun(D, H))
  <2>1. \A D, f, g : GoesOn(D, f, g)' <=> GoesOn(D, f, g)  BY SameWays
  <2>2. \A f : Uncovered(f)' = Uncovered(f)  BY SameFaults
  <2> QED  BY <2>1, <2>2 DEF Trail, Begun, DeclOf
<1>2. \A D, H, f : Tracked(D, H, f)' <=> Tracked(D, H, f)
  <2>1. \A D, f, g : GoesOn(D, f, g)' <=> GoesOn(D, f, g)  BY SameWays
  <2>2. \A D, f : Passed(D, f)' <=> Passed(D, f)  BY <2>1 DEF Passed, DeclOf
  <2> QED  BY <2>2 DEF Tracked
<1>3. \A D, H, f : Waiting(D, H, f)' <=> Waiting(D, H, f)
  <2>1. \A f : Seen(f)' = Seen(f)  BY SameFrames
  <2>2. \A f : AsksFor(f)' <=> AsksFor(f)  BY DEF AsksFor, AtComposition
  <2> QED  BY <1>2, <2>1, <2>2 DEF Waiting
<1>4. \A D, H, s : CallsTracked(D, H, s)' <=> CallsTracked(D, H, s)
  BY <1>2, <1>3 DEF CallsTracked
<1> QED  BY <1>1, <1>4

(* More answers and a longer trail.                                        *)
LEMMA GoesOnMore ==
    ASSUME NEW D, NEW E, D \subseteq E, NEW f, NEW g, GoesOn(D, f, g)
    PROVE  GoesOn(E, f, g)
  BY DEF GoesOn, TakesEmbed

LEMMA TrackedMore ==
    ASSUME NEW D, NEW E, D \subseteq E, NEW H, NEW K, H \subseteq K,
           NEW f, HandedOn(E, f.path) => HandedOn(D, f.path), Tracked(D, H, f)
    PROVE  Tracked(E, K, f)
<1>1. Passed(D, f) => Passed(E, f)  BY GoesOnMore DEF Passed
<1>2. Embedded(E, f)  BY DEF Tracked, Embedded, HandedOn
<1> QED  BY <1>1, <1>2 DEF Tracked, HandedOn

LEMMA WaitingMore ==
    ASSUME NEW D, NEW E, D \subseteq E, NEW H, NEW K, H \subseteq K,
           NEW f, HandedOn(E, f.path) => HandedOn(D, f.path), Waiting(D, H, f)
    PROVE  Waiting(E, K, f)
<1>1. PICK u : DOMAIN u = FrameFields /\ AsksFor(u) /\ Tracked(D, H, u) /\ f = Seen(u)
  BY DEF Waiting
<1>2. u.path = f.path  BY <1>1, SeenFrames
<1>3. Tracked(E, K, u)  BY <1>1, <1>2, TrackedMore
<1> QED  BY <1>1, <1>3 DEF Waiting

LEMMA OneWayOn ==
    ASSUME NEW D, OneAnswer(D), NEW f, NEW g, NEW h, GoesOn(D, f, g), GoesOn(D, f, h)
    PROVE  g = h
  BY DEF GoesOn, Starts, TakesHandler, TakesTrainable, TakesEmbed, EndsGroupA, EndsGroupB,
         AtEntry, AtComposition, AsksFor, OneAnswer, Embeds

LEMMA NotYetCovered ==
    ASSUME NEW D, NEW f, NEW g, GoesOn(D, f, g) PROVE f.pc # "coverage"
  BY DEF GoesOn, Starts, TakesHandler, TakesTrainable, TakesEmbed, EndsGroupA, EndsGroupB,
         AtEntry, AtComposition, AsksFor

LEMMA AskingIsAnswered ==
    ASSUME NEW D, NEW f, AsksFor(f), NEW g, GoesOn(D, f, g) PROVE TakesEmbed(D, f, g)
  BY DEF GoesOn, Starts, TakesHandler, TakesTrainable, TakesEmbed, EndsGroupA, EndsGroupB,
         AtEntry, AtComposition, AsksFor, Embeds

(* A frame that goes on stays on the trail, and one that cannot is not on it.*)
LEMMA TrackedGoesOn ==
    ASSUME NEW D, OneAnswer(D), NEW H, Trail(D, H), NEW f, Tracked(D, H, f),
           NEW g, GoesOn(D, f, g), g.path = f.path, g.faults = {} => f.faults = {},
           Embedded(D, g)
    PROVE  Tracked(D, H, g)
<1>1. f.pc # "coverage"  BY NotYetCovered
<1>2. CASE HandedOn(D, f.path)
  <2>1. f \in H  BY <1>2 DEF Tracked
  <2>2. PICK y \in H : GoesOn(D, f, y)  BY <1>1, <2>1 DEF Trail
  <2>3. y = g  BY <2>2, OneWayOn
  <2> QED  BY <1>2, <2>2, <2>3 DEF Tracked
<1>3. CASE ~HandedOn(D, f.path)
  <2>1. ASSUME g.faults = {} PROVE Passed(D, g)
    <3>1. f.faults = {} /\ Passed(D, f)  BY <1>3, <2>1 DEF Tracked
    <3>2. PICK P : /\ Frame(f.path, DeclOf(reg, f.path)) \in P \cup {f}
                   /\ \A x \in P : /\ x.faults = {} /\ x.pc # "coverage"
                                   /\ \E y \in P \cup {f} : GoesOn(D, x, y)
      BY <3>1 DEF Passed
    <3> DEFINE Q == P \cup {f}
    <3>3. /\ Frame(g.path, DeclOf(reg, g.path)) \in Q \cup {g}
          /\ \A x \in Q : /\ x.faults = {} /\ x.pc # "coverage"
                          /\ \E y \in Q \cup {g} : GoesOn(D, x, y)
      BY <1>1, <3>1, <3>2
    <3> QED  BY <3>3 DEF Passed
  <2> QED  BY <1>3, <2>1 DEF Tracked
<1> QED  BY <1>2, <1>3

LEMMA StuckIsNew ==
    ASSUME NEW D, NEW H, Trail(D, H), NEW f, Tracked(D, H, f),
           f.pc = "coverage" => Uncovered(f) # {},
           f.faults # {} \/ f.pc = "coverage" \/ \A g : ~GoesOn(D, f, g)
    PROVE  ~HandedOn(D, f.path)
  BY DEF Tracked, Trail

LEMMA FaultyTracked ==
    ASSUME NEW D, NEW H, NEW f, f.faults # {}, ~HandedOn(D, f.path), Embedded(D, f)
    PROVE  Tracked(D, H, f)
  BY DEF Tracked

-----------------------------------------------------------------------------
(* The moves of the stack.                                                 *)
Recalling(H) == CyclesInv /\ AnswersAgree /\ Trailing(H)

LEMMA TopTracked ==
    ASSUME NEW H, Recalling(H), stack # <<>>
    PROVE  /\ Tracked(done, H, Top) /\ DOMAIN Top = FrameFields /\ IInv
           /\ Trail(done, H) /\ OneAnswer(done) /\ Embedded(done, Top)
<1>1. StackHolds(reg, stack) /\ IInv  BY DEF Recalling, CyclesInv, IInv
<1>2. FrameHolds(reg, Top) /\ Len(stack) \in DOMAIN stack  BY <1>1, TopHolds
<1>3. Tracked(done, H, Top)  BY <1>2 DEF Recalling, Trailing, CallsTracked, Top
<1> QED  BY <1>1, <1>2, <1>3 DEF FrameHolds, Recalling, Trailing, AnswersAgree, Tracked

LEMMA ReplaceRecalls ==
    ASSUME NEW H, Recalling(H), stack # <<>>, UNCHANGED <<reg, outcome, done>>,
           NEW g, Replace(g), Tracked(done, H, g)
    PROVE  RecallNext
<1> DEFINE t == [stack EXCEPT ![Len(stack)] = g]
<1>0. IInv /\ StackHolds(reg, stack)  BY DEF Recalling, CyclesInv, IInv
<1>1. /\ DOMAIN t = DOMAIN stack /\ Len(t) = Len(stack) /\ Len(stack) \in DOMAIN stack
      /\ \A k \in DOMAIN stack : t[k] = IF k = Len(stack) THEN g ELSE stack[k]
  BY <1>0, SwappedFrames
<1>2. stack' = t  BY DEF Replace
<1> HIDE DEF t
<1>3. CallsTracked(done, H, t)  BY <1>1 DEF CallsTracked, Recalling, Trailing
<1>4. Trailing(H)'
  BY <1>2, <1>3, SameTrails DEF Trailing, Recalling
<1>5. stack' # <<>>
  <2>1. DOMAIN <<>> = {}  OBVIOUS
  <2> QED  BY <1>1, <1>2, <2>1
<1>6. AnswersAgree'  BY DEF Recalling, AnswersAgree
<1> QED  BY <1>4, <1>5, <1>6 DEF RecallNext

LEMMA ReturnRecalls ==
    ASSUME IInv, stack # <<>>, Len(stack) # 1, reg' = reg, AnswersAgree',
           NEW K, Trail(done', K), Begun(done', K),
           \A k \in DOMAIN stack : k # Len(stack) => Waiting(done', K, stack[k]),
           NEW g, Tracked(done', K, g), stack' = Append(SubSeq(stack, 1, Len(stack) - 2), g)
    PROVE  RecallNext
<1> DEFINE t == Append(SubSeq(stack, 1, Len(stack) - 2), g)
<1>1. \A k \in DOMAIN t : /\ k \in DOMAIN stack /\ k # Len(stack)
                          /\ t[k] = IF k = Len(t) THEN g ELSE stack[k]
  BY PoppedFrames DEF IInv
<1>2. stack' = t  OBVIOUS
<1>3. t # <<>>  BY RootStays DEF IInv
<1> HIDE DEF t
<1>4. CallsTracked(done', K, t)  BY <1>1 DEF CallsTracked
<1>5. Trailing(K)'
  <2>1. \A D, H : (Trail(D, H)' <=> Trail(D, H)) /\ (Begun(D, H)' <=> Begun(D, H))
    BY SameTrails
  <2>2. \A D, H, s : CallsTracked(D, H, s)' <=> CallsTracked(D, H, s)
    BY SameTrails
  <2> QED  BY <1>2, <1>4, <2>1, <2>2 DEF Trailing
<1> QED  BY <1>2, <1>3, <1>5 DEF RecallNext

(* The frame that waits for the top: it has seen the embed, and asks for it. *)
LEMMA CallerTracked ==
    ASSUME NEW H, Recalling(H), stack # <<>>, Len(stack) # 1
    PROVE  \E u : /\ stack[Len(stack) - 1] = Seen(u)
                  /\ DOMAIN u = FrameFields /\ AsksFor(u) /\ Tracked(done, H, u)
                  /\ EntryOf(u).name = Top.path
<1> DEFINE caller == stack[Len(stack) - 1]
<1>0. IInv  BY DEF Recalling, CyclesInv
<1>1. PICK X : stack \in Seq(X)  BY <1>0 DEF IInv, StackHolds
<1>2. Len(stack) \in Nat /\ Len(stack) # 0 /\ DOMAIN stack = 1..Len(stack)
  BY <1>1, EmptySeq
<1>3. Len(stack) - 1 \in DOMAIN stack /\ Len(stack) - 1 # Len(stack)
  BY <1>2, JustBelowTheTop
<1>4. Waiting(done, H, caller)  BY <1>3 DEF Recalling, Trailing, CallsTracked
<1>5. PICK u : DOMAIN u = FrameFields /\ AsksFor(u) /\ Tracked(done, H, u) /\ caller = Seen(u)
  BY <1>4 DEF Waiting
<1>6. PICK S : Holding(S)  BY DEF Recalling, CyclesInv
<1>7. WaitsFor(caller, Top.path)  BY <1>0, <1>6, CallerFinished
<1>8. caller.nodes = u.nodes /\ caller.at = u.at  BY <1>5, SeenFrames
<1>9. EntryOf(u).name = Top.path  BY <1>7, <1>8 DEF WaitsFor, EntryOf
<1> QED  BY <1>5, <1>9

LEMMA RaiseRecalls ==
    ASSUME NEW H, Recalling(H), stack # <<>>, ~HandedOn(done, Top.path),
           NEW faults, faults # {}, Raise(faults)
    PROVE  RecallNext
<1>0. IInv /\ AnswersAgree /\ Trailing(H)  BY DEF Recalling, CyclesInv
<1>1. CASE Len(stack) = 1
  <2>1. stack' = <<>> /\ UNCHANGED <<reg, done>>  BY <1>1 DEF Raise
  <2>2. DOMAIN <<>> = {}  OBVIOUS
  <2>3. \A D, K : CallsTracked(D, K, <<>>)  BY <2>2 DEF CallsTracked
  <2>4. Trailing(H)'
    <3>1. /\ Trail(done, H)' <=> Trail(done, H)
          /\ Begun(done, H)' <=> Begun(done, H)
          /\ CallsTracked(done, H, <<>>)' <=> CallsTracked(done, H, <<>>)
      BY <2>1, SameTrails
    <3> QED  BY <1>0, <2>1, <2>3, <3>1 DEF Trailing
  <2>5. AnswersAgree'  BY <1>0, <2>1 DEF AnswersAgree
  <2>6. stack[1] = Top  BY <1>1 DEF Top
  <2> QED  BY <2>4, <2>5, <2>6 DEF RecallNext
<1>2. CASE Len(stack) # 1
  <2> DEFINE caller == stack[Len(stack) - 1]
             g == [caller EXCEPT !.faults = @ \cup faults, !.at = @ + 1]
  <2>1. PICK u : /\ caller = Seen(u) /\ DOMAIN u = FrameFields /\ AsksFor(u)
                 /\ Tracked(done, H, u) /\ EntryOf(u).name = Top.path
    BY <1>2, CallerTracked
  <2>2. /\ stack' = Append(SubSeq(stack, 1, Len(stack) - 2), g)
        /\ UNCHANGED <<reg, outcome, done>>
    BY <1>2 DEF Raise
  <2>3. DOMAIN caller = FrameFields /\ caller.path = u.path /\ caller.flat = u.flat
    BY <2>1, SeenFrames
  <2> HIDE DEF caller
  <2>4. g.faults # {} /\ g.path = u.path /\ g.flat = u.flat
    BY <2>3 DEF FrameFields
  <2>5. ~HandedOn(done, u.path)
    <3>1. \A y : ~GoesOn(done, u, y)
      BY <2>1, AskingIsAnswered DEF TakesEmbed, HandedOn
    <3> QED  BY <1>0, <2>1, <3>1, StuckIsNew DEF Trailing, AsksFor, AtComposition, AtEntry
  <2> HIDE DEF g
  <2>6. Tracked(done, H, g)
    <3>1. Embedded(done, g)  BY <2>1, <2>4 DEF Tracked, Embedded
    <3> QED  BY <2>4, <2>5, <3>1, FaultyTracked
  <2>7. \A k \in DOMAIN stack : k # Len(stack) => Waiting(done, H, stack[k])
    BY <1>0 DEF Trailing, CallsTracked
  <2>8. Trail(done', H) /\ Begun(done', H) /\ AnswersAgree' /\ done' = done
    BY <1>0, <2>2 DEF Trailing, AnswersAgree
  <2> QED  BY <1>0, <1>2, <2>2, <2>6, <2>7, <2>8, ReturnRecalls
<1> QED  BY <1>1, <1>2

(* A step of the innermost call that the trail has too.                    *)
LEMMA StepRecalls ==
    ASSUME NEW H, Recalling(H), stack # <<>>, UNCHANGED <<reg, outcome, done>>,
           NEW g, Replace(g), GoesOn(done, Top, g),
           g.path = Top.path, g.faults = {} => Top.faults = {}, Embedded(done, g)
    PROVE  RecallNext
  BY TopTracked, TrackedGoesOn, ReplaceRecalls

(* One that reports a fault is a step of a call that was never answered.    *)
LEMMA FaultRecalls ==
    ASSUME NEW H, Recalling(H), stack # <<>>, UNCHANGED <<reg, outcome, done>>,
           ~HandedOn(done, Top.path),
           NEW g, Replace(g), g.path = Top.path, g.faults # {}, g.flat = Top.flat
    PROVE  RecallNext
<1>1. Embedded(done, g)  BY TopTracked DEF Embedded
<1>2. Tracked(done, H, g)  BY <1>1, FaultyTracked
<1> QED  BY <1>2, ReplaceRecalls

LEMMA SkipRecalls ==
    ASSUME NEW H, Recalling(H), stack # <<>>, ~HandedOn(done, Top.path),
           NEW faults, faults # {}, SkipNode(faults)
    PROVE  RecallNext
<1> DEFINE g == [Top EXCEPT !.faults = @ \cup faults, !.at = @ + 1]
<1>1. Replace(g) /\ UNCHANGED <<reg, outcome, done>>  BY DEF SkipNode
<1>2. DOMAIN Top = FrameFields  BY TopTracked
<1>3. g.faults # {} /\ g.path = Top.path /\ g.flat = Top.flat  BY <1>2 DEF FrameFields
<1> HIDE DEF g
<1> QED  BY <1>1, <1>3, FaultRecalls

(* A call that cannot go on was never answered.                            *)
LEMMA StuckTop ==
    ASSUME NEW H, Recalling(H), stack # <<>>, Top.pc # "coverage",
           \A g : ~GoesOn(done, Top, g)
    PROVE  ~HandedOn(done, Top.path)
  BY TopTracked, StuckIsNew

LEMMA EmbeddedMore ==
    ASSUME NEW D, NEW f, Embedded(D, f), IsList(f.flat), NEW more, IsList(more),
           NEW g, g.flat = f.flat \o more,
           \A n \in ToSet(more) : n.kind = "pipeline" => HandedOn(D, n.from)
    PROVE  Embedded(D, g)
<1> DEFINE G == ToSet(f.flat) \cup ToSet(more)
<1>1. f.flat \in Seq(ToSet(f.flat)) /\ more \in Seq(ToSet(more))  BY DEF IsList
<1>2. f.flat \in Seq(G) /\ more \in Seq(G)  BY <1>1
<1> HIDE DEF G
<1>3. g.flat \in Seq(G)  BY <1>2
<1>4. ToSet(g.flat) \subseteq G  BY <1>3, ListOver
<1> QED  BY <1>4 DEF Embedded, G

LEMMA OneMoreEmbedded ==
    ASSUME NEW D, NEW f, Embedded(D, f), IsList(f.flat), NEW n,
           NEW g, g.flat = Append(f.flat, n), n.kind = "pipeline" => HandedOn(D, n.from)
    PROVE  Embedded(D, g)
<1> DEFINE more == <<n>>
<1>1. <<n>> \in Seq({n})  OBVIOUS
<1>2. IsList(more) /\ ToSet(more) \subseteq {n}  BY <1>1, ListOver
<1>3. f.flat \in Seq(ToSet(f.flat) \cup {n})
  <2>1. f.flat \in Seq(ToSet(f.flat))  BY DEF IsList
  <2> QED  BY <2>1
<1>4. g.flat = f.flat \o more  BY <1>3
<1> HIDE DEF more
<1> QED  BY <1>2, <1>4, EmbeddedMore

(* What a call waits for is among what its declaration leads to.            *)
LEMMA EntryLeads ==
    ASSUME IInv, NEW S, Holding(S), NEW j \in DOMAIN stack, stack[j].pc = "flatten",
           stack[j].path \in Embeds(reg, "pipeline"),
           NEW C, \A p \in C : Contained(reg, p) \subseteq C,
           Contained(reg, stack[j].path) \subseteq C,
           NEW q \in DOMAIN reg.comps, WaitsFor(stack[j], q)
    PROVE  q \in C
<1> DEFINE f == stack[j]
<1>1. FrameFinished(reg, S, f) /\ f.decl = DeclOf(reg, f.path) /\ FrameHolds(reg, f)
  BY DEF Holding, CallsFinished, IInv, StackHolds
<1>2. /\ f.nodes = Substituted(reg, f.decl.nodes) /\ Cyclic \notin ToSet(f.nodes)
      /\ IsList(f.decl.nodes)
  BY <1>1 DEF FrameFinished, FrameHolds, PipelineTyped
<1>3. Named(reg, f.decl.nodes) \subseteq C
  BY <1>1 DEF Contained, Embeds, DeclOf, IInv
<1>4. Listed(reg)  BY RegistryListed
<1> HIDE DEF f
<1>5. \A e \in ToSet(f.nodes) : e = Cyclic \/ EntryFinished(reg, C, e)
  BY <1>2, <1>3, <1>4, SubstitutedLeads
<1>6. f.nodes[f.at] \in ToSet(f.nodes) /\ WaitsFor(f, q)  BY DEF f, WaitsFor, ToSet
<1> QED  BY <1>2, <1>5, <1>6 DEF WaitsFor, EntryFinished

(* A composition that was answered is never asked for from within itself.   *)
LEMMA AnsweredIsApart ==
    ASSUME IInv, NEW S, Holding(S), stack # <<>>, Top.pc = "flatten",
           NEW q \in Embeds(reg, "pipeline"), WaitsFor(Top, q), HandedOn(done, q)
    PROVE  ~OnStack(q)
<1> SUFFICES ASSUME NEW k \in DOMAIN stack, stack[k].path = q PROVE FALSE
  BY DEF OnStack
<1> DEFINE C == Reached(reg, Contained(reg, q))
<1>1. q \in DOMAIN reg.comps /\ q # "root" /\ q \in S /\ Closed(reg, S) /\ Founded(reg, S)
  BY DEF Embeds, IInv, HandedOn, Holding, UnitsFinished
<1>2. q \notin C  BY <1>1, RegistryListed, FoundedIsAcyclic
<1>3. /\ Contained(reg, q) \subseteq C
      /\ \A p \in C : Contained(reg, p) \subseteq C
  <2>1. \A p \in DOMAIN reg.comps : Contained(reg, p) \subseteq DOMAIN reg.comps
    BY DEF Contained, Named
  <2> QED  BY <1>1, <2>1, RegistryListed, ReachedCloses
<1> HIDE DEF C
<1>4. PICK X : stack \in Seq(X)  BY DEF IInv, StackHolds
<1>5. Len(stack) \in Nat /\ DOMAIN stack = 1..Len(stack) /\ Len(stack) \in DOMAIN stack
  BY <1>4, EmptySeq
<1>6. \A j \in DOMAIN stack : stack[j].pc = "flatten"
  BY DEF IInv, StackHolds, Top
<1> DEFINE In(j) == stack[j].path \in C \cup {q}
           P == {n \in Nat : k + n \in DOMAIN stack => In(k + n)}
<1>7. ASSUME NEW j \in DOMAIN stack, In(j), NEW p \in Embeds(reg, "pipeline"), WaitsFor(stack[j], p),
             stack[j].path \in Embeds(reg, "pipeline")
      PROVE  p \in C
  <2>1. Contained(reg, stack[j].path) \subseteq C  BY <1>3, <1>7
  <2>2. p \in DOMAIN reg.comps  BY DEF Embeds
  <2> QED  BY <1>3, <1>6, <1>7, <2>1, <2>2, EntryLeads
<1>8. \A j \in DOMAIN stack : j # 1 => stack[j].path \in Embeds(reg, "pipeline")
  BY DEF IInv, StackHolds
<1>9. \A j \in DOMAIN stack : j >= k => stack[j].path \in Embeds(reg, "pipeline")
  <2>1. \A j \in DOMAIN stack : j >= k => j = k \/ j # 1  BY <1>5
  <2> QED  BY <1>8, <2>1
<1>10. 0 \in P
  <2>1. k + 0 = k  BY <1>5
  <2> QED  BY <2>1
<1>11. \A n \in Nat : n \in P => n + 1 \in P
  <2> SUFFICES ASSUME NEW n \in Nat, n \in P, k + (n + 1) \in DOMAIN stack PROVE In(k + (n + 1))
    OBVIOUS
  <2> DEFINE j == k + n
  <2>1. j \in DOMAIN stack /\ j + 1 = k + (n + 1) /\ j # Len(stack) /\ j >= k
    BY <1>5
  <2>2. In(j)  BY <2>1
  <2> HIDE DEF P, j
  <2>3. WaitsFor(stack[j], stack[j + 1].path)
    BY <2>1 DEF Holding, CallsFinished
  <2>4. stack[j].path \in Embeds(reg, "pipeline")  BY <1>9, <2>1
  <2>5. stack[j + 1].path \in Embeds(reg, "pipeline")
    <3>1. j + 1 \in DOMAIN stack /\ j + 1 # 1  BY <1>5, <2>1
    <3> QED  BY <1>8, <3>1
  <2>6. stack[j + 1].path \in C  BY <1>7, <2>1, <2>2, <2>3, <2>4, <2>5
  <2> QED  BY <2>1, <2>6
<1> HIDE DEF P
<1>12. Nat \subseteq P  BY <1>10, <1>11, SetInduction
<1>13. In(Len(stack))
  <2>1. Len(stack) - k \in Nat /\ k + (Len(stack) - k) = Len(stack)  BY <1>5
  <2>2. Len(stack) - k \in P  BY <1>12, <2>1
  <2> QED  BY <1>5, <2>1, <2>2 DEF P
<1>14. Len(stack) >= k  BY <1>5
<1>15. stack[Len(stack)].path \in Embeds(reg, "pipeline")  BY <1>5, <1>9, <1>14
<1>16. q \in C  BY <1>5, <1>7, <1>13, <1>15 DEF Top
<1> QED  BY <1>2, <1>16

-----------------------------------------------------------------------------
(* One lemma per action.                                                   *)
LEMMA SubstituteRecalls == ASSUME NEW H, Recalling(H), Substitute PROVE RecallNext
<1>1. stack # <<>> /\ Top.pc = "substitute"  BY DEF Substitute
<1>2. DOMAIN Top = FrameFields /\ Embedded(done, Top)  BY <1>1, TopTracked
<1>3. CASE Cyclic \in ToSet(Substituted(reg, Top.decl.nodes))
  <2>1. Raise({Fault(Top, "-", "composition_cycle", <<"bundle">>)})
    BY <1>3 DEF Substitute
  <2>2. \A g : ~GoesOn(done, Top, g)
    BY <1>1, <1>3 DEF GoesOn, Starts, TakesHandler, TakesTrainable, TakesEmbed, EndsGroupA,
       EndsGroupB, AtEntry, AtComposition, AsksFor
  <2>3. ~HandedOn(done, Top.path)  BY <1>1, <2>2, StuckTop
  <2> QED  BY <1>1, <2>1, <2>3, RaiseRecalls
<1>4. CASE Cyclic \notin ToSet(Substituted(reg, Top.decl.nodes))
  <2> DEFINE g == Started(Top)
  <2>1. Replace(g) /\ UNCHANGED <<reg, outcome, done>>
    BY <1>4 DEF Substitute
  <2>2. GoesOn(done, Top, g)  BY <1>1, <1>4 DEF GoesOn, Starts
  <2>3. g.path = Top.path /\ g.faults = Top.faults /\ g.flat = Top.flat
    BY <1>2, StartedFrames
  <2> HIDE DEF g
  <2>4. Embedded(done, g)  BY <1>2, <2>3 DEF Embedded
  <2> QED  BY <1>1, <2>1, <2>2, <2>3, <2>4, StepRecalls
<1> QED  BY <1>3, <1>4

LEMMA FlattenHandlerRecalls == ASSUME NEW H, Recalling(H), FlattenHandler PROVE RecallNext
<1>1. stack # <<>> /\ Top.pc = "flatten" /\ AtEntry(Top, "handler")
  BY DEF FlattenHandler, Flattening, AtEntry, Entry
<1>2. DOMAIN Top = FrameFields /\ Embedded(done, Top) /\ IInv  BY <1>1, TopTracked
<1>3. CASE Entry.name \notin DOMAIN reg.handlers
  <2>1. \A g : ~GoesOn(done, Top, g)
    BY <1>1, <1>3 DEF GoesOn, Starts, TakesHandler, TakesTrainable, TakesEmbed, EndsGroupA,
       EndsGroupB, AtEntry, AtComposition, AsksFor, Entry
  <2>2. ~HandedOn(done, Top.path)  BY <1>1, <2>1, StuckTop
  <2> QED  BY <1>1, <1>3, <2>2, SkipRecalls DEF FlattenHandler
<1>4. CASE Entry.name \in DOMAIN reg.handlers
  <2> DEFINE g == WithHandler(Top)
             node == HandlerNode(Entry, "outer", "-")
  <2>1. Replace(g) /\ UNCHANGED <<reg, outcome, done>>
    BY <1>4 DEF FlattenHandler
  <2>2. GoesOn(done, Top, g)  BY <1>1, <1>4 DEF GoesOn, TakesHandler, Entry
  <2>3. g.path = Top.path /\ (g.faults = {} => Top.faults = {}) /\ g.flat = Append(Top.flat, node)
    BY <1>2, WithHandlerFrames DEF Entry
  <2> HIDE DEF g
  <2>4. node.kind # "pipeline"
    <3>1. NodeOfEntry(node, Entry, reg.handlers[Entry.name], "outer")
      BY <1>2, <1>4, HandlerNodes DEF IInv
    <3> QED  BY <3>1 DEF NodeOfEntry
  <2>5. IsList(Top.flat)  BY <1>1, <1>2, TopHolds DEF IInv, FrameHolds, FlatHolds
  <2> HIDE DEF node
  <2>6. Embedded(done, g)  BY <1>2, <2>3, <2>4, <2>5, OneMoreEmbedded
  <2> QED  BY <1>1, <2>1, <2>2, <2>3, <2>6, StepRecalls
<1> QED  BY <1>3, <1>4

LEMMA SkipCompositionRecalls == ASSUME NEW H, Recalling(H), SkipComposition PROVE RecallNext
<1>1. stack # <<>> /\ Top.pc = "flatten" /\ AtEntry(Top, "composition")
  BY DEF SkipComposition, Flattening, AtEntry, Entry
<1>2. Entry.name \notin DOMAIN reg.comps \/ reg.comps[Entry.name].name \in Top.names
  BY DEF SkipComposition
<1>3. \A g : ~GoesOn(done, Top, g)
  BY <1>1, <1>2 DEF GoesOn, Starts, TakesHandler, TakesTrainable, TakesEmbed, EndsGroupA,
     EndsGroupB, AtEntry, AtComposition, AsksFor, Entry, Embeds
<1>4. ~HandedOn(done, Top.path)  BY <1>1, <1>3, StuckTop
<1> QED  BY <1>1, <1>4, SkipRecalls DEF SkipComposition

LEMMA FlattenTrainableRecalls == ASSUME NEW H, Recalling(H), FlattenTrainable PROVE RecallNext
<1> DEFINE t == reg.comps[Entry.name]
<1>1. stack # <<>> /\ Top.pc = "flatten" /\ AtComposition(Top, "trainable")
  BY DEF FlattenTrainable, Flattens, Flattening, AtComposition, AtEntry, Entry
<1>2. DOMAIN Top = FrameFields /\ Embedded(done, Top) /\ IInv  BY <1>1, TopTracked
<1>3. ASSUME BackendFault(t) # {} \/ BrokenNull(t.config, Backend(t))
      PROVE  ~HandedOn(done, Top.path)
  <2>1. \A g : ~GoesOn(done, Top, g)
    BY <1>1, <1>3 DEF GoesOn, Starts, TakesHandler, TakesTrainable, TakesEmbed, EndsGroupA,
       EndsGroupB, AtEntry, AtComposition, AsksFor, Entry, Embeds
  <2> QED  BY <1>1, <2>1, StuckTop
<1>4. CASE BackendFault(t) # {}
  <2> DEFINE placed == StreamFaults(Top, t.streamable)
             broken == {Fault(Top, "A", x, <<"entry", Top.at>>) : x \in BackendFault(t)}
  <2>1. broken # {}  BY <1>4
  <2> HIDE DEF placed, broken
  <2> DEFINE g == [Top EXCEPT !.at = @ + 1, !.names = @ \cup {t.name},
                              !.faults = @ \cup placed \cup broken]
  <2>2. Replace(g) /\ UNCHANGED <<reg, outcome, done>>
    BY <1>4 DEF FlattenTrainable, placed, broken
  <2>3. g.path = Top.path /\ g.flat = Top.flat /\ g.faults # {}
    BY <1>2, <2>1 DEF FrameFields
  <2> HIDE DEF g
  <2> QED  BY <1>1, <1>3, <1>4, <2>2, <2>3, FaultRecalls
<1>5. CASE BackendFault(t) = {} /\ BrokenNull(t.config, Backend(t))
  <2>1. Raise({Fault(Top, "-", "malformed_declaration", <<"entry", Top.at>>)})
    BY <1>5 DEF FlattenTrainable
  <2> QED  BY <1>1, <1>3, <1>5, <2>1, RaiseRecalls
<1>6. CASE BackendFault(t) = {} /\ ~BrokenNull(t.config, Backend(t))
  <2> DEFINE g == WithTrainable(Top)
             nodes == TrainableNodes(Entry.name, t)
  <2>1. Replace(g) /\ UNCHANGED <<reg, outcome, done>>
    BY <1>6 DEF FlattenTrainable
  <2>2. GoesOn(done, Top, g)  BY <1>1, <1>6 DEF GoesOn, TakesTrainable, Entry
  <2>3. g.path = Top.path /\ (g.faults = {} => Top.faults = {}) /\ g.flat = Top.flat \o nodes
    BY <1>2, WithTrainableFrames DEF Entry
  <2> HIDE DEF g
  <2>4. IsList(nodes) /\ \A n \in ToSet(nodes) : n.kind # "pipeline"
    <3>1. TrainableTyped(t) /\ RegistryTyped(reg)
      BY <1>1, <1>2 DEF AtComposition, Entry, Embeds, IInv, RegistryTyped
    <3> QED  BY <3>1, TrainableNodesHold
  <2>5. IsList(Top.flat)  BY <1>1, <1>2, TopHolds DEF IInv, FrameHolds, FlatHolds
  <2> HIDE DEF nodes
  <2>6. Embedded(done, g)  BY <1>2, <2>3, <2>4, <2>5, EmbeddedMore
  <2> QED  BY <1>1, <2>1, <2>2, <2>3, <2>6, StepRecalls
<1> QED  BY <1>4, <1>5, <1>6

LEMMA CloseGroupARecalls == ASSUME NEW H, Recalling(H), CloseGroupA PROVE RecallNext
<1> DEFINE faults == Top.faults \cup ScopedMergeFaults(Top)
           g == [Top EXCEPT !.pc = "topology"]
<1>1. stack # <<>> /\ Top.pc = "flatten" /\ Top.at \notin DOMAIN Top.nodes
  BY DEF CloseGroupA
<1>2. /\ DOMAIN Top = FrameFields /\ Embedded(done, Top)
      /\ Tracked(done, H, Top) /\ Trail(done, H)
  BY <1>1, TopTracked
<1>3. CASE faults # {}
  <2>1. Raise(faults)  BY <1>3 DEF CloseGroupA
  <2>2. ScopedMergeFaults(Top) # {} => \A h : ~GoesOn(done, Top, h)
    BY <1>1 DEF GoesOn, Starts, TakesHandler, TakesTrainable, TakesEmbed, EndsGroupA,
       EndsGroupB, AtEntry, AtComposition, AsksFor
  <2>3. Top.faults # {} \/ ScopedMergeFaults(Top) # {}  BY <1>3
  <2>4. ~HandedOn(done, Top.path)  BY <1>1, <1>2, <2>2, <2>3, StuckIsNew
  <2> HIDE DEF faults
  <2> QED  BY <1>1, <1>3, <2>1, <2>4, RaiseRecalls
<1>4. CASE faults = {}
  <2>1. Replace(g) /\ UNCHANGED <<reg, outcome, done>>
    BY <1>4 DEF CloseGroupA
  <2>2. GoesOn(done, Top, g)  BY <1>1, <1>4 DEF GoesOn, EndsGroupA
  <2>3. g.path = Top.path /\ g.faults = Top.faults /\ g.flat = Top.flat
    BY <1>2 DEF FrameFields
  <2> HIDE DEF g
  <2>4. Embedded(done, g)  BY <1>2, <2>3 DEF Embedded
  <2> QED  BY <1>1, <2>1, <2>2, <2>3, <2>4, StepRecalls
<1> QED  BY <1>3, <1>4

LEMMA CheckTopologyRecalls == ASSUME NEW H, Recalling(H), CheckTopology PROVE RecallNext
<1> DEFINE g == [Top EXCEPT !.pc = "coverage"]
<1>1. stack # <<>> /\ Top.pc = "topology"  BY DEF CheckTopology
<1>2. DOMAIN Top = FrameFields /\ Embedded(done, Top)  BY <1>1, TopTracked
<1>3. CASE TopologyFaults(Top) # {}
  <2>1. Raise(TopologyFaults(Top))  BY <1>3 DEF CheckTopology
  <2>2. \A h : ~GoesOn(done, Top, h)
    BY <1>1, <1>3 DEF GoesOn, Starts, TakesHandler, TakesTrainable, TakesEmbed, EndsGroupA,
       EndsGroupB, AtEntry, AtComposition, AsksFor
  <2>3. ~HandedOn(done, Top.path)  BY <1>1, <2>2, StuckTop
  <2> QED  BY <1>1, <1>3, <2>1, <2>3, RaiseRecalls
<1>4. CASE TopologyFaults(Top) = {}
  <2>1. Replace(g) /\ UNCHANGED <<reg, outcome, done>>
    BY <1>4 DEF CheckTopology
  <2>2. GoesOn(done, Top, g)  BY <1>1, <1>4 DEF GoesOn, EndsGroupB
  <2>3. g.path = Top.path /\ g.faults = Top.faults /\ g.flat = Top.flat
    BY <1>2 DEF FrameFields
  <2> HIDE DEF g
  <2>4. Embedded(done, g)  BY <1>2, <2>3 DEF Embedded
  <2> QED  BY <1>1, <2>1, <2>2, <2>3, <2>4, StepRecalls
<1> QED  BY <1>3, <1>4

LEMMA CheckCoverageRecalls == ASSUME NEW H, Recalling(H), CheckCoverage PROVE RecallNext
<1>1. stack # <<>> /\ Top.pc = "coverage" /\ Uncovered(Top) # {} /\ Raise(Uncovered(Top))
  BY DEF CheckCoverage
<1>2. ~HandedOn(done, Top.path)  BY <1>1, TopTracked, StuckIsNew
<1> QED  BY <1>1, <1>2, RaiseRecalls

LEMMA FirstPassed ==
    ASSUME NEW D, NEW f, f = Frame(f.path, DeclOf(reg, f.path)) PROVE Passed(D, f)
<1>1. ASSUME NEW P, P = {} PROVE Passed(D, f)
  BY <1>1 DEF Passed
<1> QED  BY <1>1

LEMMA SwappedIn ==
    ASSUME NEW X, NEW s \in Seq(X), NEW k \in DOMAIN s, NEW e \in X
    PROVE  [s EXCEPT ![k] = e] \in Seq(X)
<1>1. s \in [1..Len(s) -> X] /\ Len(s) \in Nat  OBVIOUS
<1>2. [s EXCEPT ![k] = e] \in [1..Len(s) -> X]  BY <1>1
<1> QED  BY <1>1, <1>2

LEMMA EnteredTracked ==
    ASSUME NEW H, Recalling(H), NEW path, NEW h, h = Frame(path, DeclOf(reg, path))
    PROVE  Tracked(done, H, h)
<1>1. h.path = path /\ h.flat = <<>>  BY DEF Frame
<1>2. Embedded(done, h)  BY <1>1, EmptyList DEF Embedded
<1>3. HandedOn(done, path) => h \in H
  BY DEF Recalling, Trailing, Begun, HandedOn
<1>4. Passed(done, h)
  <2>1. h = Frame(h.path, DeclOf(reg, h.path))  BY <1>1
  <2> QED  BY <2>1, FirstPassed
<1> QED  BY <1>1, <1>2, <1>3, <1>4 DEF Tracked

LEMMA FlattenEmbedRecalls == ASSUME NEW H, Recalling(H), FlattenEmbed PROVE RecallNext
<1>1. stack # <<>> /\ Top.pc = "flatten" /\ AtComposition(Top, "pipeline")
  BY DEF FlattenEmbed, Flattens, Flattening, AtComposition, AtEntry, Entry
<1>2. /\ DOMAIN Top = FrameFields /\ Embedded(done, Top) /\ IInv
      /\ Tracked(done, H, Top) /\ Trail(done, H)
  BY <1>1, TopTracked
<1>3. Entry.name \in Embeds(reg, "pipeline") /\ WaitsFor(Top, Entry.name)
  BY <1>1 DEF AtComposition, AtEntry, Entry, EntryOf, WaitsFor
<1> DEFINE p == reg.comps[Entry.name]
           streams == EmbedStreams(reg, Entry.name)
           cycle == EmbedCycleFaults(Top)
           seen == Seen(Top)
<1>4. cycle # {}  BY DEF EmbedCycleFaults
<1>5. DOMAIN seen = FrameFields /\ seen.path = Top.path /\ seen.flat = Top.flat
  BY <1>2, SeenFrames
<1>6. CASE streams = "raises"
  <2>1. Raise({Fault(Top, "-", "composition_cycle", <<"bundle">>)})
    BY <1>6 DEF FlattenEmbed
  <2>2. \A g : ~GoesOn(done, Top, g)
    BY <1>1, <1>6 DEF GoesOn, Starts, TakesHandler, TakesTrainable, TakesEmbed, EndsGroupA,
       EndsGroupB, AtEntry, AtComposition, AsksFor, Entry, Embeds
  <2>3. ~HandedOn(done, Top.path)  BY <1>1, <2>2, StuckTop
  <2> QED  BY <1>1, <2>1, <2>3, RaiseRecalls
<1>7. CASE streams # "raises" /\ OnStack(Entry.name)
  <2> HIDE DEF seen, cycle
  <2> DEFINE g == [seen EXCEPT !.at = @ + 1, !.faults = @ \cup cycle]
  <2>1. Replace(g) /\ UNCHANGED <<reg, outcome, done>>
    BY <1>7 DEF FlattenEmbed, seen, cycle
  <2>2. g.path = Top.path /\ g.faults # {} /\ g.flat = Top.flat
    BY <1>4, <1>5 DEF FrameFields
  <2> HIDE DEF g
  <2>3. ~HandedOn(done, Top.path)
    <3> SUFFICES ASSUME HandedOn(done, Top.path) PROVE FALSE  OBVIOUS
    <3>1. Top \in H  BY <1>2 DEF Tracked
    <3>2. PICK y : GoesOn(done, Top, y)  BY <1>1, <1>2, <3>1 DEF Trail
    <3>3. AsksFor(Top)  BY <1>1, <1>7 DEF AsksFor, Entry
    <3>4. HandedOn(done, Entry.name)
      BY <3>2, <3>3, AskingIsAnswered DEF TakesEmbed, HandedOn, Entry
    <3>5. PICK S : Holding(S)  BY DEF Recalling, CyclesInv
    <3> QED  BY <1>1, <1>2, <1>3, <1>7, <3>4, <3>5, AnsweredIsApart
  <2> QED  BY <1>1, <2>1, <2>2, <2>3, FaultRecalls
<1>8. CASE streams # "raises" /\ ~OnStack(Entry.name)
  <2> DEFINE s == [stack EXCEPT ![Len(stack)] = seen]
             h == Frame(Entry.name, p)
             t == Append(s, h)
  <2>1. stack' = t /\ UNCHANGED <<reg, outcome, done>>
    BY <1>8 DEF FlattenEmbed
  <2>2. Waiting(done, H, seen)
    <3>1. AsksFor(Top)  BY <1>1, <1>8 DEF AsksFor, Entry
    <3> QED  BY <1>2, <3>1 DEF Waiting
  <2>3. Tracked(done, H, h)
    <3>1. p = DeclOf(reg, Entry.name)  BY <1>2, <1>3 DEF DeclOf, IInv, Embeds
    <3>2. h = Frame(Entry.name, DeclOf(reg, Entry.name))  BY <3>1
    <3> HIDE DEF h
    <3> QED  BY <3>2, EnteredTracked
  <2> HIDE DEF seen, h
  <2>4. /\ DOMAIN s = DOMAIN stack /\ Len(s) = Len(stack)
        /\ \A k \in DOMAIN stack : s[k] = IF k = Len(stack) THEN seen ELSE stack[k]
    BY <1>1, <1>2, SwappedFrames DEF IInv
  <2>5. /\ DOMAIN t = DOMAIN s \cup {Len(s) + 1} /\ Len(t) = Len(s) + 1
        /\ Len(s) + 1 \notin DOMAIN s
        /\ \A k \in DOMAIN t : t[k] = IF k = Len(t) THEN h ELSE s[k]
    <3>1. PICK X : stack \in Seq(X)  BY <1>2 DEF IInv, StackHolds
    <3>2. stack \in Seq(X \cup {seen, h})  BY <3>1
    <3>3. s \in Seq(X \cup {seen, h}) /\ Len(s) \in Nat /\ DOMAIN s = 1..Len(s)
      <4>1. Len(stack) \in DOMAIN stack  BY <1>1, <3>1
      <4>2. s \in Seq(X \cup {seen, h})  BY <3>2, <4>1, SwappedIn
      <4> QED  BY <4>2
    <3> HIDE DEF s
    <3>4. /\ DOMAIN t = DOMAIN s \cup {Len(s) + 1} /\ Len(t) = Len(s) + 1
          /\ t[Len(s) + 1] = h /\ \A k \in DOMAIN s : t[k] = s[k]
      BY <3>3
    <3>5. Len(s) + 1 \notin DOMAIN s  BY <3>3
    <3> QED  BY <3>4, <3>5
  <2> HIDE DEF s, t
  <2>6. CallsTracked(done, H, t)
    <3> SUFFICES ASSUME NEW k \in DOMAIN t, k # Len(t) PROVE Waiting(done, H, t[k])
      BY <2>3, <2>5 DEF CallsTracked
    <3>1. k \in DOMAIN stack /\ t[k] = IF k = Len(stack) THEN seen ELSE stack[k]
      BY <2>4, <2>5
    <3> QED  BY <2>2, <3>1 DEF Recalling, Trailing, CallsTracked
  <2>7. Trailing(H)'
    BY <2>1, <2>6, SameTrails DEF Trailing, Recalling
  <2>8. AnswersAgree'  BY <2>1 DEF Recalling, AnswersAgree
  <2>9. stack' # <<>>
    <3>1. DOMAIN <<>> = {}  OBVIOUS
    <3> QED  BY <2>1, <2>5, <3>1
  <2> QED  BY <2>7, <2>8, <2>9 DEF RecallNext
<1> QED  BY <1>6, <1>7, <1>8

(* The trail grows by what a new answer has been through.                   *)
LEMMA DeliveredTrail ==
    ASSUME NEW H, Recalling(H), stack # <<>>, Top.pc = "coverage", Uncovered(Top) = {}
    PROVE  LET D == done \cup {Unit(Top)} IN
           /\ OneAnswer(D)
           /\ \E K : H \subseteq K /\ Trail(D, K) /\ Begun(D, K)
<1> DEFINE D == done \cup {Unit(Top)}
<1>1. /\ Tracked(done, H, Top) /\ Trail(done, H) /\ Begun(done, H) /\ OneAnswer(done)
      /\ Unit(Top).path = Top.path
  BY TopTracked DEF Recalling, Trailing, Unit
<1>2. CASE HandedOn(done, Top.path)
  <2>1. D = done  BY <1>1, <1>2 DEF Tracked, Trail
  <2> QED  BY <1>1, <2>1
<1>3. CASE ~HandedOn(done, Top.path)
  <2>1. Top.faults = {}
    <3>1. PICK S : Holding(S)  BY DEF Recalling, CyclesInv
    <3> QED  BY <3>1, TopFinished DEF FrameFinished, Recalling, CyclesInv
  <2>2. PICK P : /\ Frame(Top.path, DeclOf(reg, Top.path)) \in P \cup {Top}
                 /\ \A x \in P : /\ x.faults = {} /\ x.pc # "coverage"
                                 /\ \E y \in P \cup {Top} : GoesOn(done, x, y)
    BY <1>1, <1>3, <2>1 DEF Tracked, Passed
  <2> DEFINE K == H \cup P \cup {Top}
  <2>3. OneAnswer(D)  BY <1>1, <1>3 DEF OneAnswer, HandedOn
  <2>4. done \subseteq D /\ Unit(Top) \in D  OBVIOUS
  <2>5. Begun(D, K)
    BY <1>1, <2>2 DEF Begun
  <2> HIDE DEF D
  <2>6. ASSUME NEW x \in H
        PROVE  /\ x.faults = {}
               /\ IF x.pc = "coverage" THEN Uncovered(x) = {} /\ Unit(x) \in D
                  ELSE \E y \in K : GoesOn(D, x, y)
    BY <1>1, <2>4, GoesOnMore DEF Trail
  <2>7. ASSUME NEW x \in P
        PROVE  /\ x.faults = {} /\ x.pc # "coverage" /\ \E y \in K : GoesOn(D, x, y)
    BY <2>2, <2>4, GoesOnMore
  <2>8. Trail(D, K)  BY <2>1, <2>4, <2>6, <2>7 DEF Trail
  <2>9. H \subseteq K  OBVIOUS
  <2> HIDE DEF K
  <2> QED  BY <2>3, <2>5, <2>8, <2>9 DEF D
<1> QED  BY <1>2, <1>3

LEMMA DeliverRecalls == ASSUME NEW H, Recalling(H), Deliver PROVE RecallNext
<1> DEFINE d == Unit(Top)
<1>1. /\ stack # <<>> /\ Top.pc = "coverage" /\ Uncovered(Top) = {}
      /\ done' = done \cup {d} /\ reg' = reg
  BY DEF Deliver
<1>2. PICK K : H \subseteq K /\ Trail(done', K) /\ Begun(done', K)
  BY <1>1, DeliveredTrail
<1>3. OneAnswer(done')  BY <1>1, DeliveredTrail
<1>4. /\ d.path = Top.path /\ d.flat = Top.flat /\ d.graph = GraphOf(Top)
      /\ d.decl = [Top.decl EXCEPT !.nodes = Top.nodes]
  BY DEF Unit
<1>5. IInv /\ Embedded(done, Top) /\ FrameHolds(reg, Top)
  BY <1>1, TopTracked, TopHolds DEF IInv
<1> HIDE DEF d
<1>6. \A f : Embedded(done, f) => Embedded(done', f)
  BY <1>1 DEF Embedded, HandedOn
<1>7. AnswersAgree'
  <2>1. Embedded(done', d)  BY <1>4, <1>5, <1>6 DEF Embedded
  <2>2. \A e \in done : Embedded(done', e)  BY <1>6 DEF Recalling, AnswersAgree
  <2>3. \A e \in done' : Embedded(done', e)  BY <1>1, <2>1, <2>2
  <2> QED  BY <1>3, <2>3 DEF AnswersAgree, Embedded, HandedOn, OneAnswer
<1>8. CASE Len(stack) = 1
  <2>1. stack' = <<>> /\ outcome'.status = "compiled"  BY <1>8 DEF Deliver
  <2>2. DOMAIN <<>> = {}  OBVIOUS
  <2>3. CallsTracked(done', K, <<>>)  BY <2>2 DEF CallsTracked
  <2>4. Trailing(K)'
    <3>1. \A E, L : (Trail(E, L)' <=> Trail(E, L)) /\ (Begun(E, L)' <=> Begun(E, L))
      BY <1>1, SameTrails
    <3>2. \A E, L, s : CallsTracked(E, L, s)' <=> CallsTracked(E, L, s)
      BY <1>1, SameTrails
    <3> QED  BY <1>2, <2>1, <2>3, <3>1, <3>2 DEF Trailing
  <2> QED  BY <1>7, <2>1, <2>4 DEF RecallNext
<1>9. CASE Len(stack) # 1
  <2> DEFINE caller == stack[Len(stack) - 1]
             node == EmbedNode(Top.path, Top.decl, StreamRoute(GraphOf(Top)) # 0)
             g == [caller EXCEPT !.flat = Append(@, node), !.at = @ + 1]
  <2>1. PICK u : /\ caller = Seen(u) /\ DOMAIN u = FrameFields /\ AsksFor(u)
                 /\ Tracked(done, H, u) /\ EntryOf(u).name = Top.path
    BY <1>1, <1>9, CallerTracked
  <2>2. stack' = Append(SubSeq(stack, 1, Len(stack) - 2), g)
    BY <1>9 DEF Deliver
  <2>3. /\ DOMAIN caller = FrameFields /\ caller.path = u.path /\ caller.flat = u.flat
        /\ (caller.faults = {} => u.faults = {})
    BY <2>1, SeenFrames
  <2>4. node = NodeOf(d)
    <3>1. d.decl.inputs = Top.decl.inputs /\ d.decl.outputs = Top.decl.outputs
      BY <1>4, <1>5 DEF FrameHolds, PipelineTyped
    <3> QED  BY <1>4, <3>1 DEF NodeOf, EmbedNode
  <2>5. node.kind = "pipeline" /\ node.from = Top.path  BY DEF EmbedNode, FlatNode
  <2> HIDE DEF node
  <2>6. g = Resumed(Seen(u), d)  BY <2>1, <2>4 DEF Resumed
  <2> HIDE DEF caller
  <2>7. /\ g.path = u.path /\ (g.faults = {} => u.faults = {})
        /\ g.flat = Append(u.flat, node)
    BY <2>3 DEF FrameFields
  <2> HIDE DEF g
  <2>8. \A k \in DOMAIN stack : k # Len(stack) => stack[k].path # Top.path
    BY <1>1, <1>5, TopHolds DEF IInv, StackHolds, Simple, Top
  <2>9. \A path : path # Top.path /\ HandedOn(done', path) => HandedOn(done, path)
    BY <1>1, <1>4 DEF HandedOn
  <2>10. \A k \in DOMAIN stack : k # Len(stack) => Waiting(done', K, stack[k])
    <3> SUFFICES ASSUME NEW k \in DOMAIN stack, k # Len(stack)
                 PROVE  Waiting(done', K, stack[k])
      OBVIOUS
    <3>1. Waiting(done, H, stack[k])  BY DEF Recalling, Trailing, CallsTracked
    <3>2. HandedOn(done', stack[k].path) => HandedOn(done, stack[k].path)
      BY <2>8, <2>9
    <3>3. done \subseteq done'  BY <1>1
    <3> QED  BY <1>2, <3>1, <3>2, <3>3, WaitingMore
  <2>11. Tracked(done', K, g)
    <3>1. u.path # Top.path
      <4>1. PICK X : stack \in Seq(X)  BY <1>5 DEF IInv, StackHolds
      <4>2. Len(stack) \in Nat /\ Len(stack) # 0 /\ DOMAIN stack = 1..Len(stack)
        BY <1>1, <4>1, EmptySeq
      <4>3. Len(stack) - 1 \in DOMAIN stack /\ Len(stack) - 1 # Len(stack)
        BY <1>9, <4>2, JustBelowTheTop
      <4> QED  BY <2>3, <2>8, <4>3 DEF caller
    <3>2. done \subseteq done'  BY <1>1
    <3>3. HandedOn(done', u.path) => HandedOn(done, u.path)  BY <2>9, <3>1
    <3>4. Tracked(done', K, u)  BY <1>2, <2>1, <3>2, <3>3, TrackedMore
    <3>5. GoesOn(done', u, g)
      BY <1>1, <1>4, <2>1, <2>6 DEF GoesOn, TakesEmbed
    <3>6. Embedded(done', g)
      <4>1. Embedded(done', u)  BY <3>4 DEF Tracked
      <4>2. HandedOn(done', Top.path)  BY <1>1, <1>4 DEF HandedOn
      <4>3. IsList(u.flat)
        BY <1>1, <1>5, <1>9, <2>3, CallerHolds DEF IInv, FrameHolds, FlatHolds, caller
      <4> QED  BY <2>5, <2>7, <4>1, <4>2, <4>3, OneMoreEmbedded
    <3> QED  BY <1>2, <1>3, <2>7, <3>4, <3>5, <3>6, TrackedGoesOn
  <2> QED  BY <1>1, <1>2, <1>5, <1>7, <1>9, <2>2, <2>10, <2>11, ReturnRecalls
<1> QED  BY <1>8, <1>9

LEMMA NextRecalls == ASSUME RecallInv, Next PROVE RecallNext
<1>1. PICK H : Recalling(H)  BY DEF RecallInv, Recalling
<1> QED
  BY <1>1, SubstituteRecalls, FlattenHandlerRecalls, SkipCompositionRecalls,
     FlattenTrainableRecalls, FlattenEmbedRecalls, CloseGroupARecalls, CheckTopologyRecalls,
     CheckCoverageRecalls, DeliverRecalls DEF Next

LEMMA RecallInvInit == Beginning => RecallInv
<1> SUFFICES ASSUME Beginning PROVE RecallInv  OBVIOUS
<1>1. CyclesInv  BY CyclesInvInit
<1> DEFINE f == Frame("root", reg.root)
<1>2. stack = <<f>> /\ done = {} /\ f.flat = <<>> /\ f.path = "root"  BY DEF Beginning, Frame
<1>3. f = Frame(f.path, DeclOf(reg, f.path))  BY <1>2 DEF DeclOf
<1> HIDE DEF f
<1>4. Len(<<f>>) = 1 /\ DOMAIN <<f>> = {1} /\ <<f>>[1] = f  OBVIOUS
<1>5. Tracked(done, {}, f)
  <2>1. Passed(done, f)  BY <1>3, FirstPassed
  <2>2. Embedded(done, f)  BY <1>2, EmptyList DEF Embedded
  <2>3. ~HandedOn(done, f.path)  BY <1>2 DEF HandedOn
  <2> QED  BY <2>1, <2>2, <2>3 DEF Tracked
<1>6. Trailing({})
  BY <1>2, <1>4, <1>5 DEF Trailing, Trail, Begun, CallsTracked
<1> QED  BY <1>1, <1>2, <1>6 DEF RecallInv, AnswersAgree, OneAnswer

LEMMA RecallInvStep == RecallInv /\ [Next]_vars => RecallInv'
<1> SUFFICES ASSUME RecallInv, [Next]_vars PROVE RecallInv'  OBVIOUS
<1>1. CyclesInv'  BY CyclesInvStep DEF RecallInv
<1>2. CASE UNCHANGED vars
  <2>1. PICK H : Trailing(H)  BY DEF RecallInv
  <2>2. Trailing(H)'
    <3>1. /\ Trail(done, H)' <=> Trail(done, H)
          /\ Begun(done, H)' <=> Begun(done, H)
          /\ CallsTracked(done, H, stack)' <=> CallsTracked(done, H, stack)
      BY <1>2, SameTrails DEF vars
    <3> QED  BY <2>1, <3>1 DEF Trailing
  <2>3. AnswersAgree'  BY <1>2 DEF RecallInv, AnswersAgree, vars
  <2> QED  BY <1>1, <2>2, <2>3 DEF RecallInv
<1>3. CASE Next
  BY <1>1, <1>3, NextRecalls DEF RecallNext, RecallInv
<1> QED  BY <1>2, <1>3

(* Every call of `compile_pipeline` for one declaration is answered alike,  *)
(* whatever it is called from: a second embed of a pipeline gets the graph  *)
(* that the first call handed on.                                          *)
EveryAnswerAgrees == OneAnswer(done)

THEOREM CompilingAgainAgrees == Spec => []EveryAnswerAgrees
<1>1. RecallInv => EveryAnswerAgrees  BY DEF RecallInv, AnswersAgree, EveryAnswerAgrees
<1> QED  BY <1>1, InitBegins, RecallInvInit, RecallInvStep, PTL DEF Spec
==============================================================================
