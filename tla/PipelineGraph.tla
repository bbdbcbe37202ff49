--------------------------- MODULE PipelineGraph ---------------------------
(***************************************************************************)
(* The compiled graph of a conjured pipeline and the topology rules        *)
(* `compile_pipeline` enforces on it (Group B, and the streamable-terminal *)
(* rule of Group A).  A graph is a record                                  *)
(*                                                                         *)
(*   nodes   : a sequence of nodes, in dispatch order; a node is a record  *)
(*             kind    "transform", "service", "hook", "trainable" or      *)
(*                     "pipeline" (a nested embed)                         *)
(*             reads   the channels its input ports are wired to           *)
(*             writes  the channels of its output ports, in port order     *)
(*             streams it is a streamable trainable, or an embed whose own *)
(*                     runnable can stream                                 *)
(*   inputs  : the channels the caller seeds                               *)
(*   outputs : the channels published in pipeline_complete                 *)
(*   merged  : the channels with a merge.<channel> strategy                *)
(*   scoped  : composition-internal channels, kept out of the result       *)
(*                                                                         *)
(* Channel types are left out: `_type_match` and `_strategy_accepts` decide*)
(* them alone and no other rule looks at them.                             *)
(***************************************************************************)
EXTENDS Naturals, Sequences, FiniteSets

Kinds == {"transform", "service", "hook", "trainable", "pipeline"}

NodesOver(Channels, WritePortLists) ==
    [kind : Kinds, reads : SUBSET Channels, writes : WritePortLists,
     streams : BOOLEAN]

GraphsOver(Channels) ==
    [nodes  : Seq(NodesOver(Channels, Seq(Channels))),
     inputs : SUBSET Channels, outputs : SUBSET Channels,
     merged : SUBSET Channels, scoped : SUBSET Channels]

Positions(g) == DOMAIN g.nodes

Kind(g, n) == g.nodes[n].kind

(* A contributor to a channel: the caller's seed, or one write port.       *)
Seed == <<0, 0>>

WritePorts(g, c) ==
    UNION {{<<n, p>> : p \in {q \in DOMAIN g.nodes[n].writes :
                                  g.nodes[n].writes[q] = c}}
           : n \in Positions(g)}

(* `channel_contributors`: the seed first, then the writes in graph order. *)
Contributors(g, c) ==
    (IF c \in g.inputs THEN {Seed} ELSE {}) \cup WritePorts(g, c)

Earlier(a, b) == a[1] < b[1] \/ (a[1] = b[1] /\ a[2] < b[2])

ReadChannels(g)  == UNION {g.nodes[n].reads : n \in Positions(g)}
WrittenChannels(g) ==
    UNION {{g.nodes[n].writes[p] : p \in DOMAIN g.nodes[n].writes}
           : n \in Positions(g)}
WiredChannels(g) == ReadChannels(g) \cup WrittenChannels(g)

(* What RunResult.state is projected onto.                                 *)
OuterWritten(g) == WrittenChannels(g) \ g.scoped

SingleAssignment(g) ==
    \A n \in Positions(g) :
        \A p \in DOMAIN g.nodes[n].writes :
            g.nodes[n].writes[p] \notin g.nodes[n].reads

(* Mutant of MergeDeclared: the seed is not counted.                       *)
MergeDeclaredForWrites(g) ==
    \A c \in WiredChannels(g) :
        Cardinality(WritePorts(g, c)) >= 2 => c \in g.merged

MergeDeclared(g) ==
    \A c \in WiredChannels(g) :
        Cardinality(Contributors(g, c)) >= 2 => c \in g.merged

MergeWired(g) == g.merged \subseteq WiredChannels(g)

(* Mutant of InputClosed: any writer closes a read, a later one too.       *)
InputClosedAnywhere(g) ==
    \A n \in Positions(g) : \A c \in g.nodes[n].reads :
        c \in g.inputs \/ WritePorts(g, c) # {}

InputClosed(g) ==
    \A n \in Positions(g) : \A c \in g.nodes[n].reads :
        c \in g.inputs \/ \E w \in WritePorts(g, c) : w[1] < n

BoundaryLive(g) ==
    g.inputs \subseteq ReadChannels(g) /\ g.outputs \subseteq WrittenChannels(g)

StreamableTerminal(g) ==
    \A n \in Positions(g) : g.nodes[n].streams =>
        \A m \in Positions(g) : m > n => Kind(g, m) = "hook"

(* Per-kind shape: a hook has no output ports, a channel-writing handler    *)
(* has some, only a trainable or an embed can stream.                      *)
WellKinded(g) ==
    \A n \in Positions(g) :
        /\ Kind(g, n) = "hook" => g.nodes[n].writes = <<>>
        /\ Kind(g, n) \in {"transform", "service", "trainable"} =>
                g.nodes[n].writes # <<>>
        /\ g.nodes[n].streams => Kind(g, n) \in {"trainable", "pipeline"}

(* Scoping renames a composition's internal channels to                    *)
(* `<composition>.<channel>`, a name no [inputs] or [outputs] field has.   *)
ScopedApart(g) == (g.inputs \cup g.outputs) \cap g.scoped = {}

(* What the walk takes for granted of a compiled graph.                     *)
Walkable(g) ==
    /\ WellKinded(g)
    /\ ScopedApart(g)
    /\ SingleAssignment(g)
    /\ MergeDeclared(g)
    /\ MergeWired(g)
    /\ InputClosed(g)
    /\ BoundaryLive(g)

(* `compile_pipeline` is to return a graph only when no rule has collected  *)
(* a fault.                                                                *)
Accepted(g) == Walkable(g) /\ StreamableTerminal(g)

(* `stream_route_position`: the last node that is not a hook, when it can   *)
(* stream; 0 stands for None.                                              *)
StreamRoute(g) ==
    LET last(n) == /\ Kind(g, n) # "hook"
                   /\ \A m \in Positions(g) : m > n => Kind(g, m) = "hook"
    IN  IF \E n \in Positions(g) : last(n) /\ g.nodes[n].streams
        THEN CHOOSE n \in Positions(g) : last(n)
        ELSE 0
=============================================================================
