---------------------------- MODULE MCKernelWalk ----------------------------
(* Small instances of the kernel walk for TLC.                             *)
EXTENDS KernelWalkContract, TLC

CONSTANTS a, b, c

node(kind, reads, writes) ==
    [kind |-> kind, reads |-> reads, writes |-> writes, streams |-> FALSE]
streaming(n) == [n EXCEPT !.streams = TRUE]

pipeline(nodes, inputs, outputs, merged, scoped) ==
    [nodes |-> nodes, inputs |-> inputs, outputs |-> outputs,
     merged |-> merged, scoped |-> scoped]

(* The seed of `a` is first read by a hook, then folded, then read.        *)
HookReadsSeed ==
    pipeline(<<node("hook", {a}, <<>>), node("transform", {b}, <<a>>),
               node("service", {a}, <<c>>)>>, {a, b}, {c}, {a}, {})

(* The seed of `a` is first consumed by a fold, of two ports of one node.   *)
FoldTakesSeed ==
    pipeline(<<node("transform", {b}, <<a, a>>), node("transform", {a}, <<c>>)>>,
             {a, b}, {c}, {a}, {})

(* An embed, the only reader of the seed, then a streamable terminal with   *)
(* two ports on a merged channel.                                          *)
StreamingTerminal ==
    pipeline(<<node("pipeline", {a}, <<b>>),
               streaming(node("trainable", {b}, <<c, c>>)),
               node("hook", {c}, <<>>)>>, {a}, {c}, {c}, {b})

(* The stream is the inner run's.                                          *)
StreamingEmbed ==
    pipeline(<<node("service", {a}, <<c>>),
               streaming(node("pipeline", {a, c}, <<b>>)),
               node("hook", {b}, <<>>)>>, {a}, {b}, {b}, {})

(* An embed that streams is followed by a service: no rule of the walk's    *)
(* forbids it, and no stream has a route.                                  *)
StreamFollowed ==
    pipeline(<<streaming(node("pipeline", {a}, <<b>>)),
               node("service", {b}, <<c>>)>>, {a}, {c}, {}, {})

(* A trainable reads a seeded merged channel before anything wrote it.     *)
UnwrittenMerge ==
    pipeline(<<node("trainable", {a}, <<c>>), node("transform", {c}, <<a>>),
               node("hook", {a}, <<>>), node("trainable", {a}, <<b>>)>>,
             {a}, {b}, {a}, {})

MCGraphs == {HookReadsSeed, FoldTakesSeed, StreamingTerminal, StreamingEmbed,
             StreamFollowed, UnwrittenMerge}

MCRequests ==
    [supplied : {Channels, {b}}, bad : SUBSET {a, b},
     timed : BOOLEAN, sink : BOOLEAN]

AllFaults == Sites

(* Every graph of at most MaxNodes transforms and hooks over one channel,  *)
(* one write port per transform, that compile accepts: what the topology   *)
(* rules wrongly let through would be among them.                          *)
CONSTANT MaxNodes

SmallNodes ==
    {n \in NodesOver({a}, {<<>>, <<a>>}) :
        /\ \/ n.kind = "transform" /\ n.writes # <<>>
           \/ n.kind = "hook" /\ n.writes = <<>>
        /\ ~n.streams}

SmallGraphs ==
    {g \in {pipeline(nodes, inputs, {}, merged, {}) :
                nodes  \in UNION {[1..k -> SmallNodes] : k \in 1..MaxNodes},
                inputs \in SUBSET {a}, merged \in SUBSET {a}} :
        Walkable(g)}

WalkGraphs == MCGraphs \cup SmallGraphs
=============================================================================
