---------------------------- MODULE RunContract ----------------------------
(***************************************************************************)
(* What `run` promises its caller, with everything inside a node's task    *)
(* hidden: a call is refused, raises or returns; nodes commit one at a     *)
(* time in declared order and none after the run has ended; a run returns  *)
(* only when all nodes committed, and then RunResult.state is, for each    *)
(* channel of the outer pipeline the graph writes, the left fold of all its*)
(* contributors in graph order; a run that raises hands out no state.      *)
(***************************************************************************)
EXTENDS PipelineGraph

CONSTANTS Graphs

VARIABLES graph, phase, committed, state

contract == <<graph, phase, committed, state>>

ContractInit ==
    /\ graph \in Graphs
    /\ phase = "called" /\ committed = 0 /\ state = <<>>

Begin == /\ phase = "called" /\ phase' = "running"
         /\ UNCHANGED <<graph, committed, state>>

Commit == /\ phase = "running" /\ committed < Len(graph.nodes)
          /\ committed' = committed + 1
          /\ UNCHANGED <<graph, phase, state>>

Raise == /\ phase \in {"called", "running"} /\ phase' = "raised"
         /\ committed' = 0
         /\ UNCHANGED <<graph, state>>

(* The left fold of a channel's contributors: each once, in graph order.   *)
FoldOf(c) ==
    LET all == Contributors(graph, c)
        n   == Cardinality(all)
    IN  CHOOSE s \in [1..n -> all] :
            \A i, j \in 1..n : i < j => Earlier(s[i], s[j])

Return == /\ phase = "running" /\ committed = Len(graph.nodes)
          /\ phase' = "returned"
          /\ state' = [c \in OuterWritten(graph) |-> FoldOf(c)]
          /\ UNCHANGED <<graph, committed>>

ContractNext == Begin \/ Commit \/ Raise \/ Return

ContractSafety == ContractInit /\ [][ContractNext]_contract

(* A call that has begun comes back.                                       *)
Spec == ContractSafety /\ WF_contract(ContractNext)
=============================================================================
