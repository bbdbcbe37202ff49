------------------------- MODULE KernelWalkContract -------------------------
(* The kernel walk implements the contract a caller of run() relies on.    *)
EXTENDS KernelWalk

Phase ==
    IF pc = "call" THEN "called"
    ELSE IF pc = "returned" THEN "returned"
    ELSE IF pc \in {"failed", "raised"} THEN "raised"
    ELSE "running"

(* A node is committed when its task is over and the walk has moved on.    *)
CommittedNodes ==
    IF Phase = "running"
    THEN IF pc \in {"end", "close"} THEN at ELSE at - 1
    ELSE IF Phase = "returned" THEN at ELSE 0

Contract == INSTANCE RunContract WITH
    phase     <- Phase,
    committed <- CommittedNodes,
    state     <- [c \in DOMAIN result |-> result[c].parts]

(* Every behaviour of the walk, its internal steps hidden, is one of the    *)
(* contract: results are total left folds, raising hands out nothing.      *)
ContractSpec == Contract!Spec
=============================================================================
