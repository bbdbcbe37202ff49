--------------------------- MODULE MCServerStreams ---------------------------
(* Small instances of the server's streams for TLC.                        *)
EXTENDS ServerStreams, TLC

CONSTANTS r1, r2, s1, s2, s3, x, y

Kinds == (s1 :> "events") @@ (s2 :> "tokens") @@ (s3 :> "events")

(* One run, followed by two event streams that may time out.               *)
OneRun == [posts |-> {r1}, runId |-> [r \in Runs |-> x], opens |-> {s1, s3},
           streamId |-> [s \in Streams |-> x], kind |-> Kinds, bounded |-> TRUE]

(* One streamable run, followed by an event stream and a token stream.     *)
BothHubs == [OneRun EXCEPT !.posts = {r2}, !.opens = {s1, s2}]

(* Two runs under two ids, an event stream on the one and a token stream on *)
(* the other.                                                              *)
TwoRuns == [posts |-> {r1, r2}, runId |-> (r1 :> x) @@ (r2 :> y), opens |-> {s1, s2},
            streamId |-> (s1 :> x) @@ (s2 :> y) @@ (s3 :> x), kind |-> Kinds, bounded |-> FALSE]

AllScenes == {OneRun, BothHubs, TwoRuns}

(* One run and one event stream that may time out.                         *)
OneStream == {[OneRun EXCEPT !.opens = {s1}]}
=============================================================================
