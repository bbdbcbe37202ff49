----------------------------- MODULE KernelWalk -----------------------------
(***************************************************************************)
(* One invocation of `conjured.runner.run`: the API boundary, the walk over*)
(* the compiled nodes in declared order, and the halt or the result.       *)
(*                                                                         *)
(* A node's task is projection, dispatch and routing, with the engine's    *)
(* failure rules around it: what is re-raised, what is wrapped and with    *)
(* which failure_category, what a hook absorbs, what is emitted.  Author   *)
(* bodies, adapters, consumer sinks and third-party validators are the     *)
(* environment: at each call they do any of the things the engine has an   *)
(* arm for.                                                                *)
(*                                                                         *)
(* A channel value is the sequence of contributors folded into it (Seed is *)
(* the caller's value, <<n, p>> the value port p of node n returned) and   *)
(* whether a merge strategy's seed/fold has been applied to it.            *)
(***************************************************************************)
EXTENDS PipelineGraph

CONSTANTS
    Channels,       \* channel names
    Graphs,         \* the compiled graphs that may be run
    Requests,       \* the calls of run() to consider, see Request
    Faults,         \* the failure sites the environment may use
    MaxCalls        \* bound: adapter calls or fragments per dispatch

Sites == {"budget", "seed", "validator", "firstfold", "copy", "delivery",
          "reads", "body", "adapter", "capture", "output", "inner", "escape",
          "fold", "namespace", "sink", "missing", "noroute"}

(* supplied: the keys of `inputs`; bad: those whose value does not have the *)
(* declared type; timed: timeout_ms is given; sink: stream_sink is given.   *)
Request == [supplied : SUBSET Channels, bad : SUBSET Channels,
            timed : BOOLEAN, sink : BOOLEAN]

ASSUME GraphsTyped    == Graphs \subseteq GraphsOver(Channels)
ASSUME GraphsWalkable == \A g \in Graphs : Len(g.nodes) > 0 /\ Walkable(g)
ASSUME RequestsTyped  == Requests \subseteq Request
ASSUME FaultsTyped    == Faults \subseteq Sites
ASSUME MaxCallsNat    == MaxCalls \in Nat

VARIABLES
    graph,    \* the Runnable's graph
    req,      \* the call's arguments
    pc,       \* where the walk is
    at,       \* the position being dispatched (dispatching[0])
    port,     \* the write port being routed
    calls,    \* adapter calls made / fragments produced in this dispatch
    chan,     \* channel_state
    written,  \* written
    raw,      \* seed_still_raw
    proj,     \* projected_reads
    expired,  \* elapsed >= timeout_ms
    sink,     \* the dispatch's sink: "none", "on", or "off" once detached
    err,      \* the error in flight
    result,   \* RunResult.state
    trace     \* history: canonical events, fragments and the budget's expiry

env    == <<graph, req>>
data   == <<chan, written, raw>>
detail == <<port, calls, proj, sink>>       \* the task's own variables
vars == <<graph, req, pc, at, port, calls, chan, written, raw, proj, expired,
          sink, err, result, trace>>

Nothing   == [c \in {} |-> FALSE]
Absent    == [parts |-> <<>>, folded |-> FALSE]
SeedValue == [parts |-> <<Seed>>, folded |-> FALSE]
NoErr     == [cls |-> "none", cat |-> "none", site |-> "none", node |-> 0]

Here   == graph.nodes[at]
Bare   == Here.kind \in {"transform", "service", "hook"}
Merged == graph.merged

(* seed_contributes: merged channels whose fold starts from the seed.      *)
SeedContributes == {c \in Merged : Seed \in Contributors(graph, c)}

(* `_first_fold` and `_fold`.                                              *)
FirstFold(v) == [v EXCEPT !.folded = TRUE]
Fold(v, w)   == [parts |-> v.parts \o w.parts, folded |-> TRUE]

(* A value that carries the caller's ill-typed seed.                       *)
IllTyped(c, v) == /\ c \in req.bad
                  /\ v.parts # <<>>
                  /\ v.parts[1] = Seed

(* Mutant of Category: no locus="engine" on routing.                       *)
CategoryByKind(site) ==
    IF site = "adapter" /\ Here.kind # "trainable" THEN "service"
    ELSE IF Here.kind = "trainable" THEN "service"
    ELSE "handler"

(* `_wrap`: failure_category from the locus, the carrier and the node kind.*)
Category(site) ==
    IF site \in {"copy", "fold", "escape"} THEN "engine"
    ELSE IF site \in {"delivery", "capture"} THEN "engine"
    ELSE IF site = "adapter" /\ Here.kind # "trainable" THEN "service"
    ELSE IF Here.kind = "pipeline" THEN "engine"
    ELSE IF Here.kind = "trainable" THEN "service"
    ELSE "handler"

Emit(ev) == trace' = Append(trace, [ev |-> ev, node |-> at])

(* The two ways out of a failing dispatch; both reach the `finally` arm.    *)
Halt(cls, cat, site) ==
    /\ err' = [cls |-> cls, cat |-> cat, site |-> site, node |-> at]
    /\ pc' = "restore"

(* Mutant of RaiseRaw: every kind's failure is absorbed.                   *)
AbsorbRaw(site) == err' = err /\ pc' = "restore"

(* The `except Exception` arm: wrapped, and absorbed when it is a hook's.   *)
RaiseRaw(site) ==
    IF Here.kind = "hook"
    THEN err' = err /\ pc' = "restore"
    ELSE Halt("PF", Category(site), site)

May(site) == site \in Faults

Init ==
    /\ graph \in Graphs
    /\ req \in Requests
    /\ pc = "call" /\ at = 0 /\ port = 0 /\ calls = 0
    /\ chan = [c \in Channels |-> Absent]
    /\ written = {} /\ raw = {}
    /\ proj = Nothing /\ sink = "none"
    /\ expired = FALSE
    /\ err = NoErr /\ result = Nothing /\ trace = <<>>

-----------------------------------------------------------------------------
(* The API boundary: nothing has started, so nothing is emitted.           *)

InputsPresent == graph.inputs \subseteq req.supplied
SinkRoutable  == req.sink => StreamRoute(graph) # 0

Refuse ==
    /\ pc = "call"
    /\ ~ (InputsPresent /\ SinkRoutable)
    /\ err' = [cls |-> "CV", cat |-> "none", node |-> 0,
               site |-> IF InputsPresent THEN "noroute" ELSE "missing"]
    /\ pc' = "raised"
    /\ UNCHANGED <<env, data, detail, at, expired, result, trace>>

(* Seeding: only the declared inputs become channels.                      *)
Start ==
    /\ pc = "call" /\ InputsPresent /\ SinkRoutable
    /\ chan' = [c \in Channels |-> IF c \in graph.inputs THEN SeedValue
                                   ELSE Absent]
    /\ raw' = graph.inputs
    /\ at' = 1 /\ pc' = "boundary"
    /\ Emit("start")
    /\ UNCHANGED <<env, detail, written, expired, err, result>>

(* Time passes at any moment of a run; only the boundaries look at it.     *)
Expire ==
    /\ pc \notin {"call", "failed", "raised", "returned"}
    /\ req.timed /\ ~expired
    /\ expired' = TRUE
    /\ Emit("expired")
    /\ UNCHANGED <<env, data, detail, pc, at, err, result>>

(* `_check_timeout` at a task boundary and at the return point; it stands  *)
(* outside the task's try, so nothing is restored and no hook absorbs it.  *)
BudgetSpent ==
    /\ pc \in {"boundary", "end"} /\ expired
    /\ err' = [cls |-> "PF", cat |-> "engine", site |-> "budget", node |-> at]
    /\ pc' = "failed"
    /\ UNCHANGED <<env, data, detail, at, expired, result, trace>>

(* Mutant of BudgetLeft: the budget is not looked at.                      *)
BudgetIgnored ==
    /\ pc \in {"boundary", "end"}
    /\ pc' = IF pc = "end" THEN "close" ELSE "reads"
    /\ UNCHANGED <<env, data, detail, at, expired, err, result, trace>>

BudgetLeft ==
    /\ pc \in {"boundary", "end"} /\ ~expired
    /\ pc' = IF pc = "end" THEN "close" ELSE "reads"
    /\ UNCHANGED <<env, data, detail, at, expired, err, result, trace>>

-----------------------------------------------------------------------------
(* The reads projection: validate what is still raw, fold, then copy.      *)

AtReads  == pc = "reads"
RawReads == Here.reads \cap raw
Readable == \A c \in Here.reads : ~IllTyped(c, chan[c])
(* Mutant of SeedsPass: copy first, validate later.                        *)
SeedsUnchecked == TRUE
SeedsPass == RawReads # {} => Readable

SeedRefused ==
    /\ AtReads /\ RawReads # {} /\ ~Readable
    /\ Halt("SVE", "none", "seed")
    /\ UNCHANGED <<env, data, detail, at, expired, result, trace>>

SeedValidatorBreaks ==
    /\ AtReads /\ RawReads # {} /\ May("validator")
    /\ RaiseRaw("validator")
    /\ UNCHANGED <<env, data, detail, at, expired, result, trace>>

UnfoldedReads == (Here.reads \cap SeedContributes) \ written

FirstFoldBreaks ==
    /\ AtReads /\ SeedsPass
    /\ raw' = raw \ Here.reads
    /\ UnfoldedReads # {} /\ May("firstfold")
    /\ RaiseRaw("firstfold")
    /\ UNCHANGED <<env, detail, chan, written, at, expired, result, trace>>

(* The copy of an ill-typed seed may fail too: it is why validation is     *)
(* first.  A copy failure halts even a hook.                               *)
ReadsCopyBreaks ==
    /\ AtReads /\ SeedsPass
    /\ raw' = raw \ Here.reads
    /\ Here.reads # {}
    /\ May("copy") \/ ~Readable
    /\ Halt("PF", Category("copy"), "copy")
    /\ UNCHANGED <<env, detail, chan, written, at, expired, result, trace>>

(* Mutant of Projection: the seed is handed out unfolded.                  *)
ProjectionUnfolded == [c \in Here.reads |-> chan[c]]

Projection ==
    [c \in Here.reads |-> IF c \in UnfoldedReads THEN FirstFold(chan[c])
                          ELSE chan[c]]

SinkFor(n) == IF req.sink /\ StreamRoute(graph) = n THEN "on" ELSE "none"

(* handler_enter is emitted before dispatch; an embed has no such event.   *)
Project ==
    /\ AtReads /\ SeedsPass
    /\ raw' = raw \ Here.reads
    /\ proj' = Projection
    /\ IF Here.kind = "pipeline"
       THEN pc' = "embed" /\ sink' = SinkFor(at) /\ UNCHANGED trace
       ELSE pc' = "deliver" /\ Emit("enter") /\ UNCHANGED sink
    /\ UNCHANGED <<env, chan, written, at, port, calls, expired, err, result>>

-----------------------------------------------------------------------------
(* Dispatch, up to the call of the author body or the backend.             *)

DeliveryBreaks ==
    /\ pc = "deliver" /\ Bare /\ May("delivery")
    /\ RaiseRaw("delivery")
    /\ UNCHANGED <<env, data, detail, at, expired, result, trace>>

ProjectionWellTyped == \A c \in Here.reads : ~IllTyped(c, proj[c])

ReadsRefused ==
    /\ pc = "deliver" /\ (May("reads") \/ ~ProjectionWellTyped)
    /\ Halt("SVE", "none", "reads")
    /\ UNCHANGED <<env, data, detail, at, expired, result, trace>>

ReadsValidatorBreaks ==
    /\ pc = "deliver" /\ May("validator")
    /\ RaiseRaw("validator")
    /\ UNCHANGED <<env, data, detail, at, expired, result, trace>>

EnterBody ==
    /\ pc = "deliver" /\ ProjectionWellTyped
    /\ pc' = "body" /\ sink' = SinkFor(at)
    /\ UNCHANGED <<env, data, at, port, calls, proj, expired, err, result, trace>>

-----------------------------------------------------------------------------
(* Inside the dispatch.                                                    *)

(* The author body raises, or a trainable's adapter does (that is its body).*)
BodyRaises ==
    /\ pc = "body" /\ Bare /\ May("body")
    /\ RaiseRaw("body")
    /\ UNCHANGED <<env, data, detail, at, expired, result, trace>>

HasBackend == Here.kind \in {"service", "hook", "trainable"}

AdapterBreaks ==
    /\ pc = "body" /\ HasBackend /\ May("adapter")
    /\ RaiseRaw("adapter")
    /\ UNCHANGED <<env, data, detail, at, expired, result, trace>>

(* An error that already is one of the three classes is never wrapped: an  *)
(* adapter's CV/SVE, the halt of a run started by the body, an inner run's *)
(* halt.  A PipelineFailure keeps the category it was built with.          *)
ForeignHalt ==
    /\ pc \in {"body", "embed"} /\ May("inner")
    /\ \/ \E cls \in {"CV", "SVE"} : Halt(cls, "none", "inner")
       \/ \E cat \in {"handler", "service", "engine"} : Halt("PF", cat, "inner")
    /\ UNCHANGED <<env, data, detail, at, expired, result, trace>>

(* `_BoundService.invoke`: a service's answered call is captured before the*)
(* body sees the response; a hook's is not.                                *)
AdapterAnswers ==
    /\ pc = "body" /\ Here.kind \in {"service", "hook"} /\ calls < MaxCalls
    /\ calls' = calls + 1
    /\ IF Here.kind = "service" THEN Emit("invoke") ELSE UNCHANGED trace
    /\ UNCHANGED <<env, data, pc, at, port, proj, sink, expired, err, result>>

CaptureBreaks ==
    /\ pc = "body" /\ Here.kind = "service" /\ calls < MaxCalls
    /\ May("capture")
    /\ RaiseRaw("capture")
    /\ UNCHANGED <<env, data, detail, at, expired, result, trace>>

(* One fragment of the routed stream, the node's own or the inner run's.   *)
Streaming == pc \in {"body", "embed"} /\ calls < MaxCalls

FragmentDelivered ==
    /\ Streaming /\ sink = "on"
    /\ Emit("fragment")
    /\ calls' = calls + 1
    /\ UNCHANGED <<env, data, pc, at, port, proj, sink, expired, err, result>>

(* Mutant of SinkRaises: the sink stays attached.                          *)
SinkRaisesAttached ==
    /\ Streaming /\ sink = "on" /\ May("sink")
    /\ Emit("detached")
    /\ calls' = calls + 1
    /\ UNCHANGED <<env, data, pc, at, port, proj, sink, expired, err, result>>

SinkRaises ==
    /\ Streaming /\ sink = "on" /\ May("sink")
    /\ sink' = "off"
    /\ Emit("detached")
    /\ calls' = calls + 1
    /\ UNCHANGED <<env, data, pc, at, port, proj, expired, err, result>>

FragmentDropped ==
    /\ Streaming /\ sink = "off"
    /\ calls' = calls + 1
    /\ UNCHANGED <<env, data, pc, at, port, proj, sink, expired, err, result, trace>>

-----------------------------------------------------------------------------
(* The output boundary.                                                    *)

(* Wrong keys (CV) or wrong values (SVE); a hook that returns something, CV.*)
OutputRefused ==
    /\ pc = "body" /\ May("output")
    /\ \/ Halt("CV", "none", "output")
       \/ Here.kind # "hook" /\ Halt("SVE", "none", "output")
    /\ UNCHANGED <<env, data, detail, at, expired, result, trace>>

OutputValidatorBreaks ==
    /\ pc = "body" /\ Here.kind # "hook" /\ May("validator")
    /\ RaiseRaw("validator")
    /\ UNCHANGED <<env, data, detail, at, expired, result, trace>>

(* The write port to route next, or the `finally` arm when there is none.  *)
RouteFrom(p) ==
    /\ port' = p
    /\ pc' = IF p \in DOMAIN Here.writes THEN "route" ELSE "restore"

BodyReturns ==
    /\ pc = "body"
    /\ Emit("exit")
    /\ RouteFrom(1)
    /\ UNCHANGED <<env, data, at, calls, proj, sink, expired, err, result>>

(* The inner run returned: its declared outputs are this node's output.    *)
EmbedReturns ==
    /\ pc = "embed"
    /\ RouteFrom(1)
    /\ UNCHANGED <<env, data, at, calls, proj, sink, expired, err, result, trace>>

EmbedEscapes ==
    /\ pc = "embed" /\ May("escape")
    /\ Halt("PF", Category("escape"), "escape")
    /\ UNCHANGED <<env, data, detail, at, expired, result, trace>>

-----------------------------------------------------------------------------
(* `_route_writes`, one write port at a time, in declared order.           *)

(* The assert against a second contributor to an unmerged channel has no   *)
(* action: NoEngineBug checks that it cannot fail.                         *)
Target    == Here.writes[port]
Returned  == [parts |-> << <<at, port>> >>, folded |-> FALSE]
Routing   == pc = "route"
Clobbers  == Target \notin Merged /\ Target \in written \cup graph.inputs
FoldsSeed == Target \in SeedContributes \ written
(* Mutant of SeedFits: the fold does not validate the seed.                *)
SeedFitsAlways == TRUE
SeedFits  == (FoldsSeed /\ Target \in raw) => ~IllTyped(Target, chan[Target])

RouteSeedRefused ==
    /\ Routing /\ ~SeedFits
    /\ Halt("SVE", "none", "seed")
    /\ UNCHANGED <<env, data, detail, at, expired, result, trace>>

(* A seed's model is type-only, so no author validator runs here; the arm  *)
(* is there for what validating a foreign object may raise.                *)
RouteSeedValidatorBreaks ==
    /\ Routing /\ FoldsSeed /\ Target \in raw /\ May("validator")
    /\ Halt("PF", "engine", "validator")
    /\ UNCHANGED <<env, data, detail, at, expired, result, trace>>

FoldBreaks ==
    /\ Routing /\ SeedFits /\ Target \in Merged /\ May("fold")
    /\ raw' = raw \ (IF FoldsSeed THEN {Target} ELSE {})
    /\ Halt("PF", Category("fold"), "fold")
    /\ UNCHANGED <<env, detail, chan, written, at, expired, result, trace>>

(* Mutant of Routed: the first write clobbers the seed.                    *)
RoutedClobbering(c) ==
    IF c \notin Merged THEN Returned
    ELSE IF c \in written THEN Fold(chan[c], Returned)
    ELSE FirstFold(Returned)

Routed(c) ==
    IF c \notin Merged THEN Returned
    ELSE IF c \in written THEN Fold(chan[c], Returned)
    ELSE IF c \in SeedContributes THEN Fold(FirstFold(chan[c]), Returned)
    ELSE FirstFold(Returned)

RoutePort ==
    /\ Routing /\ ~Clobbers /\ SeedFits
    /\ raw' = raw \ (IF FoldsSeed THEN {Target} ELSE {})
    /\ chan' = [chan EXCEPT ![Target] = Routed(Target)]
    /\ written' = written \cup {Target}
    /\ RouteFrom(port + 1)
    /\ UNCHANGED <<env, at, calls, proj, sink, expired, err, result, trace>>

-----------------------------------------------------------------------------
(* The `finally` arm, the next task, the end of the walk.                  *)

(* Mutant of NamespaceBreaks: raised over the error in flight.             *)
NamespaceMasks ==
    /\ pc = "restore" /\ Bare /\ May("namespace")
    /\ err' = [cls |-> "CV", cat |-> "none", site |-> "namespace", node |-> at]
    /\ pc' = "failed"
    /\ UNCHANGED <<env, data, detail, at, expired, result, trace>>

(* A failed namespace restore halts, unless an error is already in flight. *)
NamespaceBreaks ==
    /\ pc = "restore" /\ Bare /\ err = NoErr /\ May("namespace")
    /\ err' = [cls |-> "CV", cat |-> "none", site |-> "namespace", node |-> at]
    /\ pc' = "failed"
    /\ UNCHANGED <<env, data, detail, at, expired, result, trace>>

Last == Len(graph.nodes)

(* Mutant of TaskEnds: one task too many.                                  *)
TaskEndsLate ==
    /\ pc = "restore" /\ err = NoErr
    /\ at' = at + 1
    /\ pc' = IF at <= Last THEN "boundary" ELSE "end"
    /\ port' = 0 /\ calls' = 0 /\ proj' = Nothing /\ sink' = "none"
    /\ UNCHANGED <<env, data, expired, err, result, trace>>

TaskEnds ==
    /\ pc = "restore" /\ err = NoErr
    /\ IF at < Last THEN at' = at + 1 /\ pc' = "boundary"
                    ELSE at' = at /\ pc' = "end"
    /\ port' = 0 /\ calls' = 0 /\ proj' = Nothing /\ sink' = "none"
    /\ UNCHANGED <<env, data, expired, err, result, trace>>

(* Mutant of TaskHalts: the error escapes past the pipeline_error arm.     *)
TaskEscapes ==
    /\ pc = "restore" /\ err # NoErr
    /\ pc' = "raised"
    /\ UNCHANGED <<env, data, detail, at, expired, err, result, trace>>

TaskHalts ==
    /\ pc = "restore" /\ err # NoErr
    /\ pc' = "failed"
    /\ UNCHANGED <<env, data, detail, at, expired, err, result, trace>>

(* Mutant of Fail: re-raised without its event.                            *)
FailSilently ==
    /\ pc = "failed"
    /\ pc' = "raised"
    /\ UNCHANGED <<env, data, detail, at, expired, err, result, trace>>

(* pipeline_error names the dispatching node, then the error is re-raised. *)
Fail ==
    /\ pc = "failed"
    /\ Emit("error")
    /\ pc' = "raised"
    /\ UNCHANGED <<env, data, detail, at, expired, err, result>>

(* Mutant of Complete: the seeded inputs are handed out too.               *)
CompleteWithSeeds ==
    /\ pc = "close"
    /\ Emit("complete")
    /\ result' = [c \in OuterWritten(graph) \cup graph.inputs |-> chan[c]]
    /\ pc' = "returned"
    /\ UNCHANGED <<env, data, detail, at, expired, err>>

Complete ==
    /\ pc = "close"
    /\ Emit("complete")
    /\ result' = [c \in OuterWritten(graph) |-> chan[c]]
    /\ pc' = "returned"
    /\ UNCHANGED <<env, data, detail, at, expired, err>>

-----------------------------------------------------------------------------
Boundary == Refuse \/ Start \/ Expire \/ BudgetSpent \/ BudgetLeft

Reads == SeedRefused \/ SeedValidatorBreaks \/ FirstFoldBreaks
         \/ ReadsCopyBreaks \/ Project

Dispatch == DeliveryBreaks \/ ReadsRefused \/ ReadsValidatorBreaks \/ EnterBody
            \/ BodyRaises \/ AdapterBreaks \/ ForeignHalt \/ AdapterAnswers
            \/ CaptureBreaks \/ FragmentDelivered \/ SinkRaises
            \/ FragmentDropped \/ OutputRefused \/ OutputValidatorBreaks
            \/ BodyReturns \/ EmbedReturns \/ EmbedEscapes

Route == RouteSeedRefused \/ RouteSeedValidatorBreaks
         \/ FoldBreaks \/ RoutePort

Finish == NamespaceBreaks \/ TaskEnds \/ TaskHalts \/ Fail \/ Complete

Next == Boundary \/ Reads \/ Dispatch \/ Route \/ Finish

(* One thread runs the walk and nothing in it waits, provided the consumer *)
(* code it calls returns or raises; the clock is not obliged to run out.   *)
Spec == Init /\ [][Next]_vars /\ WF_vars(Next)

-----------------------------------------------------------------------------
Values(v)  == {v.parts[i] : i \in DOMAIN v.parts}
InOrder(v) == \A i, j \in DOMAIN v.parts : i < j => Earlier(v.parts[i], v.parts[j])

Value == [parts : Seq(Nat \X Nat), folded : BOOLEAN]

Errors == [cls : {"none", "CV", "SVE", "PF"},
           cat : {"none", "handler", "service", "engine"},
           site : Sites \cup {"none"}, node : Nat]

(* Every variable has the shape of the code's object.                      *)
TypeOK ==
    /\ graph \in Graphs /\ req \in Requests
    /\ pc \in {"call", "boundary", "reads", "embed", "deliver", "body", "route",
               "restore", "end", "close", "failed", "raised", "returned"}
    /\ at \in 0..Len(graph.nodes) /\ port \in Nat /\ calls \in 0..MaxCalls
    /\ chan \in [Channels -> Value]
    /\ written \subseteq Channels /\ raw \subseteq Channels
    /\ DOMAIN proj \subseteq Channels
    /\ \A c \in DOMAIN proj : proj[c] \in Value
    /\ expired \in BOOLEAN /\ sink \in {"none", "on", "off"}
    /\ err \in Errors
    /\ DOMAIN result \subseteq Channels

(* A seed of the wrong type is consumed by nobody: no projection carries it*)
(* and no fold starts from it; while it is in a channel it is the raw seed.*)
NoIllTypedSeedConsumed ==
    /\ \A c \in DOMAIN proj : ~IllTyped(c, proj[c])
    /\ \A c \in Channels :
          IllTyped(c, chan[c]) => c \in raw /\ chan[c] = SeedValue

(* Validate-then-copy: a reads-copy failure (PipelineFailure, "engine") is *)
(* never what a seed of the wrong type is reported as.                     *)
CopyFailureNeverHidesBadSeed ==
    err.site = "copy" => \A c \in graph.nodes[at].reads : ~IllTyped(c, chan[c])

(* A run that returned had a well-typed seed for everything a channel-     *)
(* writing node read, whatever hooks absorbed on the way.                  *)
ReturnedRunReadNoBadSeed ==
    pc = "returned" =>
        \A n \in Positions(graph) :
            Kind(graph, n) # "hook" =>
                graph.nodes[n].reads \cap graph.inputs \cap req.bad = {}

Committed(w) ==
    \/ w[1] < at
    \/ w[1] = at /\ \/ pc \in {"end", "close", "returned"}
                    \/ pc = "restore" /\ err = NoErr
                    \/ pc = "route" /\ w[2] < port

(* At every moment of a run without an error, a channel holds exactly its  *)
(* contributors so far, each once, in graph and port order.                *)
ChannelsAreLeftFolds ==
    (pc # "call" /\ err = NoErr) =>
        \A c \in Channels :
            /\ InOrder(chan[c])
            /\ Values(chan[c]) = {w \in Contributors(graph, c) : Committed(w)}

(* What a body or an inner run is given for a channel is the fold of all   *)
(* contributors upstream of it, a one-element fold included.               *)
ReadersSeeUpstreamFold ==
    pc \in {"deliver", "body", "embed"} =>
        \A c \in Here.reads :
            /\ InOrder(proj[c])
            /\ Values(proj[c]) = {w \in Contributors(graph, c) : w[1] < at}
            /\ proj[c].parts # <<>>
            /\ c \in Merged => proj[c].folded

(* On an accepted graph the walk never looks up a channel that is not there*)
(* and never reaches the single-contributor assert.                        *)
NoEngineBug ==
    /\ pc = "reads" => \A c \in Here.reads : chan[c] # Absent
    /\ Routing => ~Clobbers
    /\ pc = "close" => graph.outputs \cup OuterWritten(graph) \subseteq written

Happened(ev, n) == \E i \in DOMAIN trace : trace[i] = [ev |-> ev, node |-> n]

(* failure_category against the event record: outside the third-party      *)
(* validators and the read-side first fold, "handler" and "service" are    *)
(* given only between a node's handler_enter and its handler_exit, and     *)
(* after handler_exit only the engine can be at fault.                     *)
BlameMatchesRecord ==
    (err.cls = "PF" /\ err.site # "inner") =>
        /\ (err.cat # "engine" /\ err.site \notin {"validator", "firstfold"})
              => Happened("enter", err.node) /\ ~Happened("exit", err.node)
        /\ (Happened("exit", err.node) /\ err.site # "budget")
              => err.cat = "engine"

(* The canonical record of a run: one pipeline_start, first; node events in*)
(* dispatch order, exit after enter, service_invocation between the two;   *)
(* one terminal event, last, telling how the run ended; and nothing at all *)
(* for a call refused at the API boundary.                                 *)
RecordWellFormed ==
    LET ev(i)   == trace[i].ev
        node(i) == trace[i].node
    IN  /\ trace # <<>> => ev(1) = "start"
        /\ \A i, j \in DOMAIN trace : i < j =>
              /\ ev(j) # "start" /\ ev(i) \notin {"complete", "error"}
              /\ node(i) <= node(j)
              /\ (ev(i) = ev(j) /\ ev(i) \in {"enter", "exit"}) =>
                    node(i) < node(j)
              /\ (ev(i) = "exit" /\ ev(j) \in {"enter", "invoke"}) =>
                    node(i) < node(j)
        /\ \A i \in DOMAIN trace :
              ev(i) \in {"invoke", "exit"} =>
                 \E j \in 1..(i - 1) : trace[j] = [ev |-> "enter", node |-> node(i)]
        /\ pc = "returned" => ev(Len(trace)) = "complete"
        /\ pc = "raised" =>
              IF err.site \in {"missing", "noroute"} THEN trace = <<>>
              ELSE trace # <<>> /\ ev(Len(trace)) = "error"

(* A node the walk has left without its handler_exit is a hook whose       *)
(* failure was absorbed; every other node was entered and exited.          *)
OnlyHooksLackExit ==
    \A n \in Positions(graph) :
        (n < at \/ pc = "returned") =>
            \/ Kind(graph, n) \in {"hook", "pipeline"}
            \/ Happened("enter", n) /\ Happened("exit", n)

(* Fragments come only from the routed node of a run with a sink, and none *)
(* is delivered after the sink raised.                                     *)
SinkWall ==
    \A i \in DOMAIN trace :
        trace[i].ev \in {"fragment", "detached"} =>
            /\ req.sink /\ trace[i].node = StreamRoute(graph)
            /\ \A j \in 1..(i - 1) : trace[j].ev # "detached"

(* Once the budget has run out no further node is entered, and a run that  *)
(* was not already on its last node does not complete.                     *)
ExpiryStopsAtNextBoundary ==
    \A i \in DOMAIN trace : trace[i].ev = "expired" =>
        \A j \in DOMAIN trace : j > i =>
            /\ trace[j].ev = "enter" => trace[j].node = trace[i].node
            /\ trace[j].ev = "complete" => trace[i].node = Last

(* The first error is the one that is raised: nothing after it, a failing  *)
(* namespace restore included, replaces it.                                *)
FirstErrorStands == [][err # NoErr => err' = err]_vars

(* A run that has started ends, with its terminal event emitted.           *)
StartedRunReportsItsEnd ==
    (pc = "boundary") ~> (Happened("complete", at) \/ Happened("error", at))

(* error-channel/reference.md on "service": the failure escaped a backend  *)
(* call.                                                                   *)
ServiceBlameMeansBackendFailed ==
    (err.cat = "service" /\ err.site # "inner") => err.site = "adapter"

=============================================================================
