-------------------------- MODULE KernelWalkProofs --------------------------
(***************************************************************************)
(* What holds of the kernel walk for every set of accepted graphs, every   *)
(* request, every choice of failure sites and every bound on calls.        *)
(***************************************************************************)
EXTENDS KernelWalk, TLAPS

(* Where the walk can be: a position of the graph, a port of its node, and *)
(* the last position once the walk is over.                                *)
WellPlaced ==
    /\ pc \notin {"call", "raised"} => at \in Positions(graph)
    /\ pc = "route" => port \in DOMAIN Here.writes
    /\ pc \in {"end", "close", "returned"} => at = Last

(* With an error in flight, only the `finally` arm and the halt are left.  *)
ErrorsHalt == err # NoErr => pc \in {"restore", "failed", "raised"}

Basis == TypeOK /\ WellPlaced /\ ErrorsHalt

(* What a graph that was compiled gives the walk.                          *)
LEMMA GraphParts ==
    ASSUME NEW g \in Graphs
    PROVE  /\ g.inputs \in SUBSET Channels
           /\ Positions(g) = 1..Len(g.nodes)
           /\ Len(g.nodes) \in Nat \ {0}
           /\ \A n \in Positions(g) :
                 /\ g.nodes[n].kind \in Kinds
                 /\ g.nodes[n].reads \in SUBSET Channels
                 /\ g.nodes[n].writes \in Seq(Channels)
<1>1. g \in GraphsOver(Channels) /\ Len(g.nodes) > 0
  BY GraphsTyped, GraphsWalkable
<1>2. /\ g.inputs \in SUBSET Channels
      /\ g.nodes \in Seq(NodesOver(Channels, Seq(Channels)))
  BY <1>1 DEF GraphsOver
<1>3. \A n \in DOMAIN g.nodes :
          g.nodes[n] \in NodesOver(Channels, Seq(Channels))
  BY <1>2
<1>4. \A n \in DOMAIN g.nodes :
          /\ g.nodes[n].kind \in Kinds
          /\ g.nodes[n].reads \in SUBSET Channels
          /\ g.nodes[n].writes \in Seq(Channels)
  BY <1>3 DEF NodesOver
<1>5. DOMAIN g.nodes = 1..Len(g.nodes) /\ Len(g.nodes) \in Nat
  BY <1>2
<1> QED  BY <1>1, <1>2, <1>4, <1>5 DEF Positions

(* Every form of channel value the walk makes is a Value.                  *)
LEMMA ValueForms ==
    /\ Absent \in Value /\ SeedValue \in Value
    /\ \A v \in Value : FirstFold(v) \in Value
    /\ \A v, w \in Value : Fold(v, w) \in Value
<1>1. Seed \in Nat \X Nat  BY DEF Seed
<1>2. Absent \in Value /\ SeedValue \in Value
  BY <1>1 DEF Absent, SeedValue, Value
<1>3. \A v \in Value : FirstFold(v) \in Value
  BY DEF FirstFold, Value
<1>4. \A v, w \in Value : Fold(v, w) \in Value
  BY DEF Fold, Value
<1> QED  BY <1>2, <1>3, <1>4

(* The types the initial state has.                                        *)
LEMMA BasisInit == Init => Basis
<1> SUFFICES ASSUME Init PROVE Basis  OBVIOUS
<1>1. graph \in Graphs  BY DEF Init
<1>2. Len(graph.nodes) \in Nat  BY <1>1, GraphParts
<1>3. chan \in [Channels -> Value]  BY ValueForms DEF Init
<1>4. DOMAIN proj = {} /\ DOMAIN result = {}  BY DEF Init, Nothing
<1>5. err \in Errors  BY DEF Init, Errors, NoErr
<1>6. at \in 0..Len(graph.nodes) /\ calls \in 0..MaxCalls
  BY <1>2, MaxCallsNat DEF Init
<1>7. TypeOK  BY <1>1, <1>3, <1>4, <1>5, <1>6 DEF Init, TypeOK
<1>8. WellPlaced /\ ErrorsHalt  BY DEF Init, WellPlaced, ErrorsHalt
<1> QED  BY <1>7, <1>8 DEF Basis

-----------------------------------------------------------------------------
(* The ways a dispatch fails, and what they have in common.                *)

FailingReads == SeedRefused \/ SeedValidatorBreaks \/ FirstFoldBreaks
                \/ ReadsCopyBreaks
FailingDispatch ==
    DeliveryBreaks \/ ReadsRefused \/ ReadsValidatorBreaks \/ BodyRaises
    \/ AdapterBreaks \/ ForeignHalt \/ CaptureBreaks \/ OutputRefused
    \/ OutputValidatorBreaks \/ EmbedEscapes
FailingRoute == RouteSeedRefused \/ RouteSeedValidatorBreaks \/ FoldBreaks

Failing == FailingReads \/ FailingDispatch \/ FailingRoute

(* The error is raised, or absorbed, and then it was a hook's; a seed is no *)
(* longer raw only when it passed its validation.                          *)
FailedTask ==
    /\ pc \in {"reads", "deliver", "embed", "body", "route"}
    /\ pc' = "restore"
    /\ err' \in Errors
    /\ err' = err => Here.kind = "hook"
    /\ (err' # err /\ err'.site = "copy") => pc = "reads" /\ SeedsPass
    /\ raw' \subseteq raw
    /\ \A c \in raw \ raw' : ~IllTyped(c, chan[c])
    /\ UNCHANGED <<graph, req, at, port, calls, chan, written, proj, expired,
                   sink, result, trace>>

(* Halting from a state without an error in flight.                        *)
LEMMA HaltEffect ==
    ASSUME NEW cls \in {"CV", "SVE", "PF"},
           NEW cat \in {"none", "handler", "service", "engine"},
           NEW site \in Sites, at \in Nat, err = NoErr, Halt(cls, cat, site)
    PROVE  /\ pc' = "restore" /\ err' \in Errors /\ err' # err
           /\ err'.site = site
<1>1. err' = [cls |-> cls, cat |-> cat, site |-> site, node |-> at]
  BY DEF Halt
<1>2. err' \in Errors  BY <1>1 DEF Errors
<1>3. err'.cls # err.cls  BY <1>1 DEF NoErr
<1> QED  BY <1>1, <1>2, <1>3 DEF Halt

(* Whatever the site, `_wrap` gives one of the three categories.           *)
LEMMA CategoryTyped ==
    \A site : Category(site) \in {"none", "handler", "service", "engine"}
BY DEF Category

(* The `except Exception` arm: an error, or absorbed for a hook.           *)
LEMMA RaiseRawEffect ==
    ASSUME NEW site \in Sites, at \in Nat, err = NoErr, RaiseRaw(site)
    PROVE  /\ pc' = "restore" /\ err' \in Errors
           /\ err' = err => Here.kind = "hook"
           /\ err' # err => err'.site = site
<1>1. CASE Here.kind = "hook"
  <2>1. err' = err /\ pc' = "restore"  BY <1>1 DEF RaiseRaw
  <2>2. err \in Errors  BY DEF Errors, NoErr
  <2> QED  BY <1>1, <2>1, <2>2
<1>2. CASE Here.kind # "hook"
  <2>1. Halt("PF", Category(site), site)  BY <1>2 DEF RaiseRaw
  <2> QED  BY <2>1, CategoryTyped, HaltEffect
<1> QED  BY <1>1, <1>2

(* A failure of the reads projection is a failed task.                     *)
LEMMA FailedReads ==
    ASSUME Basis, FailingReads
    PROVE  FailedTask
<1>1. pc = "reads"
  BY DEF FailingReads, SeedRefused, SeedValidatorBreaks, FirstFoldBreaks,
         ReadsCopyBreaks, AtReads
<1>2. at \in Nat /\ err = NoErr
  BY <1>1, GraphParts DEF Basis, TypeOK, ErrorsHalt
<1>3. CASE SeedRefused
  <2>1. Halt("SVE", "none", "seed") /\ UNCHANGED <<env, data, detail, at, expired, result, trace>>
    BY <1>3 DEF SeedRefused
  <2> QED  BY <1>1, <1>2, <2>1, HaltEffect
           DEF FailedTask, env, data, detail, Sites
<1>4. CASE SeedValidatorBreaks
  <2>1. RaiseRaw("validator") /\ UNCHANGED <<env, data, detail, at, expired, result, trace>>
    BY <1>4 DEF SeedValidatorBreaks
  <2> QED  BY <1>1, <1>2, <2>1, RaiseRawEffect
           DEF FailedTask, env, data, detail, Sites
<1>5. ASSUME SeedsPass, raw' = raw \ Here.reads
      PROVE  raw' \subseteq raw /\ \A c \in raw \ raw' : ~IllTyped(c, chan[c])
  <2> SUFFICES ASSUME NEW c \in raw, c \in Here.reads
               PROVE  ~IllTyped(c, chan[c])
    BY <1>5
  <2>1. RawReads # {}  BY DEF RawReads
  <2> QED  BY <1>5, <2>1 DEF SeedsPass, Readable
<1>6. CASE FirstFoldBreaks
  <2>1. /\ RaiseRaw("firstfold") /\ SeedsPass /\ raw' = raw \ Here.reads
        /\ UNCHANGED <<env, detail, chan, written, at, expired, result, trace>>
    BY <1>6 DEF FirstFoldBreaks
  <2>2. raw' \subseteq raw /\ \A c \in raw \ raw' : ~IllTyped(c, chan[c])
    BY <1>5, <2>1
  <2> QED  BY <1>1, <1>2, <2>1, <2>2, RaiseRawEffect
           DEF FailedTask, env, detail, Sites
<1>7. CASE ReadsCopyBreaks
  <2>1. /\ Halt("PF", Category("copy"), "copy") /\ SeedsPass /\ raw' = raw \ Here.reads
        /\ UNCHANGED <<env, detail, chan, written, at, expired, result, trace>>
    BY <1>7 DEF ReadsCopyBreaks
  <2>2. raw' \subseteq raw /\ \A c \in raw \ raw' : ~IllTyped(c, chan[c])
    BY <1>5, <2>1
  <2> QED  BY <1>1, <1>2, <2>1, <2>2, HaltEffect, CategoryTyped
           DEF FailedTask, env, detail, Sites
<1> QED  BY <1>3, <1>4, <1>6, <1>7 DEF FailingReads

(* Inside the dispatch a failure is a halt or a raise and nothing else.    *)
LEMMA FailedDispatch ==
    ASSUME Basis, FailingDispatch
    PROVE  FailedTask
<1>1. /\ pc \in {"deliver", "body", "embed"}
      /\ UNCHANGED <<env, data, detail, at, expired, result, trace>>
  BY DEF FailingDispatch, DeliveryBreaks, ReadsRefused, ReadsValidatorBreaks,
         BodyRaises, AdapterBreaks, ForeignHalt, CaptureBreaks, OutputRefused,
         OutputValidatorBreaks, EmbedEscapes
<1>2. at \in Nat /\ err = NoErr
  BY <1>1, GraphParts DEF Basis, TypeOK, ErrorsHalt
<1>3. \/ \E site \in Sites \ {"copy"} : RaiseRaw(site)
      \/ \E site \in Sites \ {"copy"}, cls \in {"CV", "SVE", "PF"},
            cat \in {"none", "handler", "service", "engine"} :
              Halt(cls, cat, site)
  <2>1. CASE DeliveryBreaks \/ ReadsValidatorBreaks \/ BodyRaises
             \/ AdapterBreaks \/ CaptureBreaks \/ OutputValidatorBreaks
    BY <2>1 DEF DeliveryBreaks, ReadsValidatorBreaks, BodyRaises, AdapterBreaks,
                CaptureBreaks, OutputValidatorBreaks, Sites
  <2>2. CASE ReadsRefused  BY <2>2 DEF ReadsRefused, Sites
  <2>3. CASE ForeignHalt  BY <2>3 DEF ForeignHalt, Sites
  <2>4. CASE OutputRefused  BY <2>4 DEF OutputRefused, Sites
  <2>5. CASE EmbedEscapes  BY <2>5, CategoryTyped DEF EmbedEscapes, Sites
  <2> QED  BY <2>1, <2>2, <2>3, <2>4, <2>5 DEF FailingDispatch
<1>4. /\ pc' = "restore" /\ err' \in Errors
      /\ err' = err => Here.kind = "hook"
      /\ err' # err => err'.site # "copy"
  <2>1. CASE \E site \in Sites \ {"copy"} : RaiseRaw(site)
    BY <2>1, <1>2, RaiseRawEffect
  <2>2. CASE \E site \in Sites \ {"copy"}, cls \in {"CV", "SVE", "PF"},
                cat \in {"none", "handler", "service", "engine"} :
                  Halt(cls, cat, site)
    BY <2>2, <1>2, HaltEffect
  <2> QED  BY <2>1, <2>2, <1>3
<1> QED  BY <1>1, <1>4 DEF FailedTask, env, data, detail

(* A failure of `_route_writes` is a failed task; its seeds passed.        *)
LEMMA FailedRoute ==
    ASSUME Basis, FailingRoute
    PROVE  FailedTask
<1>1. pc = "route" /\ UNCHANGED <<env, detail, chan, written, at, expired, result, trace>>
  BY DEF FailingRoute, RouteSeedRefused, RouteSeedValidatorBreaks, FoldBreaks,
         Routing, data
<1>2. at \in Nat /\ err = NoErr
  BY <1>1, GraphParts DEF Basis, TypeOK, ErrorsHalt
<1>3. \E site \in Sites \ {"copy"}, cls \in {"CV", "SVE", "PF"},
        cat \in {"none", "handler", "service", "engine"} : Halt(cls, cat, site)
  <2>1. CASE RouteSeedRefused  BY <2>1 DEF RouteSeedRefused, Sites
  <2>2. CASE RouteSeedValidatorBreaks  BY <2>2 DEF RouteSeedValidatorBreaks, Sites
  <2>3. CASE FoldBreaks  BY <2>3, CategoryTyped DEF FoldBreaks, Sites
  <2> QED  BY <2>1, <2>2, <2>3 DEF FailingRoute
<1>4. pc' = "restore" /\ err' \in Errors /\ err' # err /\ err'.site # "copy"
  BY <1>2, <1>3, HaltEffect
<1>5. raw' \subseteq raw /\ \A c \in raw \ raw' : ~IllTyped(c, chan[c])
  <2>1. CASE RouteSeedRefused \/ RouteSeedValidatorBreaks
    BY <2>1 DEF RouteSeedRefused, RouteSeedValidatorBreaks, data
  <2>2. CASE FoldBreaks
    BY <2>2 DEF FoldBreaks, SeedFits
  <2> QED  BY <2>1, <2>2 DEF FailingRoute
<1> QED  BY <1>1, <1>4, <1>5 DEF FailedTask, env, detail

(* Every failing action is a failed task.                                  *)
LEMMA FailureEffect ==
    ASSUME Basis, Failing
    PROVE  FailedTask
BY FailedReads, FailedDispatch, FailedRoute DEF Failing

-----------------------------------------------------------------------------
(* The steps that do not fail a dispatch, by what they may change.         *)

Calling == AdapterAnswers \/ FragmentDelivered \/ SinkRaises \/ FragmentDropped
Returning == BodyReturns \/ EmbedReturns

(* Every step is a failing one or one of these.                            *)
LEMMA StepKinds ==
    ASSUME Next
    PROVE  \/ Failing
           \/ Refuse \/ Start \/ Expire \/ BudgetSpent \/ BudgetLeft
           \/ Project \/ EnterBody \/ Calling \/ Returning \/ RoutePort
           \/ NamespaceBreaks \/ TaskEnds \/ TaskHalts \/ Fail \/ Complete
BY DEF Next, Boundary, Reads, Dispatch, Route, Finish, Failing, FailingReads,
       FailingDispatch, FailingRoute, Calling, Returning

(* The facts about the graph at hand every step below needs.               *)
LEMMA HereFacts ==
    ASSUME Basis
    PROVE  /\ graph \in Graphs /\ graph.inputs \in SUBSET Channels
           /\ Last \in Nat \ {0} /\ Positions(graph) = 1..Last
           /\ at \in Nat
           /\ at \in Positions(graph) =>
                 /\ Here.reads \in SUBSET Channels
                 /\ Here.writes \in Seq(Channels)
BY GraphParts DEF Basis, TypeOK, Last, Here

(* Adapter calls and fragments change the count, the sink, the trace.      *)
LEMMA CallingEffect ==
    ASSUME Basis, Calling
    PROVE  /\ pc \in {"body", "embed"} /\ calls' \in 0..MaxCalls
           /\ sink' \in {"none", "on", "off"}
           /\ UNCHANGED <<graph, req, pc, at, port, chan, written, raw, proj,
                          expired, err, result>>
<1>1. /\ pc \in {"body", "embed"} /\ calls < MaxCalls /\ calls' = calls + 1
      /\ sink' = sink \/ sink' = "off"
      /\ UNCHANGED <<graph, req, pc, at, port, chan, written, raw, proj,
                     expired, err, result>>
  BY DEF Calling, AdapterAnswers, FragmentDelivered, SinkRaises,
         FragmentDropped, Streaming, env, data
<1>2. calls \in 0..MaxCalls /\ sink \in {"none", "on", "off"}
  BY DEF Basis, TypeOK
<1> QED  BY <1>1, <1>2, MaxCallsNat

(* A body or an inner run that came back goes on to routing.               *)
LEMMA ReturningEffect ==
    ASSUME Basis, Returning
    PROVE  /\ pc \in {"body", "embed"} /\ RouteFrom(1)
           /\ UNCHANGED <<graph, req, at, calls, chan, written, raw, proj, sink,
                          expired, err, result>>
BY DEF Returning, BodyReturns, EmbedReturns, env, data

(* Where routing goes next is a port of the node, or there is none left.   *)
LEMMA RouteFromPlaced ==
    ASSUME Basis, NEW p \in Nat, at \in Positions(graph), RouteFrom(p),
           UNCHANGED <<graph, req, at, calls, proj, sink, expired, err, result>>,
           err = NoErr, chan' \in [Channels -> Value],
           written' \in SUBSET Channels, raw' \in SUBSET Channels
    PROVE  Basis'
<1>1. port' \in Nat /\ pc' \in {"route", "restore"}  BY DEF RouteFrom
<1>2. TypeOK'  BY <1>1 DEF Basis, TypeOK
<1>3. WellPlaced'
  BY <1>1 DEF RouteFrom, WellPlaced, Here, Last, Basis
<1>4. ErrorsHalt'  BY DEF ErrorsHalt, NoErr
<1> QED  BY <1>2, <1>3, <1>4 DEF Basis

(* The projection is of the channels the node reads, values in each.       *)
LEMMA ProjectionTyped ==
    ASSUME Basis, at \in Positions(graph)
    PROVE  /\ DOMAIN Projection = Here.reads
           /\ \A c \in Here.reads : Projection[c] \in Value
<1>1. Here.reads \in SUBSET Channels /\ chan \in [Channels -> Value]
  BY HereFacts DEF Basis, TypeOK
<1> QED  BY <1>1, ValueForms DEF Projection

(* What `_route_writes` stores is a value, in a channel of the graph.      *)
LEMMA RoutedTyped ==
    ASSUME Basis, Routing
    PROVE  Target \in Channels /\ Routed(Target) \in Value
<1>1. port \in DOMAIN Here.writes /\ at \in Positions(graph)
  BY DEF Routing, Basis, WellPlaced
<1>2. Target \in Channels  BY <1>1, HereFacts DEF Target
<1>3. Returned \in Value
  <2>1. <<at, port>> \in Nat \X Nat  BY HereFacts DEF Basis, TypeOK
  <2> QED  BY <2>1 DEF Returned, Value
<1>4. chan[Target] \in Value  BY <1>2 DEF Basis, TypeOK
<1> QED  BY <1>2, <1>3, <1>4, ValueForms DEF Routed

(* Every step keeps the basis.                                             *)
LEMMA BasisStep ==
    ASSUME Basis, [Next]_vars
    PROVE  Basis'
<1>1. CASE UNCHANGED vars
  BY <1>1 DEF vars, Basis, TypeOK, WellPlaced, ErrorsHalt, Here, Last
<1>2. CASE Failing
  <2>1. FailedTask  BY <1>2, FailureEffect
  <2>2. TypeOK'  BY <2>1 DEF FailedTask, Basis, TypeOK
  <2>3. WellPlaced'
    BY <2>1 DEF FailedTask, Basis, WellPlaced
  <2>4. ErrorsHalt'  BY <2>1 DEF FailedTask, ErrorsHalt
  <2> QED  BY <2>2, <2>3, <2>4 DEF Basis
<1>3. CASE Refuse
  <2>1. err' \in Errors  BY <1>3 DEF Refuse, Errors, Sites
  <2>2. TypeOK'
    BY <1>3, <2>1 DEF Refuse, env, data, detail, Basis, TypeOK
  <2>3. WellPlaced' /\ ErrorsHalt'  BY <1>3 DEF Refuse, WellPlaced, ErrorsHalt
  <2> QED  BY <2>2, <2>3 DEF Basis
<1>4. CASE Start
  <2>1. chan' \in [Channels -> Value]  BY <1>4, ValueForms DEF Start
  <2>2. TypeOK'
    BY <1>4, <2>1, HereFacts DEF Start, env, detail, Last, Basis, TypeOK
  <2>3. WellPlaced'
    BY <1>4, HereFacts DEF Start, env, WellPlaced, Positions, Last
  <2>4. ErrorsHalt'
    BY <1>4 DEF Start, Basis, ErrorsHalt, NoErr
  <2> QED  BY <2>2, <2>3, <2>4 DEF Basis
<1>5. CASE Expire
  BY <1>5 DEF Expire, env, data, detail, Basis, TypeOK, WellPlaced,
              ErrorsHalt, Here, Last
<1>6. CASE BudgetSpent
  <2>1. err' \in Errors  BY <1>6, HereFacts DEF BudgetSpent, Errors, Sites
  <2>2. TypeOK'
    BY <1>6, <2>1 DEF BudgetSpent, env, data, detail, Basis, TypeOK
  <2>3. WellPlaced' /\ ErrorsHalt'
    BY <1>6 DEF BudgetSpent, env, Basis, WellPlaced, ErrorsHalt
  <2> QED  BY <2>2, <2>3 DEF Basis
<1>7. CASE BudgetLeft
  BY <1>7 DEF BudgetLeft, env, data, detail, Basis, TypeOK, WellPlaced,
              ErrorsHalt, Last
<1>8. CASE Project
  <2>1. at \in Positions(graph) /\ err = NoErr
    BY <1>8 DEF Project, AtReads, Basis, WellPlaced, ErrorsHalt
  <2>2. DOMAIN proj' \subseteq Channels /\ \A c \in DOMAIN proj' : proj'[c] \in Value
    BY <1>8, <2>1, ProjectionTyped, HereFacts DEF Project
  <2>3. /\ pc' \in {"embed", "deliver"} /\ sink' \in {"none", "on", "off"}
        /\ raw' \subseteq raw
        /\ UNCHANGED <<env, chan, written, at, port, calls, expired, err, result>>
    BY <1>8 DEF Project, SinkFor, Basis, TypeOK
  <2>4. TypeOK'  BY <2>2, <2>3 DEF env, Basis, TypeOK
  <2>5. WellPlaced' /\ ErrorsHalt'
    BY <2>1, <2>3 DEF env, WellPlaced, ErrorsHalt
  <2> QED  BY <2>4, <2>5 DEF Basis
<1>9. CASE EnterBody
  BY <1>9 DEF EnterBody, SinkFor, env, data, Basis, TypeOK, WellPlaced, ErrorsHalt
<1>10. CASE Calling
  BY <1>10, CallingEffect DEF Basis, TypeOK, WellPlaced, ErrorsHalt, Here, Last
<1>11. CASE Returning
  <2>1. /\ at \in Positions(graph) /\ err = NoErr /\ chan \in [Channels -> Value]
        /\ written \in SUBSET Channels /\ raw \in SUBSET Channels
    BY <1>11, ReturningEffect DEF Basis, TypeOK, WellPlaced, ErrorsHalt
  <2> QED  BY <1>11, <2>1, ReturningEffect, RouteFromPlaced
<1>12. CASE RoutePort
  <2>1. /\ at \in Positions(graph) /\ err = NoErr /\ port + 1 \in Nat
    BY <1>12 DEF RoutePort, Routing, Basis, TypeOK, WellPlaced, ErrorsHalt
  <2>2. Target \in Channels /\ Routed(Target) \in Value
    BY <1>12, RoutedTyped DEF RoutePort
  <2>3. /\ chan' \in [Channels -> Value]
        /\ written' \in SUBSET Channels /\ raw' \in SUBSET Channels
    BY <1>12, <2>2 DEF RoutePort, Basis, TypeOK
  <2>4. RouteFrom(port + 1) /\ UNCHANGED <<graph, req, at, calls, proj, sink, expired, err, result>>
    BY <1>12 DEF RoutePort, env
  <2> QED  BY <2>1, <2>3, <2>4, RouteFromPlaced
<1>13. CASE NamespaceBreaks
  <2>1. err' \in Errors  BY <1>13, HereFacts DEF NamespaceBreaks, Errors, Sites
  <2>2. TypeOK'
    BY <1>13, <2>1 DEF NamespaceBreaks, env, data, detail, Basis, TypeOK
  <2>3. WellPlaced' /\ ErrorsHalt'
    BY <1>13 DEF NamespaceBreaks, env, Basis, WellPlaced, ErrorsHalt
  <2> QED  BY <2>2, <2>3 DEF Basis
<1>14. CASE TaskEnds
  <2>1. at \in 1..Last /\ Last \in Nat /\ Positions(graph) = 1..Last
    BY <1>14, HereFacts DEF TaskEnds, Basis, WellPlaced
  <2>2. at' \in 1..Last /\ (pc' = "end" => at' = Last) /\ pc' \in {"boundary", "end"}
    BY <1>14, <2>1 DEF TaskEnds
  <2>3. /\ UNCHANGED <<graph, req, chan, written, raw, expired, err, result>>
        /\ err = NoErr /\ port' = 0 /\ calls' = 0 /\ sink' = "none"
        /\ DOMAIN proj' = {}
    BY <1>14 DEF TaskEnds, env, data, Nothing
  <2>4. TypeOK'
    BY <2>1, <2>2, <2>3, MaxCallsNat DEF Basis, TypeOK, Last
  <2>5. WellPlaced' /\ ErrorsHalt'
    BY <2>1, <2>2, <2>3 DEF WellPlaced, ErrorsHalt, Last, NoErr
  <2> QED  BY <2>4, <2>5 DEF Basis
<1>15. CASE TaskHalts \/ Fail
  BY <1>15 DEF TaskHalts, Fail, env, data, detail, Basis, TypeOK, WellPlaced,
               ErrorsHalt
<1>16. CASE Complete
  <2>1. DOMAIN result' \subseteq Channels
    <3>1. \A n \in Positions(graph) : graph.nodes[n].writes \in Seq(Channels)
      BY HereFacts, GraphParts
    <3>2. WrittenChannels(graph) \subseteq Channels
      BY <3>1 DEF WrittenChannels
    <3> QED  BY <1>16, <3>2 DEF Complete, OuterWritten
  <2> QED
    BY <1>16, <2>1 DEF Complete, env, data, detail, Basis, TypeOK, WellPlaced,
                       ErrorsHalt, Last
<1> QED
  BY <1>1, <1>2, <1>3, <1>4, <1>5, <1>6, <1>7, <1>8, <1>9, <1>10, <1>11, <1>12,
     <1>13, <1>14, <1>15, <1>16, StepKinds

(* The basis holds throughout a run.                                       *)
LEMMA BasisHolds == Spec => []Basis
<1>1. Init => Basis  BY BasisInit
<1>2. Basis /\ [Next]_vars => Basis'  BY BasisStep
<1> QED  BY <1>1, <1>2, PTL DEF Spec

(* Every variable of the walk keeps the shape of the code's object, for all*)
(* accepted graphs, requests and failures of the environment.              *)
THEOREM TypeCorrect == Spec => []TypeOK
BY BasisHolds, PTL DEF Basis

(* `_run` never replaces the error that halts it, whatever the `finally`   *)
(* arm and the halt do afterwards.                                         *)
THEOREM FirstErrorHolds == Spec => FirstErrorStands
<1>1. ASSUME Basis, Next, err # NoErr
      PROVE  err' = err
  <2>1. pc \in {"restore", "failed", "raised"}  BY <1>1 DEF Basis, ErrorsHalt
  <2>2. CASE Failing
    BY <1>1, <2>1, <2>2, FailureEffect DEF FailedTask
  <2>3. CASE Refuse \/ Start \/ Expire \/ BudgetSpent \/ BudgetLeft
    BY <2>1, <2>3 DEF Refuse, Start, Expire, BudgetSpent, BudgetLeft
  <2>4. CASE Project \/ EnterBody \/ RoutePort
    BY <2>4 DEF Project, EnterBody, RoutePort
  <2>5. CASE Calling \/ Returning
    BY <1>1, <2>5, CallingEffect, ReturningEffect
  <2>6. CASE NamespaceBreaks \/ TaskEnds \/ TaskHalts \/ Fail \/ Complete
    BY <1>1, <2>6 DEF NamespaceBreaks, TaskEnds, TaskHalts, Fail, Complete
  <2> QED  BY <1>1, <2>2, <2>3, <2>4, <2>5, <2>6, StepKinds
<1>2. ASSUME Basis, [Next]_vars
      PROVE  [err # NoErr => err' = err]_vars
  BY <1>1, <1>2
<1> QED  BY <1>2, BasisHolds, PTL DEF Spec, FirstErrorStands

-----------------------------------------------------------------------------
(* Seeds.  A seed stays at the head of its channel for the whole run: a    *)
(* channel the caller seeds is only ever folded into.  So a seed of the    *)
(* wrong type, which no fold may start from, is still raw in every state,  *)
(* and whoever reads it has to validate it.                                *)

SeedsLead ==
    at \in Positions(graph) =>
        \A c \in graph.inputs :
            chan[c].parts # <<>> /\ chan[c].parts[1] = Seed

RawSeeds == /\ raw \subseteq graph.inputs
            /\ raw \cap written = {}
            /\ pc = "call" => written = {}

SeedsHeld == Basis /\ RawSeeds /\ SeedsLead /\ NoIllTypedSeedConsumed

(* Before the call nothing is seeded.                                      *)
LEMMA SeedsInit == Init => SeedsHeld
<1> SUFFICES ASSUME Init PROVE SeedsHeld  OBVIOUS
<1>1. Basis  BY BasisInit
<1>2. RawSeeds  BY DEF Init, RawSeeds
<1>3. SeedsLead  BY <1>1, HereFacts DEF Init, SeedsLead
<1>4. NoIllTypedSeedConsumed
  <2>1. DOMAIN proj = {}  BY DEF Init, Nothing
  <2>2. \A c \in Channels : ~IllTyped(c, chan[c])
    BY DEF Init, IllTyped, Absent
  <2> QED  BY <2>1, <2>2 DEF NoIllTypedSeedConsumed
<1> QED  BY <1>1, <1>2, <1>3, <1>4 DEF SeedsHeld

(* Validate-then-consume, at a read: what passes carries no bad seed.      *)
LEMMA PassedReads ==
    ASSUME SeedsHeld, SeedsPass, at \in Positions(graph), NEW c \in Here.reads
    PROVE  ~IllTyped(c, chan[c])
<1>1. c \in Channels  BY HereFacts DEF SeedsHeld
<1>2. SUFFICES ASSUME IllTyped(c, chan[c]) PROVE FALSE  OBVIOUS
<1>3. c \in RawReads
  BY <1>1, <1>2 DEF SeedsHeld, NoIllTypedSeedConsumed, RawReads
<1> QED  BY <1>2, <1>3 DEF SeedsPass, Readable

(* A fold keeps the head of what it starts from.                           *)
LEMMA FoldKeepsHead ==
    ASSUME NEW v \in Value, NEW w \in Value, w.parts # <<>>
    PROVE  /\ Fold(v, w).parts # <<>>
           /\ Fold(v, w).parts[1] = IF v.parts = <<>> THEN w.parts[1]
                                    ELSE v.parts[1]
           /\ FirstFold(v).parts = v.parts
BY DEF Fold, FirstFold, Value

(* A step that leaves the channels, the projection and the position alone. *)
Quiet == /\ UNCHANGED <<graph, req, at, chan, written, raw, proj>>
         /\ pc' = "call" => pc = "call"

(* The steps that are quiet.                                               *)
LEMMA QuietSteps ==
    ASSUME Basis,
           \/ UNCHANGED vars \/ Refuse \/ Expire \/ BudgetSpent \/ BudgetLeft
           \/ EnterBody \/ Calling \/ Returning \/ NamespaceBreaks
           \/ TaskHalts \/ Fail \/ Complete
    PROVE  Quiet
<1>1. CASE UNCHANGED vars \/ Refuse \/ Expire \/ BudgetSpent \/ BudgetLeft
  BY <1>1 DEF vars, Refuse, Expire, BudgetSpent, BudgetLeft, Quiet,
              env, data, detail
<1>2. CASE EnterBody \/ NamespaceBreaks \/ TaskHalts \/ Fail \/ Complete
  BY <1>2 DEF EnterBody, NamespaceBreaks, TaskHalts, Fail, Complete, Quiet,
              env, data, detail
<1>3. CASE Calling  BY <1>3, CallingEffect DEF Quiet
<1>4. CASE Returning
  BY <1>4, ReturningEffect DEF Quiet, RouteFrom
<1> QED  BY <1>1, <1>2, <1>3, <1>4

(* The write a fold starts from or continues is not a bad seed, and what   *)
(* is not a fold has no seed in it; a seeded channel is always folded.     *)
LEMMA RoutedHead ==
    ASSUME SeedsHeld, Routing, ~Clobbers, SeedFits
    PROVE  /\ Target \in Channels
           /\ ~IllTyped(Target, Routed(Target))
           /\ Target \in graph.inputs =>
                /\ Routed(Target).parts # <<>>
                /\ Routed(Target).parts[1] = Seed
           /\ Target \in raw => FoldsSeed
<1>1. at \in Positions(graph) /\ at # 0 /\ Basis
  BY HereFacts DEF SeedsHeld, Basis, WellPlaced, Routing
<1>2. Target \in Channels /\ chan[Target] \in Value
  BY <1>1, RoutedTyped DEF Basis, TypeOK
<1>3. Returned \in Value /\ Returned.parts = << <<at, port>> >>
  <2>1. <<at, port>> \in Nat \X Nat  BY <1>1, HereFacts DEF Basis, TypeOK
  <2> QED  BY <2>1 DEF Returned, Value
<1>4. Returned.parts # <<>> /\ Returned.parts[1] # Seed
  BY <1>1, <1>3 DEF Seed
<1>5. Target \in graph.inputs /\ Target \in Merged => Target \in SeedContributes
  BY DEF SeedContributes, Contributors
<1>6. Target \in raw => FoldsSeed
  BY <1>5 DEF SeedsHeld, RawSeeds, Clobbers, FoldsSeed
<1>7. CASE Target \notin Merged
  <2>1. Routed(Target) = Returned /\ Target \notin graph.inputs
    BY <1>7 DEF Routed, Clobbers
  <2> QED  BY <1>2, <1>4, <1>6, <2>1 DEF IllTyped
<1>8. CASE Target \in Merged /\ Target \notin written
           /\ Target \notin SeedContributes
  <2>1. Routed(Target) = FirstFold(Returned) /\ Target \notin graph.inputs
    BY <1>5, <1>8 DEF Routed
  <2>2. Routed(Target).parts = Returned.parts
    BY <1>3, <1>4, <2>1, FoldKeepsHead
  <2> QED  BY <1>2, <1>4, <1>6, <2>1, <2>2 DEF IllTyped
<1>9. CASE Target \in Merged
           /\ (Target \in written \/ Target \in SeedContributes)
  <2>1. ~IllTyped(Target, chan[Target])
    <3>1. CASE Target \in written
      BY <1>2, <3>1 DEF SeedsHeld, RawSeeds, NoIllTypedSeedConsumed
    <3>2. CASE Target \notin written
      <4>1. FoldsSeed  BY <1>9, <3>2 DEF FoldsSeed
      <4> QED
        BY <1>2, <4>1 DEF SeedFits, SeedsHeld, NoIllTypedSeedConsumed
    <3> QED  BY <3>1, <3>2
  <2>2. PICK v \in Value : v.parts = chan[Target].parts
                           /\ Routed(Target) = Fold(v, Returned)
    <3>1. CASE Target \in written
      BY <1>2, <1>9, <3>1 DEF Routed
    <3>2. CASE Target \notin written
      <4>1. Routed(Target) = Fold(FirstFold(chan[Target]), Returned)
        BY <1>9, <3>2 DEF Routed
      <4>2. FirstFold(chan[Target]) \in Value  BY <1>2, ValueForms
      <4>3. FirstFold(chan[Target]).parts = chan[Target].parts
        BY <1>2, <1>3, <1>4, FoldKeepsHead
      <4> QED  BY <4>1, <4>2, <4>3
    <3> QED  BY <3>1, <3>2
  <2>3. /\ Routed(Target).parts # <<>>
        /\ Routed(Target).parts[1] = IF chan[Target].parts = <<>>
                                     THEN Returned.parts[1]
                                     ELSE chan[Target].parts[1]
    BY <1>3, <1>4, <2>2, FoldKeepsHead
  <2>4. ~IllTyped(Target, Routed(Target))
    BY <1>4, <2>1, <2>3 DEF IllTyped
  <2>5. Target \in graph.inputs => Routed(Target).parts[1] = Seed
    BY <1>1, <2>3 DEF SeedsHeld, SeedsLead
  <2> QED  BY <1>2, <1>6, <2>3, <2>4, <2>5
<1> QED  BY <1>7, <1>8, <1>9

(* Every step keeps the seeds in place.                                    *)
LEMMA SeedsStep ==
    ASSUME SeedsHeld, [Next]_vars
    PROVE  SeedsHeld'
<1> Basis  BY DEF SeedsHeld
<1>1. Basis'  BY BasisStep
<1>2. ASSUME Quiet
      PROVE  RawSeeds' /\ SeedsLead' /\ NoIllTypedSeedConsumed'
  BY <1>2 DEF Quiet, SeedsHeld, RawSeeds, SeedsLead, NoIllTypedSeedConsumed,
              IllTyped, Positions
<1>3. CASE \/ UNCHANGED vars \/ Refuse \/ Expire \/ BudgetSpent \/ BudgetLeft
           \/ EnterBody \/ Calling \/ Returning \/ NamespaceBreaks
           \/ TaskHalts \/ Fail \/ Complete
  BY <1>1, <1>2, <1>3, QuietSteps DEF SeedsHeld
<1>4. CASE TaskEnds
  <2>1. /\ UNCHANGED <<graph, req, chan, written, raw>> /\ DOMAIN proj' = {}
        /\ at \in Positions(graph) /\ pc' # "call"
    BY <1>4 DEF TaskEnds, env, data, Nothing, Basis, WellPlaced
  <2>2. RawSeeds' /\ SeedsLead' /\ NoIllTypedSeedConsumed'
    BY <2>1 DEF SeedsHeld, RawSeeds, SeedsLead, NoIllTypedSeedConsumed, IllTyped
  <2> QED  BY <1>1, <2>2 DEF SeedsHeld
<1>5. CASE Start
  <2>1. /\ UNCHANGED <<graph, req, written, proj>> /\ written = {}
        /\ raw' = graph.inputs /\ pc' # "call"
        /\ chan' = [c \in Channels |-> IF c \in graph.inputs THEN SeedValue
                                       ELSE Absent]
    BY <1>5 DEF Start, env, detail, SeedsHeld, RawSeeds
  <2>2. RawSeeds'  BY <2>1 DEF RawSeeds
  <2>3. SeedsLead'
    BY <2>1, HereFacts DEF SeedsLead, SeedValue
  <2>4. NoIllTypedSeedConsumed'
    BY <2>1 DEF SeedsHeld, NoIllTypedSeedConsumed, IllTyped, Absent
  <2> QED  BY <1>1, <2>2, <2>3, <2>4 DEF SeedsHeld
<1>6. CASE Failing
  <2>1. FailedTask  BY <1>6, FailureEffect
  <2>2. RawSeeds' /\ SeedsLead'
    BY <2>1 DEF FailedTask, SeedsHeld, RawSeeds, SeedsLead, Positions
  <2>3. NoIllTypedSeedConsumed'
    BY <2>1 DEF FailedTask, SeedsHeld, NoIllTypedSeedConsumed, IllTyped
  <2> QED  BY <1>1, <2>2, <2>3 DEF SeedsHeld
<1>7. CASE Project
  <2>1. /\ at \in Positions(graph) /\ SeedsPass /\ raw' = raw \ Here.reads
        /\ proj' = Projection /\ pc' # "call"
        /\ UNCHANGED <<graph, req, chan, written, at>>
    BY <1>7 DEF Project, AtReads, Basis, WellPlaced, env
  <2>2. RawSeeds' /\ SeedsLead'
    BY <2>1 DEF SeedsHeld, RawSeeds, SeedsLead, Positions
  <2>3. \A c \in Here.reads : ~IllTyped(c, chan[c])
    BY <2>1, PassedReads
  <2>4. \A c \in Here.reads :
            chan[c] \in Value /\ proj'[c].parts = chan[c].parts
    <3>1. Here.reads \in SUBSET Channels /\ chan \in [Channels -> Value]
      BY <2>1, HereFacts DEF Basis, TypeOK
    <3> QED  BY <2>1, <3>1 DEF Projection, FirstFold, Value
  <2>5. NoIllTypedSeedConsumed'
    <3>1. \A c \in DOMAIN proj' : ~IllTyped(c, proj[c])'
      BY <2>1, <2>3, <2>4, ProjectionTyped DEF IllTyped
    <3>2. \A c \in Channels :
              IllTyped(c, chan[c])' => c \in raw' /\ chan'[c] = SeedValue
      BY <2>1, <2>3 DEF SeedsHeld, NoIllTypedSeedConsumed, IllTyped
    <3> QED  BY <3>1, <3>2 DEF NoIllTypedSeedConsumed
  <2> QED  BY <1>1, <2>2, <2>5 DEF SeedsHeld
<1>8. CASE RoutePort
  <2>1. /\ Routing /\ ~Clobbers /\ SeedFits /\ at \in Positions(graph)
        /\ raw' = raw \ (IF FoldsSeed THEN {Target} ELSE {})
        /\ chan' = [chan EXCEPT ![Target] = Routed(Target)]
        /\ written' = written \cup {Target} /\ pc' # "call"
        /\ UNCHANGED <<graph, req, at, proj>>
    BY <1>8 DEF RoutePort, RouteFrom, Routing, Basis, WellPlaced, env
  <2>2. /\ chan'[Target] = Routed(Target)
        /\ \A c \in Channels \ {Target} : chan'[c] = chan[c]
    BY <2>1, RoutedHead DEF Basis, TypeOK
  <2>3. raw' = raw \ {Target}  BY <2>1, RoutedHead
  <2>4. RawSeeds'  BY <2>1, <2>3 DEF SeedsHeld, RawSeeds
  <2>5. SeedsLead'
    BY <2>1, <2>2, RoutedHead, HereFacts DEF SeedsHeld, SeedsLead
  <2>6. NoIllTypedSeedConsumed'
    <3>1. \A c \in DOMAIN proj' : ~IllTyped(c, proj[c])'
      BY <2>1 DEF SeedsHeld, NoIllTypedSeedConsumed, IllTyped
    <3>2. ASSUME NEW c \in Channels, IllTyped(c, chan[c])'
          PROVE  c \in raw' /\ chan'[c] = SeedValue
      <4>1. CASE c = Target
        <5>1. IllTyped(Target, Routed(Target))
          BY <2>1, <2>2, <3>2, <4>1 DEF IllTyped
        <5> QED  BY <2>1, <5>1, RoutedHead
      <4>2. CASE c # Target
        BY <2>1, <2>2, <2>3, <3>2, <4>2
           DEF SeedsHeld, NoIllTypedSeedConsumed, IllTyped
      <4> QED  BY <4>1, <4>2
    <3> QED  BY <3>1, <3>2 DEF NoIllTypedSeedConsumed
  <2> QED  BY <1>1, <2>4, <2>5, <2>6 DEF SeedsHeld
<1> QED  BY <1>3, <1>4, <1>5, <1>6, <1>7, <1>8, StepKinds

(* The seeds are in place throughout a run.                                *)
LEMMA SeedsHoldAlways == Spec => []SeedsHeld
<1>1. Init => SeedsHeld  BY SeedsInit
<1>2. SeedsHeld /\ [Next]_vars => SeedsHeld'  BY SeedsStep
<1> QED  BY <1>1, <1>2, PTL DEF Spec

(* Validate-then-consume: no projection carries a seed of the wrong type   *)
(* and no merge fold starts from one, whatever order the readers and the   *)
(* writers of its channel come in and whatever hooks absorb.               *)
THEOREM IllTypedSeedsStayOut == Spec => []NoIllTypedSeedConsumed
BY SeedsHoldAlways, PTL DEF SeedsHeld

(* Validate-then-copy: when the reads copy fails, no channel being copied  *)
(* held a seed of the wrong type.                                          *)
THEOREM CopyFailuresAreTheEngines == Spec => []CopyFailureNeverHidesBadSeed
<1>1. Init => CopyFailureNeverHidesBadSeed
  BY DEF Init, CopyFailureNeverHidesBadSeed, NoErr
<1>2. ASSUME SeedsHeld, SeedsHeld', CopyFailureNeverHidesBadSeed, [Next]_vars
      PROVE  CopyFailureNeverHidesBadSeed'
  <2> Basis  BY <1>2 DEF SeedsHeld
  <2>1. ASSUME err' = err, UNCHANGED <<graph, req, at, chan>>
        PROVE  CopyFailureNeverHidesBadSeed'
    BY <1>2, <2>1 DEF CopyFailureNeverHidesBadSeed, IllTyped
  <2>2. ASSUME err'.site # "copy"
        PROVE  CopyFailureNeverHidesBadSeed'
    BY <2>2 DEF CopyFailureNeverHidesBadSeed
  <2>3. CASE Failing
    <3>1. FailedTask  BY <2>3, FailureEffect
    <3>2. CASE err' # err /\ err'.site = "copy"
      <4>1. at \in Positions(graph) /\ SeedsPass
        BY <3>1, <3>2 DEF FailedTask, Basis, WellPlaced
      <4>2. \A c \in Here.reads : ~IllTyped(c, chan[c])
        BY <1>2, <4>1, PassedReads
      <4> QED
        BY <3>1, <4>2
           DEF FailedTask, CopyFailureNeverHidesBadSeed, IllTyped, Here
    <3> QED  BY <2>1, <2>2, <3>1, <3>2 DEF FailedTask
  <2>4. CASE UNCHANGED vars \/ Expire \/ BudgetLeft \/ EnterBody
    BY <2>1, <2>4 DEF vars, Expire, BudgetLeft, EnterBody, env, data
  <2>5. CASE Project \/ TaskHalts \/ Fail \/ Complete
    BY <2>1, <2>5 DEF Project, TaskHalts, Fail, Complete, env, data
  <2>6. CASE Calling \/ Returning
    BY <2>1, <2>6, CallingEffect, ReturningEffect
  <2>7. CASE Refuse \/ BudgetSpent \/ NamespaceBreaks
    BY <2>2, <2>7 DEF Refuse, BudgetSpent, NamespaceBreaks
  <2>8. CASE Start \/ RoutePort \/ TaskEnds
    <3>1. err = NoErr /\ err' = err
      BY <2>8 DEF Start, RoutePort, Routing, TaskEnds, Basis, ErrorsHalt
    <3> QED  BY <2>2, <3>1 DEF NoErr
  <2> QED  BY <1>2, <2>3, <2>4, <2>5, <2>6, <2>7, <2>8, StepKinds
<1> QED  BY <1>1, <1>2, SeedsHoldAlways, PTL DEF Spec

-----------------------------------------------------------------------------
(* What a run that returned has read.                                      *)

ReadNoBadSeed(n) == graph.nodes[n].reads \cap graph.inputs \cap req.bad = {}

(* A node past its projection read no bad seed; a node whose task is over  *)
(* without an error got past it, unless it is a hook.                      *)
PastReads ==
    /\ pc \in {"embed", "deliver", "body", "route"} => ReadNoBadSeed(at)
    /\ (pc \in {"restore", "end", "close", "returned"} /\ err = NoErr
            /\ Kind(graph, at) # "hook") => ReadNoBadSeed(at)
    /\ \A n \in Positions(graph) :
          (n < at /\ Kind(graph, n) # "hook") => ReadNoBadSeed(n)

(* At the projection: every seeded channel is led by its seed, so a seed of*)
(* the wrong type makes the channel ill-typed, and that does not pass.     *)
LEMMA PassedReadsNoBadSeed ==
    ASSUME SeedsHeld, SeedsPass, at \in Positions(graph)
    PROVE  ReadNoBadSeed(at)
<1> SUFFICES ASSUME NEW c \in Here.reads, c \in graph.inputs, c \in req.bad
             PROVE  FALSE
  BY DEF ReadNoBadSeed, Here
<1>1. IllTyped(c, chan[c])  BY DEF SeedsHeld, SeedsLead, IllTyped
<1> QED  BY <1>1, PassedReads

(* Every step keeps what is known of the nodes past their reads.           *)
LEMMA PastReadsStep ==
    ASSUME SeedsHeld, PastReads, [Next]_vars
    PROVE  PastReads'
<1> Basis  BY DEF SeedsHeld
<1>1. CASE Failing
  <2>1. FailedTask  BY <1>1, FailureEffect
  <2>2. pc \in {"reads", "deliver", "embed", "body", "route"} => err = NoErr
    BY DEF Basis, ErrorsHalt
  <2> QED  BY <2>1, <2>2 DEF FailedTask, PastReads, ReadNoBadSeed, Kind,
              Here, Positions
<1>2. CASE \/ UNCHANGED vars \/ Expire \/ BudgetSpent \/ EnterBody
           \/ TaskHalts \/ Fail \/ NamespaceBreaks \/ Refuse
  BY <1>2 DEF vars, Expire, BudgetSpent, EnterBody, TaskHalts, Fail, Refuse,
              NamespaceBreaks, env, PastReads, ReadNoBadSeed, Kind, Positions
<1>3. CASE BudgetLeft \/ Complete
  BY <1>3 DEF BudgetLeft, Complete, env, Basis, ErrorsHalt, PastReads,
              ReadNoBadSeed, Kind, Positions
<1>4. CASE Start
  BY <1>4, HereFacts DEF Start, env, PastReads, ReadNoBadSeed, Kind, Positions
<1>5. CASE Project
  <2>1. ReadNoBadSeed(at)
    BY <1>5, PassedReadsNoBadSeed DEF Project, AtReads, Basis, WellPlaced
  <2> QED  BY <1>5, <2>1 DEF Project, env, PastReads, ReadNoBadSeed, Kind, Positions
<1>6. CASE Calling
  BY <1>6, CallingEffect DEF PastReads, ReadNoBadSeed, Kind, Positions
<1>7. CASE Returning
  BY <1>7, ReturningEffect DEF RouteFrom, PastReads, ReadNoBadSeed, Kind, Positions
<1>8. CASE RoutePort
  BY <1>8 DEF RoutePort, Routing, RouteFrom, env, PastReads, ReadNoBadSeed,
              Kind, Positions
<1>9. CASE TaskEnds
  <2>1. /\ at \in 1..Last /\ Last \in Nat /\ Positions(graph) = 1..Last
        /\ pc = "restore" /\ err = NoErr /\ UNCHANGED <<graph, req, err>>
        /\ \/ at' = at + 1 /\ pc' = "boundary"
           \/ at' = at /\ pc' = "end"
    BY <1>9, HereFacts DEF TaskEnds, env, Basis, WellPlaced
  <2> QED  BY <2>1 DEF PastReads, ReadNoBadSeed, Kind, Positions
<1> QED  BY <1>1, <1>2, <1>3, <1>4, <1>5, <1>6, <1>7, <1>8, <1>9, StepKinds

(* Whatever hooks absorb, a run that returned had a well-typed seed for    *)
(* everything its channel-writing nodes read.                              *)
THEOREM ReturnedRunsReadGoodSeeds == Spec => []ReturnedRunReadNoBadSeed
<1>1. Init => PastReads
  BY BasisInit, HereFacts DEF Init, PastReads, ReadNoBadSeed
<1>2. SeedsHeld /\ PastReads /\ [Next]_vars => PastReads'
  BY PastReadsStep
<1>3. SeedsHeld /\ PastReads => ReturnedRunReadNoBadSeed
  <2> SUFFICES ASSUME SeedsHeld, PastReads, pc = "returned",
                      NEW n \in Positions(graph), Kind(graph, n) # "hook"
               PROVE  ReadNoBadSeed(n)
    BY DEF ReturnedRunReadNoBadSeed, ReadNoBadSeed
  <2>1. at = Last /\ err = NoErr /\ n \in 1..Last /\ Last \in Nat
    BY HereFacts DEF SeedsHeld, Basis, WellPlaced, ErrorsHalt
  <2> QED  BY <2>1 DEF PastReads
<1> QED  BY <1>1, <1>2, <1>3, SeedsHoldAlways, PTL DEF Spec
=============================================================================
