----------------------- MODULE KernelWalkRecordProofs -----------------------
(***************************************************************************)
(* The record of a walk, the canonical events it emits in order: on every  *)
(* accepted graph, and whatever fails, it is well formed, tells who is to  *)
(* blame, and no fragment or node entry stands where it may not.           *)
(***************************************************************************)
EXTENDS KernelWalkProofs

EventNames == {"start", "expired", "enter", "invoke", "fragment", "detached",
               "exit", "complete", "error"}
Events == [ev : EventNames, node : Nat]

(* The call was refused at the API boundary: no node was ever at hand.     *)
Refused == err.site \in {"missing", "noroute"}

(* Nothing is emitted before the walk starts, pipeline_start comes first,  *)
(* no event names a node the walk has not reached.                         *)
Opened ==
    /\ trace \in Seq(Events)
    /\ pc = "call" \/ Refused <=> at = 0
    /\ at = 0 <=> trace = <<>>
    /\ \A i \in DOMAIN trace : /\ trace[i].ev = "start" <=> i = 1
                               /\ trace[i].node <= at

(* A terminal event is the last, and is there when the run is over.        *)
Closed ==
    /\ \A i \in DOMAIN trace : trace[i].ev \in {"complete", "error"} =>
          /\ i = Len(trace)
          /\ IF trace[i].ev = "complete" THEN pc = "returned" ELSE pc = "raised"
    /\ pc = "returned" => trace[Len(trace)].ev = "complete"
    /\ pc = "raised" /\ at # 0 => trace[Len(trace)].ev = "error"

(* How a node that has been dispatched leaves the record.                  *)
Exited(n) == Happened("enter", n) /\ Happened("exit", n)
Accounted(n) == Kind(graph, n) \in {"hook", "pipeline"} \/ Exited(n)

(* What the record has of the node at hand, by how far its task is.        *)
AtHand ==
    /\ \A i \in DOMAIN trace : trace[i].node = at =>
          /\ pc \in {"boundary", "reads"} => trace[i].ev = "expired"
          /\ pc = "deliver" => trace[i].ev \in {"expired", "enter"}
          /\ pc = "body" => trace[i].ev # "exit"
    /\ pc \in {"deliver", "body"} =>
          Happened("enter", at) /\ Kind(graph, at) # "pipeline"
    /\ pc = "embed" => Kind(graph, at) = "pipeline"
    /\ pc \in {"route", "restore", "end", "close", "returned"} /\ err = NoErr
          => Accounted(at)

(* The nodes left behind.                                                  *)
Behind == \A n \in Positions(graph) : n < at => Accounted(n)

(* Each node's events in dispatch order, enter before invoke and exit.     *)
Ordered ==
    /\ \A i, j \in DOMAIN trace : i < j =>
          /\ trace[i].node <= trace[j].node
          /\ (trace[i].ev = trace[j].ev /\ trace[i].ev \in {"enter", "exit"}) =>
                trace[i].node < trace[j].node
          /\ (trace[i].ev = "exit" /\ trace[j].ev \in {"enter", "invoke"}) =>
                trace[i].node < trace[j].node
    /\ \A i \in DOMAIN trace : trace[i].ev \in {"invoke", "exit"} =>
          \E j \in 1..(i - 1) :
              trace[j] = [ev |-> "enter", node |-> trace[i].node]

(* While the sink is attached, the node at hand is the routed one and no   *)
(* sink has been detached.                                                 *)
SinkPlaced ==
    sink = "on" => /\ req.sink /\ StreamRoute(graph) = at /\ at # 0
                   /\ \A i \in DOMAIN trace : trace[i].ev # "detached"

(* Once the budget is gone the walk gets no further than the next boundary.*)
ExpiryPlaced ==
    \A i \in DOMAIN trace : trace[i].ev = "expired" =>
        /\ expired
        /\ \/ trace[i].node = at
           \/ trace[i].node < at /\ pc \in {"boundary", "failed", "raised"}

RecordHeld == Opened /\ Closed /\ AtHand /\ Behind /\ Ordered
Walls == SinkPlaced /\ SinkWall /\ ExpiryPlaced /\ ExpiryStopsAtNextBoundary

-----------------------------------------------------------------------------
(* What a step does to the record.                                         *)

(* An emitted event goes behind the others.                                *)
LEMMA Appended ==
    ASSUME trace \in Seq(Events), NEW e \in Events, trace' = Append(trace, e)
    PROVE  /\ trace' \in Seq(Events) /\ trace' # <<>>
           /\ Len(trace) \in Nat /\ Len(trace') = Len(trace) + 1
           /\ DOMAIN trace = 1..Len(trace) /\ DOMAIN trace' = 1..Len(trace')
           /\ trace'[Len(trace')] = e
           /\ \A i \in DOMAIN trace : i \in DOMAIN trace' /\ trace'[i] = trace[i]
           /\ \A i \in DOMAIN trace' :
                 \/ i \in DOMAIN trace /\ i < Len(trace')
                 \/ i = Len(trace')
           /\ \A ev, n : Happened(ev, n)' <=>
                 Happened(ev, n) \/ e = [ev |-> ev, node |-> n]
<1> DEFINE m == Len(trace)
           s == trace
           t == trace'
<1>1. /\ t \in Seq(Events) /\ m \in Nat /\ Len(t) = m + 1
      /\ DOMAIN s = 1..m /\ DOMAIN t = 1..(m + 1)
      /\ t[m + 1] = e /\ \A i \in 1..m : t[i] = s[i]
  OBVIOUS
<1>2. \A i : i \in 1..(m + 1) <=> i \in 1..m \/ i = m + 1
  <2>1. m \in Nat  BY <1>1
  <2> HIDE DEF m
  <2> QED  BY <2>1
<1>3. \A i \in 1..m : i < m + 1
  <2>1. m \in Nat  BY <1>1
  <2> HIDE DEF m
  <2> QED  BY <2>1
<1>4. \A ev, n : Happened(ev, n)' <=>
          \E i \in DOMAIN t : t[i] = [ev |-> ev, node |-> n]
  BY DEF Happened
<1>5. \A ev, n : Happened(ev, n) <=>
          \E i \in DOMAIN s : s[i] = [ev |-> ev, node |-> n]
  BY DEF Happened
<1>6. \A x : (\E i \in DOMAIN t : t[i] = x) <=>
            (\E i \in DOMAIN s : s[i] = x) \/ e = x
  <2> HIDE DEF s, t, m
  <2> QED  BY <1>1, <1>2
<1>7. t # <<>>  BY <1>1
<1> QED  BY <1>1, <1>2, <1>3, <1>4, <1>5, <1>6, <1>7

(* The steps that emit something.                                          *)
LEMMA EmittingSteps ==
    ASSUME Basis, [Next]_vars, trace' # trace
    PROVE  \/ Start \/ Expire \/ Project \/ Calling \/ BodyReturns
           \/ Fail \/ Complete
<1>1. ~UNCHANGED vars  BY DEF vars
<1>2. ~Failing  BY FailureEffect DEF FailedTask
<1>3. ~(Refuse \/ BudgetSpent \/ BudgetLeft \/ NamespaceBreaks \/ TaskEnds
        \/ TaskHalts)
  BY DEF Refuse, BudgetSpent, BudgetLeft, NamespaceBreaks, TaskEnds, TaskHalts
<1>4. ~(EnterBody \/ RoutePort \/ EmbedReturns)
  BY DEF EnterBody, RoutePort, EmbedReturns
<1> QED  BY <1>1, <1>2, <1>3, <1>4, StepKinds DEF Returning

(* What a call of the author's code or of the sink emits.                  *)
LEMMA CallingEmits ==
    ASSUME Basis, Calling
    PROVE  /\ pc \in {"body", "embed"} /\ at \in Nat /\ at # 0
           /\ \/ trace' = trace /\ sink' = sink
              \/ pc = "body" /\ Emit("invoke") /\ sink' = sink
              \/ sink = "on" /\ sink' = sink /\ Emit("fragment")
              \/ sink = "on" /\ sink' = "off" /\ Emit("detached")
<1>1. pc \in {"body", "embed"}  BY CallingEffect
<1>2. at \in Nat /\ at # 0  BY <1>1, HereFacts DEF Basis, WellPlaced
<1>3. \/ trace' = trace /\ sink' = sink
      \/ pc = "body" /\ Emit("invoke") /\ sink' = sink
      \/ sink = "on" /\ sink' = sink /\ Emit("fragment")
      \/ sink = "on" /\ sink' = "off" /\ Emit("detached")
  BY DEF Calling, AdapterAnswers, FragmentDelivered, SinkRaises, FragmentDropped
<1> QED  BY <1>1, <1>2, <1>3

(* The error a failing step raises names the node at hand; "handler" and   *)
(* "service" are given where the body runs, or at the third-party sites.   *)
LEMMA FailureBlame ==
    ASSUME Basis, Failing, err' # err
    PROVE  /\ err'.node = at /\ err'.site \notin {"missing", "noroute", "budget"}
           /\ (err'.cls = "PF" /\ err'.site # "inner") =>
                 /\ (err'.cat # "engine"
                        /\ err'.site \notin {"validator", "firstfold"})
                       => pc \in {"deliver", "body"}
                 /\ pc \in {"route", "embed"} => err'.cat = "engine"
<1> DEFINE Blamed(cls, cat, site) ==
               err' = [cls |-> cls, cat |-> cat, site |-> site, node |-> at]
<1>1. \A site : RaiseRaw(site) => Blamed("PF", Category(site), site)
  BY DEF RaiseRaw, Halt
<1>2. \A cls, cat, site : Halt(cls, cat, site) => Blamed(cls, cat, site)
  BY DEF Halt
<1> HIDE DEF Blamed
<1>3. CASE SeedRefused \/ RouteSeedRefused \/ ReadsRefused
  <2>1. Blamed("SVE", "none", "seed") \/ Blamed("SVE", "none", "reads")
    BY <1>2, <1>3 DEF SeedRefused, RouteSeedRefused, ReadsRefused
  <2> QED  BY <2>1 DEF Blamed
<1>4. CASE SeedValidatorBreaks \/ ReadsValidatorBreaks \/ OutputValidatorBreaks
  <2>1. /\ Blamed("PF", Category("validator"), "validator")
        /\ pc \notin {"route", "embed"}
    BY <1>1, <1>4 DEF SeedValidatorBreaks, ReadsValidatorBreaks,
                      OutputValidatorBreaks, AtReads
  <2> QED  BY <2>1 DEF Blamed
<1>5. CASE FirstFoldBreaks
  <2>1. /\ Blamed("PF", Category("firstfold"), "firstfold")
        /\ pc \notin {"route", "embed"}
    BY <1>1, <1>5 DEF FirstFoldBreaks, AtReads
  <2> QED  BY <2>1 DEF Blamed
<1>6. CASE ReadsCopyBreaks \/ FoldBreaks \/ EmbedEscapes
  <2>1. \E site \in {"copy", "fold", "escape"} :
            Blamed("PF", Category(site), site)
    BY <1>2, <1>6 DEF ReadsCopyBreaks, FoldBreaks, EmbedEscapes
  <2> QED  BY <2>1 DEF Blamed, Category
<1>7. CASE DeliveryBreaks \/ BodyRaises \/ AdapterBreaks \/ CaptureBreaks
  <2>1. /\ pc \in {"deliver", "body"}
        /\ \E site \in {"delivery", "body", "adapter", "capture"} :
               Blamed("PF", Category(site), site)
    BY <1>1, <1>7 DEF DeliveryBreaks, BodyRaises, AdapterBreaks, CaptureBreaks
  <2> QED  BY <2>1 DEF Blamed
<1>8. CASE ForeignHalt
  <2>1. \E cls, cat : Blamed(cls, cat, "inner")
    BY <1>2, <1>8 DEF ForeignHalt
  <2> QED  BY <2>1 DEF Blamed
<1>9. CASE OutputRefused
  <2>1. \E cls \in {"CV", "SVE"} : Blamed(cls, "none", "output")
    BY <1>2, <1>9 DEF OutputRefused
  <2> QED  BY <2>1 DEF Blamed
<1>10. CASE RouteSeedValidatorBreaks
  <2>1. Blamed("PF", "engine", "validator")
    BY <1>2, <1>10 DEF RouteSeedValidatorBreaks
  <2> QED  BY <2>1 DEF Blamed
<1> QED  BY <1>3, <1>4, <1>5, <1>6, <1>7, <1>8, <1>9, <1>10
         DEF Failing, FailingReads, FailingDispatch, FailingRoute

-----------------------------------------------------------------------------
(* The opening and the closing of the record.                              *)

(* A step that emits nothing, at a node, opens and closes nothing.         *)
LEMMA QuietOpened ==
    ASSUME Basis, Opened, trace' = trace, at' \in Nat, at <= at',
           pc' = "call" \/ Refused' <=> at' = 0,
           at = 0 <=> at' = 0
    PROVE  Opened'
<1>1. \A i \in DOMAIN trace : trace[i].node \in Nat /\ trace[i].node <= at'
  <2> SUFFICES ASSUME NEW i \in DOMAIN trace
               PROVE  trace[i].node \in Nat /\ trace[i].node <= at'
    OBVIOUS
  <2>1. trace[i] \in Events  BY DEF Opened
  <2>2. trace[i].node \in Nat  BY <2>1 DEF Events
  <2>3. at \in Nat  BY HereFacts
  <2> QED  BY <2>2, <2>3 DEF Opened
<1> QED  BY <1>1 DEF Opened

(* The record has one event more, of the node at hand.                     *)
Grown(ev) ==
    /\ trace' \in Seq(Events) /\ trace' # <<>> /\ at \in Nat
    /\ Len(trace) \in Nat /\ Len(trace') = Len(trace) + 1
    /\ DOMAIN trace = 1..Len(trace) /\ DOMAIN trace' = 1..Len(trace')
    /\ trace'[Len(trace')] = [ev |-> ev, node |-> at]
    /\ \A i \in DOMAIN trace : i \in DOMAIN trace' /\ trace'[i] = trace[i]
    /\ \A i \in DOMAIN trace' :
          (i \in DOMAIN trace /\ i < Len(trace')) \/ i = Len(trace')
    /\ \A x, n : Happened(x, n)' <=> Happened(x, n) \/ (x = ev /\ n = at)

(* An event of the node at hand goes behind the others.                    *)
LEMMA Emitted ==
    ASSUME Basis, Opened, NEW ev \in EventNames, Emit(ev)
    PROVE  Grown(ev)
<1> DEFINE e == [ev |-> ev, node |-> at]
<1>1. at \in Nat /\ e \in Events  BY HereFacts DEF Events
<1>2. trace' = Append(trace, e)  BY DEF Emit
<1>3. trace \in Seq(Events)  BY DEF Opened
<1>4. \A x, n : e = [ev |-> x, node |-> n] <=> x = ev /\ n = at
  OBVIOUS
<1> HIDE DEF e
<1>5. /\ trace' \in Seq(Events) /\ trace' # <<>>
      /\ Len(trace) \in Nat /\ Len(trace') = Len(trace) + 1
      /\ DOMAIN trace = 1..Len(trace) /\ DOMAIN trace' = 1..Len(trace')
      /\ trace'[Len(trace')] = e
      /\ \A i \in DOMAIN trace : i \in DOMAIN trace' /\ trace'[i] = trace[i]
      /\ \A i \in DOMAIN trace' :
            (i \in DOMAIN trace /\ i < Len(trace')) \/ i = Len(trace')
      /\ \A x, n : Happened(x, n)' <=>
            Happened(x, n) \/ e = [ev |-> x, node |-> n]
  BY <1>1, <1>2, <1>3, Appended
<1> QED  BY <1>1, <1>4, <1>5 DEF e, Grown

(* One event more, of the node at hand, and not a second pipeline_start.   *)
LEMMA EmittedOpened ==
    ASSUME Basis, Opened, NEW ev \in EventNames \ {"start"}, Emit(ev), at # 0,
           at' = at, pc' # "call", Refused' <=> Refused
    PROVE  Opened'
<1>0. Grown(ev)  BY Emitted
<1>1. trace # <<>> /\ trace \in Seq(Events)  BY DEF Opened
<1>2. Len(trace) # 0  BY <1>1
<1>3. Len(trace') # 1  BY <1>0, <1>2 DEF Grown
<1>4. ASSUME NEW i \in DOMAIN trace'
      PROVE  /\ trace'[i].ev = "start" <=> i = 1
             /\ trace'[i].node <= at'
  <2>1. CASE i \in DOMAIN trace
    BY <1>0, <2>1 DEF Opened, Grown
  <2>2. CASE i = Len(trace')
    BY <1>0, <1>3, <2>2 DEF Grown
  <2> QED  BY <1>0, <2>1, <2>2 DEF Grown
<1> QED  BY <1>0, <1>4 DEF Opened, Grown

(* The record stays opened whatever the walk does.                         *)
LEMMA OpenedStep ==
    ASSUME Basis, Opened, [Next]_vars
    PROVE  Opened'
<1>1. /\ at \in Nat /\ Last \in Nat \ {0}
      /\ pc \notin {"call", "raised"} => at \in 1..Last /\ at # 0 /\ ~Refused
  BY HereFacts DEF Basis, WellPlaced, Opened
<1>2. CASE UNCHANGED vars
  BY <1>1, <1>2, QuietOpened DEF vars, Opened, Refused
<1>3. CASE Failing
  <2>1. FailedTask  BY <1>3, FailureEffect
  <2>2. ~Refused'
    BY <1>1, <1>3, <2>1, FailureBlame DEF FailedTask, Refused
  <2> QED  BY <1>1, <2>1, <2>2, QuietOpened DEF FailedTask
<1>4. CASE Refuse
  <2>1. /\ pc = "call" /\ pc' = "raised" /\ UNCHANGED <<at, trace>> /\ Refused'
    BY <1>4 DEF Refuse, Refused
  <2> QED  BY <1>1, <2>1, QuietOpened DEF Opened
<1>5. CASE Start
  <2>1. /\ pc = "call" /\ at = 0 /\ trace = <<>> /\ at' = 1 /\ err' = err
        /\ pc' = "boundary" /\ trace' = Append(trace, [ev |-> "start", node |-> at])
    BY <1>5 DEF Start, Opened, Emit
  <2>2. trace' = << [ev |-> "start", node |-> 0] >>  BY <2>1
  <2>3. ~Refused'
    BY <2>1 DEF Refused, Basis, ErrorsHalt, NoErr
  <2>4. DOMAIN trace' = {1} /\ trace'[1] = [ev |-> "start", node |-> 0]
        /\ trace' \in Seq(Events)
    BY <2>2 DEF Events, EventNames
  <2> QED  BY <2>1, <2>2, <2>3, <2>4 DEF Opened
<1>6. CASE BudgetSpent \/ NamespaceBreaks
  <2>1. /\ pc \in {"boundary", "end", "restore"} /\ pc' = "failed"
        /\ UNCHANGED <<at, trace>> /\ ~Refused'
    BY <1>6 DEF BudgetSpent, NamespaceBreaks, Refused
  <2> QED  BY <1>1, <2>1, QuietOpened
<1>7. CASE BudgetLeft \/ EnterBody \/ RoutePort \/ EmbedReturns \/ TaskHalts
  <2>1. /\ pc \notin {"call", "raised"} /\ pc' # "call"
        /\ UNCHANGED <<at, trace, err>>
    BY <1>7 DEF BudgetLeft, EnterBody, RoutePort, Routing, RouteFrom,
                EmbedReturns, TaskHalts
  <2>2. ~Refused'  BY <1>1, <2>1 DEF Refused
  <2> QED  BY <1>1, <2>1, <2>2, QuietOpened
<1>8. CASE TaskEnds
  <2>1. /\ pc = "restore" /\ pc' # "call" /\ UNCHANGED <<trace, err>>
        /\ at' = at + 1 \/ at' = at
    BY <1>8 DEF TaskEnds
  <2>2. ~Refused' /\ at # 0  BY <1>1, <2>1 DEF Refused
  <2>3. at' \in Nat /\ at <= at' /\ at' # 0  BY <1>1, <2>1, <2>2
  <2> QED  BY <2>1, <2>2, <2>3, QuietOpened
<1>9. CASE Expire \/ BodyReturns \/ Fail \/ Complete
  <2>1. /\ pc \notin {"call", "raised"} /\ pc' # "call" /\ UNCHANGED <<at, err>>
        /\ \E ev \in EventNames \ {"start"} : Emit(ev)
    BY <1>9 DEF Expire, BodyReturns, RouteFrom, Fail, Complete, EventNames
  <2> QED  BY <1>1, <2>1, EmittedOpened DEF Refused
<1>10. CASE Project
  <2>1. /\ pc \notin {"call", "raised"} /\ pc' # "call" /\ UNCHANGED <<at, err>>
        /\ trace' = trace \/ Emit("enter")
    BY <1>10 DEF Project, AtReads
  <2> QED  BY <1>1, <2>1, EmittedOpened, QuietOpened DEF Refused, EventNames
<1>11. CASE Calling
  <2>1. /\ pc \notin {"call", "raised"} /\ pc' # "call" /\ UNCHANGED <<at, err>>
        /\ trace' = trace \/ \E ev \in EventNames \ {"start"} : Emit(ev)
    BY <1>11, CallingEffect, CallingEmits DEF EventNames
  <2> QED  BY <1>1, <2>1, EmittedOpened, QuietOpened DEF Refused
<1> QED
  BY <1>2, <1>3, <1>4, <1>5, <1>6, <1>7, <1>8, <1>9, <1>10, <1>11, StepKinds
     DEF Returning

(* A terminal event is emitted by the last step and by no other.           *)
LEMMA ClosedStep ==
    ASSUME Basis, Opened, Closed, [Next]_vars
    PROVE  Closed'
<1>1. pc \notin {"returned", "raised"} =>
          \A i \in DOMAIN trace : trace[i].ev \notin {"complete", "error"}
  BY DEF Closed
<1>2. ASSUME trace' = trace, pc \notin {"returned", "raised"},
             pc' \notin {"returned", "raised"}
      PROVE  Closed'
  BY <1>1, <1>2 DEF Closed
<1>3. ASSUME NEW ev \in EventNames \ {"complete", "error"}, Emit(ev),
             pc \notin {"returned", "raised"}, pc' \notin {"returned", "raised"}
      PROVE  Closed'
  <2>0. Grown(ev)  BY <1>3, Emitted
  <2>1. \A i \in DOMAIN trace' : trace'[i].ev \notin {"complete", "error"}
    BY <1>1, <1>3, <2>0 DEF Grown
  <2> QED  BY <1>3, <2>1 DEF Closed
<1>4. ASSUME NEW ev \in {"complete", "error"}, Emit(ev),
             pc \notin {"returned", "raised"},
             pc' = IF ev = "complete" THEN "returned" ELSE "raised"
      PROVE  Closed'
  <2>0. ev \in EventNames  BY DEF EventNames
  <2>1. Grown(ev)  BY <1>4, <2>0, Emitted
  <2>2. \A i \in DOMAIN trace' :
            trace'[i].ev \in {"complete", "error"} =>
                i = Len(trace') /\ trace'[i].ev = ev
    BY <1>1, <1>4, <2>1 DEF Grown
  <2>3. trace'[Len(trace')].ev = ev  BY <2>1 DEF Grown
  <2> QED  BY <1>4, <2>2, <2>3 DEF Closed
<1>5. CASE UNCHANGED vars  BY <1>5 DEF vars, Closed
<1>6. CASE Failing  BY <1>2, <1>6, FailureEffect DEF FailedTask
<1>7. CASE Refuse
  <2>1. /\ pc = "call" /\ at = 0 /\ at' = 0 /\ trace = <<>> /\ trace' = <<>>
        /\ pc' = "raised"
    BY <1>7 DEF Refuse, Opened
  <2> QED  BY <2>1 DEF Closed
<1>8. CASE \/ BudgetSpent \/ BudgetLeft \/ EnterBody \/ RoutePort
           \/ EmbedReturns \/ NamespaceBreaks \/ TaskEnds \/ TaskHalts
  BY <1>2, <1>8 DEF BudgetSpent, BudgetLeft, EnterBody, RoutePort, Routing,
     RouteFrom, EmbedReturns, NamespaceBreaks, TaskEnds, TaskHalts
<1>9. CASE Start \/ Expire \/ Project \/ BodyReturns
  <2>1. /\ pc \notin {"returned", "raised"} /\ pc' \notin {"returned", "raised"}
        /\ \/ trace' = trace
           \/ \E ev \in EventNames \ {"complete", "error"} : Emit(ev)
    BY <1>9 DEF Start, Expire, Project, AtReads, BodyReturns, RouteFrom,
                EventNames
  <2> QED  BY <1>2, <1>3, <2>1
<1>10. CASE Calling
  <2>1. /\ pc \notin {"returned", "raised"} /\ pc' \notin {"returned", "raised"}
        /\ \/ trace' = trace
           \/ \E ev \in EventNames \ {"complete", "error"} : Emit(ev)
    BY <1>10, CallingEffect, CallingEmits DEF EventNames
  <2> QED  BY <1>2, <1>3, <2>1
<1>11. CASE Fail  BY <1>4, <1>11 DEF Fail
<1>12. CASE Complete  BY <1>4, <1>12 DEF Complete
<1> QED
  BY <1>5, <1>6, <1>7, <1>8, <1>9, <1>10, <1>11, <1>12, StepKinds DEF Returning

-----------------------------------------------------------------------------
(* The node at hand and the nodes behind it.                               *)

(* What has been accounted for stays so.                                   *)
LEMMA AccountedStays ==
    ASSUME Basis, Opened, graph' = graph,
           trace' = trace \/ \E ev \in EventNames : Emit(ev)
    PROVE  \A n : Accounted(n) => Accounted(n)'
<1>1. \A x, n : Happened(x, n) => Happened(x, n)'
  BY Emitted DEF Grown, Happened
<1> QED  BY <1>1 DEF Accounted, Exited, Kind

(* Every event is one of EventNames.                                       *)
LEMMA StepEmits ==
    ASSUME Basis, [Next]_vars
    PROVE  trace' = trace \/ \E ev \in EventNames : Emit(ev)
<1>1. CASE Start \/ Expire \/ Project \/ BodyReturns \/ Fail \/ Complete
  BY <1>1 DEF Start, Expire, Project, BodyReturns, Fail, Complete, EventNames
<1>2. CASE Calling
  BY <1>2, CallingEmits DEF EventNames
<1> QED  BY <1>1, <1>2, EmittingSteps

(* What the node at hand has emitted fits how far its task is.             *)
LEMMA AtHandStep ==
    ASSUME Basis, Opened, AtHand, [Next]_vars
    PROVE  AtHand'
<1>1. \A n : graph' = graph => (Accounted(n) => Accounted(n)')
  BY AccountedStays, StepEmits
<1>2. CASE UNCHANGED vars
  BY <1>2 DEF vars, AtHand, Accounted, Exited, Happened, Kind
<1>3. CASE Failing
  <2>1. FailedTask  BY <1>3, FailureEffect
  <2>2. /\ pc' = "restore" /\ UNCHANGED <<graph, at>>
        /\ err' = NoErr => Kind(graph, at) = "hook"
    BY <2>1 DEF FailedTask, Basis, ErrorsHalt, Here, Kind
  <2>3. err' = NoErr => Accounted(at)'
    BY <1>1, <2>2 DEF Accounted
  <2> QED  BY <2>2, <2>3 DEF AtHand, Accounted
<1>4. CASE Refuse \/ BudgetSpent \/ NamespaceBreaks \/ TaskHalts \/ Fail
  <2>1. pc' \in {"failed", "raised"}
    BY <1>4 DEF Refuse, BudgetSpent, NamespaceBreaks, TaskHalts, Fail
  <2> QED  BY <2>1 DEF AtHand
<1>5. CASE Start
  <2>1. pc = "call" /\ pc' = "boundary" /\ at' = 1 /\ Emit("start")
    BY <1>5 DEF Start
  <2>2. trace = <<>> /\ at = 0  BY <2>1 DEF Opened
  <2>3. Grown("start")  BY <2>1, Emitted DEF EventNames
  <2>4. \A i \in DOMAIN trace' : trace'[i].node = 0
    BY <2>2, <2>3 DEF Grown
  <2> QED  BY <2>1, <2>4 DEF AtHand
<1>6. ASSUME trace' = trace, UNCHANGED <<graph, at, err>>,
             \/ pc \in {"boundary", "reads"} /\ pc' = "reads"
             \/ pc = "deliver" /\ pc' = "body"
             \/ /\ pc \in {"route", "end", "close"} /\ pc' \in {"route", "restore", "end", "close"}
                /\ err = NoErr
      PROVE  AtHand'
  BY <1>6 DEF AtHand, Accounted, Exited, Happened, Kind
<1>7. CASE BudgetLeft \/ EnterBody \/ RoutePort
  <2>1. pc \in {"route", "end"} => err = NoErr  BY DEF Basis, ErrorsHalt
  <2> QED
    BY <1>6, <1>7, <2>1 DEF BudgetLeft, EnterBody, RoutePort, Routing,
       RouteFrom, env
<1>8. ASSUME NEW ev \in EventNames \ {"enter", "exit"}, Emit(ev),
             UNCHANGED <<graph, pc, at, err>>,
             ev # "expired" => pc \in {"body", "embed"}
      PROVE  AtHand'
  <2>1. Grown(ev)  BY <1>8, Emitted
  <2>2. \A i \in DOMAIN trace' : trace'[i].node = at' =>
            /\ pc' \in {"boundary", "reads"} => trace'[i].ev = "expired"
            /\ pc' = "deliver" => trace'[i].ev \in {"expired", "enter"}
            /\ pc' = "body" => trace'[i].ev # "exit"
    BY <1>8, <2>1 DEF AtHand, Grown
  <2>3. pc' \in {"deliver", "body"} =>
            Happened("enter", at)' /\ Kind(graph, at)' # "pipeline"
    BY <1>8, <2>1 DEF AtHand, Grown, Kind
  <2>4. pc' = "embed" => Kind(graph, at)' = "pipeline"
    BY <1>8 DEF AtHand, Kind
  <2>5. Accounted(at) => Accounted(at)'  BY <1>1, <1>8 DEF Accounted
  <2> QED  BY <1>8, <2>2, <2>3, <2>4, <2>5 DEF AtHand
<1>9. CASE Expire
  BY <1>8, <1>9 DEF Expire, env, EventNames
<1>10. CASE Calling
  <2>1. /\ UNCHANGED <<graph, pc, at, err>> /\ pc \in {"body", "embed"}
        /\ trace' = trace \/ \E ev \in EventNames \ {"enter", "exit"} : Emit(ev)
    BY <1>10, CallingEffect, CallingEmits DEF EventNames
  <2>2. CASE trace' = trace
    BY <2>1, <2>2 DEF AtHand, Accounted, Exited, Happened, Kind
  <2> QED  BY <1>8, <2>1, <2>2
<1>11. CASE Project
  <2>1. pc = "reads" /\ UNCHANGED <<graph, at, err>>
    BY <1>11 DEF Project, AtReads, env
  <2>2. CASE Here.kind = "pipeline"
    <3>1. pc' = "embed" /\ Kind(graph, at)' = "pipeline"
      BY <1>11, <2>1, <2>2 DEF Project, Here, Kind
    <3> QED  BY <3>1 DEF AtHand
  <2>3. CASE Here.kind # "pipeline"
    <3>1. /\ pc' = "deliver" /\ Emit("enter") /\ Kind(graph, at)' # "pipeline"
      BY <1>11, <2>1, <2>3 DEF Project, Here, Kind
    <3>2. Grown("enter")  BY <3>1, Emitted DEF EventNames
    <3>3. \A i \in DOMAIN trace' : trace'[i].node = at =>
              trace'[i].ev \in {"expired", "enter"}
      BY <2>1, <3>2 DEF AtHand, Grown
    <3>4. Happened("enter", at)'
      BY <2>1, <3>2 DEF Grown, Happened
    <3> QED  BY <2>1, <3>1, <3>3, <3>4 DEF AtHand
  <2> QED  BY <2>2, <2>3
<1>12. CASE BodyReturns
  <2>1. /\ pc = "body" /\ Emit("exit") /\ pc' \in {"route", "restore"}
        /\ UNCHANGED <<graph, at>>
    BY <1>12 DEF BodyReturns, RouteFrom, env
  <2>2. Grown("exit")  BY <2>1, Emitted DEF EventNames
  <2>3. Exited(at)'
    <3>1. \A n : Happened("enter", n) => Happened("enter", n)'
      BY <2>2 DEF Grown
    <3>2. \A n : n = at => Happened("exit", n)'
      BY <2>2 DEF Grown
    <3> QED  BY <2>1, <3>1, <3>2 DEF AtHand, Exited, Happened
  <2> QED  BY <2>1, <2>3 DEF AtHand, Accounted
<1>13. CASE EmbedReturns
  <2>1. /\ pc = "embed" /\ pc' \in {"route", "restore"} /\ UNCHANGED <<graph, at>>
    BY <1>13 DEF EmbedReturns, RouteFrom, env
  <2>2. Kind(graph, at)' = "pipeline"  BY <2>1 DEF AtHand, Kind
  <2> QED  BY <2>1, <2>2 DEF AtHand, Accounted
<1>14. CASE TaskEnds
  <2>1. /\ pc = "restore" /\ err = NoErr /\ UNCHANGED <<graph, err, trace>>
        /\ \/ at' = at + 1 /\ pc' = "boundary"
           \/ at' = at /\ pc' = "end"
    BY <1>14 DEF TaskEnds, env
  <2>2. CASE at' = at + 1 /\ pc' = "boundary"
    <3>1. \A i \in DOMAIN trace : trace[i].node # at + 1
      <4>1. ASSUME NEW i \in DOMAIN trace PROVE trace[i].node \in Nat
        <5>1. trace[i] \in Events  BY DEF Opened
        <5> QED  BY <5>1 DEF Events
      <4>2. at \in Nat  BY HereFacts
      <4> QED  BY <4>1, <4>2 DEF Opened
    <3> QED  BY <2>1, <2>2, <3>1 DEF AtHand
  <2>3. CASE at' = at /\ pc' = "end"
    BY <2>1, <2>3 DEF AtHand, Accounted, Exited, Happened, Kind
  <2> QED  BY <2>1, <2>2, <2>3
<1>15. CASE Complete
  <2>1. /\ pc = "close" /\ pc' = "returned" /\ UNCHANGED <<graph, at, err>>
    BY <1>15 DEF Complete, env
  <2>2. Accounted(at) => Accounted(at)'  BY <1>1, <2>1 DEF Accounted
  <2> QED  BY <2>1, <2>2 DEF AtHand
<1> QED
  BY <1>2, <1>3, <1>4, <1>5, <1>7, <1>9, <1>10, <1>11, <1>12, <1>13, <1>14,
     <1>15, StepKinds DEF Returning

(* Only the end of a task leaves a node behind, and it is accounted for.   *)
LEMMA BehindStep ==
    ASSUME Basis, Opened, AtHand, Behind, [Next]_vars
    PROVE  Behind'
<1>1. \A n : graph' = graph => (Accounted(n) => Accounted(n)')
  BY AccountedStays, StepEmits
<1>2. ASSUME UNCHANGED <<graph, at>>
      PROVE  Behind'
  BY <1>1, <1>2 DEF Behind, Positions
<1>3. CASE UNCHANGED vars \/ Expire
  BY <1>2, <1>3 DEF vars, Expire, env
<1>4. CASE Failing  BY <1>2, <1>4, FailureEffect DEF FailedTask
<1>5. CASE Calling \/ Returning
  BY <1>2, <1>5, CallingEffect, ReturningEffect
<1>6. CASE \/ Refuse \/ BudgetSpent \/ BudgetLeft \/ Project \/ EnterBody
           \/ RoutePort \/ NamespaceBreaks \/ TaskHalts \/ Fail \/ Complete
  BY <1>2, <1>6 DEF Refuse, BudgetSpent, BudgetLeft, Project, EnterBody,
     RoutePort, NamespaceBreaks, TaskHalts, Fail, Complete, env
<1>7. CASE Start
  <2>1. at' = 1 /\ graph' = graph /\ Positions(graph) = 1..Last /\ Last \in Nat
    BY <1>7, HereFacts DEF Start, env
  <2>2. \A n \in Positions(graph) : ~(n < 1)  BY <2>1
  <2> QED  BY <2>1, <2>2 DEF Behind, Positions
<1>8. CASE TaskEnds
  <2>1. /\ pc = "restore" /\ err = NoErr /\ UNCHANGED graph
        /\ at' = at + 1 \/ at' = at
    BY <1>8 DEF TaskEnds, env
  <2>2. Accounted(at)  BY <2>1 DEF AtHand
  <2>3. \A n \in Positions(graph) : n < at' => n < at \/ n = at
    BY <2>1, HereFacts
  <2> QED  BY <1>1, <2>1, <2>2, <2>3 DEF Behind, Positions
<1> QED
  BY <1>3, <1>4, <1>5, <1>6, <1>7, <1>8, StepKinds

(* An event of the node at hand keeps the order of the record.             *)
LEMMA OrderedStep ==
    ASSUME Basis, Opened, AtHand, Ordered, [Next]_vars
    PROVE  Ordered'
<1>1. CASE trace' = trace
  BY <1>1 DEF Ordered
<1>2. ASSUME NEW ev \in EventNames, Emit(ev),
             ev = "enter" => pc = "reads",
             ev \in {"invoke", "exit"} => pc = "body"
      PROVE  Ordered'
  <2> DEFINE last == Len(trace')
  <2>1. Grown(ev)  BY <1>2, Emitted
  <2>2. trace'[last] = [ev |-> ev, node |-> at]  BY <2>1 DEF Grown
  <2>3. ASSUME NEW i \in DOMAIN trace
        PROVE  /\ trace[i].node \in Nat /\ trace[i].node <= at
               /\ ((trace[i].ev = "exit" /\ ev \in {"enter", "invoke", "exit"})
                     \/ (trace[i].ev = "enter" /\ ev = "enter"))
                     => trace[i].node < at
    <3>1. trace[i] \in Events  BY DEF Opened
    <3>2. trace[i].node \in Nat  BY <3>1 DEF Events
    <3>3. trace[i].node <= at /\ at \in Nat  BY HereFacts DEF Opened
    <3>4. ((trace[i].ev = "exit" /\ ev \in {"enter", "invoke", "exit"})
             \/ (trace[i].ev = "enter" /\ ev = "enter"))
             => trace[i].node # at
      BY <1>2 DEF AtHand
    <3> QED  BY <3>2, <3>3, <3>4
  <2>4. ASSUME NEW i \in DOMAIN trace', NEW j \in DOMAIN trace', i < j
        PROVE  /\ trace'[i].node <= trace'[j].node
               /\ (trace'[i].ev = trace'[j].ev
                      /\ trace'[i].ev \in {"enter", "exit"}) =>
                     trace'[i].node < trace'[j].node
               /\ (trace'[i].ev = "exit" /\ trace'[j].ev \in {"enter", "invoke"}) =>
                     trace'[i].node < trace'[j].node
    <3>1. i \in DOMAIN trace
      <4>1. i = last => j \notin DOMAIN trace'
        BY <2>1, <2>4 DEF Grown
      <4> QED  BY <2>1, <2>4, <4>1 DEF Grown
    <3>2. trace'[i] = trace[i]  BY <2>1, <3>1 DEF Grown
    <3>3. CASE j \in DOMAIN trace
      <4>1. trace'[j] = trace[j]  BY <2>1, <3>3 DEF Grown
      <4> QED  BY <2>4, <3>1, <3>2, <3>3, <4>1 DEF Ordered
    <3>4. CASE j = last
      <4>1. trace'[j].ev = ev /\ trace'[j].node = at  BY <2>2, <3>4
      <4>2. /\ trace[i].node <= at
            /\ ((trace[i].ev = "exit" /\ ev \in {"enter", "invoke", "exit"})
                  \/ (trace[i].ev = "enter" /\ ev = "enter"))
                  => trace[i].node < at
        BY <2>3, <3>1
      <4>3. trace'[i].ev = trace[i].ev /\ trace'[i].node = trace[i].node
        BY <3>2
      <4> QED  BY <4>1, <4>2, <4>3
    <3> QED  BY <2>1, <3>3, <3>4 DEF Grown
  <2>5. ASSUME NEW i \in DOMAIN trace', trace'[i].ev \in {"invoke", "exit"}
        PROVE  \E j \in 1..(i - 1) :
                   trace'[j] = [ev |-> "enter", node |-> trace'[i].node]
    <3>1. CASE i \in DOMAIN trace
      <4>1. trace'[i] = trace[i]  BY <2>1, <3>1 DEF Grown
      <4>2. PICK j \in 1..(i - 1) :
                trace[j] = [ev |-> "enter", node |-> trace[i].node]
        BY <2>5, <3>1, <4>1 DEF Ordered
      <4>3. j \in DOMAIN trace
        BY <2>1, <3>1 DEF Grown
      <4>4. trace'[j] = trace[j]  BY <2>1, <4>3 DEF Grown
      <4> QED  BY <4>1, <4>2, <4>4
    <3>2. CASE i = last
      <4>1. ev \in {"invoke", "exit"} /\ trace'[i].node = at
        BY <2>2, <2>5, <3>2
      <4>2. Happened("enter", at)  BY <1>2, <4>1 DEF AtHand
      <4>3. PICK j \in DOMAIN trace : trace[j] = [ev |-> "enter", node |-> at]
        BY <4>2 DEF Happened
      <4>4. trace'[j] = trace[j]  BY <2>1 DEF Grown
      <4>5. j \in 1..(i - 1)  BY <2>1, <3>2 DEF Grown
      <4> QED  BY <4>1, <4>3, <4>4, <4>5
    <3> QED  BY <2>1, <3>1, <3>2 DEF Grown
  <2> QED  BY <2>4, <2>5 DEF Ordered
<1>3. CASE Start \/ Expire \/ Fail \/ Complete
  BY <1>2, <1>3 DEF Start, Expire, Fail, Complete, EventNames
<1>4. CASE Project
  BY <1>1, <1>2, <1>4 DEF Project, AtReads, EventNames
<1>5. CASE BodyReturns
  BY <1>2, <1>5 DEF BodyReturns, EventNames
<1>6. CASE Calling
  BY <1>1, <1>2, <1>6, CallingEmits DEF EventNames
<1> QED  BY <1>1, <1>3, <1>4, <1>5, <1>6, EmittingSteps

(* The record is in order at every moment of a run.                        *)
LEMMA RecordHoldsAlways == Spec => [](Basis /\ RecordHeld)
<1>1. Init => RecordHeld
  <2> SUFFICES ASSUME Init PROVE RecordHeld
    OBVIOUS
  <2>1. pc = "call" /\ at = 0 /\ trace = <<>> /\ err = NoErr  BY DEF Init
  <2>2. DOMAIN trace = {}  BY <2>1
  <2>3. Opened  BY <2>1, <2>2 DEF Opened, Refused, NoErr
  <2>4. Closed /\ AtHand /\ Ordered
    BY <2>1, <2>2 DEF Closed, AtHand, Ordered
  <2>5. \A n \in Positions(graph) : ~(n < at)
    <3>1. graph \in Graphs  BY DEF Init
    <3>2. Positions(graph) = 1..Len(graph.nodes) /\ Len(graph.nodes) \in Nat
      BY <3>1, GraphParts
    <3> QED  BY <2>1, <3>2
  <2> QED  BY <2>3, <2>4, <2>5 DEF RecordHeld, Behind
<1>2. Basis /\ RecordHeld /\ [Next]_vars => RecordHeld'
  BY OpenedStep, ClosedStep, AtHandStep, BehindStep, OrderedStep DEF RecordHeld
<1> QED  BY <1>1, <1>2, BasisHolds, PTL DEF Spec

(* The record of a run as `_walk` and `_dispatch` emit it: pipeline_start  *)
(* first, node events in dispatch order and properly nested, one terminal  *)
(* event, last, that tells how the run ended, nothing for a refused call.  *)
THEOREM RecordStaysWellFormed == Spec => []RecordWellFormed
<1>1. ASSUME Basis, RecordHeld PROVE RecordWellFormed
  <2>1. Opened /\ Closed /\ Ordered  BY <1>1 DEF RecordHeld
  <2>2. trace \in Seq(Events) /\ DOMAIN trace = 1..Len(trace) /\ Len(trace) \in Nat
    BY <2>1 DEF Opened
  <2>3. trace # <<>> => trace[1].ev = "start"
    <3>1. trace # <<>> => 1 \in DOMAIN trace  BY <2>2
    <3> QED  BY <2>1, <3>1 DEF Opened
  <2>4. ASSUME NEW i \in DOMAIN trace, NEW j \in DOMAIN trace, i < j
        PROVE  trace[j].ev # "start" /\ trace[i].ev \notin {"complete", "error"}
    <3>1. j # 1 /\ i # Len(trace)  BY <2>2, <2>4
    <3> QED  BY <2>1, <3>1 DEF Opened, Closed
  <2>5. pc = "raised" =>
            IF err.site \in {"missing", "noroute"} THEN trace = <<>>
            ELSE trace # <<>> /\ trace[Len(trace)].ev = "error"
    BY <2>1 DEF Opened, Closed, Refused
  <2> QED  BY <2>1, <2>3, <2>4, <2>5 DEF RecordWellFormed, Ordered, Closed
<1> QED  BY <1>1, RecordHoldsAlways, PTL

(* Hook absorption is the only way a dispatched handler lacks its          *)
(* handler_exit: no other node is ever left without it.                    *)
THEOREM HooksAloneLackExit == Spec => []OnlyHooksLackExit
<1>1. ASSUME Basis, RecordHeld PROVE OnlyHooksLackExit
  <2> SUFFICES ASSUME NEW n \in Positions(graph), n < at \/ pc = "returned"
               PROVE  Accounted(n)
    BY DEF OnlyHooksLackExit, Accounted, Exited
  <2>1. CASE n < at
    BY <1>1, <2>1 DEF RecordHeld, Behind
  <2>2. CASE pc = "returned" /\ ~(n < at)
    <3>1. n \in 1..Last /\ Last \in Nat /\ at = Last /\ err = NoErr
      BY <1>1, <2>2, HereFacts DEF Basis, WellPlaced, ErrorsHalt
    <3>2. n = at  BY <2>2, <3>1
    <3> QED  BY <1>1, <2>2, <3>1, <3>2 DEF RecordHeld, AtHand
  <2> QED  BY <2>1, <2>2
<1> QED  BY <1>1, RecordHoldsAlways, PTL

(* The category of a halt stays true of the record.                        *)
LEMMA BlameStep ==
    ASSUME Basis, RecordHeld, BlameMatchesRecord, [Next]_vars
    PROVE  BlameMatchesRecord'
<1>1. Opened /\ AtHand  BY DEF RecordHeld
<1>2. CASE err' = err
  <2> SUFFICES ASSUME err # NoErr PROVE BlameMatchesRecord'
    BY <1>2 DEF BlameMatchesRecord, NoErr
  <2>1. pc \in {"restore", "failed", "raised"}  BY DEF Basis, ErrorsHalt
  <2>2. \/ trace' = trace
        \/ \E ev \in EventNames \ {"enter", "exit"} : Emit(ev)
    <3>1. ~Start /\ ~Project /\ ~BodyReturns /\ ~Complete
      BY <2>1 DEF Start, Project, AtReads, BodyReturns, Complete
    <3>2. ~Calling  BY <2>1, CallingEmits
    <3>3. Expire \/ Fail => \E ev \in EventNames \ {"enter", "exit"} : Emit(ev)
      BY DEF Expire, Fail, EventNames
    <3> QED  BY <3>1, <3>2, <3>3, EmittingSteps
  <2>3. \A x \in {"enter", "exit"} : \A n : Happened(x, n)' <=> Happened(x, n)
    <3>1. CASE trace' = trace  BY <3>1 DEF Happened
    <3>2. ASSUME NEW ev \in EventNames \ {"enter", "exit"}, Emit(ev),
                 NEW x \in {"enter", "exit"}, NEW n
          PROVE  Happened(x, n)' <=> Happened(x, n)
      <4>1. Grown(ev)  BY <1>1, <3>2, Emitted
      <4> QED  BY <3>2, <4>1 DEF Grown
    <3> QED  BY <2>2, <3>1, <3>2
  <2> QED  BY <1>2, <2>3 DEF BlameMatchesRecord
<1>3. CASE err' # err /\ Failing
  <2>1. FailedTask  BY <1>3, FailureEffect
  <2>2. /\ pc \in {"reads", "deliver", "embed", "body", "route"} /\ trace' = trace
    BY <2>1 DEF FailedTask
  <2>3. pc \in {"reads", "deliver", "body"} => ~Happened("exit", at)
    BY <1>1 DEF AtHand, Happened
  <2>4. pc \in {"deliver", "body"} => Happened("enter", at)
    BY <1>1 DEF AtHand
  <2>5. /\ err'.node = at
        /\ (err'.cls = "PF" /\ err'.site # "inner") =>
              /\ (err'.cat # "engine" /\ err'.site \notin {"validator", "firstfold"})
                    => pc \in {"deliver", "body"}
              /\ pc \in {"route", "embed"} => err'.cat = "engine"
    BY <1>3, FailureBlame
  <2> QED  BY <2>2, <2>3, <2>4, <2>5 DEF BlameMatchesRecord, Happened
<1>4. CASE err' # err /\ ~Failing
  <2>1. Refuse \/ BudgetSpent \/ NamespaceBreaks
    <3>1. ~UNCHANGED vars  BY <1>4 DEF vars
    <3>2. ~Calling /\ ~Returning
      BY <1>4, CallingEffect, ReturningEffect
    <3>3. /\ ~Start /\ ~Expire /\ ~BudgetLeft /\ ~Project /\ ~EnterBody
          /\ ~RoutePort /\ ~TaskEnds /\ ~TaskHalts /\ ~Fail /\ ~Complete
      BY <1>4 DEF Start, Expire, BudgetLeft, Project, EnterBody, RoutePort,
                  TaskEnds, TaskHalts, Fail, Complete
    <3> QED  BY <1>4, <3>1, <3>2, <3>3, StepKinds
  <2>2. err'.cls # "PF" \/ (err'.site = "budget" /\ err'.cat = "engine")
    BY <2>1 DEF Refuse, BudgetSpent, NamespaceBreaks
  <2> QED  BY <2>2 DEF BlameMatchesRecord
<1> QED  BY <1>2, <1>3, <1>4

(* `_wrap` against the record: outside the third-party validators and the  *)
(* read-side first fold, "handler" and "service" are given only to a node  *)
(* between its handler_enter and its handler_exit; after handler_exit only *)
(* the engine is to blame.                                                 *)
THEOREM BlameFitsRecord == Spec => []BlameMatchesRecord
<1>1. Init => BlameMatchesRecord
  BY DEF Init, BlameMatchesRecord, NoErr
<1>2. Basis /\ RecordHeld /\ BlameMatchesRecord /\ [Next]_vars
        => BlameMatchesRecord'
  BY BlameStep
<1> QED  BY <1>1, <1>2, RecordHoldsAlways, PTL DEF Spec

-----------------------------------------------------------------------------
(* The sink and the budget.                                                *)

(* No step changes the graph or the call's arguments.                      *)
LEMMA EnvStays ==
    ASSUME Basis, [Next]_vars
    PROVE  UNCHANGED <<graph, req>>
<1>1. CASE UNCHANGED vars  BY <1>1 DEF vars
<1>2. CASE Failing  BY <1>2, FailureEffect DEF FailedTask
<1>3. CASE Calling \/ Returning  BY <1>3, CallingEffect, ReturningEffect
<1>4. CASE \/ Refuse \/ Start \/ Expire \/ BudgetSpent \/ BudgetLeft \/ Project
           \/ EnterBody \/ RoutePort \/ NamespaceBreaks \/ TaskEnds \/ TaskHalts
           \/ Fail \/ Complete
  BY <1>4 DEF Refuse, Start, Expire, BudgetSpent, BudgetLeft, Project, EnterBody,
     RoutePort, NamespaceBreaks, TaskEnds, TaskHalts, Fail, Complete, env
<1> QED  BY <1>1, <1>2, <1>3, <1>4, StepKinds

(* A sink is attached at the routed node only, before it has produced      *)
(* anything, and is gone with the task.                                    *)
LEMMA SinkPlacedStep ==
    ASSUME Basis, Opened, AtHand, SinkPlaced, SinkWall, [Next]_vars
    PROVE  SinkPlaced'
<1>0. UNCHANGED <<graph, req>> /\ StreamRoute(graph)' = StreamRoute(graph)
  <2>1. UNCHANGED <<graph, req>>  BY EnvStays
  <2> QED  BY <2>1 DEF StreamRoute, Positions, Kind
<1>1. ASSUME sink' = sink, at' = at \/ at = 0,
             \/ trace' = trace
             \/ \E ev \in EventNames \ {"detached"} : Emit(ev)
      PROVE  SinkPlaced'
  <2> SUFFICES ASSUME sink = "on" PROVE SinkPlaced'
    BY <1>1 DEF SinkPlaced
  <2>1. /\ req.sink /\ StreamRoute(graph) = at /\ at # 0
        /\ \A i \in DOMAIN trace : trace[i].ev # "detached"
    BY DEF SinkPlaced
  <2>2. \A i \in DOMAIN trace' : trace'[i].ev # "detached"
    <3>1. CASE trace' = trace  BY <2>1, <3>1
    <3>2. ASSUME NEW ev \in EventNames \ {"detached"}, Emit(ev),
                 NEW i \in DOMAIN trace'
          PROVE  trace'[i].ev # "detached"
      <4>1. Grown(ev)  BY <3>2, Emitted
      <4> QED  BY <2>1, <3>2, <4>1 DEF Grown
    <3> QED  BY <1>1, <3>1, <3>2
  <2> QED  BY <1>0, <1>1, <2>1, <2>2 DEF SinkPlaced
<1>2. ASSUME pc \in {"reads", "deliver"}, sink' = SinkFor(at), at' = at,
             trace' = trace
      PROVE  SinkPlaced'
  <2> SUFFICES ASSUME req.sink, StreamRoute(graph) = at PROVE SinkPlaced'
    BY <1>0, <1>2 DEF SinkPlaced, SinkFor
  <2>1. \A i \in DOMAIN trace : trace[i].ev # "detached"
    BY <1>2 DEF SinkWall, AtHand
  <2>2. at # 0  BY <1>2, HereFacts DEF Basis, WellPlaced
  <2> QED  BY <1>0, <1>2, <2>1, <2>2 DEF SinkPlaced
<1>3. CASE UNCHANGED vars  BY <1>1, <1>3 DEF vars
<1>4. CASE Failing  BY <1>1, <1>4, FailureEffect DEF FailedTask
<1>5. CASE Refuse \/ BudgetSpent \/ BudgetLeft \/ NamespaceBreaks \/ TaskHalts
  BY <1>1, <1>5 DEF Refuse, BudgetSpent, BudgetLeft, NamespaceBreaks, TaskHalts,
                    detail
<1>6. CASE RoutePort \/ EmbedReturns
  BY <1>1, <1>6 DEF RoutePort, EmbedReturns
<1>7. CASE Expire \/ BodyReturns \/ Fail \/ Complete
  BY <1>1, <1>7 DEF Expire, BodyReturns, Fail, Complete, EventNames, detail
<1>8. CASE Start
  <2>1. at = 0 /\ sink' = sink /\ Emit("start")
    BY <1>8 DEF Start, detail, Opened
  <2> QED  BY <1>1, <2>1 DEF EventNames
<1>9. CASE Project
  BY <1>1, <1>2, <1>9 DEF Project, AtReads, EventNames
<1>10. CASE EnterBody  BY <1>2, <1>10 DEF EnterBody
<1>11. CASE Calling
  <2>1. at' = at  BY <1>11, CallingEffect
  <2>2. CASE sink' = "off"  BY <2>2 DEF SinkPlaced
  <2> QED  BY <1>1, <1>11, <2>1, <2>2, CallingEmits DEF EventNames
<1>12. CASE TaskEnds  BY <1>12 DEF TaskEnds, SinkPlaced
<1> QED
  BY <1>3, <1>4, <1>5, <1>6, <1>7, <1>8, <1>9, <1>10, <1>11, <1>12, StepKinds
     DEF Returning

(* A fragment passes only while the sink is attached.                      *)
LEMMA SinkWallStep ==
    ASSUME Basis, Opened, SinkPlaced, SinkWall, [Next]_vars
    PROVE  SinkWall'
<1>1. UNCHANGED <<graph, req>>  BY EnvStays
<1>2. StreamRoute(graph)' = StreamRoute(graph)
  BY <1>1 DEF StreamRoute, Positions, Kind
<1>3. CASE trace' = trace  BY <1>1, <1>2, <1>3 DEF SinkWall
<1>4. ASSUME NEW ev \in EventNames, Emit(ev),
             ev \in {"fragment", "detached"} => sink = "on"
      PROVE  SinkWall'
  <2>1. Grown(ev)  BY <1>4, Emitted
  <2> SUFFICES ASSUME NEW i \in DOMAIN trace',
                      trace'[i].ev \in {"fragment", "detached"}
               PROVE  /\ req.sink /\ trace'[i].node = StreamRoute(graph)
                      /\ \A j \in 1..(i - 1) : trace'[j].ev # "detached"
    BY <1>1, <1>2 DEF SinkWall
  <2>2. \A j \in 1..(i - 1) : j \in DOMAIN trace /\ trace'[j] = trace[j]
    BY <2>1 DEF Grown
  <2>3. CASE i \in DOMAIN trace
    <3>1. trace'[i] = trace[i]  BY <2>1, <2>3 DEF Grown
    <3> QED  BY <2>2, <2>3, <3>1 DEF SinkWall
  <2>4. CASE i = Len(trace')
    <3>1. trace'[i] = [ev |-> ev, node |-> at]  BY <2>1, <2>4 DEF Grown
    <3>2. sink = "on"  BY <1>4, <3>1
    <3> QED  BY <2>2, <3>1, <3>2 DEF SinkPlaced
  <2> QED  BY <2>1, <2>3, <2>4 DEF Grown
<1>5. CASE Start \/ Expire \/ Project \/ BodyReturns \/ Fail \/ Complete
  BY <1>3, <1>4, <1>5 DEF Start, Expire, Project, BodyReturns, Fail, Complete,
     EventNames
<1>6. CASE Calling
  BY <1>3, <1>4, <1>6, CallingEmits DEF EventNames
<1> QED  BY <1>3, <1>5, <1>6, EmittingSteps

(* Time that has run out is noticed at the next boundary.                  *)
LEMMA ExpiryPlacedStep ==
    ASSUME Basis, Opened, ExpiryPlaced, [Next]_vars
    PROVE  ExpiryPlaced'
<1>0. \A i \in DOMAIN trace : trace[i].node \in Nat
  <2> SUFFICES ASSUME NEW i \in DOMAIN trace PROVE trace[i].node \in Nat
    OBVIOUS
  <2>1. trace[i] \in Events  BY DEF Opened
  <2> QED  BY <2>1 DEF Events
<1>1. ASSUME UNCHANGED <<at, expired>>,
             \/ trace' = trace
             \/ \E ev \in EventNames \ {"expired"} : Emit(ev),
             \/ pc \notin {"boundary", "failed", "raised"}
             \/ pc' \in {"boundary", "failed", "raised"}
             \/ ~expired
      PROVE  ExpiryPlaced'
  <2>1. CASE trace' = trace  BY <1>1, <2>1 DEF ExpiryPlaced
  <2>2. ASSUME NEW ev \in EventNames \ {"expired"}, Emit(ev)
        PROVE  ExpiryPlaced'
    <3>1. Grown(ev)  BY <2>2, Emitted
    <3>2. \A i \in DOMAIN trace' : trace'[i].ev = "expired" =>
              i \in DOMAIN trace /\ trace'[i] = trace[i]
      BY <2>2, <3>1 DEF Grown
    <3> QED  BY <1>1, <3>2 DEF ExpiryPlaced
  <2> QED  BY <1>1, <2>1, <2>2
<1>2. CASE UNCHANGED vars  BY <1>2 DEF vars, ExpiryPlaced
<1>3. CASE Failing  BY <1>1, <1>3, FailureEffect DEF FailedTask
<1>4. CASE Refuse
  <2>1. trace' = <<>>  BY <1>4 DEF Refuse, Opened
  <2> QED  BY <2>1 DEF ExpiryPlaced
<1>5. CASE Start
  <2>1. trace = <<>> /\ Emit("start")  BY <1>5 DEF Start, Opened
  <2>2. Grown("start")  BY <2>1, Emitted DEF EventNames
  <2>3. \A i \in DOMAIN trace' : trace'[i].ev = "start"
    BY <2>1, <2>2 DEF Grown
  <2> QED  BY <2>3 DEF ExpiryPlaced
<1>6. CASE Expire
  <2>1. /\ ~expired /\ expired' = TRUE /\ Emit("expired") /\ at' = at
    BY <1>6 DEF Expire
  <2>2. Grown("expired")  BY <2>1, Emitted DEF EventNames
  <2>3. \A i \in DOMAIN trace : trace[i].ev # "expired"
    BY <2>1 DEF ExpiryPlaced
  <2>4. \A i \in DOMAIN trace' : trace'[i].ev = "expired" => trace'[i].node = at
    BY <2>2, <2>3 DEF Grown
  <2> QED  BY <2>1, <2>4 DEF ExpiryPlaced
<1>7. CASE BudgetSpent \/ NamespaceBreaks \/ TaskHalts
  BY <1>1, <1>7 DEF BudgetSpent, NamespaceBreaks, TaskHalts
<1>8. CASE BudgetLeft \/ EnterBody \/ RoutePort \/ EmbedReturns
  BY <1>1, <1>8 DEF BudgetLeft, EnterBody, RoutePort, Routing, EmbedReturns
<1>9. CASE Project \/ BodyReturns \/ Fail \/ Complete
  <2>1. /\ UNCHANGED <<at, expired>> /\ pc \in {"reads", "body", "failed", "close"}
        /\ pc = "failed" => pc' = "raised"
        /\ \/ trace' = trace
           \/ \E ev \in EventNames \ {"expired"} : Emit(ev)
    BY <1>9 DEF Project, AtReads, BodyReturns, Fail, Complete, EventNames
  <2> QED  BY <1>1, <2>1
<1>10. CASE Calling
  BY <1>1, <1>10, CallingEffect, CallingEmits DEF EventNames
<1>11. CASE TaskEnds
  <2>1. /\ pc = "restore" /\ UNCHANGED <<expired, trace>> /\ at \in Nat
        /\ \/ at' = at + 1 /\ pc' = "boundary"
           \/ at' = at
    BY <1>11, HereFacts DEF TaskEnds
  <2>2. \A i \in DOMAIN trace : trace[i].ev = "expired" =>
            expired /\ trace[i].node = at
    BY <2>1 DEF ExpiryPlaced
  <2>3. at < at + 1  BY <2>1
  <2> QED  BY <2>1, <2>2, <2>3 DEF ExpiryPlaced
<1> QED
  BY <1>2, <1>3, <1>4, <1>5, <1>6, <1>7, <1>8, <1>9, <1>10, <1>11, StepKinds
     DEF Returning

(* Past its expiry a run enters only the node at hand, and completes only  *)
(* when that is the last one.                                              *)
LEMMA ExpiryStopsStep ==
    ASSUME Basis, Opened, ExpiryPlaced, ExpiryStopsAtNextBoundary, [Next]_vars
    PROVE  ExpiryStopsAtNextBoundary'
<1>1. Last' = Last  BY EnvStays DEF Last
<1>2. CASE trace' = trace  BY <1>1, <1>2 DEF ExpiryStopsAtNextBoundary
<1>3. ASSUME NEW ev \in EventNames, Emit(ev),
             ev = "enter" => pc = "reads",
             ev = "complete" => pc = "close"
      PROVE  ExpiryStopsAtNextBoundary'
  <2>1. Grown(ev)  BY <1>3, Emitted
  <2> SUFFICES ASSUME NEW i \in DOMAIN trace', NEW j \in DOMAIN trace', j > i,
                      trace'[i].ev = "expired"
               PROVE  /\ trace'[j].ev = "enter" => trace'[j].node = trace'[i].node
                      /\ trace'[j].ev = "complete" => trace'[i].node = Last
    BY <1>1 DEF ExpiryStopsAtNextBoundary
  <2>2. i \in DOMAIN trace /\ trace'[i] = trace[i]
    <3>1. i # Len(trace')  BY <2>1 DEF Grown
    <3> QED  BY <2>1, <3>1 DEF Grown
  <2>3. CASE j \in DOMAIN trace
    <3>1. trace'[j] = trace[j]  BY <2>1, <2>3 DEF Grown
    <3> QED  BY <2>2, <2>3, <3>1 DEF ExpiryStopsAtNextBoundary
  <2>4. CASE j = Len(trace')
    <3>1. trace'[j] = [ev |-> ev, node |-> at]  BY <2>1, <2>4 DEF Grown
    <3>2. pc \in {"reads", "close"} => trace[i].node = at
      BY <2>2 DEF ExpiryPlaced
    <3>3. pc = "close" => at = Last  BY DEF Basis, WellPlaced
    <3> QED  BY <1>3, <2>2, <3>1, <3>2, <3>3
  <2> QED  BY <2>1, <2>3, <2>4 DEF Grown
<1>4. CASE Start \/ Expire \/ Project \/ BodyReturns \/ Fail \/ Complete
  BY <1>2, <1>3, <1>4 DEF Start, Expire, Project, AtReads, BodyReturns, Fail,
     Complete, EventNames
<1>5. CASE Calling
  BY <1>2, <1>3, <1>5, CallingEmits DEF EventNames
<1> QED  BY <1>2, <1>4, <1>5, EmittingSteps

(* Sink and budget are placed right throughout a run.                      *)
LEMMA WallsHoldAlways == Spec => []Walls
<1>1. Init => Walls
  <2> SUFFICES ASSUME Init PROVE Walls
    OBVIOUS
  <2>1. sink = "none" /\ trace = <<>>  BY DEF Init
  <2>2. DOMAIN trace = {}  BY <2>1
  <2> QED  BY <2>1, <2>2 DEF Walls, SinkPlaced, SinkWall, ExpiryPlaced,
              ExpiryStopsAtNextBoundary
<1>2. Basis /\ RecordHeld /\ Walls /\ [Next]_vars => Walls'
  BY SinkPlacedStep, SinkWallStep, ExpiryPlacedStep, ExpiryStopsStep
     DEF RecordHeld, Walls
<1> QED  BY <1>1, <1>2, RecordHoldsAlways, PTL DEF Spec

(* `_Sink`: fragments come from the routed node of a streamed run only, and*)
(* a sink that raised is never called again.                               *)
THEOREM SinkStaysWalled == Spec => []SinkWall
BY WallsHoldAlways, PTL DEF Walls

(* `_check_timeout`: once the budget has run out no further node is entered*)
(* and a run not already on its last node does not complete.               *)
THEOREM ExpiryStops == Spec => []ExpiryStopsAtNextBoundary
BY WallsHoldAlways, PTL DEF Walls
=============================================================================
