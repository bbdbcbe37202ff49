---------------------------- MODULE ServerStreams ----------------------------
(***************************************************************************)
(* The server's live projection of runs: POST /runs executes a run on a    *)
(* threadpool thread; the run's canonical events reach the event hub       *)
(* through logging, its fragments reach the token hub through the sink the *)
(* trigger attached; each hub hands an item to every subscriber of the     *)
(* run's id by scheduling a callback on the event loop; each GET's         *)
(* generator takes items from its own queue and yields frames.             *)
(*                                                                         *)
(* The threads of the runs, the loop's callbacks and the generators        *)
(* interleave freely.  What a run does between two emissions is hidden.    *)
(***************************************************************************)
EXTENDS SequencesExt

CONSTANTS
    Runs, Streams,  \* POST /runs calls and GET calls
    Ids,            \* pipeline_run_ids
    Scenes,         \* what the clients may ask for
    Streamable,     \* the runs whose runnable can stream
    MaxEvents,      \* bound: canonical events of a run
    MaxFragments    \* bound: fragments of a run

Hubs == {"events", "tokens"}

(* A scene: the runs that may be posted and the id each carries, the streams*)
(* that may be opened, the id and the endpoint each asks for, and whether   *)
(* the server was built with a stream_timeout_s.                           *)
ASSUME ScenesGiven ==
    Scenes \subseteq [posts : SUBSET Runs, runId : [Runs -> Ids],
                     opens : SUBSET Streams, streamId : [Streams -> Ids],
                     kind : [Streams -> Hubs], bounded : BOOLEAN]
ASSUME BoundsGiven == /\ MaxEvents \in Nat \ {0, 1} /\ MaxFragments \in Nat
                      /\ Streamable \subseteq Runs

VARIABLES
    scene,    \* the scene of this behaviour
    phase,    \* per run: "ready", "running", "ended" (run() came back), "answered"
    sent,     \* per hub and run: items published so far
    pub,      \* per run: the publish in progress, an item and who is left
    subs,     \* per hub and id: _subscribers
    loop,     \* callbacks scheduled on the event loop
    queue,    \* per stream: its asyncio.Queue
    state,    \* per stream: "new", "open", "terminal", "idle", "gone"
    frames,   \* per stream: what it has yielded
    since     \* history, per stream and run: items published before it subscribed

run    == <<phase, sent>>
stream == <<state, frames>>
vars   == <<scene, phase, sent, pub, subs, loop, queue, state, frames, since>>

RunId == scene.runId
StreamId == scene.streamId
Kind == scene.kind

NoPub == [item |-> <<>>, left |-> <<>>]

(* An item of a run's stream; last is the frame that closes it: a terminal *)
(* event, or the end marker of the token stream.                           *)
Item(r, n, last) == [run |-> r, n |-> n, last |-> last]

Init ==
    /\ scene \in Scenes
    /\ phase = [r \in Runs |-> "ready"]
    /\ sent = [h \in Hubs |-> [r \in Runs |-> 0]]
    /\ pub = [r \in Runs |-> NoPub]
    /\ subs = [h \in Hubs |-> [i \in Ids |-> <<>>]]
    /\ loop = <<>>
    /\ queue = [s \in Streams |-> <<>>]
    /\ state = [s \in Streams |-> "new"]
    /\ frames = [s \in Streams |-> <<>>]
    /\ since = [s \in Streams |-> [r \in Runs |-> 0]]

-----------------------------------------------------------------------------
(* The trigger.                                                            *)

Posted(r) == phase[r] = "ready" /\ r \in scene.posts

(* A wire-level rejection: no run, no event, no end marker.                *)
RejectOnWire(r) ==
    /\ Posted(r)
    /\ phase' = [phase EXCEPT ![r] = "answered"]
    /\ UNCHANGED <<sent, pub, subs, loop, queue, stream, since, scene>>

(* run() refuses at the API boundary: it emits nothing and raises.         *)
RefuseAtBoundary(r) ==
    /\ Posted(r)
    /\ phase' = [phase EXCEPT ![r] = "ended"]
    /\ UNCHANGED <<sent, pub, subs, loop, queue, stream, since, scene>>

Subscribed(h, r) == subs[h][RunId[r]]

(* The first half of `publish`: the subscriber list is copied under the    *)
(* lock; the handoffs that follow are not under it.                        *)
Snapshot(h, r, last) ==
    /\ sent' = [sent EXCEPT ![h][r] = @ + 1]
    /\ pub' = [pub EXCEPT ![r] = [item |-> Item(r, sent[h][r] + 1, last),
                                  left |-> Subscribed(h, r)]]

Idle(r) == pub[r].left = <<>>

(* pipeline_start, the first event.                                        *)
Begin(r) ==
    /\ Posted(r)
    /\ phase' = [phase EXCEPT ![r] = "running"]
    /\ Snapshot("events", r, FALSE)
    /\ UNCHANGED <<subs, loop, queue, stream, since, scene>>

Event(r) ==
    /\ phase[r] = "running" /\ Idle(r) /\ sent["events"][r] < MaxEvents - 1
    /\ Snapshot("events", r, FALSE)
    /\ UNCHANGED <<phase, subs, loop, queue, stream, since, scene>>

(* pipeline_complete or pipeline_error, the last event.                    *)
Finish(r) ==
    /\ phase[r] = "running" /\ Idle(r)
    /\ phase' = [phase EXCEPT ![r] = "ended"]
    /\ Snapshot("events", r, TRUE)
    /\ UNCHANGED <<subs, loop, queue, stream, since, scene>>

(* The sink publishes a fragment of the terminal dispatch.                 *)
Fragment(r) ==
    /\ phase[r] = "running" /\ Idle(r) /\ r \in Streamable
    /\ sent["tokens"][r] < MaxFragments
    /\ Snapshot("tokens", r, FALSE)
    /\ UNCHANGED <<phase, subs, loop, queue, stream, since, scene>>

(* Mutant of HandOff: the newest item first.                               *)
HandOffInFront(r) ==
    /\ ~Idle(r)
    /\ loop' = <<[to |-> Head(pub[r].left), item |-> pub[r].item]>> \o loop
    /\ pub' = [pub EXCEPT ![r].left = Tail(@)]
    /\ UNCHANGED <<run, subs, queue, stream, since, scene>>

(* `_deliver`: call_soon_threadsafe, one subscriber after the other.       *)
HandOff(r) ==
    /\ ~Idle(r)
    /\ loop' = Append(loop, [to |-> Head(pub[r].left), item |-> pub[r].item])
    /\ pub' = [pub EXCEPT ![r].left = Tail(@)]
    /\ UNCHANGED <<run, subs, queue, stream, since, scene>>

(* Mutants of PublishEnd: no marker; the marker again and again.           *)
AnswerWithoutEnd(r) ==
    /\ phase[r] = "ended" /\ Idle(r)
    /\ phase' = [phase EXCEPT ![r] = "answered"]
    /\ UNCHANGED <<sent, pub, subs, loop, queue, stream, since, scene>>

EndRepeatedly(r) ==
    /\ phase[r] = "ended" /\ Idle(r)
    /\ sent' = [sent EXCEPT !["tokens"][r] = @ + 1]
    /\ UNCHANGED <<phase, pub, subs, loop, queue, stream, since, scene>>

(* The trigger's `finally`, on the loop thread once run() is back: the end *)
(* marker, whether the run returned or raised.  The loop runs no callback  *)
(* in between, so this publish is one step.                                *)
PublishEnd(r) ==
    /\ phase[r] = "ended" /\ Idle(r)
    /\ phase' = [phase EXCEPT ![r] = "answered"]
    /\ sent' = [sent EXCEPT !["tokens"][r] = @ + 1]
    /\ loop' = loop \o [i \in DOMAIN Subscribed("tokens", r) |->
                          [to |-> Subscribed("tokens", r)[i],
                           item |-> Item(r, sent["tokens"][r] + 1, TRUE)]]
    /\ UNCHANGED <<pub, subs, queue, stream, since, scene>>

-----------------------------------------------------------------------------
(* The event loop and the generators.                                      *)

(* One scheduled put_nowait.  The queue of a closed stream is garbage.     *)
LoopTurn ==
    /\ loop # <<>>
    /\ loop' = Tail(loop)
    /\ queue' = [queue EXCEPT ![Head(loop).to] =
                     IF state[Head(loop).to] = "open"
                     THEN Append(@, Head(loop).item) ELSE <<>>]
    /\ UNCHANGED <<run, pub, subs, stream, since, scene>>

(* `subscribe`, before the response starts.                                *)
Open(s) ==
    /\ state[s] = "new" /\ s \in scene.opens
    /\ state' = [state EXCEPT ![s] = "open"]
    /\ subs' = [subs EXCEPT ![Kind[s]][StreamId[s]] = Append(@, s)]
    /\ since' = [since EXCEPT ![s] = sent[Kind[s]]]
    /\ UNCHANGED <<run, pub, loop, queue, frames, scene>>

(* The generator's `finally`: leave the registry, where a stream stands at *)
(* most once.                                                              *)
Unsubscribe(s) ==
    subs' = [subs EXCEPT ![Kind[s]][StreamId[s]] = RemoveFirst(@, s)]

Close(s, how) ==
    /\ state' = [state EXCEPT ![s] = how]
    /\ Unsubscribe(s)

(* Mutant of Frame: a closed stream stays in the registry.                 *)
FrameLeaking(s) ==
    /\ state[s] = "open" /\ queue[s] # <<>>
    /\ frames' = [frames EXCEPT ![s] = Append(@, Head(queue[s]))]
    /\ queue' = [queue EXCEPT ![s] = Tail(@)]
    /\ state' = [state EXCEPT ![s] = IF Head(queue[s]).last THEN "terminal" ELSE @]
    /\ UNCHANGED <<run, pub, subs, loop, since, scene>>

(* Mutant of Frame: the terminal frame does not close the stream.          *)
FrameEndless(s) ==
    /\ state[s] = "open" /\ queue[s] # <<>>
    /\ frames' = [frames EXCEPT ![s] = Append(@, Head(queue[s]))]
    /\ queue' = [queue EXCEPT ![s] = Tail(@)]
    /\ UNCHANGED <<run, pub, subs, loop, state, since, scene>>

Frame(s) ==
    /\ state[s] = "open" /\ queue[s] # <<>>
    /\ frames' = [frames EXCEPT ![s] = Append(@, Head(queue[s]))]
    /\ IF Head(queue[s]).last
       THEN Close(s, "terminal") /\ queue' = [queue EXCEPT ![s] = <<>>]
       ELSE queue' = [queue EXCEPT ![s] = Tail(@)] /\ UNCHANGED <<state, subs>>
    /\ UNCHANGED <<run, pub, loop, since, scene>>

(* wait_for(queue.get(), stream_timeout_s) timed out; every get is bounded.*)
IdleOut(s) ==
    /\ scene.bounded /\ state[s] = "open" /\ queue[s] = <<>>
    /\ Close(s, "idle")
    /\ UNCHANGED <<run, pub, loop, queue, frames, since, scene>>

(* The client goes away and the generator is cancelled.                    *)
Disconnect(s) ==
    /\ state[s] = "open"
    /\ Close(s, "gone")
    /\ queue' = [queue EXCEPT ![s] = <<>>]
    /\ UNCHANGED <<run, pub, loop, frames, since, scene>>

-----------------------------------------------------------------------------
RunStep(r) == Event(r) \/ Finish(r) \/ Fragment(r) \/ HandOff(r) \/ PublishEnd(r)

Trigger(r) == RejectOnWire(r) \/ RefuseAtBoundary(r) \/ Begin(r)

Client(s) == Open(s) \/ Disconnect(s) \/ IdleOut(s)

Next == \/ \E r \in Runs : Trigger(r) \/ RunStep(r)
        \/ \E s \in Streams : Client(s) \/ Frame(s)
        \/ LoopTurn

(* A started run goes on (its bodies come back), the loop runs what is     *)
(* scheduled, a generator with an item is resumed.  Nobody has to post a   *)
(* run, open a stream or go away.                                          *)
Fairness == /\ \A r \in Runs : WF_vars(RunStep(r))
            /\ \A s \in Streams : WF_vars(Frame(s))
            /\ WF_vars(LoopTurn)

Spec == Init /\ [][Next]_vars /\ Fairness

-----------------------------------------------------------------------------
Items == [run : Runs, n : Nat, last : BOOLEAN]

(* Every variable has the shape of the server's object.                    *)
TypeOK ==
    /\ scene \in Scenes
    /\ phase \in [Runs -> {"ready", "running", "ended", "answered"}]
    /\ sent \in [Hubs -> [Runs -> 0..(MaxEvents + MaxFragments)]]
    /\ \A r \in Runs : pub[r].left \in Seq(Streams)
    /\ subs \in [Hubs -> [Ids -> Seq(Streams)]]
    /\ loop \in Seq([to : Streams, item : Items])
    /\ queue \in [Streams -> Seq(Items)]
    /\ state \in [Streams -> {"new", "open", "terminal", "idle", "gone"}]
    /\ frames \in [Streams -> Seq(Items)]
    /\ since \in [Streams -> [Runs -> Nat]]

(* A stream carries, for each run under its id, exactly the items published*)
(* since it subscribed, in order and without a gap (R-server-002, -003),   *)
(* and nothing of a run with another id.                                   *)
FramesAreGapless ==
    \A s \in Streams : \A i \in DOMAIN frames[s] :
        LET r == frames[s][i].run
            before == {j \in 1..(i - 1) : frames[s][j].run = r}
        IN  /\ RunId[r] = StreamId[s]
            /\ frames[s][i].n > since[s][r]
            /\ \A j \in before : frames[s][j].n < frames[s][i].n
            /\ \A m \in (since[s][r] + 1)..(frames[s][i].n - 1) :
                  \E j \in before : frames[s][j].n = m

(* The terminal frame is the last one, a stream that closed on it had it,  *)
(* and nothing was published after it: without a gap, a stream opened      *)
(* before its run was posted then has the whole run.                       *)
TerminalFrameCloses ==
    \A s \in Streams :
        LET f == frames[s]
        IN  /\ \A i \in DOMAIN f : f[i].last =>
                  i = Len(f) /\ state[s] = "terminal"
            /\ state[s] = "terminal" =>
                  /\ f # <<>> /\ f[Len(f)].last
                  /\ f[Len(f)].n = sent[Kind[s]][f[Len(f)].run]

(* The registry holds the open streams and no other, each once.            *)
RegistryHoldsOpenStreams ==
    \A h \in Hubs : \A id \in Ids :
        /\ \A k, l \in DOMAIN subs[h][id] :
              subs[h][id][k] = subs[h][id][l] => k = l
        /\ \A s \in Streams :
              (\E k \in DOMAIN subs[h][id] : subs[h][id][k] = s) <=>
                  state[s] = "open" /\ h = Kind[s] /\ id = StreamId[s]

Follows(s, r) == state[s] = "open" /\ StreamId[s] = RunId[r]

(* A stream attached to a run before its terminal item ends, with that     *)
(* item unless the client went away: an event stream once the run started, *)
(* a token stream for every run the trigger handed to run(), refused or not.*)
AttachedStreamEnds ==
    \A s \in Streams : \A r \in Runs :
        (/\ Follows(s, r)
         /\ phase[r] = "running" \/ (Kind[s] = "tokens" /\ phase[r] = "ended"))
        ~> state[s] \in {"terminal", "idle", "gone"}

(* server/reference.md: once a frame was delivered the idle bound no longer*)
(* applies.                                                                *)
LiveStreamHasNoIdleBound ==
    \A s \in Streams : state[s] = "idle" => frames[s] = <<>>
=============================================================================
