-------------------------- MODULE ServerStreamsProofs --------------------------
(***************************************************************************)
(* Every item published for a run reaches every stream that was subscribed *)
(* under its id, in order, without a gap and up to the terminal frame,     *)
(* however the runs' threads, the loop and the generators interleave.      *)
(*                                                                         *)
(* An item comes to a stream in four stages: it is pending in a publish    *)
(* that has the stream ahead, scheduled on the loop, queued, and framed.   *)
(***************************************************************************)
EXTENDS ServerStreams, TLAPS

Framed(s) == Range(frames[s])
Queued(s) == Range(queue[s])
Scheduled(s) == {loop[k].item : k \in {j \in DOMAIN loop : loop[j].to = s}}
Publishers(s) == {r \in Runs : s \in Range(pub[r].left)}
Pending(s) == {pub[r].item : r \in Publishers(s)}

Under(s, r) == RunId[r] = StreamId[s]

(* The run has published its last item for streams of this one's endpoint. *)
Over(s, r) == \/ phase[r] = "answered"
              \/ phase[r] = "ended" /\ Kind[s] = "events"

(* Items of one run stand in the order they were published in.             *)
Ahead(x, y) == x.run = y.run => x.n < y.n
Before(A, B) == \A x \in A, y \in B : Ahead(x, y)

-----------------------------------------------------------------------------
(* The inductive invariant.                                                *)

PubTyped == pub \in [Runs -> [item : Items \cup {<<>>}, left : Seq(Streams)]]

(* How much a run has published, by its phase; a stream subscribes after   *)
(* what was published by then.                                             *)
Counted ==
    \A r \in Runs :
        /\ phase[r] = "ready" =>
              pub[r].left = <<>> /\ \A h \in Hubs : sent[h][r] = 0
        /\ sent["events"][r] <= MaxEvents
        /\ phase[r] = "running" => sent["events"][r] < MaxEvents
        /\ sent["tokens"][r] <= MaxFragments + 1
        /\ phase[r] # "answered" => sent["tokens"][r] <= MaxFragments
        /\ \A s \in Streams : since[s][r] <= sent[Kind[s]][r]

(* Nothing is on its way to a stream that was never opened.                *)
Fresh ==
    \A s \in Streams : state[s] = "new" =>
        Framed(s) = {} /\ Queued(s) = {} /\ Scheduled(s) = {} /\ Publishers(s) = {}

(* A publish in progress holds its run's newest item, for each stream once.*)
Publishing ==
    \A r \in Runs :
        /\ \A k, l \in DOMAIN pub[r].left :
              pub[r].left[k] = pub[r].left[l] => k = l
        /\ \A s \in Streams : r \in Publishers(s) =>
              /\ pub[r].item \in Items
              /\ pub[r].item.run = r
              /\ pub[r].item.n = sent[Kind[s]][r]

(* What comes to a stream was published for it since it subscribed, and    *)
(* the item that closes it is the run's last.                              *)
Belongs(s, x) ==
    /\ Under(s, x.run)
    /\ since[s][x.run] < x.n
    /\ x.n <= sent[Kind[s]][x.run]
    /\ x.last => x.n = sent[Kind[s]][x.run] /\ Over(s, x.run)

Carried(s) == Framed(s) \cup Queued(s) \cup Scheduled(s) \cup Pending(s)

Addressed == \A s \in Streams : \A x \in Carried(s) : Belongs(s, x)

(* The stages are in order, and each is.                                   *)
InOrder ==
    /\ \A s \in Streams :
          /\ Before(Framed(s), Queued(s) \cup Scheduled(s) \cup Pending(s))
          /\ Before(Queued(s), Scheduled(s) \cup Pending(s))
          /\ Before(Scheduled(s), Pending(s))
          /\ \A i, j \in DOMAIN queue[s] : i < j => Ahead(queue[s][i], queue[s][j])
    /\ \A i, j \in DOMAIN loop :
          i < j /\ loop[i].to = loop[j].to => Ahead(loop[i].item, loop[j].item)

(* What was published since an open stream subscribed has reached it or is *)
(* on its way.                                                             *)
Covered ==
    \A s \in Streams : \A r \in Runs :
        state[s] = "open" /\ Under(s, r) =>
            \A m \in (since[s][r] + 1)..sent[Kind[s]][r] :
                \E x \in Carried(s) : x.run = r /\ x.n = m

Held == /\ Counted /\ RegistryHoldsOpenStreams
        /\ Fresh /\ Publishing /\ Addressed /\ InOrder /\ Covered
        /\ FramesAreGapless /\ TerminalFrameCloses

-----------------------------------------------------------------------------
(* Sequences.                                                              *)

(* An element appended goes behind the others.                             *)
LEMMA AppendFacts ==
    ASSUME NEW S, NEW q \in Seq(S), NEW e \in S
    PROVE  /\ Append(q, e) \in Seq(S) /\ Append(q, e) # <<>>
           /\ Len(q) \in Nat /\ DOMAIN q = 1..Len(q)
           /\ Len(Append(q, e)) = Len(q) + 1
           /\ DOMAIN Append(q, e) = 1..(Len(q) + 1)
           /\ \A i \in 1..Len(q) : Append(q, e)[i] = q[i]
           /\ Append(q, e)[Len(q) + 1] = e
           /\ Range(Append(q, e)) = Range(q) \cup {e}
<1> DEFINE a == Append(q, e)
           m == Len(q)
<1>1. /\ a \in Seq(S) /\ a # <<>> /\ m \in Nat /\ DOMAIN q = 1..m
      /\ Len(a) = m + 1 /\ DOMAIN a = 1..(m + 1)
      /\ \A i \in 1..m : a[i] = q[i] /\ a[m + 1] = e
  OBVIOUS
<1>2. a[m + 1] = e
  OBVIOUS
<1>3. Range(a) = Range(q) \cup {e}
  <2>1. \A i : i \in 1..(m + 1) <=> i \in 1..m \/ i = m + 1
    <3>1. m \in Nat  BY <1>1
    <3> HIDE DEF m
    <3> QED  BY <3>1
  <2> HIDE DEF a, m
  <2> QED  BY <1>1, <1>2, <2>1 DEF Range
<1> QED  BY <1>1, <1>2, <1>3

(* Taking the head leaves the others in order.                             *)
LEMMA TailFacts ==
    ASSUME NEW S, NEW q \in Seq(S), q # <<>>
    PROVE  /\ Tail(q) \in Seq(S) /\ Head(q) \in S /\ Head(q) = q[1]
           /\ Len(q) \in Nat /\ DOMAIN q = 1..Len(q) /\ 1 \in DOMAIN q
           /\ Len(Tail(q)) = Len(q) - 1
           /\ DOMAIN Tail(q) = 1..(Len(q) - 1)
           /\ \A i \in 1..(Len(q) - 1) : i + 1 \in DOMAIN q /\ Tail(q)[i] = q[i + 1]
           /\ \A i \in DOMAIN q : i # 1 => i - 1 \in DOMAIN Tail(q) /\ Tail(q)[i - 1] = q[i]
           /\ Range(q) = Range(Tail(q)) \cup {Head(q)}
<1> DEFINE a == Tail(q)
           m == Len(q)
<1>1. /\ a \in Seq(S) /\ Head(q) \in S /\ Head(q) = q[1]
      /\ m \in Nat /\ DOMAIN q = 1..m /\ m # 0
      /\ Len(a) = m - 1 /\ DOMAIN a = 1..(m - 1)
      /\ \A i \in 1..(m - 1) : a[i] = q[i + 1]
  OBVIOUS
<1>2. /\ 1 \in 1..m
      /\ \A i \in 1..(m - 1) : i + 1 \in 1..m
      /\ \A i \in 1..m : i # 1 => i - 1 \in 1..(m - 1) /\ (i - 1) + 1 = i
  <2>1. m \in Nat /\ m # 0  BY <1>1
  <2> HIDE DEF m
  <2> QED  BY <2>1
<1>3. \A i \in DOMAIN q : i # 1 => i - 1 \in DOMAIN a /\ a[i - 1] = q[i]
  <2> HIDE DEF a, m
  <2> QED  BY <1>1, <1>2
<1>4. Range(q) = Range(a) \cup {Head(q)}
  <2> HIDE DEF a, m
  <2>1. \A x \in Range(q) : x \in Range(a) \/ x = Head(q)
    BY <1>1, <1>3 DEF Range
  <2>2. \A x \in Range(a) : x \in Range(q)
    BY <1>1, <1>2 DEF Range
  <2>3. Head(q) \in Range(q)
    BY <1>1, <1>2 DEF Range
  <2> QED  BY <2>1, <2>2, <2>3
<1> QED  BY <1>1, <1>2, <1>3, <1>4

(* One list behind another.                                                *)
LEMMA JoinFacts ==
    ASSUME NEW S, NEW u \in Seq(S), NEW v \in Seq(S)
    PROVE  /\ u \o v \in Seq(S)
           /\ Len(u) \in Nat /\ Len(v) \in Nat
           /\ DOMAIN u = 1..Len(u) /\ DOMAIN v = 1..Len(v)
           /\ Len(u \o v) = Len(u) + Len(v)
           /\ DOMAIN (u \o v) = 1..(Len(u) + Len(v))
           /\ \A j \in 1..(Len(u) + Len(v)) :
                 (u \o v)[j] = IF j <= Len(u) THEN u[j] ELSE v[j - Len(u)]
<1>1. u \o v \in Seq(S) /\ Len(u \o v) = Len(u) + Len(v)
  OBVIOUS
<1>2. DOMAIN (u \o v) = 1..(Len(u) + Len(v))
  BY <1>1
<1>3. \A j \in 1..(Len(u) + Len(v)) :
          (u \o v)[j] = IF j <= Len(u) THEN u[j] ELSE v[j - Len(u)]
  OBVIOUS
<1> QED  BY <1>1, <1>2, <1>3

(* What is left of a list one position is taken out of.                    *)
LEMMA RemoveAtFacts ==
    ASSUME NEW S, NEW q \in Seq(S), NEW i \in 1..Len(q)
    PROVE  /\ RemoveAt(q, i) \in Seq(S)
           /\ Len(q) \in Nat
           /\ DOMAIN RemoveAt(q, i) = 1..(Len(q) - 1)
           /\ \A j \in 1..(Len(q) - 1) :
                 RemoveAt(q, i)[j] = q[IF j < i THEN j ELSE j + 1]
<1> DEFINE m == Len(q)
           u == SubSeq(q, 1, i - 1)
           v == SubSeq(q, i + 1, m)
<1>1. m \in Nat /\ i \in Nat /\ 1 <= i /\ i <= m
  OBVIOUS
<1>2. u \in Seq(S) /\ Len(u) = i - 1 /\ \A j \in 1..(i - 1) : u[j] = q[j]
  BY <1>1
<1>3. v \in Seq(S) /\ Len(v) = m - i /\ \A j \in 1..(m - i) : v[j] = q[i + j]
  <2>1. \A j \in (i + 1)..m : q[j] \in S
    BY <1>1
  <2>2. v \in Seq(S)
    BY <1>1, <2>1
  <2>3. Len(v) = m - i
    BY <1>1
  <2>4. \A j \in 1..(m - i) : v[j] = q[i + j]
    BY <1>1
  <2> QED  BY <2>2, <2>3, <2>4
<1>4. /\ u \o v \in Seq(S) /\ Len(u \o v) = m - 1
      /\ DOMAIN (u \o v) = 1..(m - 1)
      /\ \A j \in 1..(m - 1) : (u \o v)[j] = IF j < i THEN u[j] ELSE v[j - (i - 1)]
  <2> HIDE DEF u, v, m
  <2>1. /\ u \o v \in Seq(S) /\ Len(u \o v) = Len(u) + Len(v)
        /\ DOMAIN (u \o v) = 1..(Len(u) + Len(v))
        /\ \A j \in 1..(Len(u) + Len(v)) :
              (u \o v)[j] = IF j <= Len(u) THEN u[j] ELSE v[j - Len(u)]
    <3>1. u \in Seq(S) /\ v \in Seq(S)  BY <1>2, <1>3
    <3> QED  BY ONLY <3>1, JoinFacts
  <2>2. Len(u) = i - 1 /\ Len(u) + Len(v) = m - 1
    BY <1>1, <1>2, <1>3
  <2>3. \A j \in 1..(m - 1) : j <= i - 1 <=> j < i
    BY <1>1
  <2> DEFINE w == u \o v
             len == Len(u) + Len(v)
             h == Len(u)
  <2> HIDE DEF w, len, h
  <2>4. /\ w \in Seq(S) /\ Len(w) = len /\ DOMAIN w = 1..len
        /\ \A j \in 1..len : w[j] = IF j <= h THEN u[j] ELSE v[j - h]
    BY <2>1 DEF w, len, h
  <2>5. h = i - 1 /\ len = m - 1
    BY <2>2 DEF h, len
  <2>6. w \in Seq(S) /\ Len(w) = m - 1 /\ DOMAIN w = 1..(m - 1)
    BY <2>4, <2>5
  <2>7. \A j \in 1..(m - 1) : w[j] = IF j < i THEN u[j] ELSE v[j - (i - 1)]
    BY <2>3, <2>4, <2>5
  <2> QED  BY <2>6, <2>7 DEF w
<1>5. \A j \in 1..(m - 1) : (u \o v)[j] = q[IF j < i THEN j ELSE j + 1]
  <2> HIDE DEF u, v, m
  <2> TAKE j \in 1..(m - 1)
  <2>1. CASE j < i
    BY <2>1, <1>1, <1>2, <1>4
  <2>2. CASE ~(j < i)
    <3>1. j - (i - 1) \in 1..(m - i) /\ i + (j - (i - 1)) = j + 1
      BY <2>2, <1>1
    <3> QED  BY <2>2, <3>1, <1>3, <1>4
  <2> QED  BY <2>1, <2>2
<1> QED  BY <1>1, <1>4, <1>5 DEF RemoveAt

(* Leaving a list one stands in once: the others stay, each once.          *)
LEMMA RemoveFacts ==
    ASSUME NEW S, NEW q \in Seq(S), NEW s,
           \A k, l \in DOMAIN q : q[k] = q[l] => k = l
    PROVE  /\ RemoveFirst(q, s) \in Seq(S)
           /\ Range(RemoveFirst(q, s)) = Range(q) \ {s}
           /\ \A k, l \in DOMAIN RemoveFirst(q, s) :
                 RemoveFirst(q, s)[k] = RemoveFirst(q, s)[l] => k = l
<1> DEFINE m == Len(q)
<1>0. m \in Nat /\ DOMAIN q = 1..m
  OBVIOUS
<1>1. CASE ~\E i \in 1..Len(q) : q[i] = s
  <2>1. RemoveFirst(q, s) = q
    BY <1>1 DEF RemoveFirst
  <2>2. s \notin Range(q)
    BY <1>0, <1>1 DEF Range
  <2> QED  BY <2>1, <2>2
<1>2. CASE \E i \in 1..Len(q) : q[i] = s
  <2>1. PICK i \in 1..m : q[i] = s
    BY <1>2
  <2>2. {j \in 1..Len(q) : q[j] = s} = {i}
    BY <2>1, <1>0
  <2>3. Min({i}) = i
    BY <1>0 DEF Min
  <2>4. SelectInSeq(q, LAMBDA w : w = s) = i
    BY <2>2, <2>3 DEF SelectInSeq
  <2>5. RemoveFirst(q, s) = RemoveAt(q, i)
    BY <2>4, <1>2 DEF RemoveFirst
  <2> DEFINE a == RemoveAt(q, i)
             to(j) == IF j < i THEN j ELSE j + 1
  <2>6. /\ a \in Seq(S) /\ DOMAIN a = 1..(m - 1)
        /\ \A j \in 1..(m - 1) : a[j] = q[to(j)]
    BY RemoveAtFacts
  <2>7. /\ \A j \in 1..(m - 1) : to(j) \in 1..m /\ to(j) # i
        /\ \A j, k \in 1..(m - 1) : to(j) = to(k) => j = k
        /\ \A k \in 1..m : k # i => \E j \in 1..(m - 1) : to(j) = k
    <3>1. i \in Nat /\ 1 <= i /\ i <= m /\ m \in Nat  BY <1>0
    <3> HIDE DEF m
    <3>2. \A j \in 1..(m - 1) : to(j) \in 1..m /\ to(j) # i
      BY <3>1
    <3>3. \A j, k \in 1..(m - 1) : to(j) = to(k) => j = k
      BY <3>1
    <3>4. ASSUME NEW k \in 1..m, k # i
          PROVE  \E j \in 1..(m - 1) : to(j) = k
      <4>1. CASE k < i
        <5>1. k \in 1..(m - 1) /\ to(k) = k  BY <4>1, <3>1
        <5> QED  BY <5>1
      <4>2. CASE k > i
        <5>1. k - 1 \in 1..(m - 1) /\ to(k - 1) = k  BY <4>2, <3>1
        <5> QED  BY <5>1
      <4> QED  BY <4>1, <4>2, <3>1, <3>4
    <3> QED  BY <3>2, <3>3, <3>4
  <2> HIDE DEF a, to, m
  <2>8. Range(a) = Range(q) \ {s}
    <3>1. \A j \in DOMAIN a : a[j] \in Range(q) /\ a[j] # s
      BY <2>1, <2>6, <2>7, <1>0 DEF Range
    <3>2. \A k \in DOMAIN q : q[k] # s => \E j \in DOMAIN a : a[j] = q[k]
      BY <2>1, <2>6, <2>7, <1>0
    <3> QED  BY <3>1, <3>2 DEF Range
  <2>9. \A k, l \in DOMAIN a : a[k] = a[l] => k = l
    BY <2>6, <2>7, <1>0
  <2>10. RemoveFirst(q, s) = a
    BY <2>5 DEF a
  <2> QED  BY <2>6, <2>8, <2>9, <2>10
<1> QED  BY <1>1, <1>2

-----------------------------------------------------------------------------
(* What the steps do to the stages.                                        *)

Entries == [to : Streams, item : Items]

(* The shape of the state, but for how much is published.                  *)
Shape ==
    /\ scene \in Scenes
    /\ phase \in [Runs -> {"ready", "running", "ended", "answered"}]
    /\ sent \in [Hubs -> [Runs -> Nat]]
    /\ PubTyped
    /\ subs \in [Hubs -> [Ids -> Seq(Streams)]]
    /\ loop \in Seq(Entries)
    /\ queue \in [Streams -> Seq(Items)]
    /\ state \in [Streams -> {"new", "open", "terminal", "idle", "gone"}]
    /\ frames \in [Streams -> Seq(Items)]
    /\ since \in [Streams -> [Runs -> Nat]]

(* A publish of the run at the hub now goes to this stream.                *)
Receives(h, r, s) == state[s] = "open" /\ Kind[s] = h /\ Under(s, r)

(* A scene gives every run an id and every stream an id and an endpoint.   *)
LEMMA SceneFacts ==
    ASSUME scene \in Scenes
    PROVE  /\ RunId \in [Runs -> Ids] /\ StreamId \in [Streams -> Ids]
           /\ Kind \in [Streams -> Hubs]
BY ScenesGiven DEF RunId, StreamId, Kind

(* The scene of a behaviour stays.                                         *)
LEMMA SceneStays ==
    ASSUME scene' = scene
    PROVE  /\ RunId' = RunId /\ StreamId' = StreamId /\ Kind' = Kind
           /\ \A s, r : Under(s, r)' <=> Under(s, r)
BY DEF RunId, StreamId, Kind, Under

(* A snapshot holds the streams that receive the publish, each once.       *)
LEMMA SnapshotTakesReceivers ==
    ASSUME Shape, RegistryHoldsOpenStreams, NEW h \in Hubs, NEW r \in Runs
    PROVE  /\ Subscribed(h, r) \in Seq(Streams)
           /\ \A k, l \in DOMAIN Subscribed(h, r) :
                 Subscribed(h, r)[k] = Subscribed(h, r)[l] => k = l
           /\ \A s \in Streams : s \in Range(Subscribed(h, r)) <=> Receives(h, r, s)
<1>1. RunId[r] \in Ids
  BY SceneFacts DEF Shape
<1>2. Subscribed(h, r) \in Seq(Streams)
  BY <1>1 DEF Subscribed, Shape
<1>3. \A k, l \in DOMAIN Subscribed(h, r) :
          Subscribed(h, r)[k] = Subscribed(h, r)[l] => k = l
  BY <1>1 DEF Subscribed, RegistryHoldsOpenStreams
<1>4. ASSUME NEW s \in Streams
      PROVE  s \in Range(Subscribed(h, r)) <=> Receives(h, r, s)
  <2>1. (\E k \in DOMAIN subs[h][RunId[r]] : subs[h][RunId[r]][k] = s) <=>
            state[s] = "open" /\ h = Kind[s] /\ RunId[r] = StreamId[s]
    BY <1>1 DEF RegistryHoldsOpenStreams
  <2> QED  BY <2>1 DEF Range, Subscribed, Receives, Under
<1> QED  BY <1>2, <1>3, <1>4

(* The first half of a publish: the item is pending for its receivers.     *)
LEMMA SnapshotEffect ==
    ASSUME Shape, RegistryHoldsOpenStreams,
           NEW h \in Hubs, NEW r \in Runs, NEW last \in BOOLEAN,
           Snapshot(h, r, last), Idle(r)
    PROVE  LET x == Item(r, sent[h][r] + 1, last)
           IN  /\ sent' \in [Hubs -> [Runs -> Nat]]
               /\ \A g \in Hubs, q \in Runs :
                     sent'[g][q] = IF g = h /\ q = r THEN sent[g][q] + 1 ELSE sent[g][q]
               /\ x \in Items /\ x.run = r /\ x.n = sent[h][r] + 1 /\ x.last = last
               /\ PubTyped'
               /\ pub'[r].item = x /\ pub'[r].left = Subscribed(h, r)
               /\ \A q \in Runs : q # r => pub'[q] = pub[q]
               /\ \A s \in Streams :
                     /\ r \notin Publishers(s)
                     /\ Publishers(s)' = Publishers(s) \cup {q \in {r} : Receives(h, q, s)}
                     /\ Pending(s)' = Pending(s) \cup {y \in {x} : Receives(h, r, s)}
<1> DEFINE x == Item(r, sent[h][r] + 1, last)
<1>1. /\ sent' \in [Hubs -> [Runs -> Nat]]
      /\ \A g \in Hubs, q \in Runs :
            sent'[g][q] = IF g = h /\ q = r THEN sent[g][q] + 1 ELSE sent[g][q]
  BY DEF Snapshot, Shape
<1>2. x \in Items /\ x.run = r /\ x.n = sent[h][r] + 1 /\ x.last = last
  BY DEF Item, Items, Shape
<1>3. Subscribed(h, r) \in Seq(Streams)
  BY SnapshotTakesReceivers
<1>4. /\ PubTyped'
      /\ pub'[r].item = x /\ pub'[r].left = Subscribed(h, r)
      /\ \A q \in Runs : q # r => pub'[q] = pub[q]
  <2>1. pub' = [pub EXCEPT ![r] = [item |-> x, left |-> Subscribed(h, r)]]
    BY DEF Snapshot
  <2>2. pub \in [Runs -> [item : Items \cup {<<>>}, left : Seq(Streams)]]
    BY DEF Shape, PubTyped
  <2> HIDE DEF x
  <2> QED  BY <1>2, <1>3, <2>1, <2>2 DEF PubTyped
<1>5. ASSUME NEW s \in Streams
      PROVE  /\ r \notin Publishers(s)
             /\ Publishers(s)' = Publishers(s) \cup {q \in {r} : Receives(h, q, s)}
             /\ Pending(s)' = Pending(s) \cup {y \in {x} : Receives(h, r, s)}
  <2>1. r \notin Publishers(s)
    BY DEF Publishers, Idle, Range
  <2>2. s \in Range(pub'[r].left) <=> Receives(h, r, s)
    BY <1>4, SnapshotTakesReceivers
  <2>3. Publishers(s)' = Publishers(s) \cup {q \in {r} : Receives(h, q, s)}
    BY <1>4, <2>1, <2>2 DEF Publishers
  <2>4. \A q \in Publishers(s) : pub'[q].item = pub[q].item
    BY <1>4, <2>1 DEF Publishers
  <2> HIDE DEF x
  <2>5. Pending(s)' = Pending(s) \cup {y \in {x} : Receives(h, r, s)}
    BY <1>4, <2>3, <2>4 DEF Pending
  <2> QED  BY <2>1, <2>3, <2>5
<1> HIDE DEF x
<1>6. /\ sent' \in [Hubs -> [Runs -> Nat]]
      /\ \A g \in Hubs, q \in Runs :
            sent'[g][q] = IF g = h /\ q = r THEN sent[g][q] + 1 ELSE sent[g][q]
      /\ x \in Items /\ x.run = r /\ x.n = sent[h][r] + 1 /\ x.last = last
      /\ PubTyped'
      /\ pub'[r].item = x /\ pub'[r].left = Subscribed(h, r)
      /\ \A q \in Runs : q # r => pub'[q] = pub[q]
      /\ \A s \in Streams :
            /\ r \notin Publishers(s)
            /\ Publishers(s)' = Publishers(s) \cup {q \in {r} : Receives(h, q, s)}
            /\ Pending(s)' = Pending(s) \cup {y \in {x} : Receives(h, r, s)}
  BY <1>1, <1>2, <1>4, <1>5
<1> QED  BY <1>6 DEF x

(* A handoff: the item pending for the next subscriber is scheduled.       *)
LEMMA HandOffEffect ==
    ASSUME Shape, Publishing, NEW r \in Runs, HandOff(r)
    PROVE  LET s == Head(pub[r].left)
               x == pub[r].item
           IN  /\ s \in Streams /\ x \in Items /\ x.run = r
               /\ r \in Publishers(s)
               /\ PubTyped' /\ loop' \in Seq(Entries)
               /\ pub'[r].item = x
               /\ pub'[r].left = Tail(pub[r].left)
               /\ \A q \in Runs : q # r => pub'[q] = pub[q]
               /\ \A t \in Streams :
                     /\ Publishers(t)' = Publishers(t) \ {q \in {r} : t = s}
                     /\ Pending(t)' = Pending(t) \ {y \in {x} : t = s}
                     /\ Scheduled(t)' = Scheduled(t) \cup {y \in {x} : t = s}
               /\ Len(loop) \in Nat /\ DOMAIN loop = 1..Len(loop)
               /\ DOMAIN loop' = 1..(Len(loop) + 1)
               /\ \A i \in 1..Len(loop) : loop'[i] = loop[i]
               /\ loop'[Len(loop) + 1] = [to |-> s, item |-> x]
<1> DEFINE s == Head(pub[r].left)
           x == pub[r].item
           e == [to |-> s, item |-> x]
           p == pub[r].left
<1>1. p \in Seq(Streams) /\ p # <<>>
  BY DEF Shape, PubTyped, HandOff, Idle
<1>2. /\ s \in Streams /\ Tail(p) \in Seq(Streams)
      /\ s \in Range(p) /\ Range(p) = Range(Tail(p)) \cup {s}
  BY <1>1, TailFacts
<1>3. r \in Publishers(s)
  BY <1>2 DEF Publishers
<1>4. x \in Items /\ x.run = r
  BY <1>2, <1>3 DEF Publishing
<1>5. e \in Entries
  BY <1>2, <1>4 DEF Entries
<1>6. loop' = Append(loop, e) /\ loop \in Seq(Entries)
  BY DEF HandOff, Shape
<1>7. /\ loop' \in Seq(Entries)
      /\ Len(loop) \in Nat /\ DOMAIN loop = 1..Len(loop)
      /\ DOMAIN loop' = 1..(Len(loop) + 1)
      /\ \A i \in 1..Len(loop) : loop'[i] = loop[i]
      /\ loop'[Len(loop) + 1] = e
  BY <1>5, <1>6, AppendFacts
<1>8. /\ PubTyped'
      /\ pub'[r].item = x /\ pub'[r].left = Tail(p)
      /\ \A q \in Runs : q # r => pub'[q] = pub[q]
  <2>1. pub' = [pub EXCEPT ![r].left = Tail(p)]
    BY DEF HandOff
  <2>2. pub \in [Runs -> [item : Items \cup {<<>>}, left : Seq(Streams)]]
    BY DEF Shape, PubTyped
  <2> HIDE DEF p
  <2> QED  BY <1>2, <2>1, <2>2 DEF PubTyped
<1>9. s \notin Range(Tail(p))
  <2>1. \A k, l \in DOMAIN p : p[k] = p[l] => k = l
    BY DEF Publishing
  <2>2. /\ s = p[1] /\ 1 \in DOMAIN p /\ DOMAIN Tail(p) = 1..(Len(p) - 1) /\ Len(p) \in Nat
        /\ \A i \in 1..(Len(p) - 1) : i + 1 \in DOMAIN p /\ Tail(p)[i] = p[i + 1]
    BY <1>1, TailFacts
  <2> HIDE DEF p, s
  <2>3. \A i \in 1..(Len(p) - 1) : i + 1 # 1
    BY <2>2
  <2> QED  BY <2>1, <2>2, <2>3 DEF Range
<1>10. ASSUME NEW t \in Streams
       PROVE  /\ Publishers(t)' = Publishers(t) \ {q \in {r} : t = s}
              /\ Pending(t)' = Pending(t) \ {y \in {x} : t = s}
              /\ Scheduled(t)' = Scheduled(t) \cup {y \in {x} : t = s}
  <2>1. t \in Range(p) <=> t \in Range(Tail(p)) \/ t = s
    BY <1>2
  <2>2. Publishers(t)' = Publishers(t) \ {q \in {r} : t = s}
    BY <1>8, <1>9, <2>1 DEF Publishers
  <2>3. \A q \in Publishers(t) : q # r => pub[q].item # x
    <3> SUFFICES ASSUME NEW q \in Publishers(t), q # r  PROVE  pub[q].item.run = q
      BY <1>4
    <3> QED  BY DEF Publishing, Publishers
  <2>4. \A q \in Runs : pub'[q].item = pub[q].item
    BY <1>8
  <2>5. Pending(t)' = {pub[q].item : q \in Publishers(t)'}
    BY <2>4 DEF Pending, Publishers
  <2>6. Pending(t)' = Pending(t) \ {y \in {x} : t = s}
    <3> HIDE DEF s, p
    <3> QED  BY <2>2, <2>3, <2>5, <1>3 DEF Pending
  <2>7. \A i : i \in 1..(Len(loop) + 1) <=> i \in 1..Len(loop) \/ i = Len(loop) + 1
    BY <1>7
  <2> HIDE DEF s, x, p
  <2>8. Scheduled(t)' = Scheduled(t) \cup {y \in {x} : t = s}
    <3>1. \A i \in DOMAIN loop' : loop'[i].to = t =>
              \/ i \in DOMAIN loop /\ loop'[i] = loop[i]
              \/ t = s /\ loop'[i].item = x
      BY <1>7, <2>7 DEF e
    <3>2. \A i \in DOMAIN loop : i \in DOMAIN loop' /\ loop'[i] = loop[i]
      BY <1>7, <2>7
    <3>3. t = s => \E i \in DOMAIN loop' : loop'[i].to = t /\ loop'[i].item = x
      BY <1>7, <2>7 DEF e
    <3>4. \A y \in Scheduled(t)' : y \in Scheduled(t) \/ (t = s /\ y = x)
      BY <3>1 DEF Scheduled
    <3>5. \A y \in Scheduled(t) : y \in Scheduled(t)'
      BY <3>2 DEF Scheduled
    <3>6. t = s => x \in Scheduled(t)'
      BY <3>3 DEF Scheduled
    <3> QED  BY <3>4, <3>5, <3>6
  <2> QED  BY <2>2, <2>6, <2>8
<1> HIDE DEF s, x, p
<1>11. /\ s \in Streams /\ x \in Items /\ x.run = r
       /\ r \in Publishers(s)
       /\ PubTyped' /\ loop' \in Seq(Entries)
       /\ pub'[r].item = x
       /\ pub'[r].left = Tail(p)
       /\ \A q \in Runs : q # r => pub'[q] = pub[q]
       /\ \A t \in Streams :
             /\ Publishers(t)' = Publishers(t) \ {q \in {r} : t = s}
             /\ Pending(t)' = Pending(t) \ {y \in {x} : t = s}
             /\ Scheduled(t)' = Scheduled(t) \cup {y \in {x} : t = s}
       /\ Len(loop) \in Nat /\ DOMAIN loop = 1..Len(loop)
       /\ DOMAIN loop' = 1..(Len(loop) + 1)
       /\ \A i \in 1..Len(loop) : loop'[i] = loop[i]
       /\ loop'[Len(loop) + 1] = [to |-> s, item |-> x]
  BY <1>2, <1>3, <1>4, <1>7, <1>8, <1>10 DEF e
<1> QED  BY <1>11 DEF s, x, p

(* The trigger's end: the marker is scheduled for every token stream open. *)
LEMMA PublishEndEffect ==
    ASSUME Shape, RegistryHoldsOpenStreams, NEW r \in Runs, PublishEnd(r)
    PROVE  LET x == Item(r, sent["tokens"][r] + 1, TRUE)
           IN  /\ sent' \in [Hubs -> [Runs -> Nat]]
               /\ \A g \in Hubs, q \in Runs :
                     sent'[g][q] = IF g = "tokens" /\ q = r THEN sent[g][q] + 1 ELSE sent[g][q]
               /\ x \in Items /\ x.run = r /\ x.n = sent["tokens"][r] + 1 /\ x.last
               /\ loop' \in Seq(Entries)
               /\ \A s \in Streams :
                     Scheduled(s)' = Scheduled(s) \cup {y \in {x} : Receives("tokens", r, s)}
               /\ \A i \in DOMAIN loop : i \in DOMAIN loop' /\ loop'[i] = loop[i]
               /\ \A i \in DOMAIN loop' : i \notin DOMAIN loop =>
                     loop'[i].item = x /\ Receives("tokens", r, loop'[i].to)
               /\ \A i, j \in DOMAIN loop' :
                     i < j /\ loop'[i].to = loop'[j].to => i \in DOMAIN loop
<1> DEFINE x == Item(r, sent["tokens"][r] + 1, TRUE)
           p == Subscribed("tokens", r)
           b == [i \in DOMAIN p |-> [to |-> p[i], item |-> x]]
<1>1. /\ sent' \in [Hubs -> [Runs -> Nat]]
      /\ \A g \in Hubs, q \in Runs :
            sent'[g][q] = IF g = "tokens" /\ q = r THEN sent[g][q] + 1 ELSE sent[g][q]
  BY DEF PublishEnd, Shape, Hubs
<1>2. x \in Items /\ x.run = r /\ x.n = sent["tokens"][r] + 1 /\ x.last
  BY DEF Item, Items, Shape, Hubs
<1>3. /\ p \in Seq(Streams)
      /\ \A k, l \in DOMAIN p : p[k] = p[l] => k = l
      /\ \A s \in Streams : s \in Range(p) <=> Receives("tokens", r, s)
  <2>1. "tokens" \in Hubs  BY DEF Hubs
  <2> QED  BY <2>1, SnapshotTakesReceivers
<1> HIDE DEF x, p
<1>4. /\ Len(p) \in Nat /\ DOMAIN p = 1..Len(p)
      /\ \A i \in 1..Len(p) : p[i] \in Streams
  BY <1>3
<1>5. /\ b \in Seq(Entries) /\ Len(b) = Len(p)
      /\ \A i \in 1..Len(p) : b[i] = [to |-> p[i], item |-> x]
  <2>1. \A i \in 1..Len(p) : [to |-> p[i], item |-> x] \in Entries
    BY <1>2, <1>4 DEF Entries
  <2>2. b = [i \in 1..Len(p) |-> [to |-> p[i], item |-> x]]
    BY <1>4
  <2>3. b \in [1..Len(p) -> Entries]
    BY <2>1, <2>2
  <2> QED  BY <1>4, <2>2, <2>3
<1>6. loop' = loop \o b /\ loop \in Seq(Entries)
  BY DEF PublishEnd, Shape, b, p, x
<1> DEFINE m == Len(loop)
           k == Len(p)
<1>7. /\ loop' \in Seq(Entries) /\ m \in Nat
      /\ DOMAIN loop = 1..m /\ DOMAIN loop' = 1..(m + k)
      /\ \A j \in 1..(m + k) : loop'[j] = IF j <= m THEN loop[j] ELSE b[j - m]
  BY <1>5, <1>6, JoinFacts
<1>8. k \in Nat  BY <1>4
<1> HIDE DEF m, k, b
<1>9. /\ \A i \in 1..m : i \in 1..(m + k) /\ loop'[i] = loop[i]
      /\ \A i \in 1..(m + k) : i \notin 1..m =>
            i - m \in 1..k /\ loop'[i] = [to |-> p[i - m], item |-> x]
      /\ \A i \in 1..k : m + i \in 1..(m + k) /\ loop'[m + i] = [to |-> p[i], item |-> x]
  <2>1. \A i \in 1..m : i \in 1..(m + k) /\ i <= m
    BY <1>7, <1>8
  <2>2. \A i \in 1..(m + k) : i \notin 1..m => i - m \in 1..k /\ ~(i <= m)
    BY <1>7, <1>8
  <2>3. \A i \in 1..k : m + i \in 1..(m + k) /\ ~(m + i <= m) /\ (m + i) - m = i
    BY <1>7, <1>8
  <2>4. \A i \in 1..k : b[i] = [to |-> p[i], item |-> x]
    BY <1>5 DEF k
  <2> QED  BY <1>7, <2>1, <2>2, <2>3, <2>4
<1>10. ASSUME NEW s \in Streams
       PROVE  Scheduled(s)' = Scheduled(s) \cup {y \in {x} : Receives("tokens", r, s)}
  <2>1. \A y \in Scheduled(s)' : y \in Scheduled(s) \/ (y = x /\ s \in Range(p))
    <3>1. \A i \in DOMAIN loop' : loop'[i].to = s =>
              \/ i \in DOMAIN loop /\ loop'[i] = loop[i]
              \/ s \in Range(p) /\ loop'[i].item = x
      BY <1>4, <1>7, <1>9 DEF Range, k
    <3> QED  BY <3>1 DEF Scheduled
  <2>2. \A y \in Scheduled(s) : y \in Scheduled(s)'
    BY <1>7, <1>9 DEF Scheduled
  <2>3. s \in Range(p) => x \in Scheduled(s)'
    <3> SUFFICES ASSUME NEW i \in 1..k, p[i] = s  PROVE  x \in Scheduled(s)'
      BY <1>4 DEF Range, k
    <3>1. m + i \in DOMAIN loop' /\ loop'[m + i] = [to |-> p[i], item |-> x]
      BY <1>7, <1>9
    <3>2. loop'[m + i].to = s /\ loop'[m + i].item = x
      BY <3>1
    <3> QED  BY <3>1, <3>2 DEF Scheduled
  <2> QED  BY <1>3, <2>1, <2>2, <2>3
<1>11. \A i \in DOMAIN loop' : i \notin DOMAIN loop =>
           loop'[i].item = x /\ Receives("tokens", r, loop'[i].to)
  <2>1. \A i \in 1..k : p[i] \in Streams /\ p[i] \in Range(p)
    BY <1>4 DEF Range, k
  <2> QED  BY <1>3, <1>7, <1>9, <2>1
<1>12. \A i, j \in DOMAIN loop' :
           i < j /\ loop'[i].to = loop'[j].to => i \in DOMAIN loop
  <2> SUFFICES ASSUME NEW i \in 1..(m + k), NEW j \in 1..(m + k), i < j,
                      loop'[i].to = loop'[j].to, i \notin 1..m
               PROVE  FALSE
    BY <1>7
  <2>1. j \notin 1..m /\ i - m # j - m
    BY <1>7, <1>8
  <2>2. /\ i - m \in 1..k /\ loop'[i] = [to |-> p[i - m], item |-> x]
        /\ j - m \in 1..k /\ loop'[j] = [to |-> p[j - m], item |-> x]
    BY <1>9, <2>1
  <2>3. p[i - m] = p[j - m]
    BY <2>2
  <2> QED  BY <1>3, <1>4, <2>1, <2>2, <2>3 DEF k
<1>13. /\ sent' \in [Hubs -> [Runs -> Nat]]
       /\ \A g \in Hubs, q \in Runs :
             sent'[g][q] = IF g = "tokens" /\ q = r THEN sent[g][q] + 1 ELSE sent[g][q]
       /\ x \in Items /\ x.run = r /\ x.n = sent["tokens"][r] + 1 /\ x.last
       /\ loop' \in Seq(Entries)
       /\ \A s \in Streams :
             Scheduled(s)' = Scheduled(s) \cup {y \in {x} : Receives("tokens", r, s)}
       /\ \A i \in DOMAIN loop : i \in DOMAIN loop' /\ loop'[i] = loop[i]
       /\ \A i \in DOMAIN loop' : i \notin DOMAIN loop =>
             loop'[i].item = x /\ Receives("tokens", r, loop'[i].to)
       /\ \A i, j \in DOMAIN loop' :
             i < j /\ loop'[i].to = loop'[j].to => i \in DOMAIN loop
  BY <1>1, <1>2, <1>7, <1>9, <1>10, <1>11, <1>12
<1> QED  BY <1>13 DEF x

(* A turn of the loop: the first entry's item is queued, if its stream is  *)
(* still open, ahead of whatever is scheduled for it.                      *)
LEMMA LoopTurnEffect ==
    ASSUME Shape, InOrder, LoopTurn
    PROVE  LET s == Head(loop).to
               x == Head(loop).item
           IN  /\ s \in Streams /\ x \in Items /\ x \in Scheduled(s)
               /\ loop' \in Seq(Entries)
               /\ queue' \in [Streams -> Seq(Items)]
               /\ \A t \in Streams :
                     /\ Scheduled(t)' \subseteq Scheduled(t)
                     /\ Scheduled(t) = Scheduled(t)' \cup {y \in {x} : t = s}
                     /\ t # s => queue'[t] = queue[t]
                     /\ t = s => \A y \in Scheduled(t)' : Ahead(x, y)
               /\ queue'[s] = IF state[s] = "open" THEN Append(queue[s], x) ELSE <<>>
               /\ \A i, j \in DOMAIN loop' :
                     i < j /\ loop'[i].to = loop'[j].to => Ahead(loop'[i].item, loop'[j].item)
<1> DEFINE s == Head(loop).to
           x == Head(loop).item
           m == Len(loop)
<1>1. loop \in Seq(Entries) /\ loop # <<>> /\ loop' = Tail(loop)
  BY DEF Shape, LoopTurn
<1>2. /\ loop' \in Seq(Entries) /\ Head(loop) \in Entries /\ Head(loop) = loop[1]
      /\ m \in Nat /\ DOMAIN loop = 1..m /\ 1 \in DOMAIN loop
      /\ DOMAIN loop' = 1..(m - 1)
      /\ \A i \in 1..(m - 1) : i + 1 \in DOMAIN loop /\ loop'[i] = loop[i + 1]
      /\ \A i \in DOMAIN loop : i # 1 => i - 1 \in DOMAIN loop' /\ loop'[i - 1] = loop[i]
  BY <1>1, TailFacts
<1>3. s \in Streams /\ x \in Items
  BY <1>2 DEF Entries
<1>4. x \in Scheduled(s)
  BY <1>2 DEF Scheduled
<1>5. /\ queue' \in [Streams -> Seq(Items)]
      /\ \A t \in Streams : t # s => queue'[t] = queue[t]
      /\ queue'[s] = IF state[s] = "open" THEN Append(queue[s], x) ELSE <<>>
  <2>1. queue[s] \in Seq(Items)
    BY <1>3 DEF Shape
  <2>2. (IF state[s] = "open" THEN Append(queue[s], x) ELSE <<>>) \in Seq(Items)
    BY <2>1, <1>3
  <2>3. queue' = [queue EXCEPT ![s] = IF state[s] = "open" THEN Append(queue[s], x) ELSE <<>>]
    BY DEF LoopTurn
  <2>4. queue \in [Streams -> Seq(Items)]
    BY DEF Shape
  <2> HIDE DEF s, x
  <2> QED  BY <1>3, <2>2, <2>3, <2>4
<1>6. \A i \in 1..(m - 1) : i \in Nat /\ i + 1 > 1
  BY <1>2
<1> HIDE DEF m
<1>7. ASSUME NEW t \in Streams
      PROVE  /\ Scheduled(t)' \subseteq Scheduled(t)
             /\ Scheduled(t) = Scheduled(t)' \cup {y \in {x} : t = s}
  <2>1. \A y \in Scheduled(t)' : y \in Scheduled(t)
    BY <1>2 DEF Scheduled
  <2>2. \A y \in Scheduled(t) : y \in Scheduled(t)' \/ (t = s /\ y = x)
    BY <1>2 DEF Scheduled
  <2> QED  BY <1>4, <2>1, <2>2
<1>8. ASSUME NEW t \in Streams, t = s, NEW y \in Scheduled(t)'  PROVE  Ahead(x, y)
  <2>1. PICK i \in DOMAIN loop' : loop'[i].to = t /\ loop'[i].item = y
    BY DEF Scheduled
  <2>2. loop[1].to = loop[i + 1].to /\ 1 < i + 1 /\ i + 1 \in DOMAIN loop /\ loop[i + 1].item = y
    BY <2>1, <1>2, <1>6, <1>8 DEF s
  <2>3. Ahead(loop[1].item, loop[i + 1].item)
    BY <2>2, <1>2 DEF InOrder
  <2> QED  BY <2>2, <2>3, <1>2 DEF x
<1>9. \A i, j \in DOMAIN loop' :
          i < j /\ loop'[i].to = loop'[j].to => Ahead(loop'[i].item, loop'[j].item)
  <2> SUFFICES ASSUME NEW i \in DOMAIN loop', NEW j \in DOMAIN loop', i < j,
                      loop'[i].to = loop'[j].to
               PROVE  Ahead(loop'[i].item, loop'[j].item)
    OBVIOUS
  <2>1. /\ loop'[i] = loop[i + 1] /\ loop'[j] = loop[j + 1]
        /\ i + 1 \in DOMAIN loop /\ j + 1 \in DOMAIN loop /\ i + 1 < j + 1
    BY <1>2, <1>6
  <2> QED  BY <2>1 DEF InOrder
<1> HIDE DEF s, x
<1>10. /\ s \in Streams /\ x \in Items /\ x \in Scheduled(s)
       /\ loop' \in Seq(Entries)
       /\ queue' \in [Streams -> Seq(Items)]
       /\ \A t \in Streams :
             /\ Scheduled(t)' \subseteq Scheduled(t)
             /\ Scheduled(t) = Scheduled(t)' \cup {y \in {x} : t = s}
             /\ t # s => queue'[t] = queue[t]
             /\ t = s => \A y \in Scheduled(t)' : Ahead(x, y)
       /\ queue'[s] = IF state[s] = "open" THEN Append(queue[s], x) ELSE <<>>
       /\ \A i, j \in DOMAIN loop' :
             i < j /\ loop'[i].to = loop'[j].to => Ahead(loop'[i].item, loop'[j].item)
  BY <1>2, <1>3, <1>4, <1>5, <1>7, <1>8, <1>9
<1> QED  BY <1>10 DEF s, x

(* A stream that closes leaves the registry as it ought to be.             *)
LEMMA CloseEffect ==
    ASSUME Shape, RegistryHoldsOpenStreams, scene' = scene,
           NEW s \in Streams, state[s] = "open",
           NEW how \in {"terminal", "idle", "gone"}, Close(s, how)
    PROVE  /\ subs' \in [Hubs -> [Ids -> Seq(Streams)]]
           /\ state' \in [Streams -> {"new", "open", "terminal", "idle", "gone"}]
           /\ state'[s] = how
           /\ \A t \in Streams : t # s => state'[t] = state[t]
           /\ RegistryHoldsOpenStreams'
<1> DEFINE h0 == Kind[s]
           i0 == StreamId[s]
           q == subs[h0][i0]
<1>1. h0 \in Hubs /\ i0 \in Ids
  BY SceneFacts DEF Shape
<1>2. /\ state' \in [Streams -> {"new", "open", "terminal", "idle", "gone"}]
      /\ state'[s] = how
      /\ \A t \in Streams : t # s => state'[t] = state[t]
  BY DEF Close, Shape
<1>3. q \in Seq(Streams) /\ \A k, l \in DOMAIN q : q[k] = q[l] => k = l
  BY <1>1 DEF Shape, RegistryHoldsOpenStreams
<1> HIDE DEF q
<1> DEFINE a == RemoveFirst(q, s)
<1>4. /\ a \in Seq(Streams) /\ Range(a) = Range(q) \ {s}
      /\ \A k, l \in DOMAIN a : a[k] = a[l] => k = l
  BY <1>3, RemoveFacts
<1> HIDE DEF a
<1>5. subs' = [subs EXCEPT ![h0][i0] = a]
  BY DEF Close, Unsubscribe, a, q
<1> HIDE DEF h0, i0
<1>6. /\ subs' \in [Hubs -> [Ids -> Seq(Streams)]]
      /\ \A h \in Hubs, id \in Ids :
            subs'[h][id] = IF h = h0 /\ id = i0 THEN a ELSE subs[h][id]
  BY <1>1, <1>4, <1>5 DEF Shape
<1>7. RegistryHoldsOpenStreams'
  <2> SUFFICES ASSUME NEW h \in Hubs, NEW id \in Ids
               PROVE  /\ \A k, l \in DOMAIN subs'[h][id] :
                            subs'[h][id][k] = subs'[h][id][l] => k = l
                      /\ \A t \in Streams :
                            (\E k \in DOMAIN subs'[h][id] : subs'[h][id][k] = t) <=>
                                state'[t] = "open" /\ h = Kind[t] /\ id = StreamId[t]
    BY SceneStays DEF RegistryHoldsOpenStreams
  <2>1. CASE h = h0 /\ id = i0
    <3>1. subs'[h][id] = a
      BY <2>1, <1>6
    <3>2. \A t \in Streams : t \in Range(q) <=>
              state[t] = "open" /\ h = Kind[t] /\ id = StreamId[t]
      BY <1>1, <2>1 DEF RegistryHoldsOpenStreams, Range, q
    <3>3. \A t \in Streams : t \in Range(a) <=>
              state'[t] = "open" /\ h = Kind[t] /\ id = StreamId[t]
      BY <1>2, <1>4, <3>2
    <3> QED  BY <1>4, <3>1, <3>3 DEF Range
  <2>2. CASE ~(h = h0 /\ id = i0)
    <3>1. subs'[h][id] = subs[h][id]
      BY <2>2, <1>6
    <3>2. \A t \in Streams : state[t] = "open" /\ h = Kind[t] /\ id = StreamId[t] <=>
                             state'[t] = "open" /\ h = Kind[t] /\ id = StreamId[t]
      BY <1>2, <2>2 DEF h0, i0
    <3> QED  BY <3>1, <3>2 DEF RegistryHoldsOpenStreams
  <2> QED  BY <2>1, <2>2
<1> QED  BY <1>2, <1>6, <1>7

(* So does a stream that opens.                                            *)
LEMMA OpenEffect ==
    ASSUME Shape, RegistryHoldsOpenStreams, NEW s \in Streams, Open(s)
    PROVE  /\ subs' \in [Hubs -> [Ids -> Seq(Streams)]]
           /\ state' \in [Streams -> {"new", "open", "terminal", "idle", "gone"}]
           /\ state'[s] = "open"
           /\ \A t \in Streams : t # s => state'[t] = state[t]
           /\ since' \in [Streams -> [Runs -> Nat]]
           /\ since'[s] = sent[Kind[s]]
           /\ \A t \in Streams : t # s => since'[t] = since[t]
           /\ RegistryHoldsOpenStreams'
<1> DEFINE h0 == Kind[s]
           i0 == StreamId[s]
           q == subs[h0][i0]
           a == Append(q, s)
<1>1. h0 \in Hubs /\ i0 \in Ids
  BY SceneFacts DEF Shape
<1>2. /\ state' \in [Streams -> {"new", "open", "terminal", "idle", "gone"}]
      /\ state'[s] = "open"
      /\ \A t \in Streams : t # s => state'[t] = state[t]
  BY DEF Open, Shape
<1>3. /\ since' \in [Streams -> [Runs -> Nat]]
      /\ since'[s] = sent[h0]
      /\ \A t \in Streams : t # s => since'[t] = since[t]
  <2>1. sent[h0] \in [Runs -> Nat]
    BY <1>1 DEF Shape
  <2>2. since' = [since EXCEPT ![s] = sent[h0]]
    BY DEF Open
  <2>3. since \in [Streams -> [Runs -> Nat]]
    BY DEF Shape
  <2> HIDE DEF h0
  <2> QED  BY <2>1, <2>2, <2>3
<1>4. q \in Seq(Streams)
  BY <1>1 DEF Shape
<1>5. /\ \A k, l \in DOMAIN q : q[k] = q[l] => k = l
      /\ \A t \in Streams : t \in Range(q) <=>
             state[t] = "open" /\ h0 = Kind[t] /\ i0 = StreamId[t]
  BY <1>1 DEF RegistryHoldsOpenStreams, Range
<1>6. s \notin Range(q)
  BY <1>5 DEF Open
<1> HIDE DEF q
<1>7. /\ a \in Seq(Streams) /\ Len(q) \in Nat
      /\ DOMAIN q = 1..Len(q) /\ DOMAIN a = 1..(Len(q) + 1)
      /\ \A i \in 1..Len(q) : a[i] = q[i]
      /\ a[Len(q) + 1] = s
      /\ Range(a) = Range(q) \cup {s}
  BY <1>4, AppendFacts
<1>8. \A k, l \in DOMAIN a : a[k] = a[l] => k = l
  <2> DEFINE m == Len(q)
  <2>1. \A i \in 1..(m + 1) : i \in 1..m \/ i = m + 1
    BY <1>7
  <2>2. \A i \in 1..m : a[i] \in Range(q)
    BY <1>7 DEF Range
  <2> HIDE DEF a, m
  <2> QED  BY <1>5, <1>6, <1>7, <2>1, <2>2 DEF m
<1> HIDE DEF a
<1>9. subs' = [subs EXCEPT ![h0][i0] = a]
  BY DEF Open, a, q
<1> HIDE DEF h0, i0
<1>10. /\ subs' \in [Hubs -> [Ids -> Seq(Streams)]]
       /\ \A h \in Hubs, id \in Ids :
             subs'[h][id] = IF h = h0 /\ id = i0 THEN a ELSE subs[h][id]
  BY <1>1, <1>7, <1>9 DEF Shape
<1>11. RegistryHoldsOpenStreams'
  <2>0. scene' = scene
    BY DEF Open
  <2> SUFFICES ASSUME NEW h \in Hubs, NEW id \in Ids
               PROVE  /\ \A k, l \in DOMAIN subs'[h][id] :
                            subs'[h][id][k] = subs'[h][id][l] => k = l
                      /\ \A t \in Streams :
                            (\E k \in DOMAIN subs'[h][id] : subs'[h][id][k] = t) <=>
                                state'[t] = "open" /\ h = Kind[t] /\ id = StreamId[t]
    BY <2>0, SceneStays DEF RegistryHoldsOpenStreams
  <2>1. CASE h = h0 /\ id = i0
    <3>1. subs'[h][id] = a
      BY <2>1, <1>10
    <3>2. \A t \in Streams : t \in Range(a) <=>
              state'[t] = "open" /\ h = Kind[t] /\ id = StreamId[t]
      BY <1>2, <1>5, <1>7, <2>1 DEF h0, i0
    <3> QED  BY <1>8, <3>1, <3>2 DEF Range
  <2>2. CASE ~(h = h0 /\ id = i0)
    <3>1. subs'[h][id] = subs[h][id]
      BY <2>2, <1>10
    <3>2. \A t \in Streams : state[t] = "open" /\ h = Kind[t] /\ id = StreamId[t] <=>
                             state'[t] = "open" /\ h = Kind[t] /\ id = StreamId[t]
      BY <1>2, <2>2 DEF h0, i0
    <3> QED  BY <3>1, <3>2 DEF RegistryHoldsOpenStreams
  <2> QED  BY <2>1, <2>2
<1> QED  BY <1>2, <1>3, <1>10, <1>11 DEF h0

(* A frame: the oldest queued item is yielded.                             *)
LEMMA FrameEffect ==
    ASSUME Shape, InOrder, NEW s \in Streams, Frame(s)
    PROVE  LET x == Head(queue[s])
           IN  /\ x \in Items /\ x \in Queued(s)
               /\ frames' \in [Streams -> Seq(Items)]
               /\ queue' \in [Streams -> Seq(Items)]
               /\ frames'[s] = Append(frames[s], x)
               /\ \A t \in Streams : t # s => frames'[t] = frames[t] /\ queue'[t] = queue[t]
               /\ \A t \in Streams :
                     /\ Framed(t)' = Framed(t) \cup {y \in {x} : t = s}
                     /\ Queued(t)' \subseteq Queued(t)
                     /\ ~(t = s /\ x.last) => Queued(t) = Queued(t)' \cup {y \in {x} : t = s}
                     /\ t = s => \A y \in Queued(t) : y = x \/ Ahead(x, y)
                     /\ t = s => \A y \in Queued(t)' : Ahead(x, y)
                     /\ \A i, j \in DOMAIN queue'[t] :
                           i < j => Ahead(queue'[t][i], queue'[t][j])
<1> DEFINE x == Head(queue[s])
           q == queue[s]
           f == frames[s]
           m == Len(q)
<1>1. q \in Seq(Items) /\ q # <<>> /\ f \in Seq(Items)
  BY DEF Shape, Frame
<1>2. /\ Tail(q) \in Seq(Items) /\ x \in Items /\ x = q[1]
      /\ m \in Nat /\ DOMAIN q = 1..m /\ 1 \in DOMAIN q
      /\ DOMAIN Tail(q) = 1..(m - 1)
      /\ \A i \in 1..(m - 1) : i + 1 \in DOMAIN q /\ Tail(q)[i] = q[i + 1]
      /\ \A i \in DOMAIN q : i # 1 => i - 1 \in DOMAIN Tail(q) /\ Tail(q)[i - 1] = q[i]
      /\ Range(q) = Range(Tail(q)) \cup {x}
  BY <1>1, TailFacts
<1>3. Append(f, x) \in Seq(Items) /\ Range(Append(f, x)) = Range(f) \cup {x}
  BY <1>1, <1>2, AppendFacts
<1>4. \A i \in 1..(m - 1) : i \in Nat /\ i + 1 > 1
  BY <1>2
<1>5. \A i, j \in DOMAIN q : i < j => Ahead(q[i], q[j])
  BY DEF InOrder
<1> HIDE DEF m, q, x, f
<1> DEFINE w == IF x.last THEN <<>> ELSE Tail(q)
<1>6. /\ frames' = [frames EXCEPT ![s] = Append(f, x)]
      /\ queue' = [queue EXCEPT ![s] = w]
  BY DEF Frame, q, x, f
<1>7. w \in Seq(Items)
  BY <1>2
<1>8. /\ frames' \in [Streams -> Seq(Items)] /\ queue' \in [Streams -> Seq(Items)]
      /\ frames'[s] = Append(f, x) /\ queue'[s] = w
      /\ \A t \in Streams : t # s => frames'[t] = frames[t] /\ queue'[t] = queue[t]
  <2> HIDE DEF w
  <2> QED  BY <1>3, <1>6, <1>7 DEF Shape
<1>9. \A y \in Range(Tail(q)) : Ahead(x, y)
  BY <1>2, <1>4, <1>5 DEF Range
<1>10. \A i, j \in DOMAIN Tail(q) : i < j => Ahead(Tail(q)[i], Tail(q)[j])
  <2> SUFFICES ASSUME NEW i \in DOMAIN Tail(q), NEW j \in DOMAIN Tail(q), i < j
               PROVE  Ahead(Tail(q)[i], Tail(q)[j])
    OBVIOUS
  <2>1. /\ Tail(q)[i] = q[i + 1] /\ Tail(q)[j] = q[j + 1]
        /\ i + 1 \in DOMAIN q /\ j + 1 \in DOMAIN q /\ i + 1 < j + 1
    BY <1>2, <1>4
  <2> QED  BY <2>1, <1>5
<1>11. Range(<<>>) = {} /\ DOMAIN <<>> = {}
  BY DEF Range
<1>12. /\ Range(w) \subseteq Range(q)
       /\ ~x.last => Range(q) = Range(w) \cup {x}
       /\ \A y \in Range(w) : Ahead(x, y)
       /\ \A i, j \in DOMAIN w : i < j => Ahead(w[i], w[j])
  <2>1. CASE x.last
    <3>1. w = <<>>  BY <2>1
    <3> HIDE DEF w
    <3> QED  BY <2>1, <3>1, <1>11
  <2>2. CASE ~x.last
    <3>1. w = Tail(q)  BY <2>2
    <3> HIDE DEF w
    <3> QED  BY <3>1, <1>2, <1>9, <1>10
  <2> QED  BY <2>1, <2>2
<1> HIDE DEF w
<1>13. ASSUME NEW t \in Streams
       PROVE  /\ Framed(t)' = Framed(t) \cup {y \in {x} : t = s}
              /\ Queued(t)' \subseteq Queued(t)
              /\ ~(t = s /\ x.last) => Queued(t) = Queued(t)' \cup {y \in {x} : t = s}
              /\ t = s => \A y \in Queued(t) : y = x \/ Ahead(x, y)
              /\ t = s => \A y \in Queued(t)' : Ahead(x, y)
              /\ \A i, j \in DOMAIN queue'[t] :
                    i < j => Ahead(queue'[t][i], queue'[t][j])
  <2>0. /\ Framed(t) = Range(frames[t]) /\ Framed(t)' = Range(frames'[t])
        /\ Queued(t) = Range(queue[t]) /\ Queued(t)' = Range(queue'[t])
    BY DEF Framed, Queued
  <2>1. CASE t = s
    BY <2>0, <2>1, <1>2, <1>3, <1>8, <1>9, <1>12 DEF q, f
  <2>2. CASE t # s
    BY <2>0, <2>2, <1>8 DEF InOrder
  <2> QED  BY <2>1, <2>2
<1>14. x \in Queued(s)
  BY <1>2 DEF Queued, q
<1>15. /\ x \in Items /\ x \in Queued(s)
       /\ frames' \in [Streams -> Seq(Items)]
       /\ queue' \in [Streams -> Seq(Items)]
       /\ frames'[s] = Append(f, x)
       /\ \A t \in Streams : t # s => frames'[t] = frames[t] /\ queue'[t] = queue[t]
       /\ \A t \in Streams :
             /\ Framed(t)' = Framed(t) \cup {y \in {x} : t = s}
             /\ Queued(t)' \subseteq Queued(t)
             /\ ~(t = s /\ x.last) => Queued(t) = Queued(t)' \cup {y \in {x} : t = s}
             /\ t = s => \A y \in Queued(t) : y = x \/ Ahead(x, y)
             /\ t = s => \A y \in Queued(t)' : Ahead(x, y)
             /\ \A i, j \in DOMAIN queue'[t] :
                   i < j => Ahead(queue'[t][i], queue'[t][j])
  BY <1>2, <1>8, <1>13, <1>14
<1> QED  BY <1>15 DEF x, f

-----------------------------------------------------------------------------
(* The invariant is kept.                                                  *)

(* Whatever comes to a stream is an item.                                  *)
LEMMA CarriedAreItems ==
    ASSUME Shape, Publishing
    PROVE  /\ \A s \in Streams : Carried(s) \subseteq Items
           /\ \A x \in Items : x.run \in Runs /\ x.n \in Nat /\ x.last \in BOOLEAN
<1>1. ASSUME NEW s \in Streams  PROVE  Carried(s) \subseteq Items
  <2>1. frames[s] \in Seq(Items) /\ queue[s] \in Seq(Items) /\ loop \in Seq(Entries)
    BY DEF Shape
  <2>2. Framed(s) \subseteq Items /\ Queued(s) \subseteq Items
    BY <2>1 DEF Framed, Queued, Range
  <2>3. \A k \in DOMAIN loop : loop[k] \in Entries
    BY <2>1
  <2>4. Scheduled(s) \subseteq Items
    BY <2>3 DEF Scheduled, Entries
  <2>5. Pending(s) \subseteq Items
    BY DEF Pending, Publishing, Publishers
  <2> QED  BY <2>2, <2>4, <2>5 DEF Carried
<1>2. \A x \in Items : x.run \in Runs /\ x.n \in Nat /\ x.last \in BOOLEAN
  BY DEF Items
<1> QED  BY <1>1, <1>2

(* How much is published and since when, as numbers.                       *)
LEMMA SentTyped ==
    ASSUME Shape
    PROVE  /\ \A s \in Streams, r \in Runs : sent[Kind[s]][r] \in Nat /\ since[s][r] \in Nat
           /\ \A h \in Hubs, r \in Runs : sent[h][r] \in Nat
           /\ \A s \in Streams : Kind[s] \in Hubs
BY SceneFacts DEF Shape

(* A run that publishes has not published its last item.                   *)
LEMMA PublishKeeps ==
    ASSUME Shape, Held,
           NEW h \in Hubs, NEW r \in Runs, NEW last \in BOOLEAN,
           Snapshot(h, r, last), Idle(r),
           phase[r] \in {"ready", "running"},
           phase' \in [Runs -> {"ready", "running", "ended", "answered"}],
           \A q \in Runs : q # r => phase'[q] = phase[q],
           phase'[r] = IF last THEN "ended" ELSE "running",
           last => h = "events",
           sent'["events"][r] <= MaxEvents,
           ~last => sent'["events"][r] < MaxEvents,
           sent'["tokens"][r] <= MaxFragments,
           UNCHANGED <<subs, loop, queue, stream, since, scene>>
    PROVE  Shape' /\ Held'
<1> DEFINE x == Item(r, sent[h][r] + 1, last)
<1>0. /\ scene' = scene /\ subs' = subs /\ loop' = loop /\ queue' = queue
      /\ state' = state /\ frames' = frames /\ since' = since
      /\ RunId' = RunId /\ StreamId' = StreamId /\ Kind' = Kind
      /\ \A s, q : Under(s, q)' <=> Under(s, q)
  BY SceneStays DEF stream
<1>1. /\ sent' \in [Hubs -> [Runs -> Nat]]
      /\ \A g \in Hubs, q \in Runs :
            sent'[g][q] = IF g = h /\ q = r THEN sent[g][q] + 1 ELSE sent[g][q]
      /\ x \in Items /\ x.run = r /\ x.n = sent[h][r] + 1 /\ x.last = last
      /\ PubTyped'
      /\ pub'[r].item = x /\ pub'[r].left = Subscribed(h, r)
      /\ \A q \in Runs : q # r => pub'[q] = pub[q]
      /\ \A s \in Streams :
            /\ r \notin Publishers(s)
            /\ Publishers(s)' = Publishers(s) \cup {q \in {r} : Receives(h, q, s)}
            /\ Pending(s)' = Pending(s) \cup {y \in {x} : Receives(h, r, s)}
  BY SnapshotEffect DEF Held
<1> HIDE DEF x
<1>2. /\ \A s \in Streams : Carried(s) \subseteq Items
      /\ \A y \in Items : y.run \in Runs /\ y.n \in Nat /\ y.last \in BOOLEAN
  BY CarriedAreItems DEF Held
<1>3. /\ \A s \in Streams, q \in Runs : sent[Kind[s]][q] \in Nat /\ since[s][q] \in Nat
      /\ \A g \in Hubs, q \in Runs : sent[g][q] \in Nat
      /\ \A s \in Streams : Kind[s] \in Hubs
  BY SentTyped
<1>4. \A s \in Streams :
          /\ Framed(s)' = Framed(s) /\ Queued(s)' = Queued(s) /\ Scheduled(s)' = Scheduled(s)
          /\ Carried(s)' = Carried(s) \cup {y \in {x} : Receives(h, r, s)}
  BY <1>0, <1>1 DEF Framed, Queued, Scheduled, Carried
<1>5. \A s \in Streams : \A y \in Carried(s) :
          /\ Belongs(s, y) /\ y.run \in Runs /\ y.n \in Nat
          /\ y.last => y.run # r
  <2> SUFFICES ASSUME NEW s \in Streams, NEW y \in Carried(s)
               PROVE  Belongs(s, y) /\ (y.last => y.run # r)
    BY <1>2
  <2>1. Belongs(s, y)
    BY DEF Held, Addressed
  <2>2. ~Over(s, r)
    BY DEF Over
  <2> QED  BY <2>1, <2>2 DEF Belongs
<1>6. Shape'
  BY <1>0, <1>1 DEF Shape
<1>7. Counted'
  <2> SUFFICES ASSUME NEW q \in Runs
               PROVE  /\ phase'[q] = "ready" =>
                            pub'[q].left = <<>> /\ \A g \in Hubs : sent'[g][q] = 0
                      /\ sent'["events"][q] <= MaxEvents
                      /\ phase'[q] = "running" => sent'["events"][q] < MaxEvents
                      /\ sent'["tokens"][q] <= MaxFragments + 1
                      /\ phase'[q] # "answered" => sent'["tokens"][q] <= MaxFragments
                      /\ \A s \in Streams : since[s][q] <= sent'[Kind[s]][q]
    BY <1>0 DEF Counted
  <2>0. "events" \in Hubs /\ "tokens" \in Hubs
    BY DEF Hubs
  <2>1. ASSUME NEW s \in Streams  PROVE  since[s][q] <= sent'[Kind[s]][q]
    <3>1. since[s][q] <= sent[Kind[s]][q]
      BY DEF Held, Counted
    <3>2. sent[Kind[s]][q] \in Nat /\ since[s][q] \in Nat
      BY <1>3
    <3>3. sent'[Kind[s]][q] \in {sent[Kind[s]][q], sent[Kind[s]][q] + 1}
      BY <1>1, <1>3
    <3> QED  BY <3>1, <3>2, <3>3
  <2>2. CASE q # r
    <3>1. phase'[q] = phase[q] /\ pub'[q] = pub[q] /\ \A g \in Hubs : sent'[g][q] = sent[g][q]
      BY <1>1, <2>2
    <3> QED  BY <2>0, <2>1, <3>1 DEF Held, Counted
  <2>3. CASE q = r
    <3>1. sent'["tokens"][q] \in Nat /\ MaxFragments \in Nat
      BY <1>1, <2>0, BoundsGiven
    <3> QED  BY <2>1, <2>3, <3>1
  <2> QED  BY <2>2, <2>3
<1>8. RegistryHoldsOpenStreams'
  BY <1>0 DEF Held, RegistryHoldsOpenStreams
<1>9. Fresh'
  BY <1>0, <1>1, <1>4 DEF Held, Fresh, Receives
<1>10. Publishing'
  <2> SUFFICES ASSUME NEW q \in Runs
               PROVE  /\ \A k, l \in DOMAIN pub'[q].left :
                            pub'[q].left[k] = pub'[q].left[l] => k = l
                      /\ \A s \in Streams : q \in Publishers(s)' =>
                            /\ pub'[q].item \in Items
                            /\ pub'[q].item.run = q
                            /\ pub'[q].item.n = sent'[Kind[s]][q]
    BY <1>0 DEF Publishing
  <2>1. CASE q = r
    <3>1. \A k, l \in DOMAIN pub'[q].left : pub'[q].left[k] = pub'[q].left[l] => k = l
      BY <1>1, <2>1, SnapshotTakesReceivers DEF Held
    <3>2. \A s \in Streams : q \in Publishers(s)' => Kind[s] = h
      BY <1>1, <2>1 DEF Receives
    <3> QED  BY <1>1, <2>1, <3>1, <3>2
  <2>2. CASE q # r
    <3>1. pub'[q] = pub[q] /\ \A s \in Streams : q \in Publishers(s)' => q \in Publishers(s)
      BY <1>1, <2>2
    <3>2. \A s \in Streams : sent'[Kind[s]][q] = sent[Kind[s]][q]
      BY <1>1, <1>3, <2>2
    <3> QED  BY <3>1, <3>2 DEF Held, Publishing
  <2> QED  BY <2>1, <2>2
<1>11. Addressed'
  <2> SUFFICES ASSUME NEW s \in Streams, NEW y \in Carried(s)'
               PROVE  Belongs(s, y)'
    BY DEF Addressed
  <2>1. CASE y \in Carried(s)
    <3>1. /\ Belongs(s, y) /\ y.run \in Runs /\ y.n \in Nat
          /\ y.last => y.run # r
      BY <1>5, <2>1
    <3>2. /\ y.n <= sent'[Kind[s]][y.run]
          /\ y.run # r => sent'[Kind[s]][y.run] = sent[Kind[s]][y.run]
      BY <1>1, <1>3, <3>1 DEF Belongs
    <3>3. y.run # r /\ Over(s, y.run) => Over(s, y.run)'
      BY <1>0, <3>1 DEF Over
    <3> QED  BY <1>0, <3>1, <3>2, <3>3 DEF Belongs
  <2>2. CASE y = x /\ Receives(h, r, s)
    <3>1. Kind[s] = h /\ Under(s, r) /\ since[s][r] <= sent[h][r]
      BY <2>2 DEF Receives, Held, Counted
    <3>2. since[s][r] < y.n /\ y.n = sent'[Kind[s]][r]
      BY <1>1, <1>3, <2>2, <3>1
    <3>3. y.last => Over(s, r)'
      BY <1>0, <1>1, <2>2, <3>1 DEF Over
    <3>4. y.run = r /\ y.n \in Nat
      BY <1>1, <1>2, <2>2
    <3> QED  BY <1>0, <3>1, <3>2, <3>3, <3>4 DEF Belongs
  <2> QED  BY <1>4, <2>1, <2>2
<1>12. InOrder'
  <2>1. \A s \in Streams : Receives(h, r, s) => \A y \in Carried(s) : Ahead(y, x)
    <3> SUFFICES ASSUME NEW s \in Streams, Kind[s] = h, NEW y \in Carried(s), y.run = r
                 PROVE  y.n < x.n
      BY <1>1 DEF Ahead, Receives
    <3>1. y.n <= sent[h][r] /\ y.n \in Nat
      BY <1>5 DEF Belongs
    <3> QED  BY <1>1, <1>3, <3>1
  <2>2. \A s \in Streams :
            /\ Before(Framed(s), Queued(s) \cup Scheduled(s) \cup Pending(s)')
            /\ Before(Queued(s), Scheduled(s) \cup Pending(s)')
            /\ Before(Scheduled(s), Pending(s)')
    BY <1>1, <2>1 DEF Held, InOrder, Before, Carried
  <2> QED  BY <1>0, <1>4, <2>2 DEF Held, InOrder, Before, Ahead
<1>13. Covered'
  <2> SUFFICES ASSUME NEW s \in Streams, NEW q \in Runs, state[s] = "open", Under(s, q),
                      NEW m \in (since[s][q] + 1)..sent'[Kind[s]][q]
               PROVE  \E y \in Carried(s)' : y.run = q /\ y.n = m
    BY <1>0 DEF Covered
  <2>1. CASE m \in (since[s][q] + 1)..sent[Kind[s]][q]
    BY <1>4, <2>1 DEF Held, Covered
  <2>2. CASE m \notin (since[s][q] + 1)..sent[Kind[s]][q]
    <3>1. sent'[Kind[s]][q] = IF Kind[s] = h /\ q = r THEN sent[Kind[s]][q] + 1
                                                     ELSE sent[Kind[s]][q]
      BY <1>1, <1>3
    <3>2. sent[Kind[s]][q] \in Nat /\ since[s][q] \in Nat
      BY <1>3
    <3>3. Kind[s] = h /\ q = r /\ m = sent[Kind[s]][q] + 1
      BY <2>2, <3>1, <3>2
    <3>4. m = sent[h][r] + 1
      BY <3>3
    <3>5. x \in Carried(s)'
      BY <1>4, <3>3 DEF Receives
    <3> QED  BY <1>1, <3>3, <3>4, <3>5
  <2> QED  BY <2>1, <2>2
<1>14. FramesAreGapless'
  BY <1>0 DEF Held, FramesAreGapless
<1>15. TerminalFrameCloses'
  <2> SUFFICES ASSUME NEW s \in Streams, state[s] = "terminal"
               PROVE  LET f == frames[s]
                      IN  f[Len(f)].n = sent'[Kind[s]][f[Len(f)].run]
    BY <1>0 DEF Held, TerminalFrameCloses
  <2> DEFINE f == frames[s]
             y == f[Len(f)]
  <2>1. f # <<>> /\ y.last /\ y.n = sent[Kind[s]][y.run]
    BY DEF Held, TerminalFrameCloses
  <2>2. f \in Seq(Items)
    BY DEF Shape
  <2>3. Len(f) \in DOMAIN f
    BY <2>1, <2>2
  <2>4. y \in Carried(s)
    BY <2>3 DEF Carried, Framed, Range
  <2> HIDE DEF f, y
  <2>5. y.run # r /\ y.run \in Runs
    BY <1>5, <2>1, <2>4
  <2>6. y.n = sent'[Kind[s]][y.run]
    BY <1>1, <1>3, <2>1, <2>5
  <2> QED  BY <2>6 DEF y, f
<1> QED  BY <1>6, <1>7, <1>8, <1>9, <1>10, <1>11, <1>12, <1>13, <1>14, <1>15 DEF Held

(* What is on its way moves on or is dropped: it still belongs there.      *)
LEMMA AddressedStays ==
    ASSUME Addressed, scene' = scene, sent' = sent, phase' = phase, since' = since,
           \A s \in Streams : Carried(s)' \subseteq Carried(s)
    PROVE  Addressed'
<1> SUFFICES ASSUME NEW s \in Streams, NEW y \in Carried(s)'  PROVE  Belongs(s, y)'
  BY DEF Addressed
<1>1. Belongs(s, y)
  BY DEF Addressed
<1>2. \A q : Over(s, q)' <=> Over(s, q)
  BY SceneStays DEF Over
<1> QED  BY <1>1, <1>2, SceneStays DEF Belongs

(* A handoff.                                                              *)
LEMMA HandOffKeeps ==
    ASSUME Shape, Held, NEW r \in Runs, HandOff(r)
    PROVE  Shape' /\ Held'
<1> DEFINE s == Head(pub[r].left)
           x == pub[r].item
           m == Len(loop)
<1>0. /\ scene' = scene /\ subs' = subs /\ queue' = queue /\ phase' = phase /\ sent' = sent
      /\ state' = state /\ frames' = frames /\ since' = since
      /\ RunId' = RunId /\ StreamId' = StreamId /\ Kind' = Kind
      /\ \A t, q : Under(t, q)' <=> Under(t, q)
  BY SceneStays DEF HandOff, stream, run
<1>1. /\ s \in Streams /\ x \in Items /\ x.run = r
      /\ r \in Publishers(s)
      /\ PubTyped' /\ loop' \in Seq(Entries)
      /\ pub'[r].item = x
      /\ pub'[r].left = Tail(pub[r].left)
      /\ \A q \in Runs : q # r => pub'[q] = pub[q]
      /\ \A t \in Streams :
            /\ Publishers(t)' = Publishers(t) \ {q \in {r} : t = s}
            /\ Pending(t)' = Pending(t) \ {y \in {x} : t = s}
            /\ Scheduled(t)' = Scheduled(t) \cup {y \in {x} : t = s}
      /\ m \in Nat /\ DOMAIN loop = 1..m
      /\ DOMAIN loop' = 1..(m + 1)
      /\ \A i \in 1..m : loop'[i] = loop[i]
      /\ loop'[m + 1] = [to |-> s, item |-> x]
  BY HandOffEffect DEF Held
<1>2. x \in Pending(s)
  BY <1>1 DEF Pending
<1>3. pub[r].left \in Seq(Streams) /\ pub[r].left # <<>>
  BY DEF Shape, PubTyped, HandOff, Idle
<1> HIDE DEF s, x, m
<1>4. \A t \in Streams :
          /\ Framed(t)' = Framed(t) /\ Queued(t)' = Queued(t)
          /\ Carried(t)' = Carried(t)
  BY <1>0, <1>1, <1>2 DEF Framed, Queued, Carried
<1>5. Shape'
  BY <1>0, <1>1 DEF Shape
<1>6. Counted'
  <2>1. \A q \in Runs : phase[q] = "ready" => pub'[q].left = <<>>
    <3>1. phase[r] # "ready"
      BY <1>3 DEF Held, Counted
    <3> QED  BY <1>1, <3>1 DEF Held, Counted
  <2> QED  BY <1>0, <2>1 DEF Held, Counted
<1>7. RegistryHoldsOpenStreams'
  BY <1>0 DEF Held, RegistryHoldsOpenStreams
<1>8. Fresh'
  <2>1. state[s] # "new"
    BY <1>1 DEF Held, Fresh
  <2> QED  BY <1>0, <1>1, <1>4, <2>1 DEF Held, Fresh
<1>9. Publishing'
  <2> SUFFICES ASSUME NEW q \in Runs
               PROVE  /\ \A k, l \in DOMAIN pub'[q].left :
                            pub'[q].left[k] = pub'[q].left[l] => k = l
                      /\ \A t \in Streams : q \in Publishers(t)' =>
                            /\ pub'[q].item \in Items
                            /\ pub'[q].item.run = q
                            /\ pub'[q].item.n = sent[Kind[t]][q]
    BY <1>0 DEF Publishing
  <2>1. pub'[q].item = pub[q].item
    BY <1>1 DEF x
  <2>2. \A t \in Streams : q \in Publishers(t)' => q \in Publishers(t)
    BY <1>1
  <2>3. \A k, l \in DOMAIN pub[q].left : pub[q].left[k] = pub[q].left[l] => k = l
    BY DEF Held, Publishing
  <2>4. \A k, l \in DOMAIN pub'[q].left : pub'[q].left[k] = pub'[q].left[l] => k = l
    <3>1. CASE q # r
      BY <1>1, <2>3, <3>1
    <3>2. CASE q = r
      <4> DEFINE p == pub[r].left
                 c == Len(p)
      <4>1. /\ c \in Nat /\ DOMAIN Tail(p) = 1..(c - 1)
            /\ \A i \in 1..(c - 1) : i + 1 \in DOMAIN p /\ Tail(p)[i] = p[i + 1]
        BY <1>3, TailFacts
      <4>2. pub'[q].left = Tail(p) /\ \A k, l \in DOMAIN p : p[k] = p[l] => k = l
        BY <1>1, <2>3, <3>2
      <4> HIDE DEF p, c
      <4>3. \A k, l \in 1..(c - 1) : k + 1 = l + 1 => k = l
        BY <4>1
      <4> QED  BY <4>1, <4>2, <4>3
    <3> QED  BY <3>1, <3>2
  <2> QED  BY <2>1, <2>2, <2>4 DEF Held, Publishing
<1>10. Addressed'
  BY <1>0, <1>4, AddressedStays DEF Held
<1>11. InOrder'
  <2>1. ASSUME NEW t \in Streams
        PROVE  /\ Before(Framed(t), Queued(t) \cup Scheduled(t)' \cup Pending(t)')
               /\ Before(Queued(t), Scheduled(t)' \cup Pending(t)')
               /\ Before(Scheduled(t)', Pending(t)')
    <3>1. Scheduled(t)' \cup Pending(t)' = Scheduled(t) \cup Pending(t)
      BY <1>1, <1>2
    <3>2. t = s => \A y \in Pending(t)' : y.run # r
      BY <1>0, <1>1, <1>9 DEF Pending, Publishers, Publishing
    <3>3. Before(Scheduled(t)', Pending(t)')
      <4> SUFFICES ASSUME NEW y \in Scheduled(t)', NEW z \in Pending(t)'
                   PROVE  Ahead(y, z)
        BY DEF Before
      <4>1. CASE y \in Scheduled(t)
        BY <1>1, <4>1 DEF Held, InOrder, Before
      <4>2. CASE t = s /\ y = x
        BY <1>1, <3>2, <4>2 DEF Ahead
      <4> QED  BY <1>1, <4>1, <4>2
    <3> QED  BY <3>1, <3>3 DEF Held, InOrder, Before
  <2>2. ASSUME NEW i \in DOMAIN loop', NEW j \in DOMAIN loop',
               i < j, loop'[i].to = loop'[j].to
        PROVE  Ahead(loop'[i].item, loop'[j].item)
    <3>1. i \in 1..m /\ (j \in 1..m \/ j = m + 1)
      BY <1>1, <2>2
    <3>2. CASE j \in 1..m
      BY <1>1, <2>2, <3>1, <3>2 DEF Held, InOrder
    <3>3. CASE j = m + 1
      <4>1. loop[i].to = s /\ loop'[i].item = loop[i].item /\ loop'[j].item = x
        BY <1>1, <2>2, <3>1, <3>3
      <4>2. loop[i].item \in Scheduled(s)
        BY <1>1, <3>1, <4>1 DEF Scheduled
      <4> QED  BY <1>1, <1>2, <4>1, <4>2 DEF Held, InOrder, Before
    <3> QED  BY <3>1, <3>2, <3>3
  <2> QED  BY <1>0, <1>4, <2>1, <2>2 DEF Held, InOrder, Before, Ahead
<1>12. Covered'
  BY <1>0, <1>4 DEF Held, Covered
<1>13. FramesAreGapless'
  BY <1>0 DEF Held, FramesAreGapless
<1>14. TerminalFrameCloses'
  BY <1>0 DEF Held, TerminalFrameCloses
<1> QED  BY <1>5, <1>6, <1>7, <1>8, <1>9, <1>10, <1>11, <1>12, <1>13, <1>14 DEF Held

(* The end marker.                                                         *)
LEMMA PublishEndKeeps ==
    ASSUME Shape, Held, NEW r \in Runs, PublishEnd(r)
    PROVE  Shape' /\ Held'
<1> DEFINE x == Item(r, sent["tokens"][r] + 1, TRUE)
<1>0. /\ scene' = scene /\ subs' = subs /\ queue' = queue /\ pub' = pub
      /\ state' = state /\ frames' = frames /\ since' = since
      /\ RunId' = RunId /\ StreamId' = StreamId /\ Kind' = Kind
      /\ \A t, q : Under(t, q)' <=> Under(t, q)
  BY SceneStays DEF PublishEnd, stream
<1>1. /\ sent' \in [Hubs -> [Runs -> Nat]]
      /\ \A g \in Hubs, q \in Runs :
            sent'[g][q] = IF g = "tokens" /\ q = r THEN sent[g][q] + 1 ELSE sent[g][q]
      /\ x \in Items /\ x.run = r /\ x.n = sent["tokens"][r] + 1 /\ x.last
      /\ loop' \in Seq(Entries)
      /\ \A s \in Streams :
            Scheduled(s)' = Scheduled(s) \cup {y \in {x} : Receives("tokens", r, s)}
      /\ \A i \in DOMAIN loop : i \in DOMAIN loop' /\ loop'[i] = loop[i]
      /\ \A i \in DOMAIN loop' : i \notin DOMAIN loop =>
            loop'[i].item = x /\ Receives("tokens", r, loop'[i].to)
      /\ \A i, j \in DOMAIN loop' :
            i < j /\ loop'[i].to = loop'[j].to => i \in DOMAIN loop
  BY PublishEndEffect DEF Held
<1> HIDE DEF x
<1>2. /\ phase[r] = "ended" /\ pub[r].left = <<>>
      /\ phase' \in [Runs -> {"ready", "running", "ended", "answered"}]
      /\ phase'[r] = "answered"
      /\ \A q \in Runs : q # r => phase'[q] = phase[q]
  BY DEF PublishEnd, Idle, Shape
<1>3. /\ \A s \in Streams, q \in Runs : sent[Kind[s]][q] \in Nat /\ since[s][q] \in Nat
      /\ \A g \in Hubs, q \in Runs : sent[g][q] \in Nat
      /\ \A s \in Streams : Kind[s] \in Hubs
  BY SentTyped
<1>4. /\ \A s \in Streams : Carried(s) \subseteq Items
      /\ \A y \in Items : y.run \in Runs /\ y.n \in Nat /\ y.last \in BOOLEAN
  BY CarriedAreItems DEF Held
<1>5. \A s \in Streams :
          /\ Framed(s)' = Framed(s) /\ Queued(s)' = Queued(s)
          /\ Publishers(s)' = Publishers(s) /\ Pending(s)' = Pending(s)
          /\ r \notin Publishers(s)
          /\ Carried(s)' = Carried(s) \cup {y \in {x} : Receives("tokens", r, s)}
  BY <1>0, <1>1, <1>2 DEF Framed, Queued, Publishers, Pending, Carried, Range
<1>6. \A s \in Streams : \A y \in Carried(s) :
          /\ Belongs(s, y) /\ y.run \in Runs /\ y.n \in Nat
          /\ y.last /\ y.run = r => Kind[s] # "tokens"
  <2> SUFFICES ASSUME NEW s \in Streams, NEW y \in Carried(s)
               PROVE  Belongs(s, y) /\ (y.last /\ y.run = r => Kind[s] # "tokens")
    BY <1>4
  <2>1. Belongs(s, y)
    BY DEF Held, Addressed
  <2>2. Over(s, r) => Kind[s] # "tokens"
    BY <1>2 DEF Over
  <2> QED  BY <2>1, <2>2 DEF Belongs
<1>7. \A s \in Streams, q \in Runs :
          /\ sent'[Kind[s]][q] = IF Kind[s] = "tokens" /\ q = r
                                 THEN sent[Kind[s]][q] + 1 ELSE sent[Kind[s]][q]
          /\ sent[Kind[s]][q] <= sent'[Kind[s]][q]
  BY <1>1, <1>3
<1>8. Shape'
  BY <1>0, <1>1, <1>2 DEF Shape, PubTyped
<1>9. Counted'
  <2> SUFFICES ASSUME NEW q \in Runs
               PROVE  /\ phase'[q] = "ready" =>
                            pub[q].left = <<>> /\ \A g \in Hubs : sent'[g][q] = 0
                      /\ sent'["events"][q] <= MaxEvents
                      /\ phase'[q] = "running" => sent'["events"][q] < MaxEvents
                      /\ sent'["tokens"][q] <= MaxFragments + 1
                      /\ phase'[q] # "answered" => sent'["tokens"][q] <= MaxFragments
                      /\ \A s \in Streams : since[s][q] <= sent'[Kind[s]][q]
    BY <1>0 DEF Counted
  <2>0. "events" \in Hubs /\ "tokens" \in Hubs /\ "events" # "tokens"
    BY DEF Hubs
  <2>1. ASSUME NEW s \in Streams  PROVE  since[s][q] <= sent'[Kind[s]][q]
    <3>1. since[s][q] <= sent[Kind[s]][q]
      BY DEF Held, Counted
    <3>2. sent[Kind[s]][q] \in Nat /\ since[s][q] \in Nat
      BY <1>3
    <3>3. sent'[Kind[s]][q] \in {sent[Kind[s]][q], sent[Kind[s]][q] + 1}
      BY <1>7
    <3> QED  BY <3>1, <3>2, <3>3
  <2>2. CASE q # r
    <3>1. phase'[q] = phase[q] /\ \A g \in Hubs : sent'[g][q] = sent[g][q]
      BY <1>1, <1>2, <2>2
    <3> QED  BY <2>0, <2>1, <3>1 DEF Held, Counted
  <2>3. CASE q = r
    <3>1. /\ sent'["tokens"][q] = sent["tokens"][q] + 1
          /\ sent'["events"][q] = sent["events"][q]
          /\ sent["tokens"][q] \in Nat /\ MaxFragments \in Nat
      BY <1>1, <1>3, <2>0, <2>3, BoundsGiven
    <3>2. sent["tokens"][q] <= MaxFragments /\ sent["events"][q] <= MaxEvents
      BY <1>2, <2>3 DEF Held, Counted
    <3> QED  BY <1>2, <2>1, <2>3, <3>1, <3>2
  <2> QED  BY <2>2, <2>3
<1>10. RegistryHoldsOpenStreams'
  BY <1>0 DEF Held, RegistryHoldsOpenStreams
<1>11. Fresh'
  BY <1>0, <1>1, <1>5 DEF Held, Fresh, Receives
<1>12. Publishing'
  BY <1>0, <1>5, <1>7 DEF Held, Publishing
<1>13. Addressed'
  <2> SUFFICES ASSUME NEW s \in Streams, NEW y \in Carried(s)'
               PROVE  Belongs(s, y)'
    BY DEF Addressed
  <2>1. CASE y \in Carried(s)
    <3>1. /\ Belongs(s, y) /\ y.run \in Runs /\ y.n \in Nat
          /\ y.last /\ y.run = r => Kind[s] # "tokens"
      BY <1>6, <2>1
    <3>2. y.n <= sent'[Kind[s]][y.run]
      <4>1. sent'[Kind[s]][y.run] \in {sent[Kind[s]][y.run], sent[Kind[s]][y.run] + 1}
        BY <1>7, <3>1
      <4>2. sent[Kind[s]][y.run] \in Nat /\ y.n <= sent[Kind[s]][y.run]
        BY <1>3, <3>1 DEF Belongs
      <4> QED  BY <3>1, <4>1, <4>2
    <3>3. y.last => sent'[Kind[s]][y.run] = sent[Kind[s]][y.run]
      BY <1>7, <3>1
    <3>4. Over(s, y.run) => Over(s, y.run)'
      BY <1>0, <1>2, <3>1 DEF Over
    <3> QED  BY <1>0, <3>1, <3>2, <3>3, <3>4 DEF Belongs
  <2>2. CASE y = x /\ Receives("tokens", r, s)
    <3>1. Kind[s] = "tokens" /\ Under(s, r) /\ since[s][r] <= sent["tokens"][r]
      BY <2>2 DEF Receives, Held, Counted
    <3>2. since[s][r] < y.n /\ y.n = sent'[Kind[s]][r]
      BY <1>1, <1>3, <2>2, <3>1
    <3>3. Over(s, r)'
      BY <1>2 DEF Over
    <3>4. y.run = r /\ y.n \in Nat
      BY <1>1, <1>4, <2>2
    <3> QED  BY <1>0, <3>1, <3>2, <3>3, <3>4 DEF Belongs
  <2> QED  BY <1>5, <2>1, <2>2
<1>14. InOrder'
  <2>1. \A s \in Streams : Receives("tokens", r, s) => \A y \in Carried(s) : Ahead(y, x)
    <3> SUFFICES ASSUME NEW s \in Streams, Kind[s] = "tokens", NEW y \in Carried(s), y.run = r
                 PROVE  y.n < x.n
      BY <1>1 DEF Ahead, Receives
    <3>1. y.n <= sent["tokens"][r] /\ y.n \in Nat
      BY <1>6 DEF Belongs
    <3>2. sent["tokens"][r] \in Nat
      BY <1>3
    <3> QED  BY <1>1, <3>1, <3>2
  <2>2. \A s \in Streams : \A y \in Pending(s) : y.run # r
    BY <1>5 DEF Held, Publishing, Pending, Publishers
  <2>3. \A s \in Streams :
            /\ Before(Framed(s), Queued(s) \cup Scheduled(s)' \cup Pending(s))
            /\ Before(Queued(s), Scheduled(s)' \cup Pending(s))
            /\ Before(Scheduled(s)', Pending(s))
    <3> TAKE s \in Streams
    <3>1. /\ Before(Framed(s), Queued(s) \cup Scheduled(s) \cup Pending(s))
          /\ Before(Queued(s), Scheduled(s) \cup Pending(s))
          /\ Before(Scheduled(s), Pending(s))
      BY DEF Held, InOrder
    <3>2. \A y \in Scheduled(s)' : y \in Scheduled(s) \/ (y = x /\ Receives("tokens", r, s))
      BY <1>1
    <3>3. \A z \in Pending(s) : Ahead(x, z)
      BY <1>1, <2>2 DEF Ahead
    <3>4. Framed(s) \subseteq Carried(s) /\ Queued(s) \subseteq Carried(s)
      BY DEF Carried
    <3> QED  BY <2>1, <3>1, <3>2, <3>3, <3>4 DEF Before
  <2>4. ASSUME NEW i \in DOMAIN loop', NEW j \in DOMAIN loop',
               i < j, loop'[i].to = loop'[j].to
        PROVE  Ahead(loop'[i].item, loop'[j].item)
    <3>1. i \in DOMAIN loop /\ loop'[i] = loop[i]
      BY <1>1, <2>4
    <3>2. CASE j \in DOMAIN loop
      <4>1. loop'[j] = loop[j]
        BY <1>1, <3>2
      <4> QED  BY <2>4, <3>1, <3>2, <4>1 DEF Held, InOrder
    <3>3. CASE j \notin DOMAIN loop
      <4> DEFINE s == loop[i].to
      <4>1. loop'[j].item = x /\ Receives("tokens", r, s)
        BY <1>1, <2>4, <3>1, <3>3
      <4>2. s \in Streams
        <5>1. loop[i] \in Entries
          BY <3>1 DEF Shape
        <5> QED  BY <5>1 DEF Entries
      <4>3. loop[i].item \in Carried(s)
        BY <3>1 DEF Carried, Scheduled
      <4> QED  BY <2>1, <3>1, <4>1, <4>2, <4>3
    <3> QED  BY <3>2, <3>3
  <2> QED  BY <1>0, <1>5, <2>3, <2>4 DEF Held, InOrder, Before, Ahead
<1>15. Covered'
  <2> SUFFICES ASSUME NEW s \in Streams, NEW q \in Runs, state[s] = "open", Under(s, q),
                      NEW m \in (since[s][q] + 1)..sent'[Kind[s]][q]
               PROVE  \E y \in Carried(s)' : y.run = q /\ y.n = m
    BY <1>0 DEF Covered
  <2>1. CASE m \in (since[s][q] + 1)..sent[Kind[s]][q]
    BY <1>5, <2>1 DEF Held, Covered
  <2>2. CASE m \notin (since[s][q] + 1)..sent[Kind[s]][q]
    <3>1. sent[Kind[s]][q] \in Nat /\ since[s][q] \in Nat
      BY <1>3
    <3>2. Kind[s] = "tokens" /\ q = r /\ m = sent[Kind[s]][q] + 1
      BY <2>2, <3>1, <1>7
    <3>3. x \in Carried(s)'
      BY <1>5, <3>2 DEF Receives
    <3> QED  BY <1>1, <3>2, <3>3
  <2> QED  BY <2>1, <2>2
<1>16. FramesAreGapless'
  BY <1>0 DEF Held, FramesAreGapless
<1>17. TerminalFrameCloses'
  <2> SUFFICES ASSUME NEW s \in Streams, state[s] = "terminal"
               PROVE  LET f == frames[s]
                      IN  f[Len(f)].n = sent'[Kind[s]][f[Len(f)].run]
    BY <1>0 DEF Held, TerminalFrameCloses
  <2> DEFINE f == frames[s]
             y == f[Len(f)]
  <2>1. f # <<>> /\ y.last /\ y.n = sent[Kind[s]][y.run]
    BY DEF Held, TerminalFrameCloses
  <2>2. f \in Seq(Items)
    BY DEF Shape
  <2>3. Len(f) \in DOMAIN f
    BY <2>1, <2>2
  <2>4. y \in Carried(s)
    BY <2>3 DEF Carried, Framed, Range
  <2> HIDE DEF f, y
  <2>5. y.run \in Runs /\ (y.run = r => Kind[s] # "tokens")
    BY <1>6, <2>1, <2>4
  <2>6. y.n = sent'[Kind[s]][y.run]
    BY <1>7, <2>1, <2>5
  <2> QED  BY <2>6 DEF y, f
<1> QED  BY <1>8, <1>9, <1>10, <1>11, <1>12, <1>13, <1>14, <1>15, <1>16, <1>17 DEF Held

(* A turn of the loop.                                                     *)
LEMMA LoopTurnKeeps ==
    ASSUME Shape, Held, LoopTurn
    PROVE  Shape' /\ Held'
<1> DEFINE s == Head(loop).to
           x == Head(loop).item
<1>0. /\ scene' = scene /\ subs' = subs /\ pub' = pub /\ phase' = phase /\ sent' = sent
      /\ state' = state /\ frames' = frames /\ since' = since
      /\ RunId' = RunId /\ StreamId' = StreamId /\ Kind' = Kind
      /\ \A t, q : Under(t, q)' <=> Under(t, q)
  BY SceneStays DEF LoopTurn, stream, run
<1>1. /\ s \in Streams /\ x \in Items /\ x \in Scheduled(s)
      /\ loop' \in Seq(Entries)
      /\ queue' \in [Streams -> Seq(Items)]
      /\ \A t \in Streams :
            /\ Scheduled(t)' \subseteq Scheduled(t)
            /\ Scheduled(t) = Scheduled(t)' \cup {y \in {x} : t = s}
            /\ t # s => queue'[t] = queue[t]
            /\ t = s => \A y \in Scheduled(t)' : Ahead(x, y)
      /\ queue'[s] = IF state[s] = "open" THEN Append(queue[s], x) ELSE <<>>
      /\ \A i, j \in DOMAIN loop' :
            i < j /\ loop'[i].to = loop'[j].to => Ahead(loop'[i].item, loop'[j].item)
  BY LoopTurnEffect DEF Held
<1> HIDE DEF s, x
<1> DEFINE q == queue[s]
           m == Len(q)
<1>2. /\ q \in Seq(Items) /\ Append(q, x) \in Seq(Items)
      /\ m \in Nat /\ DOMAIN q = 1..m
      /\ DOMAIN Append(q, x) = 1..(m + 1)
      /\ \A i \in 1..m : Append(q, x)[i] = q[i]
      /\ Append(q, x)[m + 1] = x
      /\ Range(Append(q, x)) = Range(q) \cup {x}
  <2>1. q \in Seq(Items)
    BY <1>1 DEF Shape
  <2> QED  BY <1>1, <2>1, AppendFacts
<1>3. Range(<<>>) = {} /\ DOMAIN <<>> = {}
  BY DEF Range
<1>4. /\ \A t \in Streams : Framed(t)' = Framed(t) /\ Publishers(t)' = Publishers(t)
                            /\ Pending(t)' = Pending(t)
      /\ \A t \in Streams : t # s => Queued(t)' = Queued(t)
      /\ \A t \in Streams : t = s =>
            Queued(t)' = IF state[s] = "open" THEN Queued(t) \cup {x} ELSE {}
  <2>1. \A t \in Streams : Queued(t)' = Range(queue'[t]) /\ Queued(t) = Range(queue[t])
    BY DEF Queued
  <2>2. Range(queue'[s]) = IF state[s] = "open" THEN Range(q) \cup {x} ELSE {}
    <3> HIDE DEF q
    <3>1. CASE state[s] = "open"
      BY <1>1, <1>2, <3>1 DEF q
    <3>2. CASE state[s] # "open"
      BY <1>1, <1>3, <3>2
    <3> QED  BY <3>1, <3>2
  <2> QED  BY <1>0, <1>1, <2>1, <2>2 DEF Framed, Publishers, Pending
<1>5. \A t \in Streams :
          /\ Carried(t)' \subseteq Carried(t)
          /\ state[t] = "open" => Carried(t)' = Carried(t)
  BY <1>1, <1>4 DEF Carried
<1>6. Shape'
  BY <1>0, <1>1 DEF Shape, PubTyped
<1>7. Counted'
  BY <1>0 DEF Held, Counted
<1>8. RegistryHoldsOpenStreams'
  BY <1>0 DEF Held, RegistryHoldsOpenStreams
<1>9. Fresh'
  <2>1. state[s] # "new"
    BY <1>1 DEF Held, Fresh
  <2> QED  BY <1>0, <1>1, <1>4, <2>1 DEF Held, Fresh
<1>10. Publishing'
  BY <1>0, <1>4 DEF Held, Publishing
<1>11. Addressed'
  BY <1>0, <1>5, AddressedStays DEF Held
<1>12. InOrder'
  <2>1. ASSUME NEW t \in Streams
        PROVE  /\ Before(Framed(t), Queued(t)' \cup Scheduled(t)' \cup Pending(t))
               /\ Before(Queued(t)', Scheduled(t)' \cup Pending(t))
               /\ Before(Scheduled(t)', Pending(t))
    <3>1. /\ Before(Framed(t), Queued(t) \cup Scheduled(t) \cup Pending(t))
          /\ Before(Queued(t), Scheduled(t) \cup Pending(t))
          /\ Before(Scheduled(t), Pending(t))
      BY DEF Held, InOrder
    <3>2. /\ Scheduled(t)' \subseteq Scheduled(t)
          /\ \A y \in Queued(t)' : y \in Queued(t) \/ (t = s /\ y = x)
      BY <1>1, <1>4
    <3>3. t = s => x \in Scheduled(t) /\ \A y \in Scheduled(t)' : Ahead(x, y)
      BY <1>1
    <3> QED  BY <3>1, <3>2, <3>3 DEF Before
  <2>2. ASSUME NEW t \in Streams, NEW i \in DOMAIN queue'[t], NEW j \in DOMAIN queue'[t], i < j
        PROVE  Ahead(queue'[t][i], queue'[t][j])
    <3>1. CASE t # s
      BY <1>1, <2>2, <3>1 DEF Held, InOrder
    <3>2. CASE t = s /\ state[s] # "open"
      <4>1. queue'[t] = <<>>
        BY <1>1, <3>2
      <4> QED  BY <1>3, <2>2, <4>1
    <3>3. CASE t = s /\ state[s] = "open"
      <4>1. queue'[t] = Append(q, x)
        BY <1>1, <3>3
      <4>2. i \in 1..m /\ (j \in 1..m \/ j = m + 1)
        BY <1>2, <2>2, <4>1
      <4>3. CASE j \in 1..m
        <5>1. Ahead(q[i], q[j])
          BY <1>1, <1>2, <2>2, <4>2, <4>3 DEF Held, InOrder
        <5> QED  BY <1>2, <4>1, <4>2, <4>3, <5>1
      <4>4. CASE j = m + 1
        <5>1. q[i] \in Queued(s)
          BY <1>2, <4>2 DEF Queued, Range
        <5>2. Ahead(q[i], x)
          BY <1>1, <5>1 DEF Held, InOrder, Before
        <5> QED  BY <1>2, <4>1, <4>2, <4>4, <5>2
      <4> QED  BY <4>2, <4>3, <4>4
    <3> QED  BY <3>1, <3>2, <3>3
  <2> QED  BY <1>1, <1>4, <2>1, <2>2 DEF InOrder, Before, Ahead
<1>13. Covered'
  BY <1>0, <1>5 DEF Held, Covered
<1>14. FramesAreGapless'
  BY <1>0 DEF Held, FramesAreGapless
<1>15. TerminalFrameCloses'
  BY <1>0 DEF Held, TerminalFrameCloses
<1> QED  BY <1>6, <1>7, <1>8, <1>9, <1>10, <1>11, <1>12, <1>13, <1>14, <1>15 DEF Held

(* A stream that is opened follows from here.                              *)
LEMMA OpenKeeps ==
    ASSUME Shape, Held, NEW s \in Streams, Open(s)
    PROVE  Shape' /\ Held'
<1>0. /\ scene' = scene /\ loop' = loop /\ pub' = pub /\ phase' = phase /\ sent' = sent
      /\ queue' = queue /\ frames' = frames /\ state[s] = "new"
      /\ RunId' = RunId /\ StreamId' = StreamId /\ Kind' = Kind
      /\ \A t, q : Under(t, q)' <=> Under(t, q)
  BY SceneStays DEF Open, run
<1>1. /\ subs' \in [Hubs -> [Ids -> Seq(Streams)]]
      /\ state' \in [Streams -> {"new", "open", "terminal", "idle", "gone"}]
      /\ state'[s] = "open"
      /\ \A t \in Streams : t # s => state'[t] = state[t]
      /\ since' \in [Streams -> [Runs -> Nat]]
      /\ since'[s] = sent[Kind[s]]
      /\ \A t \in Streams : t # s => since'[t] = since[t]
      /\ RegistryHoldsOpenStreams'
  BY OpenEffect DEF Held
<1>2. /\ \A t \in Streams, q \in Runs : sent[Kind[t]][q] \in Nat /\ since[t][q] \in Nat
      /\ \A g \in Hubs, q \in Runs : sent[g][q] \in Nat
      /\ \A t \in Streams : Kind[t] \in Hubs
  BY SentTyped
<1>3. \A t \in Streams :
          /\ Framed(t)' = Framed(t) /\ Queued(t)' = Queued(t) /\ Scheduled(t)' = Scheduled(t)
          /\ Publishers(t)' = Publishers(t) /\ Pending(t)' = Pending(t)
          /\ Carried(t)' = Carried(t)
  BY <1>0 DEF Framed, Queued, Scheduled, Publishers, Pending, Carried
<1>4. Carried(s) = {}
  BY <1>0 DEF Held, Fresh, Carried, Pending
<1>5. DOMAIN frames[s] = {}
  BY <1>0 DEF Held, Fresh, Framed, Range
<1>6. Shape'
  BY <1>0, <1>1 DEF Shape, PubTyped
<1>7. Counted'
  <2>1. \A t \in Streams, q \in Runs : since'[t][q] <= sent[Kind[t]][q]
    <3> SUFFICES ASSUME NEW t \in Streams, NEW q \in Runs
                 PROVE  since'[t][q] <= sent[Kind[t]][q]
      OBVIOUS
    <3>1. CASE t = s
      BY <1>1, <1>2, <3>1
    <3>2. CASE t # s
      BY <1>1, <3>2 DEF Held, Counted
    <3> QED  BY <3>1, <3>2
  <2> QED  BY <1>0, <2>1 DEF Held, Counted
<1>8. Fresh'
  BY <1>1, <1>3 DEF Held, Fresh
<1>9. Publishing'
  BY <1>0, <1>3 DEF Held, Publishing
<1>10. Addressed'
  <2> SUFFICES ASSUME NEW t \in Streams, NEW y \in Carried(t)'  PROVE  Belongs(t, y)'
    BY DEF Addressed
  <2>1. Belongs(t, y) /\ t # s
    BY <1>3, <1>4 DEF Held, Addressed
  <2>2. Over(t, y.run)' <=> Over(t, y.run)
    BY <1>0 DEF Over
  <2> QED  BY <1>0, <1>1, <2>1, <2>2 DEF Belongs
<1>11. InOrder'
  BY <1>0, <1>3 DEF Held, InOrder, Before, Ahead
<1>12. Covered'
  <2> SUFFICES ASSUME NEW t \in Streams, NEW q \in Runs, state'[t] = "open", Under(t, q),
                      NEW m \in (since'[t][q] + 1)..sent[Kind[t]][q]
               PROVE  \E y \in Carried(t) : y.run = q /\ y.n = m
    BY <1>0, <1>3 DEF Covered
  <2>1. t # s
    <3> SUFFICES ASSUME t = s  PROVE  FALSE
      OBVIOUS
    <3>1. since'[t][q] = sent[Kind[t]][q]
      BY <1>1
    <3>2. sent[Kind[t]][q] \in Nat
      BY <1>2
    <3> QED  BY <3>1, <3>2
  <2>2. state[t] = "open" /\ since'[t] = since[t]
    BY <1>1, <2>1
  <2>3. m \in (since[t][q] + 1)..sent[Kind[t]][q]
    BY <2>2
  <2> QED  BY <2>2, <2>3 DEF Held, Covered
<1>13. FramesAreGapless'
  <2> SUFFICES ASSUME NEW t \in Streams, t # s
               PROVE  \A i \in DOMAIN frames[t] :
                        LET r == frames[t][i].run
                            before == {j \in 1..(i - 1) : frames[t][j].run = r}
                        IN  /\ RunId[r] = StreamId[t]
                            /\ frames[t][i].n > since'[t][r]
                            /\ \A j \in before : frames[t][j].n < frames[t][i].n
                            /\ \A m \in (since'[t][r] + 1)..(frames[t][i].n - 1) :
                                  \E j \in before : frames[t][j].n = m
    BY <1>0, <1>5 DEF FramesAreGapless
  <2>1. since'[t] = since[t]
    BY <1>1
  <2> QED  BY <2>1 DEF Held, FramesAreGapless
<1>14. TerminalFrameCloses'
  <2> SUFFICES ASSUME NEW t \in Streams
               PROVE  LET f == frames[t]
                      IN  /\ \A i \in DOMAIN f : f[i].last =>
                                i = Len(f) /\ state'[t] = "terminal"
                          /\ state'[t] = "terminal" =>
                                /\ f # <<>> /\ f[Len(f)].last
                                /\ f[Len(f)].n = sent[Kind[t]][f[Len(f)].run]
    BY <1>0 DEF TerminalFrameCloses
  <2>1. CASE t = s
    BY <1>1, <1>5, <2>1
  <2>2. CASE t # s
    BY <1>1, <2>2 DEF Held, TerminalFrameCloses
  <2> QED  BY <2>1, <2>2
<1> QED  BY <1>1, <1>6, <1>7, <1>8, <1>9, <1>10, <1>11, <1>12, <1>13, <1>14 DEF Held

(* A stream that closes without a terminal frame keeps what it yielded.    *)
LEMMA CloseKeeps ==
    ASSUME Shape, Held, NEW s \in Streams, state[s] = "open",
           NEW how \in {"idle", "gone"}, Close(s, how),
           queue' = queue \/ queue' = [queue EXCEPT ![s] = <<>>],
           UNCHANGED <<run, pub, loop, frames, since, scene>>
    PROVE  Shape' /\ Held'
<1>0. /\ scene' = scene /\ loop' = loop /\ pub' = pub /\ phase' = phase /\ sent' = sent
      /\ frames' = frames /\ since' = since
      /\ RunId' = RunId /\ StreamId' = StreamId /\ Kind' = Kind
      /\ \A t, q : Under(t, q)' <=> Under(t, q)
  BY SceneStays DEF run
<1>1. /\ subs' \in [Hubs -> [Ids -> Seq(Streams)]]
      /\ state' \in [Streams -> {"new", "open", "terminal", "idle", "gone"}]
      /\ state'[s] = how
      /\ \A t \in Streams : t # s => state'[t] = state[t]
      /\ RegistryHoldsOpenStreams'
  BY <1>0, CloseEffect DEF Held
<1>2. /\ queue' \in [Streams -> Seq(Items)]
      /\ \A t \in Streams : queue'[t] = queue[t] \/ (t = s /\ queue'[t] = <<>>)
  <2>1. queue \in [Streams -> Seq(Items)] /\ <<>> \in Seq(Items)
    BY DEF Shape
  <2> QED  BY <2>1
<1>3. Range(<<>>) = {} /\ DOMAIN <<>> = {}
  BY DEF Range
<1>4. \A t \in Streams :
          /\ Framed(t)' = Framed(t) /\ Scheduled(t)' = Scheduled(t)
          /\ Publishers(t)' = Publishers(t) /\ Pending(t)' = Pending(t)
          /\ Queued(t)' \subseteq Queued(t)
          /\ t # s => Queued(t)' = Queued(t)
  BY <1>0, <1>2, <1>3 DEF Framed, Queued, Scheduled, Publishers, Pending
<1>5. \A t \in Streams : /\ Carried(t)' \subseteq Carried(t)
                         /\ t # s => Carried(t)' = Carried(t)
  BY <1>4 DEF Carried
<1>6. Shape'
  BY <1>0, <1>1, <1>2 DEF Shape, PubTyped
<1>7. Counted'
  BY <1>0 DEF Held, Counted
<1>8. Fresh'
  BY <1>1, <1>4 DEF Held, Fresh
<1>9. Publishing'
  BY <1>0, <1>4 DEF Held, Publishing
<1>10. Addressed'
  BY <1>0, <1>5, AddressedStays DEF Held
<1>11. InOrder'
  <2>1. ASSUME NEW t \in Streams
        PROVE  /\ Before(Framed(t), Queued(t)' \cup Scheduled(t) \cup Pending(t))
               /\ Before(Queued(t)', Scheduled(t) \cup Pending(t))
               /\ Before(Scheduled(t), Pending(t))
    BY <1>4 DEF Held, InOrder, Before
  <2>2. ASSUME NEW t \in Streams, NEW i \in DOMAIN queue'[t], NEW j \in DOMAIN queue'[t], i < j
        PROVE  Ahead(queue'[t][i], queue'[t][j])
    BY <1>2, <1>3, <2>2 DEF Held, InOrder
  <2>3. \A i, j \in DOMAIN loop :
            i < j /\ loop[i].to = loop[j].to => Ahead(loop[i].item, loop[j].item)
    BY DEF Held, InOrder
  <2> QED  BY <1>0, <1>4, <2>1, <2>2, <2>3 DEF InOrder, Before, Ahead
<1>12. Covered'
  <2> SUFFICES ASSUME NEW t \in Streams, NEW q \in Runs, state'[t] = "open", Under(t, q),
                      NEW m \in (since[t][q] + 1)..sent[Kind[t]][q]
               PROVE  \E y \in Carried(t)' : y.run = q /\ y.n = m
    BY <1>0 DEF Covered
  <2>1. t # s /\ state[t] = "open" /\ Carried(t)' = Carried(t)
    BY <1>1, <1>5
  <2> QED  BY <2>1 DEF Held, Covered
<1>13. FramesAreGapless'
  BY <1>0 DEF Held, FramesAreGapless
<1>14. TerminalFrameCloses'
  <2> SUFFICES ASSUME NEW t \in Streams
               PROVE  LET f == frames[t]
                      IN  /\ \A i \in DOMAIN f : f[i].last =>
                                i = Len(f) /\ state'[t] = "terminal"
                          /\ state'[t] = "terminal" =>
                                /\ f # <<>> /\ f[Len(f)].last
                                /\ f[Len(f)].n = sent[Kind[t]][f[Len(f)].run]
    BY <1>0 DEF TerminalFrameCloses
  <2>1. CASE t = s
    BY <1>1, <2>1 DEF Held, TerminalFrameCloses
  <2>2. CASE t # s
    BY <1>1, <2>2 DEF Held, TerminalFrameCloses
  <2> QED  BY <2>1, <2>2
<1> QED  BY <1>1, <1>6, <1>7, <1>8, <1>9, <1>10, <1>11, <1>12, <1>13, <1>14 DEF Held

(* A frame: the next in order, and nothing between it and the one before.  *)
LEMMA FrameKeeps ==
    ASSUME Shape, Held, NEW s \in Streams, Frame(s)
    PROVE  Shape' /\ Held'
<1> DEFINE x == Head(queue[s])
           f == frames[s]
           m == Len(f)
<1>0. /\ scene' = scene /\ loop' = loop /\ pub' = pub /\ phase' = phase /\ sent' = sent
      /\ since' = since /\ state[s] = "open"
      /\ RunId' = RunId /\ StreamId' = StreamId /\ Kind' = Kind
      /\ \A t, q : Under(t, q)' <=> Under(t, q)
  BY SceneStays DEF Frame, run
<1>1. /\ x \in Items /\ x \in Queued(s)
      /\ frames' \in [Streams -> Seq(Items)]
      /\ queue' \in [Streams -> Seq(Items)]
      /\ frames'[s] = Append(f, x)
      /\ \A t \in Streams : t # s => frames'[t] = frames[t] /\ queue'[t] = queue[t]
      /\ \A t \in Streams :
            /\ Framed(t)' = Framed(t) \cup {y \in {x} : t = s}
            /\ Queued(t)' \subseteq Queued(t)
            /\ ~(t = s /\ x.last) => Queued(t) = Queued(t)' \cup {y \in {x} : t = s}
            /\ t = s => \A y \in Queued(t) : y = x \/ Ahead(x, y)
            /\ t = s => \A y \in Queued(t)' : Ahead(x, y)
            /\ \A i, j \in DOMAIN queue'[t] :
                  i < j => Ahead(queue'[t][i], queue'[t][j])
  BY FrameEffect DEF Held
<1>2. /\ subs' \in [Hubs -> [Ids -> Seq(Streams)]]
      /\ state' \in [Streams -> {"new", "open", "terminal", "idle", "gone"}]
      /\ state'[s] = IF x.last THEN "terminal" ELSE "open"
      /\ \A t \in Streams : t # s => state'[t] = state[t]
      /\ RegistryHoldsOpenStreams'
  <2>1. CASE x.last
    <3>1. Close(s, "terminal")
      BY <2>1 DEF Frame
    <3> QED  BY <1>0, <2>1, <3>1, CloseEffect DEF Held
  <2>2. CASE ~x.last
    <3>1. state' = state /\ subs' = subs
      BY <2>2 DEF Frame
    <3> QED  BY <1>0, <2>2, <3>1 DEF Shape, Held, RegistryHoldsOpenStreams
  <2> QED  BY <2>1, <2>2
<1>3. /\ f \in Seq(Items) /\ m \in Nat /\ DOMAIN f = 1..m
      /\ DOMAIN Append(f, x) = 1..(m + 1)
      /\ Len(Append(f, x)) = m + 1 /\ Append(f, x) # <<>>
      /\ \A i \in 1..m : Append(f, x)[i] = f[i]
      /\ Append(f, x)[m + 1] = x
  <2>1. f \in Seq(Items)
    BY DEF Shape
  <2> QED  BY <1>1, <2>1, AppendFacts
<1> HIDE DEF x, f, m
<1>4. /\ \A t \in Streams : Carried(t) \subseteq Items
      /\ \A y \in Items : y.run \in Runs /\ y.n \in Nat /\ y.last \in BOOLEAN
  BY CarriedAreItems DEF Held
<1>5. /\ \A t \in Streams, q \in Runs : sent[Kind[t]][q] \in Nat /\ since[t][q] \in Nat
      /\ \A g \in Hubs, q \in Runs : sent[g][q] \in Nat
      /\ \A t \in Streams : Kind[t] \in Hubs
  BY SentTyped
<1>6. \A t \in Streams :
          /\ Scheduled(t)' = Scheduled(t)
          /\ Publishers(t)' = Publishers(t) /\ Pending(t)' = Pending(t)
          /\ Carried(t)' \subseteq Carried(t)
          /\ ~(t = s /\ x.last) => Carried(t)' = Carried(t)
  <2>1. \A t \in Streams :
            /\ Scheduled(t)' = Scheduled(t)
            /\ Publishers(t)' = Publishers(t) /\ Pending(t)' = Pending(t)
    BY <1>0 DEF Scheduled, Publishers, Pending
  <2> QED  BY <1>1, <2>1 DEF Carried
<1>7. Belongs(s, x) /\ x \in Carried(s) /\ x.run \in Runs /\ x.n \in Nat
  BY <1>1, <1>4 DEF Held, Addressed, Carried
<1>8. Shape'
  BY <1>0, <1>1, <1>2 DEF Shape, PubTyped
<1>9. Counted'
  BY <1>0 DEF Held, Counted
<1>10. Fresh'
  <2>1. ASSUME NEW t \in Streams, state'[t] = "new"  PROVE  t # s /\ state[t] = "new"
    BY <1>0, <1>2, <2>1
  <2> QED  BY <1>1, <1>6, <2>1 DEF Held, Fresh
<1>11. Publishing'
  BY <1>0, <1>6 DEF Held, Publishing
<1>12. Addressed'
  BY <1>0, <1>6, AddressedStays DEF Held
<1>13. InOrder'
  <2>1. ASSUME NEW t \in Streams
        PROVE  /\ Before(Framed(t)', Queued(t)' \cup Scheduled(t) \cup Pending(t))
               /\ Before(Queued(t)', Scheduled(t) \cup Pending(t))
               /\ Before(Scheduled(t), Pending(t))
    <3>1. /\ Before(Framed(t), Queued(t) \cup Scheduled(t) \cup Pending(t))
          /\ Before(Queued(t), Scheduled(t) \cup Pending(t))
          /\ Before(Scheduled(t), Pending(t))
      BY DEF Held, InOrder
    <3>2. /\ Queued(t)' \subseteq Queued(t)
          /\ \A y \in Framed(t)' : y \in Framed(t) \/ (t = s /\ y = x)
      BY <1>1
    <3>3. t = s => x \in Queued(t) /\ \A y \in Queued(t)' : Ahead(x, y)
      BY <1>1
    <3> QED  BY <3>1, <3>2, <3>3 DEF Before
  <2>2. \A i, j \in DOMAIN loop :
            i < j /\ loop[i].to = loop[j].to => Ahead(loop[i].item, loop[j].item)
    BY DEF Held, InOrder
  <2> QED  BY <1>0, <1>1, <1>6, <2>1, <2>2 DEF InOrder, Before, Ahead
<1>14. Covered'
  <2> SUFFICES ASSUME NEW t \in Streams, NEW q \in Runs, state'[t] = "open", Under(t, q),
                      NEW n \in (since[t][q] + 1)..sent[Kind[t]][q]
               PROVE  \E y \in Carried(t)' : y.run = q /\ y.n = n
    BY <1>0 DEF Covered
  <2>1. state[t] = "open" /\ Carried(t)' = Carried(t)
    BY <1>0, <1>2, <1>6
  <2> QED  BY <2>1 DEF Held, Covered
<1>15. FramesAreGapless'
  <2> SUFFICES ASSUME NEW t \in Streams, NEW i \in DOMAIN frames'[t]
               PROVE  LET r == frames'[t][i].run
                          before == {j \in 1..(i - 1) : frames'[t][j].run = r}
                      IN  /\ RunId[r] = StreamId[t]
                          /\ frames'[t][i].n > since[t][r]
                          /\ \A j \in before : frames'[t][j].n < frames'[t][i].n
                          /\ \A n \in (since[t][r] + 1)..(frames'[t][i].n - 1) :
                                \E j \in before : frames'[t][j].n = n
    BY <1>0 DEF FramesAreGapless
  <2>1. CASE t # s
    <3>1. frames'[t] = frames[t]
      BY <1>1, <2>1
    <3> QED  BY <3>1 DEF Held, FramesAreGapless
  <2>2. CASE t = s /\ i \in 1..m
    <3>1. /\ \A j \in 1..(i - 1) : j \in 1..m
          /\ i \in DOMAIN f
      BY <1>3, <2>2
    <3>2. frames'[t][i] = f[i] /\ \A j \in 1..(i - 1) : frames'[t][j] = f[j]
      BY <1>1, <1>3, <2>2, <3>1
    <3>3. LET r == f[i].run
              before == {j \in 1..(i - 1) : f[j].run = r}
          IN  /\ RunId[r] = StreamId[s]
              /\ f[i].n > since[s][r]
              /\ \A j \in before : f[j].n < f[i].n
              /\ \A n \in (since[s][r] + 1)..(f[i].n - 1) : \E j \in before : f[j].n = n
      BY <3>1 DEF Held, FramesAreGapless, f
    <3> QED  BY <2>2, <3>2, <3>3
  <2>3. CASE t = s /\ i = m + 1
    <3>1. /\ frames'[t][i] = x
          /\ i - 1 = m
          /\ \A j \in 1..m : frames'[t][j] = f[j] /\ f[j] \in Framed(s)
      <4>1. frames'[t] = Append(f, x)
        BY <1>1, <2>3
      <4>2. i - 1 = m
        BY <1>3, <2>3
      <4>3. \A j \in 1..m : f[j] \in Framed(s)
        BY <1>3 DEF Framed, Range, f
      <4> QED  BY <1>3, <2>3, <4>1, <4>2, <4>3
    <3>2. RunId[x.run] = StreamId[s] /\ x.n > since[s][x.run]
      BY <1>5, <1>7 DEF Belongs, Under
    <3>3. ASSUME NEW j \in 1..m, f[j].run = x.run  PROVE  f[j].n < x.n
      BY <1>1, <3>1, <3>3 DEF Held, InOrder, Before, Ahead
    <3>4. ASSUME NEW n \in (since[s][x.run] + 1)..(x.n - 1)
          PROVE  \E j \in 1..m : f[j].run = x.run /\ f[j].n = n
      <4>1. x.n <= sent[Kind[s]][x.run] /\ sent[Kind[s]][x.run] \in Nat
            /\ since[s][x.run] \in Nat
        BY <1>5, <1>7 DEF Belongs
      <4>2. n \in (since[s][x.run] + 1)..sent[Kind[s]][x.run] /\ n < x.n /\ ~(x.n < n)
            /\ n # x.n
        BY <1>7, <4>1
      <4>3. PICK y \in Carried(s) : y.run = x.run /\ y.n = n
        BY <1>0, <1>7, <3>2, <4>2 DEF Held, Covered, Under
      <4>4. y \notin Queued(s)
        BY <1>1, <4>2, <4>3 DEF Ahead
      <4>5. y \notin Scheduled(s) \cup Pending(s)
        BY <1>1, <4>2, <4>3 DEF Held, InOrder, Before, Ahead
      <4>6. y \in Framed(s)
        BY <4>4, <4>5 DEF Carried
      <4> QED  BY <1>3, <4>3, <4>6 DEF Framed, Range, f
    <3> QED  BY <2>3, <3>1, <3>2, <3>3, <3>4
  <2>4. t = s => i \in 1..m \/ i = m + 1
    BY <1>1, <1>3
  <2> QED  BY <2>1, <2>2, <2>3, <2>4
<1>16. TerminalFrameCloses'
  <2> SUFFICES ASSUME NEW t \in Streams
               PROVE  LET g == frames'[t]
                      IN  /\ \A i \in DOMAIN g : g[i].last =>
                                i = Len(g) /\ state'[t] = "terminal"
                          /\ state'[t] = "terminal" =>
                                /\ g # <<>> /\ g[Len(g)].last
                                /\ g[Len(g)].n = sent[Kind[t]][g[Len(g)].run]
    BY <1>0 DEF TerminalFrameCloses
  <2>1. CASE t # s
    <3>1. frames'[t] = frames[t] /\ state'[t] = state[t]
      BY <1>1, <1>2, <2>1
    <3> QED  BY <3>1 DEF Held, TerminalFrameCloses
  <2>2. CASE t = s
    <3> DEFINE g == frames'[t]
    <3>1. /\ DOMAIN g = 1..(m + 1) /\ Len(g) = m + 1 /\ g # <<>>
          /\ \A i \in 1..m : g[i] = f[i]
          /\ g[m + 1] = x
      BY <1>1, <1>3, <2>2
    <3>2. \A i \in 1..m : ~f[i].last
      BY <1>0, <1>3 DEF Held, TerminalFrameCloses, f
    <3>3. \A i \in 1..(m + 1) : i \in 1..m \/ i = m + 1
      BY <1>3
    <3>4. x.last => x.n = sent[Kind[s]][x.run]
      BY <1>7 DEF Belongs
    <3> HIDE DEF g
    <3>5. /\ \A i \in DOMAIN g : g[i].last => i = Len(g) /\ state'[t] = "terminal"
          /\ state'[t] = "terminal" =>
                /\ g # <<>> /\ g[Len(g)].last
                /\ g[Len(g)].n = sent[Kind[t]][g[Len(g)].run]
      BY <1>2, <2>2, <3>1, <3>2, <3>3, <3>4
    <3> QED  BY <3>5 DEF g
  <2> QED  BY <2>1, <2>2
<1> QED  BY <1>2, <1>8, <1>9, <1>10, <1>11, <1>12, <1>13, <1>14, <1>15, <1>16 DEF Held

(* A run refused at the door or at the API boundary publishes nothing.     *)
LEMMA RefusalKeeps ==
    ASSUME Shape, Held, NEW r \in Runs, RejectOnWire(r) \/ RefuseAtBoundary(r)
    PROVE  Shape' /\ Held'
<1>0. /\ scene' = scene /\ loop' = loop /\ pub' = pub /\ sent' = sent /\ queue' = queue
      /\ frames' = frames /\ since' = since /\ state' = state /\ subs' = subs
      /\ RunId' = RunId /\ StreamId' = StreamId /\ Kind' = Kind
      /\ \A t, q : Under(t, q)' <=> Under(t, q)
  <2>1. scene' = scene
    BY DEF RejectOnWire, RefuseAtBoundary
  <2> QED  BY <2>1, SceneStays DEF RejectOnWire, RefuseAtBoundary, stream
<1>1. /\ phase[r] = "ready" /\ phase'[r] \in {"ended", "answered"}
      /\ phase' \in [Runs -> {"ready", "running", "ended", "answered"}]
      /\ \A q \in Runs : q # r => phase'[q] = phase[q]
  BY DEF RejectOnWire, RefuseAtBoundary, Posted, Shape
<1>2. \A t \in Streams :
          /\ Framed(t)' = Framed(t) /\ Queued(t)' = Queued(t) /\ Scheduled(t)' = Scheduled(t)
          /\ Publishers(t)' = Publishers(t) /\ Pending(t)' = Pending(t)
          /\ Carried(t)' = Carried(t)
  BY <1>0 DEF Framed, Queued, Scheduled, Publishers, Pending, Carried
<1>3. Shape'
  BY <1>0, <1>1 DEF Shape, PubTyped
<1>4. Counted'
  <2> SUFFICES ASSUME NEW q \in Runs
               PROVE  /\ phase'[q] = "ready" => phase[q] = "ready"
                      /\ phase'[q] = "running" => phase[q] = "running"
                      /\ phase'[q] # "answered" => phase[q] # "answered"
    BY <1>0 DEF Held, Counted
  <2> QED  BY <1>1
<1>5. Addressed'
  <2> SUFFICES ASSUME NEW t \in Streams, NEW y \in Carried(t)'  PROVE  Belongs(t, y)'
    BY DEF Addressed
  <2>1. Belongs(t, y) /\ y.run \in Runs
    BY <1>2, CarriedAreItems DEF Held, Addressed
  <2>2. Over(t, y.run) => Over(t, y.run)'
    BY <1>0, <1>1, <2>1 DEF Over
  <2> QED  BY <1>0, <2>1, <2>2 DEF Belongs
<1>6. RegistryHoldsOpenStreams' /\ FramesAreGapless' /\ TerminalFrameCloses'
  BY <1>0 DEF Held, RegistryHoldsOpenStreams, FramesAreGapless, TerminalFrameCloses
<1>7. Fresh' /\ Publishing' /\ Covered'
  BY <1>0, <1>2 DEF Held, Fresh, Publishing, Covered
<1>8. InOrder'
  BY <1>0, <1>2 DEF Held, InOrder, Before, Ahead
<1> QED  BY <1>3, <1>4, <1>5, <1>6, <1>7, <1>8 DEF Held

(* A publish of the run's thread.                                          *)
LEMMA RunPublishKeeps ==
    ASSUME Shape, Held, NEW r \in Runs,
           Begin(r) \/ Event(r) \/ Finish(r) \/ Fragment(r)
    PROVE  Shape' /\ Held'
<1>0. /\ MaxEvents \in Nat \ {0, 1} /\ MaxFragments \in Nat
      /\ "events" \in Hubs /\ "tokens" \in Hubs /\ "events" # "tokens"
  BY BoundsGiven DEF Hubs
<1>1. /\ sent["events"][r] \in Nat /\ sent["tokens"][r] \in Nat
      /\ sent["events"][r] <= MaxEvents
      /\ phase[r] = "running" => sent["events"][r] < MaxEvents
      /\ phase[r] # "answered" => sent["tokens"][r] <= MaxFragments
      /\ phase[r] = "ready" => Idle(r) /\ sent["events"][r] = 0
  BY <1>0, SentTyped DEF Held, Counted, Idle
<1>2. phase \in [Runs -> {"ready", "running", "ended", "answered"}]
      /\ sent \in [Hubs -> [Runs -> Nat]]
  BY DEF Shape
<1>3. CASE Begin(r)
  <2>1. /\ phase[r] = "ready" /\ Idle(r) /\ Snapshot("events", r, FALSE)
        /\ phase' = [phase EXCEPT ![r] = "running"]
        /\ UNCHANGED <<subs, loop, queue, stream, since, scene>>
    BY <1>1, <1>3 DEF Begin, Posted
  <2>2. /\ sent'["events"][r] = sent["events"][r] + 1
        /\ sent'["tokens"][r] = sent["tokens"][r]
    BY <1>0, <1>2, <2>1 DEF Snapshot
  <2>3. sent'["events"][r] <= MaxEvents /\ sent'["events"][r] < MaxEvents
        /\ sent'["tokens"][r] <= MaxFragments
    BY <1>0, <1>1, <2>1, <2>2
  <2>4. /\ phase' \in [Runs -> {"ready", "running", "ended", "answered"}]
        /\ \A q \in Runs : q # r => phase'[q] = phase[q]
        /\ phase'[r] = "running"
    BY <1>2, <2>1
  <2> QED  BY <1>0, <2>1, <2>3, <2>4, PublishKeeps
<1>4. CASE Event(r)
  <2>1. /\ phase[r] = "running" /\ Idle(r) /\ Snapshot("events", r, FALSE)
        /\ sent["events"][r] < MaxEvents - 1
        /\ phase' = phase
        /\ UNCHANGED <<subs, loop, queue, stream, since, scene>>
    BY <1>4 DEF Event
  <2>2. /\ sent'["events"][r] = sent["events"][r] + 1
        /\ sent'["tokens"][r] = sent["tokens"][r]
    BY <1>0, <1>2, <2>1 DEF Snapshot
  <2>3. sent'["events"][r] <= MaxEvents /\ sent'["events"][r] < MaxEvents
        /\ sent'["tokens"][r] <= MaxFragments
    BY <1>0, <1>1, <2>1, <2>2
  <2> QED  BY <1>0, <1>2, <2>1, <2>3, PublishKeeps
<1>5. CASE Finish(r)
  <2>1. /\ phase[r] = "running" /\ Idle(r) /\ Snapshot("events", r, TRUE)
        /\ phase' = [phase EXCEPT ![r] = "ended"]
        /\ UNCHANGED <<subs, loop, queue, stream, since, scene>>
    BY <1>5 DEF Finish
  <2>2. /\ sent'["events"][r] = sent["events"][r] + 1
        /\ sent'["tokens"][r] = sent["tokens"][r]
    BY <1>0, <1>2, <2>1 DEF Snapshot
  <2>3. sent'["events"][r] <= MaxEvents /\ sent'["tokens"][r] <= MaxFragments
    BY <1>0, <1>1, <2>1, <2>2
  <2>4. /\ phase' \in [Runs -> {"ready", "running", "ended", "answered"}]
        /\ \A q \in Runs : q # r => phase'[q] = phase[q]
        /\ phase'[r] = "ended"
    BY <1>2, <2>1
  <2> QED  BY <1>0, <2>1, <2>3, <2>4, PublishKeeps
<1>6. CASE Fragment(r)
  <2>1. /\ phase[r] = "running" /\ Idle(r) /\ Snapshot("tokens", r, FALSE)
        /\ sent["tokens"][r] < MaxFragments
        /\ phase' = phase
        /\ UNCHANGED <<subs, loop, queue, stream, since, scene>>
    BY <1>6 DEF Fragment
  <2>2. /\ sent'["events"][r] = sent["events"][r]
        /\ sent'["tokens"][r] = sent["tokens"][r] + 1
    BY <1>0, <1>2, <2>1 DEF Snapshot
  <2>3. sent'["events"][r] <= MaxEvents /\ sent'["events"][r] < MaxEvents
        /\ sent'["tokens"][r] <= MaxFragments
    BY <1>0, <1>1, <2>1, <2>2
  <2> QED  BY <1>0, <1>2, <2>1, <2>3, PublishKeeps
<1> QED  BY <1>3, <1>4, <1>5, <1>6

(* Nothing has been published yet.                                         *)
LEMMA InitHeld ==
    ASSUME Init
    PROVE  Shape /\ Held
<1>0. Range(<<>>) = {} /\ DOMAIN <<>> = {}
  BY DEF Range
<1>1. /\ sent \in [Hubs -> [Runs -> Nat]]
      /\ \A h \in Hubs, r \in Runs : sent[h][r] = 0
      /\ since \in [Streams -> [Runs -> Nat]]
      /\ \A s \in Streams, r \in Runs : since[s][r] = 0
  BY DEF Init
<1>2. /\ PubTyped
      /\ \A r \in Runs : pub[r].left = <<>>
  BY DEF Init, NoPub, PubTyped
<1>3. Shape
  BY <1>1, <1>2 DEF Init, Shape
<1>4. \A s \in Streams :
          /\ Framed(s) = {} /\ Queued(s) = {} /\ Scheduled(s) = {} /\ Publishers(s) = {}
          /\ Pending(s) = {} /\ Carried(s) = {}
  BY <1>0, <1>2 DEF Init, Framed, Queued, Scheduled, Publishers, Pending, Carried
<1>5. /\ \A s \in Streams : state[s] = "new" /\ DOMAIN frames[s] = {} /\ DOMAIN queue[s] = {}
      /\ DOMAIN loop = {}
      /\ \A h \in Hubs, i \in Ids : DOMAIN subs[h][i] = {}
  BY <1>0 DEF Init
<1>6. Counted
  <2>1. /\ MaxEvents \in Nat \ {0, 1} /\ MaxFragments \in Nat
        /\ \A s \in Streams : Kind[s] \in Hubs
        /\ "events" \in Hubs /\ "tokens" \in Hubs
    BY <1>3, SceneFacts, BoundsGiven DEF Hubs, Shape
  <2>2. \A r \in Runs : phase[r] = "ready"
    BY DEF Init
  <2> QED  BY <1>1, <1>2, <2>1, <2>2 DEF Counted
<1>7. RegistryHoldsOpenStreams
  BY <1>5 DEF RegistryHoldsOpenStreams
<1>8. Fresh /\ Publishing /\ Addressed /\ InOrder /\ Covered
  BY <1>0, <1>2, <1>4, <1>5 DEF Fresh, Publishing, Addressed, InOrder, Before, Covered
<1>9. FramesAreGapless /\ TerminalFrameCloses
  BY <1>5 DEF FramesAreGapless, TerminalFrameCloses
<1> QED  BY <1>3, <1>6, <1>7, <1>8, <1>9 DEF Held

(* Every step of the server keeps the invariant.                           *)
LEMMA StepHeld ==
    ASSUME Shape, Held, [Next]_vars
    PROVE  Shape' /\ Held'
<1>1. CASE UNCHANGED vars
  <2>1. /\ scene' = scene /\ loop' = loop /\ pub' = pub /\ sent' = sent /\ queue' = queue
        /\ frames' = frames /\ since' = since /\ state' = state /\ subs' = subs
        /\ phase' = phase
        /\ RunId' = RunId /\ StreamId' = StreamId /\ Kind' = Kind
        /\ \A t, q : Under(t, q)' <=> Under(t, q)
    BY <1>1, SceneStays DEF vars
  <2>2. \A t \in Streams :
            /\ Framed(t)' = Framed(t) /\ Queued(t)' = Queued(t) /\ Scheduled(t)' = Scheduled(t)
            /\ Publishers(t)' = Publishers(t) /\ Pending(t)' = Pending(t)
            /\ Carried(t)' = Carried(t)
    BY <2>1 DEF Framed, Queued, Scheduled, Publishers, Pending, Carried
  <2>3. Shape' /\ Counted'
    BY <2>1 DEF Shape, PubTyped, Held, Counted
  <2>4. RegistryHoldsOpenStreams' /\ FramesAreGapless' /\ TerminalFrameCloses'
    BY <2>1 DEF Held, RegistryHoldsOpenStreams, FramesAreGapless, TerminalFrameCloses
  <2>5. Fresh' /\ Publishing' /\ Covered'
    BY <2>1, <2>2 DEF Held, Fresh, Publishing, Covered
  <2>6. Addressed'
    BY <2>1, <2>2, AddressedStays DEF Held
  <2>7. InOrder'
    BY <2>1, <2>2 DEF Held, InOrder, Before, Ahead
  <2> QED  BY <2>3, <2>4, <2>5, <2>6, <2>7 DEF Held
<1>2. ASSUME NEW r \in Runs, Trigger(r) \/ RunStep(r)
      PROVE  Shape' /\ Held'
  BY <1>2, RefusalKeeps, RunPublishKeeps, HandOffKeeps, PublishEndKeeps DEF Trigger, RunStep
<1>3. ASSUME NEW s \in Streams, Client(s) \/ Frame(s)
      PROVE  Shape' /\ Held'
  <2>1. CASE IdleOut(s)
    BY <2>1, CloseKeeps DEF IdleOut
  <2>2. CASE Disconnect(s)
    BY <2>2, CloseKeeps DEF Disconnect
  <2> QED  BY <1>3, <2>1, <2>2, OpenKeeps, FrameKeeps DEF Client
<1>4. CASE LoopTurn
  BY <1>4, LoopTurnKeeps
<1> QED  BY <1>1, <1>2, <1>3, <1>4 DEF Next

-----------------------------------------------------------------------------
(* What every behaviour of the server satisfies.                           *)

(* The invariant holds in every reachable state.                           *)
THEOREM StreamsHold == Spec => [](Shape /\ Held)
<1>1. Init => Shape /\ Held
  BY InitHeld
<1>2. (Shape /\ Held) /\ [Next]_vars => (Shape /\ Held)'
  BY StepHeld
<1> QED  BY <1>1, <1>2, PTL DEF Spec

(* Every variable keeps the shape of the server's object, and a run never  *)
(* publishes more than its events, its fragments and one end marker.       *)
THEOREM ServerTypes == Spec => []TypeOK
<1>1. Shape /\ Held => TypeOK
  <2> SUFFICES ASSUME Shape, Held  PROVE  TypeOK
    OBVIOUS
  <2>1. /\ MaxEvents \in Nat \ {0, 1} /\ MaxFragments \in Nat
    BY BoundsGiven
  <2>2. ASSUME NEW h \in Hubs, NEW r \in Runs
        PROVE  sent[h][r] \in 0..(MaxEvents + MaxFragments)
    <3>1. sent[h][r] \in Nat
      BY SentTyped
    <3>2. sent[h][r] <= MaxEvents \/ sent[h][r] <= MaxFragments + 1
      BY DEF Held, Counted, Hubs
    <3> QED  BY <2>1, <3>1, <3>2
  <2>3. sent \in [Hubs -> [Runs -> 0..(MaxEvents + MaxFragments)]]
    BY <2>2 DEF Shape
  <2>4. \A r \in Runs : pub[r].left \in Seq(Streams)
    BY DEF Shape, PubTyped
  <2> QED  BY <2>3, <2>4 DEF TypeOK, Shape, Entries
<1> QED  BY <1>1, StreamsHold, PTL

(* Every stream carries, of every run under its id, the items published    *)
(* since it subscribed, in order and without a gap.                        *)
THEOREM StreamsAreGapless == Spec => []FramesAreGapless
<1>1. Shape /\ Held => FramesAreGapless
  BY DEF Held
<1> QED  BY <1>1, StreamsHold, PTL

(* A stream closes on its run's last item and not before.                  *)
THEOREM TerminalCloses == Spec => []TerminalFrameCloses
<1>1. Shape /\ Held => TerminalFrameCloses
  BY DEF Held
<1> QED  BY <1>1, StreamsHold, PTL

(* The registry holds the open streams, each once, and no other.           *)
THEOREM RegistryHolds == Spec => []RegistryHoldsOpenStreams
<1>1. Shape /\ Held => RegistryHoldsOpenStreams
  BY DEF Held
<1> QED  BY <1>1, StreamsHold, PTL
=============================================================================
