------------------------ MODULE KernelWalkFoldProofs ------------------------
(***************************************************************************)
(* The channels of a walk: on every accepted graph each channel is at every*)
(* moment the left fold of its contributors so far, readers see the fold   *)
(* of everything upstream, the engine's own assertions cannot fail, and the*)
(* walk keeps the contract of `run`.                                       *)
(***************************************************************************)
EXTENDS KernelWalkProofs, KernelWalkContract, FiniteSetTheorems

(* A walk that has stopped early has an error to raise.                    *)
HaltsHaveErrors == pc \in {"failed", "raised"} => err # NoErr

(* What no node has written is what the call left there.                   *)
UnwrittenUntouched ==
    at # 0 =>
        \A c \in Channels \ written :
            chan[c] = IF c \in graph.inputs THEN SeedValue ELSE Absent

(* What a node has written holds more than a seed, folded when merged.     *)
WrittenHasWrite ==
    \A c \in written : /\ \E w \in Values(chan[c]) : w # Seed
                       /\ c \in Merged => chan[c].folded

FoldsHeld == /\ HaltsHaveErrors /\ UnwrittenUntouched /\ WrittenHasWrite
             /\ ChannelsAreLeftFolds

-----------------------------------------------------------------------------
(* Contributors of an accepted graph.                                      *)

(* A write contributor is a position and a port of its node.               *)
LEMMA WritePortForms ==
    ASSUME NEW g \in Graphs, NEW c
    PROVE  /\ \A n, p : <<n, p>> \in WritePorts(g, c) <=>
                 /\ n \in Positions(g) /\ p \in DOMAIN g.nodes[n].writes
                 /\ g.nodes[n].writes[p] = c
           /\ \A w \in WritePorts(g, c) :
                 /\ w = <<w[1], w[2]>> /\ w \in Nat \X Nat /\ w # Seed
                 /\ w[1] \in Positions(g) /\ w[1] \in Nat \ {0}
                 /\ w[2] \in DOMAIN g.nodes[w[1]].writes
                 /\ w[2] \in Nat \ {0}
                 /\ g.nodes[w[1]].writes[w[2]] = c
<1>1. \A n, p : <<n, p>> \in WritePorts(g, c) <=>
          /\ n \in Positions(g) /\ p \in DOMAIN g.nodes[n].writes
          /\ g.nodes[n].writes[p] = c
  BY DEF WritePorts
<1>2. ASSUME NEW w \in WritePorts(g, c)
      PROVE  /\ w = <<w[1], w[2]>> /\ w \in Nat \X Nat /\ w # Seed
             /\ w[1] \in Positions(g) /\ w[1] \in Nat \ {0}
             /\ w[2] \in DOMAIN g.nodes[w[1]].writes
             /\ w[2] \in Nat \ {0}
             /\ g.nodes[w[1]].writes[w[2]] = c
  <2>1. PICK n \in Positions(g) :
            w \in {<<n, p>> : p \in {q \in DOMAIN g.nodes[n].writes :
                                        g.nodes[n].writes[q] = c}}
    BY DEF WritePorts
  <2>3. PICK p \in DOMAIN g.nodes[n].writes :
            w = <<n, p>> /\ g.nodes[n].writes[p] = c
    BY <2>1
  <2>2. n \in Nat \ {0} /\ p \in Nat \ {0}
    <3>1. Positions(g) = 1..Len(g.nodes) /\ Len(g.nodes) \in Nat
          /\ g.nodes[n].writes \in Seq(Channels)
      BY GraphParts
    <3>2. DOMAIN g.nodes[n].writes = 1..Len(g.nodes[n].writes)
          /\ Len(g.nodes[n].writes) \in Nat
      BY <3>1
    <3> QED  BY <3>1, <3>2
  <2> QED  BY <2>2, <2>3 DEF Seed
<1> QED  BY <1>1, <1>2

(* A channel has finitely many contributors.                               *)
LEMMA ContributorsFinite ==
    ASSUME NEW g \in Graphs, NEW c
    PROVE  IsFiniteSet(Contributors(g, c))
<1> DEFINE P(n) == {<<n, p>> : p \in {q \in DOMAIN g.nodes[n].writes :
                                          g.nodes[n].writes[q] = c}}
           f == [n \in Positions(g) |-> P(n)]
           S == {P(n) : n \in Positions(g)}
<1>1. ASSUME NEW n \in Positions(g) PROVE IsFiniteSet(P(n))
  <2> DEFINE m == Len(g.nodes[n].writes)
  <2>1. m \in Nat /\ DOMAIN g.nodes[n].writes = 1..m
    BY GraphParts
  <2> HIDE DEF m
  <2>2. IsFiniteSet(1..m)  BY <2>1, FS_Interval
  <2>3. IsFiniteSet({n} \X (1..m))  BY <2>2, FS_Singleton, FS_Product
  <2>4. P(n) \subseteq {n} \X (1..m)  BY <2>1
  <2> QED  BY <2>3, <2>4, FS_Subset
<1>2. IsFiniteSet(Positions(g))
  <2> DEFINE m == Len(g.nodes)
  <2>1. Positions(g) = 1..m /\ m \in Nat  BY GraphParts
  <2> HIDE DEF m
  <2> QED  BY <2>1, FS_Interval
<1>3. f \in Surjection(Positions(g), S)  BY DEF Surjection
<1>4. IsFiniteSet(S)  BY <1>2, <1>3, FS_Surjection
<1>5. IsFiniteSet(UNION S)
  <2>1. \A T \in S : IsFiniteSet(T)  BY <1>1
  <2> HIDE DEF S
  <2> QED  BY <2>1, <1>4, FS_UNION
<1>6. WritePorts(g, c) = UNION S  BY DEF WritePorts
<1> DEFINE seeds == IF c \in g.inputs THEN {Seed} ELSE {}
           W == WritePorts(g, c)
<1>7. Contributors(g, c) = seeds \cup W  BY DEF Contributors
<1>8. IsFiniteSet(seeds)  BY FS_Singleton, FS_EmptySet
<1>9. IsFiniteSet(W)  BY <1>5, <1>6
<1> HIDE DEF seeds, W
<1> QED  BY <1>7, <1>8, <1>9, FS_Union

(* Two contributors make a merge.                                          *)
LEMMA TwoContributorsMerge ==
    ASSUME NEW g \in Graphs, NEW c, NEW v \in WritePorts(g, c),
           NEW w \in Contributors(g, c), v # w
    PROVE  c \in g.merged
<1>1. v \in Contributors(g, c)  BY DEF Contributors
<1>2. /\ IsFiniteSet(Contributors(g, c)) /\ Cardinality(Contributors(g, c)) \in Nat
  BY ContributorsFinite, FS_CardinalityType
<1>3. Cardinality({v, w}) = 2
  <2>1. {v, w} = {v} \cup {w} /\ w \notin {v}  OBVIOUS
  <2>2. IsFiniteSet({v}) /\ Cardinality({v}) = 1  BY FS_Singleton
  <2> DEFINE T == {v}
  <2> HIDE DEF T
  <2>3. Cardinality(T \cup {w}) = IF w \in T THEN Cardinality(T)
                                  ELSE Cardinality(T) + 1
    BY <2>2, FS_AddElement DEF T
  <2> QED  BY <2>1, <2>2, <2>3 DEF T
<1>4. Cardinality(Contributors(g, c)) >= 2
  <2>1. {v, w} \in SUBSET Contributors(g, c)  BY <1>1
  <2>2. Cardinality({v, w}) <= Cardinality(Contributors(g, c))
    BY <1>2, <2>1, FS_Subset
  <2> QED  BY <1>2, <1>3, <2>2
<1>5. c \in WiredChannels(g)
  BY WritePortForms DEF WiredChannels, WrittenChannels
<1>6. MergeDeclared(g)  BY GraphsWalkable DEF Walkable
<1> QED  BY <1>4, <1>5, <1>6 DEF MergeDeclared

-----------------------------------------------------------------------------
(* One more contributor.                                                   *)

(* A later value at the end keeps the order.                               *)
LEMMA OneMoreInOrder ==
    ASSUME NEW v \in Value, NEW u \in Value, NEW x \in Nat \X Nat,
           u.parts = v.parts \o <<x>>
    PROVE  /\ Values(u) = Values(v) \cup {x}
           /\ (InOrder(v) /\ \A y \in Values(v) : Earlier(y, x)) => InOrder(u)
<1> DEFINE s == v.parts
           t == u.parts
           m == Len(s)
<1>1. s \in Seq(Nat \X Nat) /\ m \in Nat /\ DOMAIN s = 1..m  BY DEF Value
<1>2. /\ DOMAIN t = 1..(m + 1) /\ t[m + 1] = x
      /\ \A i \in 1..m : t[i] = s[i]
  BY <1>1
<1> HIDE DEF s, t, m
<1>3. Values(v) = {s[i] : i \in 1..m} /\ Values(u) = {t[i] : i \in 1..(m + 1)}
  BY <1>1, <1>2 DEF Values, s, t
<1>4. \A i : i \in 1..(m + 1) <=> i \in 1..m \/ i = m + 1
  <2>1. m \in Nat  BY <1>1
  <2> QED  BY <2>1
<1>5. Values(u) = Values(v) \cup {x}
  <2>1. \A y : y \in Values(u) <=> \E i \in 1..(m + 1) : y = t[i]  BY <1>3
  <2>2. \A y : y \in Values(v) <=> \E i \in 1..m : y = s[i]  BY <1>3
  <2>3. ASSUME NEW y, y \in Values(u) PROVE y \in Values(v) \/ y = x
    <3>1. PICK i \in 1..(m + 1) : y = t[i]  BY <2>1, <2>3
    <3> QED  BY <1>2, <1>4, <2>2, <3>1
  <2>4. ASSUME NEW y, y \in Values(v) \/ y = x PROVE y \in Values(u)
    <3>1. CASE y = x
      <4>1. m + 1 \in 1..(m + 1)  BY <1>4
      <4> QED  BY <1>2, <2>1, <3>1, <4>1
    <3>2. CASE y \in Values(v)
      <4>1. PICK i \in 1..m : y = s[i]  BY <2>2, <3>2
      <4>2. i \in 1..(m + 1)  BY <1>4
      <4> QED  BY <1>2, <2>1, <4>1, <4>2
    <3> QED  BY <2>4, <3>1, <3>2
  <2> QED  BY <2>3, <2>4
<1>6. ASSUME InOrder(v), \A y \in Values(v) : Earlier(y, x)
      PROVE  InOrder(u)
  <2> SUFFICES ASSUME NEW i \in 1..(m + 1), NEW j \in 1..(m + 1), i < j
               PROVE  Earlier(t[i], t[j])
    BY <1>2 DEF InOrder, t
  <2>1. i \in 1..m  BY <1>1
  <2>2. CASE j \in 1..m
    BY <1>1, <1>2, <1>6, <2>1, <2>2 DEF InOrder, s
  <2>3. CASE j = m + 1
    BY <1>2, <1>3, <1>6, <2>1, <2>3
  <2> QED  BY <1>4, <2>2, <2>3
<1> QED  BY <1>5, <1>6

(* Whichever arm of `_route_writes` stores the value, the port's own       *)
(* contribution goes behind what the channel had.                          *)
LEMMA RoutedAppends ==
    ASSUME SeedsHeld, FoldsHeld, Routing, ~Clobbers
    PROVE  /\ Routed(Target).parts = chan[Target].parts \o << <<at, port>> >>
           /\ Target \in Merged => Routed(Target).folded
<1>1. Basis /\ at \in Positions(graph) /\ at # 0
  BY HereFacts DEF SeedsHeld, Basis, WellPlaced, Routing
<1>2. Target \in Channels /\ chan[Target] \in Value
  BY <1>1, RoutedTyped DEF Basis, TypeOK
<1>3. /\ Returned.parts = << <<at, port>> >>
      /\ FirstFold(Returned).parts = << <<at, port>> >>
      /\ FirstFold(Returned).folded
      /\ FirstFold(chan[Target]).parts = chan[Target].parts
  BY <1>2 DEF Returned, FirstFold, Value
<1>4. CASE Target \in written
  <2>1. Target \in Merged  BY <1>4 DEF Clobbers
  <2> QED  BY <1>3, <1>4, <2>1 DEF Routed, Fold
<1>5. CASE Target \notin written /\ Target \in SeedContributes
  BY <1>3, <1>5 DEF Routed, Fold, SeedContributes
<1>6. CASE Target \notin written /\ Target \notin SeedContributes
  <2>1. Target \notin graph.inputs
    BY <1>6 DEF Clobbers, SeedContributes, Contributors
  <2>2. chan[Target].parts = <<>>
    BY <1>1, <1>2, <1>6, <2>1 DEF FoldsHeld, UnwrittenUntouched, Absent
  <2>3. Routed(Target).parts = << <<at, port>> >>
        /\ (Target \in Merged => Routed(Target).folded)
    BY <1>3, <1>6 DEF Routed
  <2>4. <<>> \o << <<at, port>> >> = << <<at, port>> >>  OBVIOUS
  <2> QED  BY <2>2, <2>3, <2>4
<1> QED  BY <1>4, <1>5, <1>6

(* The assert of `_route_writes` against a second contributor to a channel *)
(* without a merge cannot fail: compile saw both contributors.             *)
LEMMA NeverClobbers ==
    ASSUME SeedsHeld, FoldsHeld, Routing
    PROVE  ~Clobbers
<1> SUFFICES ASSUME Target \notin Merged, Target \in written \cup graph.inputs
             PROVE  FALSE
  BY DEF Clobbers
<1>1. /\ Basis /\ at \in Positions(graph) /\ at # 0 /\ graph \in Graphs
      /\ port \in DOMAIN Here.writes /\ err = NoErr /\ pc = "route"
  BY HereFacts DEF SeedsHeld, Basis, WellPlaced, ErrorsHalt, Routing
<1>2. <<at, port>> \in WritePorts(graph, Target)
  BY <1>1, WritePortForms DEF Target, Here
<1>3. ~Committed(<<at, port>>)
  <2>1. at \in Nat /\ port \in Nat  BY <1>1, HereFacts DEF Basis, TypeOK
  <2> QED  BY <1>1, <2>1 DEF Committed
<1>4. CASE Target \in graph.inputs
  <2>1. Seed \in Contributors(graph, Target)  BY <1>4 DEF Contributors
  <2>2. <<at, port>> # Seed  BY <1>1 DEF Seed
  <2> QED  BY <1>1, <1>2, <2>1, <2>2, TwoContributorsMerge DEF Merged
<1>5. CASE Target \in written
  <2>1. Target \in Channels  BY <1>5, <1>1 DEF Basis, TypeOK
  <2>2. PICK w \in Values(chan[Target]) : w # Seed
    BY <1>5 DEF FoldsHeld, WrittenHasWrite
  <2>3. w \in Contributors(graph, Target) /\ Committed(w)
    BY <1>1, <2>1, <2>2 DEF FoldsHeld, ChannelsAreLeftFolds
  <2> QED  BY <1>1, <1>2, <1>3, <2>3, TwoContributorsMerge DEF Merged
<1> QED  BY <1>4, <1>5

-----------------------------------------------------------------------------
(* The steps.                                                              *)

(* A contributor of the node at hand is one of its ports.                  *)
LEMMA ContributorForms ==
    ASSUME Basis, NEW c, NEW w \in Contributors(graph, c)
    PROVE  /\ w[1] \in Nat /\ w[2] \in Nat /\ w \in Nat \X Nat
           /\ w[1] <= Last
           /\ w = Seed \/ w \in WritePorts(graph, c)
           /\ (w[1] = at /\ at # 0) =>
                 /\ w = <<at, w[2]>> /\ w[2] \in DOMAIN Here.writes
                 /\ w[2] # 0 /\ Here.writes[w[2]] = c
<1>1. w = Seed \/ w \in WritePorts(graph, c)
  BY DEF Contributors
<1>2. CASE w = Seed
  BY <1>2, HereFacts DEF Seed
<1>3. CASE w \in WritePorts(graph, c)
  <2>1. graph \in Graphs  BY HereFacts
  <2>2. /\ w = <<w[1], w[2]>> /\ w \in Nat \X Nat
        /\ w[1] \in Positions(graph) /\ w[1] \in Nat \ {0}
        /\ w[2] \in DOMAIN graph.nodes[w[1]].writes
        /\ w[2] \in Nat \ {0}
        /\ graph.nodes[w[1]].writes[w[2]] = c
    BY <1>3, <2>1, WritePortForms
  <2>3. w[1] <= Last  BY <2>2, HereFacts
  <2> QED  BY <1>1, <2>2, <2>3 DEF Here
<1> QED  BY <1>1, <1>2, <1>3

(* A step that stores nothing and commits nothing.                         *)
LEMMA SameFolds ==
    ASSUME FoldsHeld, HaltsHaveErrors', UNCHANGED <<graph, chan, written>>,
           at' # 0 => at # 0,
           (pc' # "call" /\ err' = NoErr) =>
              /\ pc # "call" /\ err = NoErr
              /\ \A c \in Channels : \A w \in Contributors(graph, c) :
                    Committed(w)' <=> Committed(w)
    PROVE  FoldsHeld'
<1>1. UnwrittenUntouched'  BY DEF FoldsHeld, UnwrittenUntouched
<1>2. WrittenHasWrite'  BY DEF FoldsHeld, WrittenHasWrite, Values, Merged
<1>3. ChannelsAreLeftFolds'
  <2> SUFFICES ASSUME pc' # "call", err' = NoErr, NEW c \in Channels
               PROVE  /\ InOrder(chan[c])
                      /\ Values(chan[c]) =
                            {w \in Contributors(graph, c) : Committed(w)'}
    BY DEF ChannelsAreLeftFolds, InOrder, Values
  <2>1. /\ InOrder(chan[c])
        /\ Values(chan[c]) = {w \in Contributors(graph, c) : Committed(w)}
    BY DEF FoldsHeld, ChannelsAreLeftFolds
  <2> QED  BY <2>1
<1> QED  BY <1>1, <1>2, <1>3 DEF FoldsHeld

(* Routing from port p on: what was committed is the ports below p.        *)
LEMMA CommittedFrom ==
    ASSUME Basis, NEW p \in Nat \ {0}, RouteFrom(p), at \in Positions(graph),
           p - 1 \in 0..Len(Here.writes), at' = at, err' = NoErr,
           NEW c, NEW w \in Contributors(graph, c)
    PROVE  Committed(w)' <=> w[1] < at \/ (w[1] = at /\ w[2] < p)
<1>1. /\ w[1] \in Nat /\ w[2] \in Nat
      /\ w[1] = at => w[2] \in DOMAIN Here.writes
  BY HereFacts, ContributorForms
<1>2. /\ Len(Here.writes) \in Nat /\ DOMAIN Here.writes = 1..Len(Here.writes)
      /\ at \in Nat
  BY HereFacts
<1>3. CASE p \in DOMAIN Here.writes
  BY <1>1, <1>3 DEF RouteFrom, Committed
<1>4. CASE p \notin DOMAIN Here.writes
  <2>1. p = Len(Here.writes) + 1  BY <1>2, <1>4
  <2>2. w[1] = at => w[2] < p  BY <1>1, <1>2, <2>1
  <2>3. pc' = "restore"  BY <1>4 DEF RouteFrom
  <2> QED  BY <1>1, <1>2, <2>2, <2>3 DEF Committed
<1> QED  BY <1>3, <1>4

(* A hook that failed and was absorbed had nothing to commit.              *)
LEMMA FailingKeepsFolds ==
    ASSUME SeedsHeld, FoldsHeld, Failing
    PROVE  FoldsHeld'
<1> Basis  BY DEF SeedsHeld
<1>1. FailedTask  BY FailureEffect
<1>2. /\ pc \in {"reads", "deliver", "embed", "body", "route"} /\ pc' = "restore"
      /\ UNCHANGED <<graph, chan, written, at, port>>
      /\ err = NoErr /\ (err' = err => Here.kind = "hook")
      /\ at \in Positions(graph)
  BY <1>1 DEF FailedTask, Basis, ErrorsHalt, WellPlaced
<1>3. ASSUME err' = NoErr, NEW c \in Channels, NEW w \in Contributors(graph, c)
      PROVE  Committed(w)' <=> Committed(w)
  <2>1. Here.writes = <<>>
    <3>1. Here.kind = "hook" /\ graph \in Graphs  BY <1>2, <1>3, HereFacts
    <3>2. WellKinded(graph)  BY <3>1, GraphsWalkable DEF Walkable
    <3> QED  BY <1>2, <3>1, <3>2 DEF WellKinded, Kind, Here
  <2>2. w[1] # at
    BY <1>2, <2>1, HereFacts, ContributorForms
  <2> QED  BY <1>2, <2>2 DEF Committed
<1> QED  BY <1>2, <1>3, SameFolds DEF HaltsHaveErrors

(* A body or an inner run that came back has committed nothing yet.        *)
LEMMA ReturningKeepsFolds ==
    ASSUME SeedsHeld, FoldsHeld, Returning
    PROVE  FoldsHeld'
<1> Basis  BY DEF SeedsHeld
<1>1. /\ pc \in {"body", "embed"} /\ RouteFrom(1) /\ err = NoErr
      /\ UNCHANGED <<graph, chan, written, at, err>> /\ at \in Positions(graph)
  BY ReturningEffect DEF Basis, ErrorsHalt, WellPlaced
<1>2. Len(Here.writes) \in Nat /\ at \in Nat  BY <1>1, HereFacts
<1>3. ASSUME NEW c \in Channels, NEW w \in Contributors(graph, c)
      PROVE  Committed(w)' <=> Committed(w)
  <2>1. Committed(w)' <=> w[1] < at \/ (w[1] = at /\ w[2] < 1)
    BY <1>1, <1>2, CommittedFrom
  <2>2. w[1] \in Nat /\ w[2] \in Nat /\ (w[1] = at => w[2] # 0)
    BY <1>1, HereFacts, ContributorForms
  <2> QED  BY <1>1, <2>1, <2>2 DEF Committed
<1>4. HaltsHaveErrors'  BY <1>1 DEF RouteFrom, HaltsHaveErrors
<1> QED  BY <1>1, <1>3, <1>4, SameFolds

(* The last port of the last node is behind: the walk goes on.             *)
LEMMA TaskEndsKeepsFolds ==
    ASSUME SeedsHeld, FoldsHeld, TaskEnds
    PROVE  FoldsHeld'
<1> Basis  BY DEF SeedsHeld
<1>1. /\ at \in 1..Last /\ Last \in Nat /\ pc = "restore" /\ err = NoErr
      /\ UNCHANGED <<graph, chan, written, err>>
      /\ \/ at' = at + 1 /\ pc' = "boundary"
         \/ at' = at /\ pc' = "end"
  BY HereFacts DEF TaskEnds, env, data, Basis, WellPlaced
<1>2. ASSUME NEW c \in Channels, NEW w \in Contributors(graph, c)
      PROVE  Committed(w)' <=> Committed(w)
  <2>1. w[1] \in Nat  BY ContributorForms
  <2> QED  BY <1>1, <2>1 DEF Committed
<1> QED  BY <1>1, <1>2, SameFolds DEF HaltsHaveErrors

(* The call's seeds are each channel's first contributor.                  *)
LEMMA StartKeepsFolds ==
    ASSUME SeedsHeld, FoldsHeld, Start
    PROVE  FoldsHeld'
<1> Basis  BY DEF SeedsHeld
<1>1. /\ pc = "call" /\ pc' = "boundary" /\ at' = 1 /\ written = {}
      /\ UNCHANGED <<graph, written, err>>
      /\ chan' = [c \in Channels |-> IF c \in graph.inputs THEN SeedValue
                                     ELSE Absent]
  BY DEF Start, env, detail, SeedsHeld, RawSeeds
<1>2. HaltsHaveErrors' /\ WrittenHasWrite' /\ UnwrittenUntouched'
  BY <1>1 DEF HaltsHaveErrors, WrittenHasWrite, UnwrittenUntouched
<1>3. ChannelsAreLeftFolds'
  <2> SUFFICES ASSUME NEW c \in Channels
               PROVE  /\ InOrder(chan'[c])
                      /\ Values(chan'[c]) =
                            {w \in Contributors(graph, c) : Committed(w)'}
    BY <1>1 DEF ChannelsAreLeftFolds, InOrder, Values
  <2>1. InOrder(chan'[c]) /\ Values(chan'[c]) =
            IF c \in graph.inputs THEN {Seed} ELSE {}
    BY <1>1 DEF InOrder, Values, SeedValue, Absent
  <2>2. ASSUME NEW w \in Contributors(graph, c)
        PROVE  Committed(w)' <=> w = Seed
    <3>1. Committed(w)' <=> w[1] < 1  BY <1>1 DEF Committed
    <3>2. w[1] \in Nat  BY ContributorForms
    <3>3. w \in WritePorts(graph, c) => w[1] # 0 /\ w # Seed
      BY HereFacts, WritePortForms
    <3> QED  BY <3>1, <3>2, <3>3, ContributorForms DEF Seed
  <2>3. Seed \in Contributors(graph, c) <=> c \in graph.inputs
    BY HereFacts, WritePortForms DEF Contributors
  <2> QED  BY <2>1, <2>2, <2>3
<1> QED  BY <1>2, <1>3 DEF FoldsHeld

(* Storing a port's value commits that port and nothing else.              *)
LEMMA RoutePortKeepsFolds ==
    ASSUME SeedsHeld, FoldsHeld, RoutePort
    PROVE  FoldsHeld'
<1> DEFINE x == <<at, port>>
<1> Basis  BY DEF SeedsHeld
<1>1. /\ Routing /\ ~Clobbers /\ pc = "route" /\ err = NoErr
      /\ chan' = [chan EXCEPT ![Target] = Routed(Target)]
      /\ written' = written \cup {Target}
      /\ RouteFrom(port + 1) /\ pc' \in {"route", "restore"}
      /\ UNCHANGED <<graph, at, err>>
  BY DEF RoutePort, Routing, RouteFrom, env, Basis, ErrorsHalt
<1>2. /\ at \in Positions(graph) /\ at \in Nat \ {0} /\ graph \in Graphs
      /\ port \in DOMAIN Here.writes
      /\ port \in 1..Len(Here.writes) /\ Len(Here.writes) \in Nat
      /\ Target \in Channels /\ chan \in [Channels -> Value]
  BY <1>1, HereFacts, RoutedTyped DEF Basis, TypeOK, WellPlaced, Routing
<1>3. /\ chan'[Target] = Routed(Target) /\ Routed(Target) \in Value
      /\ \A c \in Channels \ {Target} : chan'[c] = chan[c]
  BY <1>1, <1>2, RoutedTyped
<1>4. x \in Nat \X Nat /\ x # Seed  BY <1>2 DEF Seed
<1>5. /\ Values(chan'[Target]) = Values(chan[Target]) \cup {x}
      /\ (InOrder(chan[Target])
             /\ \A y \in Values(chan[Target]) : Earlier(y, x))
                => InOrder(chan'[Target])
  <2> DEFINE u == chan'[Target]
             v == chan[Target]
  <2>1. u \in Value /\ v \in Value  BY <1>2, <1>3
  <2>2. u.parts = v.parts \o <<x>>  BY <1>1, <1>3, RoutedAppends
  <2> HIDE DEF u, v, x
  <2>3. /\ Values(u) = Values(v) \cup {x}
        /\ (InOrder(v) /\ \A y \in Values(v) : Earlier(y, x)) => InOrder(u)
    BY <1>4, <2>1, <2>2, OneMoreInOrder
  <2> QED  BY <2>3 DEF u, v
<1> HIDE DEF x
<1>6. HaltsHaveErrors'  BY <1>1 DEF HaltsHaveErrors
<1>7. UnwrittenUntouched'
  BY <1>1, <1>3 DEF FoldsHeld, UnwrittenUntouched
<1>8. WrittenHasWrite'
  <2> SUFFICES ASSUME NEW c \in written \cup {Target}
               PROVE  /\ \E w \in Values(chan'[c]) : w # Seed
                      /\ c \in Merged => chan'[c].folded
    BY <1>1 DEF WrittenHasWrite, Values, Merged
  <2>1. CASE c = Target
    BY <1>1, <1>3, <1>4, <1>5, <2>1, RoutedAppends
  <2>2. CASE c # Target
    <3>1. c \in written /\ chan'[c] = chan[c]
      BY <1>3, <2>2 DEF Basis, TypeOK
    <3> QED  BY <3>1 DEF FoldsHeld, WrittenHasWrite
  <2> QED  BY <2>1, <2>2
<1>9. ASSUME NEW c \in Channels, NEW w \in Contributors(graph, c)
      PROVE  Committed(w)' <=> Committed(w) \/ w = x
  <2>1. Committed(w)' <=> w[1] < at \/ (w[1] = at /\ w[2] < port + 1)
    BY <1>1, <1>2, CommittedFrom
  <2>2. /\ w[1] \in Nat /\ w[2] \in Nat
        /\ w[1] = at => w = <<at, w[2]>>
    BY <1>2, ContributorForms
  <2>3. Committed(w) <=> w[1] < at \/ (w[1] = at /\ w[2] < port)
    BY <1>1 DEF Committed
  <2>4. w = x <=> w[1] = at /\ w[2] = port
    BY <2>2 DEF x
  <2>5. w[2] < port + 1 <=> w[2] < port \/ w[2] = port
    BY <1>2, <2>2
  <2> QED  BY <2>1, <2>3, <2>4, <2>5
<1>10. ChannelsAreLeftFolds'
  <2> SUFFICES ASSUME NEW c \in Channels
               PROVE  /\ InOrder(chan'[c])
                      /\ Values(chan'[c]) =
                            {w \in Contributors(graph, c) : Committed(w)'}
    BY <1>1 DEF ChannelsAreLeftFolds, InOrder, Values
  <2>1. /\ InOrder(chan[c])
        /\ Values(chan[c]) = {w \in Contributors(graph, c) : Committed(w)}
    BY <1>1 DEF FoldsHeld, ChannelsAreLeftFolds
  <2>2. x \in Contributors(graph, c) <=> c = Target
    BY <1>2, <1>4, WritePortForms DEF x, Contributors, Target, Here
  <2>3. CASE c = Target
    <3>1. ASSUME NEW y \in Values(chan[c])
          PROVE  Earlier(y, x)
      <4>1. y \in Contributors(graph, c) /\ Committed(y)  BY <2>1
      <4> QED  BY <1>1, <4>1 DEF Committed, Earlier, x
    <3> QED  BY <1>5, <1>9, <2>1, <2>2, <2>3, <3>1
  <2>4. CASE c # Target
    BY <1>3, <1>9, <2>1, <2>2, <2>4
  <2> QED  BY <2>3, <2>4
<1> QED  BY <1>6, <1>7, <1>8, <1>10 DEF FoldsHeld

LEMMA FoldsStep ==
    ASSUME SeedsHeld, FoldsHeld, [Next]_vars
    PROVE  FoldsHeld'
<1> Basis  BY DEF SeedsHeld
<1>1. CASE Failing \/ Returning \/ TaskEnds \/ Start \/ RoutePort
  BY <1>1, FailingKeepsFolds, ReturningKeepsFolds, TaskEndsKeepsFolds,
     StartKeepsFolds, RoutePortKeepsFolds
<1>2. CASE UNCHANGED vars \/ Expire
  <2>1. UNCHANGED <<graph, chan, written, pc, at, port, err>>
    BY <1>2 DEF vars, Expire, env, data, detail
  <2> QED  BY <2>1, SameFolds DEF FoldsHeld, HaltsHaveErrors, Committed
<1>3. CASE Calling
  <2>1. UNCHANGED <<graph, chan, written, pc, at, port, err>>
    BY <1>3, CallingEffect
  <2> QED  BY <2>1, SameFolds DEF FoldsHeld, HaltsHaveErrors, Committed
<1>4. CASE BudgetLeft \/ Project \/ EnterBody \/ Complete
  <2>1. /\ UNCHANGED <<graph, chan, written, at, port, err>>
        /\ \/ pc \in {"boundary", "reads", "deliver"}
              /\ pc' \in {"reads", "embed", "deliver", "body"}
           \/ pc \in {"end", "close"} /\ pc' \in {"close", "returned"}
    BY <1>4 DEF BudgetLeft, Project, AtReads, EnterBody, Complete, env, data,
                detail
  <2>2. err = NoErr
    BY <2>1 DEF Basis, ErrorsHalt
  <2> QED  BY <2>1, <2>2, SameFolds DEF HaltsHaveErrors, Committed
<1>5. CASE Refuse \/ BudgetSpent \/ NamespaceBreaks \/ TaskHalts \/ Fail
  <2>1. UNCHANGED <<graph, chan, written, at>>
    BY <1>5 DEF Refuse, BudgetSpent, NamespaceBreaks, TaskHalts, Fail, env, data
  <2>2. err' # NoErr
    <3>1. CASE Refuse \/ BudgetSpent \/ NamespaceBreaks
      BY <3>1 DEF Refuse, BudgetSpent, NamespaceBreaks, NoErr
    <3>2. CASE TaskHalts \/ Fail
      BY <3>2 DEF TaskHalts, Fail, FoldsHeld, HaltsHaveErrors
    <3> QED  BY <1>5, <3>1, <3>2
  <2> QED  BY <2>1, <2>2, SameFolds DEF HaltsHaveErrors
<1> QED  BY <1>1, <1>2, <1>3, <1>4, <1>5, StepKinds

(* The walk keeps, for every channel, the fold of its contributors so far. *)
LEMMA FoldsHoldAlways == Spec => [](SeedsHeld /\ FoldsHeld)
<1>1. Init => FoldsHeld
  BY DEF Init, FoldsHeld, HaltsHaveErrors, UnwrittenUntouched, WrittenHasWrite,
         ChannelsAreLeftFolds
<1>2. SeedsHeld /\ FoldsHeld /\ [Next]_vars => FoldsHeld'
  BY FoldsStep
<1> QED  BY <1>1, <1>2, SeedsHoldAlways, PTL DEF Spec

(* `channel_state` and `written` of run.py: at every moment of a run no    *)
(* contributor of a channel is lost, doubled or out of order.              *)
THEOREM ChannelsStayLeftFolds == Spec => []ChannelsAreLeftFolds
BY FoldsHoldAlways, PTL DEF FoldsHeld

-----------------------------------------------------------------------------
(* What the readers see.                                                   *)

(* Where the walk is on a node whose body has not come back, a channel is  *)
(* the fold of everything upstream, and never empty for a reader.          *)
LEMMA UpstreamFold ==
    ASSUME SeedsHeld, FoldsHeld, NEW c \in Here.reads,
           pc = "reads"
    PROVE  /\ c \in Channels /\ InOrder(chan[c])
           /\ Values(chan[c]) = {w \in Contributors(graph, c) : w[1] < at}
           /\ chan[c].parts # <<>>
<1>1. /\ Basis /\ at \in Positions(graph) /\ at \in Nat \ {0} /\ err = NoErr
      /\ c \in Channels /\ graph \in Graphs
  BY HereFacts DEF SeedsHeld, Basis, WellPlaced, ErrorsHalt
<1>2. \A w : Committed(w) <=> w[1] < at  BY DEF Committed
<1>3. /\ InOrder(chan[c])
      /\ Values(chan[c]) = {w \in Contributors(graph, c) : w[1] < at}
  BY <1>1, <1>2 DEF FoldsHeld, ChannelsAreLeftFolds
<1>4. \E w \in Contributors(graph, c) : w[1] < at
  <2>1. InputClosed(graph)  BY <1>1, GraphsWalkable DEF Walkable
  <2>2. c \in graph.inputs \/ \E w \in WritePorts(graph, c) : w[1] < at
    BY <1>1, <2>1 DEF InputClosed, Here
  <2>3. CASE c \in graph.inputs
    <3>1. Seed \in Contributors(graph, c)  BY <2>3 DEF Contributors
    <3>2. Seed[1] = 0  BY DEF Seed
    <3> QED  BY <1>1, <3>1, <3>2
  <2>4. CASE \E w \in WritePorts(graph, c) : w[1] < at
    BY <2>4 DEF Contributors
  <2> QED  BY <2>2, <2>3, <2>4
<1>5. chan[c].parts # <<>>  BY <1>3, <1>4 DEF Values
<1> QED  BY <1>1, <1>3, <1>5

(* The projection applies the one-element fold to a merged channel nobody  *)
(* has written, and hands out what is there otherwise.                     *)
LEMMA ProjectSeesUpstream ==
    ASSUME SeedsHeld, FoldsHeld, Project
    PROVE  ReadersSeeUpstreamFold'
<1>1. /\ pc = "reads" /\ proj' = Projection /\ Basis
      /\ UNCHANGED <<graph, at, chan>> /\ at \in Positions(graph)
  BY DEF Project, AtReads, env, SeedsHeld, Basis, WellPlaced
<1> SUFFICES ASSUME NEW c \in Here.reads
             PROVE  /\ InOrder(Projection[c])
                    /\ Values(Projection[c]) =
                          {w \in Contributors(graph, c) : w[1] < at}
                    /\ Projection[c].parts # <<>>
                    /\ c \in Merged => Projection[c].folded
  BY <1>1 DEF ReadersSeeUpstreamFold, Here, InOrder, Values, Merged
<1>2. /\ c \in Channels /\ InOrder(chan[c]) /\ chan[c] \in Value
      /\ Values(chan[c]) = {w \in Contributors(graph, c) : w[1] < at}
      /\ chan[c].parts # <<>>
  BY <1>1, UpstreamFold DEF Basis, TypeOK
<1>3. Projection[c] = IF c \in UnfoldedReads THEN FirstFold(chan[c]) ELSE chan[c]
  BY DEF Projection
<1>4. FirstFold(chan[c]).parts = chan[c].parts /\ FirstFold(chan[c]).folded
  BY <1>2 DEF FirstFold, Value
<1>5. Projection[c].parts = chan[c].parts  BY <1>3, <1>4
<1>6. ASSUME c \in Merged PROVE Projection[c].folded
  <2>1. CASE c \in written
    BY <1>3, <1>6, <2>1 DEF UnfoldedReads, FoldsHeld, WrittenHasWrite
  <2>2. CASE c \notin written
    <3>1. c \in graph.inputs
      BY <1>1, <1>2, <2>2, HereFacts DEF FoldsHeld, UnwrittenUntouched, Absent
    <3>2. c \in UnfoldedReads
      BY <1>6, <2>2, <3>1 DEF UnfoldedReads, SeedContributes, Contributors
    <3> QED  BY <1>3, <1>4, <3>2
  <2> QED  BY <2>1, <2>2
<1> QED  BY <1>2, <1>5, <1>6 DEF InOrder, Values

(* `_project_reads`: a body, an adapter or an inner run is given exactly   *)
(* the left fold of what is upstream of it, on every accepted graph.       *)
THEOREM ReadersSeeUpstream == Spec => []ReadersSeeUpstreamFold
<1>1. Init => ReadersSeeUpstreamFold
  BY DEF Init, ReadersSeeUpstreamFold
<1>2. ASSUME SeedsHeld /\ FoldsHeld, ReadersSeeUpstreamFold, [Next]_vars
      PROVE  ReadersSeeUpstreamFold'
  <2> Basis  BY <1>2 DEF SeedsHeld
  <2>1. ASSUME UNCHANGED <<graph, at, proj>>,
               pc' \in {"deliver", "body", "embed"} =>
                  pc \in {"deliver", "body", "embed"}
        PROVE  ReadersSeeUpstreamFold'
    BY <1>2, <2>1 DEF ReadersSeeUpstreamFold, Here, Merged, InOrder, Values
  <2>2. ASSUME pc' \notin {"deliver", "body", "embed"}
        PROVE  ReadersSeeUpstreamFold'
    BY <2>2 DEF ReadersSeeUpstreamFold
  <2>3. CASE Project  BY <1>2, <2>3, ProjectSeesUpstream
  <2>4. CASE UNCHANGED vars \/ Expire \/ EnterBody
    BY <2>1, <2>4 DEF vars, Expire, EnterBody, env, data, detail
  <2>5. CASE Calling  BY <2>1, <2>5, CallingEffect
  <2>6. CASE Failing  BY <2>2, <2>6, FailureEffect DEF FailedTask
  <2>7. CASE Returning
    BY <2>2, <2>7, ReturningEffect DEF RouteFrom
  <2>8. CASE \/ Refuse \/ Start \/ BudgetSpent \/ BudgetLeft \/ RoutePort
             \/ NamespaceBreaks \/ TaskEnds \/ TaskHalts \/ Fail \/ Complete
    BY <2>2, <2>8 DEF Refuse, Start, BudgetSpent, BudgetLeft, RoutePort,
       RouteFrom, NamespaceBreaks, TaskEnds, TaskHalts, Fail, Complete
  <2> QED
    BY <1>2, <2>3, <2>4, <2>5, <2>6, <2>7, <2>8, StepKinds
<1> QED  BY <1>1, <1>2, FoldsHoldAlways, PTL DEF Spec

(* At the close of a walk every port of every node is behind.              *)
LEMMA AllCommitted ==
    ASSUME SeedsHeld, FoldsHeld, pc \in {"close", "returned"},
           NEW c \in Channels
    PROVE  InOrder(chan[c]) /\ Values(chan[c]) = Contributors(graph, c)
<1>1. Basis /\ at = Last /\ err = NoErr
  BY DEF SeedsHeld, Basis, WellPlaced, ErrorsHalt
<1>2. /\ InOrder(chan[c])
      /\ Values(chan[c]) = {w \in Contributors(graph, c) : Committed(w)}
  BY <1>1 DEF FoldsHeld, ChannelsAreLeftFolds
<1>3. \A w \in Contributors(graph, c) : Committed(w)
  BY <1>1, HereFacts, ContributorForms DEF Committed
<1> QED  BY <1>2, <1>3

(* The channels of a graph are among Channels.                             *)
LEMMA WrittenTyped ==
    ASSUME Basis
    PROVE  WrittenChannels(graph) \subseteq Channels
<1>1. \A n \in Positions(graph) : graph.nodes[n].writes \in Seq(Channels)
  BY HereFacts, GraphParts
<1> QED  BY <1>1 DEF WrittenChannels

(* The rules compile enforces are enough for the walk: no KeyError on a    *)
(* read, no failing assert on a write, and every published or returned     *)
(* channel has been written when the run completes.                        *)
THEOREM EngineNeverBreaks == Spec => []NoEngineBug
<1>1. ASSUME SeedsHeld, FoldsHeld PROVE NoEngineBug
  <2> Basis  BY <1>1 DEF SeedsHeld
  <2>1. ASSUME pc = "reads", NEW c \in Here.reads PROVE chan[c] # Absent
    BY <1>1, <2>1, UpstreamFold DEF Absent
  <2>2. Routing => ~Clobbers  BY <1>1, NeverClobbers
  <2>3. ASSUME pc = "close", NEW c \in graph.outputs \cup OuterWritten(graph)
        PROVE  c \in written
    <3>1. graph \in Graphs /\ BoundaryLive(graph)
      BY HereFacts, GraphsWalkable DEF Walkable
    <3>2. c \in WrittenChannels(graph)
      BY <2>3, <3>1 DEF BoundaryLive, OuterWritten
    <3>3. c \in Channels  BY <3>2, WrittenTyped
    <3>4. PICK w \in WritePorts(graph, c) : w # Seed
      <4>1. PICK n \in Positions(graph) :
                \E p \in DOMAIN graph.nodes[n].writes :
                    c = graph.nodes[n].writes[p]
        BY <3>2 DEF WrittenChannels
      <4>2. PICK p \in DOMAIN graph.nodes[n].writes :
                c = graph.nodes[n].writes[p]
        BY <4>1
      <4>3. <<n, p>> \in WritePorts(graph, c)
        BY <3>1, <4>2, WritePortForms
      <4> QED  BY <3>1, <4>3, WritePortForms
    <3>5. w \in Values(chan[c])
      BY <1>1, <2>3, <3>3, AllCommitted DEF Contributors
    <3>6. chan[c] # SeedValue /\ chan[c] # Absent
      BY <3>4, <3>5 DEF Values, SeedValue, Absent
    <3>7. at # 0  BY <2>3, HereFacts DEF Basis, WellPlaced
    <3> QED  BY <1>1, <3>3, <3>6, <3>7 DEF FoldsHeld, UnwrittenUntouched
  <2> QED  BY <2>1, <2>2, <2>3 DEF NoEngineBug
<1> QED  BY <1>1, FoldsHoldAlways, PTL

-----------------------------------------------------------------------------
(* The contract.  Its fold is the only enumeration of the contributors in  *)
(* graph order, so it is what the channel holds.                           *)

Increasing(s, n) == \A i, j \in 1..n : i < j => Earlier(s[i], s[j])

(* An enumeration in order: each element's place is the number of those    *)
(* before it.                                                              *)
LEMMA PlaceInOrder ==
    ASSUME NEW S \in SUBSET (Nat \X Nat), NEW n \in Nat,
           NEW s \in [1..n -> S], Increasing(s, n),
           \A y \in S : \E k \in 1..n : s[k] = y,
           NEW i \in 1..n
    PROVE  Cardinality({y \in S : Earlier(y, s[i])}) = i - 1
<1> DEFINE B == {y \in S : Earlier(y, s[i])}
           f == [k \in 1..(i - 1) |-> s[k]]
<1>1. \A x, y \in Nat \X Nat : Earlier(x, y) => ~Earlier(y, x) /\ x # y
  <2> SUFFICES ASSUME NEW x \in Nat \X Nat, NEW y \in Nat \X Nat, Earlier(x, y)
               PROVE  ~Earlier(y, x) /\ x # y
    OBVIOUS
  <2>1. x[1] \in Nat /\ x[2] \in Nat /\ y[1] \in Nat /\ y[2] \in Nat  OBVIOUS
  <2> QED  BY <2>1 DEF Earlier
<1>2. \A k \in 1..n : s[k] \in S /\ s[k] \in Nat \X Nat  OBVIOUS
<1>3. \A k \in 1..n : Earlier(s[k], s[i]) <=> k < i
  <2> SUFFICES ASSUME NEW k \in 1..n PROVE Earlier(s[k], s[i]) <=> k < i
    OBVIOUS
  <2>1. k < i => Earlier(s[k], s[i])  BY DEF Increasing
  <2>2. i < k => ~Earlier(s[k], s[i])  BY <1>1, <1>2 DEF Increasing
  <2>3. k = i => ~Earlier(s[k], s[i])  BY <1>1, <1>2
  <2>4. k < i \/ i < k \/ k = i  OBVIOUS
  <2> QED  BY <2>1, <2>2, <2>3, <2>4
<1>4. \A k \in 1..(i - 1) : k \in 1..n /\ k < i  OBVIOUS
<1>5. \A k \in 1..n : k < i => k \in 1..(i - 1)  OBVIOUS
<1>6. f \in [1..(i - 1) -> B]  BY <1>2, <1>3, <1>4
<1>7. ASSUME NEW k \in 1..(i - 1), NEW l \in 1..(i - 1), f[k] = f[l]
      PROVE  k = l
  <2>1. s[k] = s[l] /\ k \in 1..n /\ l \in 1..n  BY <1>4, <1>7
  <2>2. ~(k < l) /\ ~(l < k)  BY <1>1, <1>2, <2>1 DEF Increasing
  <2> QED  BY <2>1, <2>2
<1>8. ASSUME NEW y \in B PROVE \E k \in 1..(i - 1) : f[k] = y
  <2>1. PICK k \in 1..n : s[k] = y  OBVIOUS
  <2>2. k \in 1..(i - 1)  BY <1>3, <1>5, <2>1
  <2> QED  BY <2>1, <2>2
<1>9. ExistsBijection(1..(i - 1), B)
  <2> HIDE DEF B
  <2>1. f \in Injection(1..(i - 1), B)
    BY <1>6, <1>7 DEF Injection, IsInjective
  <2>2. f \in Surjection(1..(i - 1), B)
    BY <1>6, <1>8 DEF Surjection
  <2> QED  BY <2>1, <2>2 DEF ExistsBijection, Bijection
<1>10. i - 1 \in Nat  OBVIOUS
<1> HIDE DEF B
<1>11. Cardinality(B) = i - 1  BY <1>9, <1>10, FS_CountingElements
<1> QED  BY <1>11 DEF B

(* Two enumerations in order of the same set are the same.                 *)
LEMMA OneOrder ==
    ASSUME NEW S \in SUBSET (Nat \X Nat), NEW n \in Nat,
           NEW s \in [1..n -> S], Increasing(s, n),
           \A y \in S : \E k \in 1..n : s[k] = y,
           NEW t \in [1..n -> S], Increasing(t, n),
           \A y \in S : \E k \in 1..n : t[k] = y
    PROVE  s = t
<1> SUFFICES ASSUME NEW i \in 1..n PROVE s[i] = t[i]
  OBVIOUS
<1>1. PICK k \in 1..n : t[k] = s[i]  OBVIOUS
<1>2. Cardinality({y \in S : Earlier(y, s[i])}) = i - 1  BY PlaceInOrder
<1>3. Cardinality({y \in S : Earlier(y, t[k])}) = k - 1  BY PlaceInOrder
<1>4. i - 1 = k - 1  BY <1>1, <1>2, <1>3
<1>5. i = k  BY <1>4
<1> QED  BY <1>1, <1>5

(* An enumeration in order names nothing twice.                            *)
LEMMA OrderIsOneToOne ==
    ASSUME NEW S \in SUBSET (Nat \X Nat), NEW n \in Nat,
           NEW s \in [1..n -> S], Increasing(s, n)
    PROVE  s \in Injection(1..n, S)
<1>1. ASSUME NEW i \in 1..n, NEW j \in 1..n, s[i] = s[j]
      PROVE  i = j
  <2>1. ASSUME NEW x \in Nat \X Nat, Earlier(x, x) PROVE FALSE
    <3>1. x[1] \in Nat /\ x[2] \in Nat  OBVIOUS
    <3> QED  BY <2>1, <3>1 DEF Earlier
  <2>2. s[i] \in Nat \X Nat  OBVIOUS
  <2>3. ~(i < j) /\ ~(j < i)  BY <1>1, <2>1, <2>2 DEF Increasing
  <2> QED  BY <2>3
<1> QED  BY <1>1 DEF Injection, IsInjective

(* There is one enumeration in order: the channel's.                       *)
LEMMA TheFold ==
    ASSUME NEW S \in SUBSET (Nat \X Nat), NEW m \in Nat,
           NEW t \in [1..m -> S], Increasing(t, m),
           \A y \in S : \E k \in 1..m : t[k] = y
    PROVE  /\ Cardinality(S) = m
           /\ t = CHOOSE s \in [1..m -> S] : Increasing(s, m)
<1>1. t \in Injection(1..m, S)  BY OrderIsOneToOne
<1>2. t \in Surjection(1..m, S)  BY DEF Surjection
<1>3. ExistsBijection(1..m, S)  BY <1>1, <1>2 DEF ExistsBijection, Bijection
<1>4. Cardinality(S) = m  BY <1>3, FS_CountingElements
<1>5. IsFiniteSet(1..m) /\ Cardinality(1..m) = m
  <2> DEFINE one == 1
  <2>1. one \in Int /\ m \in Int /\ one <= m + 1  OBVIOUS
  <2>2. Cardinality(1..m) = IF 1 > m THEN 0 ELSE m - 1 + 1
    BY FS_Interval
  <2> QED  BY <2>2, FS_Interval
<1>6. IsFiniteSet(S)  BY <1>2, <1>5, FS_Surjection
<1>7. ASSUME NEW s \in [1..m -> S], Increasing(s, m)
      PROVE  s = t
  <2>1. s \in Injection(1..m, S)  BY <1>7, OrderIsOneToOne
  <2>2. s \in Surjection(1..m, S)
    BY <2>1, <1>4, <1>5, <1>6, FS_Injection
  <2>3. \A y \in S : \E k \in 1..m : s[k] = y  BY <2>2 DEF Surjection
  <2> QED  BY <1>7, <2>3, OneOrder
<1>8. \E s \in [1..m -> S] : Increasing(s, m)  OBVIOUS
<1> DEFINE chosen == CHOOSE s \in [1..m -> S] : Increasing(s, m)
<1>9. chosen \in [1..m -> S] /\ Increasing(chosen, m)  BY <1>8
<1> QED  BY <1>4, <1>7, <1>9

(* RunResult.state: at the close of a walk a channel holds the contract's  *)
(* fold of it.                                                             *)
LEMMA CloseHoldsFold ==
    ASSUME SeedsHeld, FoldsHeld, pc = "close", NEW c \in OuterWritten(graph)
    PROVE  chan[c].parts = Contract!FoldOf(c)
<1> DEFINE S == Contributors(graph, c)
           t == chan[c].parts
           m == Len(t)
<1>1. Basis  BY DEF SeedsHeld
<1>2. c \in Channels  BY <1>1, WrittenTyped DEF OuterWritten
<1>3. t \in Seq(Nat \X Nat) /\ m \in Nat /\ DOMAIN t = 1..m
  BY <1>1, <1>2 DEF Basis, TypeOK, Value
<1>4. InOrder(chan[c]) /\ Values(chan[c]) = S  BY <1>2, AllCommitted
<1>5. S \in SUBSET (Nat \X Nat)  BY <1>1, ContributorForms
<1>6. /\ \A k \in 1..m : t[k] \in S
      /\ \A y \in S : \E k \in 1..m : t[k] = y
  BY <1>3, <1>4 DEF Values
<1>7. t \in [1..m -> S]  BY <1>3, <1>6
<1>8. Increasing(t, m)  BY <1>3, <1>4 DEF InOrder, Increasing
<1>9. Contract!FoldOf(c) =
          CHOOSE s \in [1..Cardinality(S) -> S] : Increasing(s, Cardinality(S))
  <2>1. Contract!Contributors(graph, c) = S
    BY DEF Contract!Contributors, Contributors, Contract!WritePorts, WritePorts,
           Contract!Positions, Positions, Contract!Seed, Seed
  <2> HIDE DEF S
  <2>2. \A s : Increasing(s, Cardinality(S)) <=>
            \A i, j \in 1..Cardinality(S) : i < j => Contract!Earlier(s[i], s[j])
    BY DEF Increasing, Contract!Earlier, Earlier
  <2>3. (CHOOSE s \in [1..Cardinality(S) -> S] : Increasing(s, Cardinality(S)))
        = CHOOSE s \in [1..Cardinality(S) -> S] :
              \A i, j \in 1..Cardinality(S) : i < j => Contract!Earlier(s[i], s[j])
    BY <2>2
  <2>4. Contract!Cardinality(S) = Cardinality(S)
    BY DEF Contract!Cardinality, Cardinality
  <2> DEFINE C == Contract!Contributors(graph, c)
             D == Contract!Cardinality(C)
  <2>5. Contract!FoldOf(c) =
            CHOOSE s \in [1..D -> C] :
                \A i, j \in 1..D : i < j => Contract!Earlier(s[i], s[j])
    BY Zenon DEF Contract!FoldOf
  <2> HIDE DEF C, D
  <2>6. C = S /\ D = Cardinality(S)  BY <2>1, <2>4 DEF C, D
  <2> QED  BY <2>3, <2>5, <2>6, Zenon
<1> HIDE DEF S, t, m
<1>10. Cardinality(S) = m /\ t = CHOOSE s \in [1..m -> S] : Increasing(s, m)
  BY <1>3, <1>5, <1>6, <1>7, <1>8, TheFold
<1>11. t = Contract!FoldOf(c)  BY <1>9, <1>10
<1> QED  BY <1>11 DEF t

(* A step inside a node's task is hidden from the caller.                  *)
LEMMA TaskIsHidden ==
    ASSUME UNCHANGED <<graph, at, result>>,
           \/ pc' = pc
           \/ /\ pc  \notin {"call", "returned", "failed", "raised"}
              /\ pc' \notin {"call", "returned", "failed", "raised"}
              /\ pc \in {"end", "close"} <=> pc' \in {"end", "close"}
    PROVE  UNCHANGED Contract!contract
<1>1. Phase' = Phase /\ CommittedNodes' = CommittedNodes
  BY DEF Phase, CommittedNodes
<1> QED  BY <1>1 DEF Contract!contract

(* Each step of the walk is a step of the contract or hidden from it.      *)
LEMMA StepKeepsContract ==
    ASSUME SeedsHeld, FoldsHeld, [Next]_vars
    PROVE  [Contract!ContractNext]_(Contract!contract)
<1> Basis  BY DEF SeedsHeld
<1>1. CASE UNCHANGED vars \/ Expire
  BY <1>1, TaskIsHidden DEF vars, Expire, env
<1>2. CASE Calling
  BY <1>2, CallingEffect, TaskIsHidden
<1>3. CASE Failing
  BY <1>3, FailureEffect, TaskIsHidden DEF FailedTask
<1>4. CASE Returning
  BY <1>4, ReturningEffect, TaskIsHidden DEF RouteFrom
<1>5. CASE BudgetLeft \/ Project \/ EnterBody \/ RoutePort
  <2>1. /\ UNCHANGED <<graph, at, result>>
        /\ \/ pc = "end" /\ pc' = "close"
           \/ /\ pc \in {"boundary", "reads", "deliver", "route"}
              /\ pc' \in {"reads", "embed", "deliver", "body", "route", "restore"}
    BY <1>5 DEF BudgetLeft, Project, AtReads, EnterBody, RoutePort, Routing,
                RouteFrom, env
  <2> QED  BY <2>1, TaskIsHidden
<1>6. CASE Start
  <2>1. /\ pc = "call" /\ pc' = "boundary" /\ at' = 1
        /\ UNCHANGED <<graph, result>>
    BY <1>6 DEF Start, env
  <2>2. Phase = "called" /\ Phase' = "running"  BY <2>1 DEF Phase
  <2>3. CommittedNodes = 0 /\ CommittedNodes' = 0
    BY <2>1, <2>2 DEF CommittedNodes
  <2> QED  BY <2>1, <2>2, <2>3 DEF Contract!ContractNext, Contract!Begin
<1>7. CASE Refuse \/ BudgetSpent \/ NamespaceBreaks \/ TaskHalts
  <2>1. /\ pc \in {"call", "boundary", "end", "restore"}
        /\ pc' \in {"failed", "raised"}
        /\ UNCHANGED <<graph, result>>
    BY <1>7 DEF Refuse, BudgetSpent, NamespaceBreaks, TaskHalts, env
  <2>2. Phase \in {"called", "running"} /\ Phase' = "raised"
    BY <2>1 DEF Phase
  <2>3. CommittedNodes' = 0  BY <2>2 DEF CommittedNodes
  <2> QED  BY <2>1, <2>2, <2>3 DEF Contract!ContractNext, Contract!Raise
<1>8. CASE Fail
  <2>1. /\ pc = "failed" /\ pc' = "raised" /\ UNCHANGED <<graph, result>>
    BY <1>8 DEF Fail, env
  <2>2. Phase = "raised" /\ Phase' = "raised"  BY <2>1 DEF Phase
  <2>3. CommittedNodes = 0 /\ CommittedNodes' = 0
    BY <2>2 DEF CommittedNodes
  <2> QED  BY <2>1, <2>2, <2>3 DEF Contract!contract
<1>9. CASE TaskEnds
  <2>1. /\ pc = "restore" /\ UNCHANGED <<graph, result>> /\ at \in 1..Last
        /\ Last \in Nat
        /\ \/ at' = at + 1 /\ pc' = "boundary"
           \/ at' = at /\ pc' = "end"
    BY <1>9, HereFacts DEF TaskEnds, env, Basis, WellPlaced
  <2>2. Phase = "running" /\ Phase' = "running"  BY <2>1 DEF Phase
  <2>3. /\ CommittedNodes = at - 1 /\ CommittedNodes' = at
        /\ CommittedNodes < Len(graph.nodes)
        /\ CommittedNodes' = CommittedNodes + 1
    BY <2>1, <2>2 DEF CommittedNodes, Last
  <2> QED  BY <2>1, <2>2, <2>3 DEF Contract!ContractNext, Contract!Commit
<1>10. CASE Complete
  <2>1. /\ pc = "close" /\ pc' = "returned" /\ UNCHANGED <<graph, at>>
        /\ result' = [c \in OuterWritten(graph) |-> chan[c]] /\ at = Last
    BY <1>10 DEF Complete, env, Basis, WellPlaced
  <2>2. Phase = "running" /\ Phase' = "returned"  BY <2>1 DEF Phase
  <2>3. /\ CommittedNodes = Len(graph.nodes)
        /\ CommittedNodes' = CommittedNodes
    BY <2>1, <2>2 DEF CommittedNodes, Last
  <2>4. Contract!OuterWritten(graph) = OuterWritten(graph)
    BY DEF Contract!OuterWritten, OuterWritten, Contract!WrittenChannels,
           WrittenChannels, Contract!Positions, Positions
  <2>5. [c \in DOMAIN result |-> result[c].parts]' =
            [c \in Contract!OuterWritten(graph) |-> Contract!FoldOf(c)]
    BY <2>1, <2>4, CloseHoldsFold
  <2> QED  BY <2>1, <2>2, <2>3, <2>5 DEF Contract!ContractNext, Contract!Return
<1> QED
  BY <1>1, <1>2, <1>3, <1>4, <1>5, <1>6, <1>7, <1>8, <1>9, <1>10, StepKinds

(* `run` keeps its contract: nodes commit one at a time and in order, a run*)
(* returns only when all have, with the left fold of every channel the     *)
(* outer pipeline writes, and a run that raises hands out nothing.         *)
THEOREM WalkKeepsContract == Spec => Contract!ContractSafety
<1>1. Init => Contract!ContractInit
  <2> SUFFICES ASSUME Init PROVE Contract!ContractInit
    OBVIOUS
  <2>1. /\ graph \in Graphs /\ Phase = "called" /\ CommittedNodes = 0
    BY DEF Init, Phase, CommittedNodes
  <2>2. [c \in DOMAIN result |-> result[c].parts] = <<>>
    BY DEF Init, Nothing
  <2> QED  BY <2>1, <2>2 DEF Contract!ContractInit
<1>2. SeedsHeld /\ FoldsHeld /\ [Next]_vars
        => [Contract!ContractNext]_(Contract!contract)
  BY StepKeepsContract
<1> QED
  BY <1>1, <1>2, FoldsHoldAlways, PTL DEF Spec, Contract!ContractSafety
=============================================================================
