------------------------------ MODULE StageProofs ------------------------------
(***************************************************************************)
(* What holds around and through `compile_pipeline` for every set of        *)
(* registries: the file pass leaves no value of anything that is compiled   *)
(* unread, and has read each in the directory of its own declaration; and   *)
(* what assembly hands the steps agrees with their declarations, and lacks  *)
(* nothing when compile accepted them; and reading files leaves registries  *)
(* that compile and assembly may be handed.                                *)
(***************************************************************************)
EXTENDS CompilePipelineProofs, FileResolution, Assembly

(***************************************************************************)
(* The file pass: its inductive invariant.                                 *)
(***************************************************************************)

(* What has been read came from the directory.                             *)
AtHome(r, dir, values) ==
    \A b \in DOMAIN values : values[b].form = "file" =>
        \E f \in DOMAIN r.files : f[1] = dir /\ r.files[f] = values[b].content

NodesAtHome(r, dir, nodes) ==
    \A i \in DOMAIN nodes : nodes[i].form = "handler" => AtHome(r, dir, nodes[i].values)

HomeIn(r, p) == IF p \in DOMAIN r.dirs.comps THEN r.dirs.comps[p] ELSE ""

RegistryHolds(r) ==
    /\ Shaped(r)
    /\ NodesAtHome(r, r.dirs.root, r.root.nodes)
    /\ \A p \in DOMAIN r.comps : \A values \in OwnValues(r.comps[p]) : AtHome(r, HomeIn(r, p), values)

(* Of the compositions S everything is read; S stands for those that have   *)
(* been returned from, and what they hold.                                 *)
ClosedUnder(r, S) ==
    /\ S \subseteq DOMAIN r.comps
    /\ \A p \in S : /\ \A values \in OwnValues(r.comps[p]) : ~Open(values)
                    /\ Contained(r, p) \subseteq S

(* An entry is done with.                                                  *)
EntryRead(r, S, e) ==
    /\ e.form = "handler" => ~Open(e.values)
    /\ e.form = "composition" /\ e.name \in DOMAIN r.comps => e.name \in S

FrameRead(r, S, f) ==
    /\ DOMAIN f = {"path", "kind", "dir", "nodes", "at"}
    /\ NodeList(f.nodes)
    /\ f.at \in Nat \ {0}
    /\ NodesAtHome(r, f.dir, f.nodes)
    /\ \A i \in DOMAIN f.nodes : i < f.at => EntryRead(r, S, f.nodes[i])

(* The outermost frame is the pipeline's, the others compositions' that are *)
(* no trainables, each named by the entry at which its embedder waits.     *)
WalkRead(r, S, w) ==
    /\ \E T : w \in Seq(T)
    /\ \A k \in DOMAIN w :
        /\ FrameRead(r, S, w[k])
        /\ k = 1 => w[k].dir = r.dirs.root
        /\ k # 1 => /\ w[k].path \in DOMAIN r.comps
                    /\ r.comps[w[k].path].kind # "trainable"
                    /\ w[k].dir = HomeIn(r, w[k].path)
        /\ k # Len(w) => /\ w[k].nodes[w[k].at].form = "composition"
                         /\ w[k].nodes[w[k].at].name = w[k + 1].path

RootRead(r, S) == \A i \in DOMAIN r.root.nodes : EntryRead(r, S, r.root.nodes[i])

FilesInv ==
    /\ RegistryHolds(reg)
    /\ \E S : /\ ClosedUnder(reg, S)
              /\ WalkRead(reg, S, walk)
              /\ phase \in {"params", "compile"} => RootRead(reg, S)
    /\ walk # <<>> => phase = "files"

(***************************************************************************)
(* What reading and registering again leave as it was.                     *)
(***************************************************************************)
SamePlaces(r, q) ==
    /\ q.dirs = r.dirs /\ q.files = r.files
    /\ DOMAIN q.comps = DOMAIN r.comps
    /\ \A p \in DOMAIN r.comps : q.comps[p].kind = r.comps[p].kind

LEMMA SameHomes ==
    ASSUME NEW r, NEW q, SamePlaces(r, q)
    PROVE  \A p : HomeIn(q, p) = HomeIn(r, p)
  BY DEF SamePlaces, HomeIn

LEMMA WalkCarriesOver ==
    ASSUME NEW r, NEW q, SamePlaces(r, q), NEW S, NEW S2, S \subseteq S2,
           NEW w, WalkRead(r, S, w)
    PROVE  WalkRead(q, S2, w)
<1>1. \A k \in DOMAIN w : FrameRead(q, S2, w[k])
  BY DEF WalkRead, FrameRead, SamePlaces, NodesAtHome, AtHome, EntryRead
<1>2. \A p : HomeIn(q, p) = HomeIn(r, p)
  BY SameHomes
<1> QED  BY <1>1, <1>2 DEF WalkRead, SamePlaces

LEMMA ReadingReads ==
    ASSUME NEW dir, NEW values, Readable(dir, values), AtHome(reg, dir, values)
    PROVE  ~Open(ReadAll(dir, values)) /\ AtHome(reg, dir, ReadAll(dir, values))
<1> DEFINE new == ReadAll(dir, values)
<1> SUFFICES ASSUME NEW b \in DOMAIN values
             PROVE  /\ ~IsPath(new[b])
                    /\ new[b].form = "file" =>
                          \E f \in DOMAIN reg.files : f[1] = dir /\ reg.files[f] = new[b].content
  BY DEF Open, AtHome, ReadAll
<1>1. CASE IsPath(values[b])
  <2> DEFINE f == <<dir, values[b].file>>
  <2>1. f \in DOMAIN reg.files  BY <1>1 DEF Readable, Holds
  <2>2. new[b] = FromFile(reg.files[f])  BY <1>1 DEF ReadAll
  <2>3. new[b].form = "file" /\ new[b].content = reg.files[f] /\ f[1] = dir
    BY <2>2 DEF FromFile
  <2> QED  BY <2>1, <2>3 DEF IsPath
<1>2. CASE ~IsPath(values[b])
  BY <1>2 DEF ReadAll, AtHome
<1> QED  BY <1>1, <1>2

LEMMA InnermostRead ==
    ASSUME NEW r, NEW S, WalkRead(r, S, walk), walk # <<>>
    PROVE  /\ Len(walk) \in Nat /\ Len(walk) # 0 /\ DOMAIN walk = 1..Len(walk)
           /\ Len(walk) \in DOMAIN walk
           /\ FrameRead(r, S, Reading)
           /\ Len(Reading.nodes) \in Nat /\ DOMAIN Reading.nodes = 1..Len(Reading.nodes)
<1>1. PICK T : walk \in Seq(T)  BY DEF WalkRead
<1>2. Len(walk) \in Nat /\ Len(walk) # 0 /\ DOMAIN walk = 1..Len(walk)
  BY <1>1, EmptySeq
<1>3. FrameRead(r, S, Reading)  BY <1>2 DEF WalkRead, Reading
<1>4. Reading.nodes \in Seq(ToSet(Reading.nodes))  BY <1>3 DEF FrameRead, NodeList, IsList
<1> QED  BY <1>2, <1>3, <1>4

(* The innermost frame goes on.                                            *)
LEMMA NextEntryKeeps ==
    ASSUME NEW r, NEW S, WalkRead(r, S, walk), walk # <<>>,
           NEW g, FrameRead(r, S, g), g.path = Reading.path, g.dir = Reading.dir
    PROVE  WalkRead(r, S, [walk EXCEPT ![Len(walk)] = g])
<1> DEFINE w == [walk EXCEPT ![Len(walk)] = g]
<1>1. PICK T : walk \in Seq(T)  BY DEF WalkRead
<1>2. Len(walk) \in Nat /\ DOMAIN walk = 1..Len(walk) /\ Len(walk) \in DOMAIN walk
  BY InnermostRead
<1>3. walk \in Seq(T \cup {g})  BY <1>1
<1>4. /\ w \in Seq(T \cup {g}) /\ Len(w) = Len(walk) /\ DOMAIN w = DOMAIN walk
      /\ w[Len(walk)] = g /\ \A k \in DOMAIN walk : k # Len(walk) => w[k] = walk[k]
  BY <1>2, <1>3
<1>5. \A k \in DOMAIN w : w[k].path = walk[k].path /\ w[k].dir = walk[k].dir
  BY <1>4 DEF Reading
<1>6. \A k \in DOMAIN walk : k # Len(walk) => k + 1 \in DOMAIN walk
  BY <1>2
<1> HIDE DEF w
<1>7. WalkRead(r, S, w)
  BY <1>4, <1>5, <1>6 DEF WalkRead
<1> QED  BY <1>7 DEF w

(* Refusing leaves nothing to read, and nothing to say.                    *)
LEMMA RefusingKeeps == ASSUME FilesInv, NEW check, RefuseFile(check) PROVE FilesInv'
<1>1. /\ walk' = <<>> /\ reg' = reg /\ phase' = "refused"
  BY DEF RefuseFile
<1>2. WalkRead(reg, {}, <<>>) /\ ClosedUnder(reg, {})
  <2>1. <<>> \in Seq({})  OBVIOUS
  <2> QED  BY <2>1 DEF WalkRead, ClosedUnder
<1> QED  BY <1>1, <1>2 DEF FilesInv

LEMMA ResolveHandlerNodeKeeps == ASSUME FilesInv, ResolveHandlerNode PROVE FilesInv'
<1>1. walk # <<>> /\ Reading.at <= Len(Reading.nodes) /\ Node.form = "handler"
  BY DEF ResolveHandlerNode, AtNode
<1>2. CASE Unsupported  BY <1>2, RefusingKeeps DEF Unsupported
<1>3. CASE ~Unsupported
  <2> DEFINE f == Reading
             values == ReadAll(f.dir, Node.values)
             nodes == [f.nodes EXCEPT ![f.at].values = values]
             g == [f EXCEPT !.nodes = nodes, !.at = @ + 1]
  <2>1. /\ Readable(f.dir, Node.values)
        /\ walk' = [walk EXCEPT ![Len(walk)] = g]
        /\ UNCHANGED <<vars, phase>>
    BY <1>3 DEF ResolveHandlerNode, Node, Reading
  <2>2. PICK S : /\ ClosedUnder(reg, S) /\ WalkRead(reg, S, walk)
                 /\ phase \in {"params", "compile"} => RootRead(reg, S)
    BY DEF FilesInv
  <2>3. /\ FrameRead(reg, S, f) /\ f.at \in Nat \ {0}
        /\ Len(f.nodes) \in Nat /\ DOMAIN f.nodes = 1..Len(f.nodes)
    BY <1>1, <2>2, InnermostRead DEF FrameRead
  <2>4. CASE f.at \in DOMAIN f.nodes
    <3>1. AtHome(reg, f.dir, Node.values) /\ "values" \in DOMAIN Node
      BY <1>1, <2>3, <2>4 DEF FrameRead, NodesAtHome, Node, NodeList, HasValues
    <3>2. ~Open(values) /\ AtHome(reg, f.dir, values)
      BY <2>1, <3>1, ReadingReads
    <3> HIDE DEF values
    <3>3. /\ DOMAIN nodes = 1..Len(f.nodes)
          /\ \A i \in DOMAIN f.nodes : i # f.at => nodes[i] = f.nodes[i]
          /\ nodes[f.at].form = "handler" /\ nodes[f.at].values = values
          /\ "values" \in DOMAIN nodes[f.at]
      BY <1>1, <2>3, <2>4, <3>1 DEF Node
    <3>4. nodes = [i \in 1..Len(f.nodes) |-> nodes[i]]  BY <2>3
    <3> HIDE DEF nodes
    <3>5. nodes \in Seq(ToSet(nodes))
      BY <2>3, <3>4, ListOfValues DEF IsList
    <3>6. DOMAIN f = {"path", "kind", "dir", "nodes", "at"}  BY <2>3 DEF FrameRead
    <3>7. /\ DOMAIN g = DOMAIN f /\ g.nodes = nodes /\ g.at = f.at + 1
          /\ g.dir = f.dir /\ g.path = f.path
      BY <3>6
    <3> HIDE DEF g, f
    <3>8. NodeList(g.nodes)
      <4>1. \A i \in 1..Len(f.nodes) : HasValues(nodes[i])
        BY <2>3, <3>3 DEF NodeList, FrameRead, HasValues
      <4> QED  BY <3>3, <3>5, <3>7, <4>1 DEF NodeList, IsList
    <3>9. NodesAtHome(reg, g.dir, g.nodes)
      BY <2>3, <3>2, <3>3, <3>7 DEF NodesAtHome, FrameRead
    <3>10. \A i \in DOMAIN g.nodes : i < g.at => EntryRead(reg, S, g.nodes[i])
      <4> SUFFICES ASSUME NEW i \in 1..Len(f.nodes), i < f.at + 1
                   PROVE  EntryRead(reg, S, nodes[i])
        BY <3>3, <3>7
      <4>1. CASE i = f.at  BY <3>2, <3>3, <4>1 DEF EntryRead
      <4>2. CASE i # f.at
        <5>1. i < f.at  BY <2>3, <4>2
        <5> QED  BY <2>3, <3>3, <4>2, <5>1 DEF FrameRead
      <4> QED  BY <4>1, <4>2
    <3>11. FrameRead(reg, S, g)
      BY <2>3, <3>6, <3>7, <3>8, <3>9, <3>10 DEF FrameRead
    <3>12. WalkRead(reg, S, walk')
      BY <1>1, <2>1, <2>2, <3>7, <3>11, NextEntryKeeps DEF f
    <3>13. walk' # <<>> => phase' = "files"
      BY <1>1, <2>1 DEF FilesInv
    <3> QED  BY <2>1, <2>2, <3>12, <3>13 DEF FilesInv, vars
  <2>5. f.at \in DOMAIN f.nodes
    BY <1>1, <2>3
  <2> QED  BY <2>4, <2>5
<1> QED  BY <1>2, <1>3

(* The innermost frame has its entry done with, and is otherwise the same. *)
LEMMA AdvancedRead ==
    ASSUME NEW r, NEW S, NEW f, FrameRead(r, S, f),
           \A i \in DOMAIN f.nodes : i = f.at => EntryRead(r, S, f.nodes[i])
    PROVE  LET g == [f EXCEPT !.at = @ + 1]
           IN  FrameRead(r, S, g) /\ g.path = f.path /\ g.dir = f.dir /\ g.nodes = f.nodes
<1> DEFINE g == [f EXCEPT !.at = @ + 1]
<1>1. DOMAIN f = {"path", "kind", "dir", "nodes", "at"}  BY DEF FrameRead
<1>2. /\ DOMAIN g = DOMAIN f /\ g.nodes = f.nodes /\ g.at = f.at + 1
      /\ g.dir = f.dir /\ g.path = f.path
  BY <1>1
<1> HIDE DEF g
<1>3. f.at \in Nat \ {0} /\ \A i \in DOMAIN f.nodes : i \in Nat
  BY DEF FrameRead, NodeList, IsList
<1>4. \A i \in DOMAIN f.nodes : i < f.at + 1 => i < f.at \/ i = f.at
  BY <1>3
<1>5. FrameRead(r, S, g)
  BY <1>1, <1>2, <1>3, <1>4 DEF FrameRead
<1> QED  BY <1>2, <1>5 DEF g

(* A composition is registered again with its values read.                 *)
LEMMA RegisteredAgain ==
    ASSUME RegistryHolds(reg), NEW p \in DOMAIN reg.comps, NEW c,
           reg' = [reg EXCEPT !.comps = [reg.comps EXCEPT ![p] = c]],
           c.kind = reg.comps[p].kind,
           IF c.kind = "trainable"
           THEN "pre" \in DOMAIN c /\ \A i \in DOMAIN c.pre : "values" \in DOMAIN c.pre[i]
           ELSE "nodes" \in DOMAIN c /\ NodeList(c.nodes),
           \A values \in OwnValues(c) : ~Open(values) /\ AtHome(reg, HomeIn(reg, p), values)
    PROVE  /\ RegistryHolds(reg') /\ SamePlaces(reg, reg') /\ reg'.root = reg.root
           /\ reg'.comps[p] = c
           /\ \A q \in DOMAIN reg.comps : q # p => reg'.comps[q] = reg.comps[q]
<1>1. {"root", "comps", "handlers", "dirs", "files"} \subseteq DOMAIN reg
  BY DEF RegistryHolds, Shaped
<1>2. /\ DOMAIN reg' = DOMAIN reg /\ reg'.root = reg.root /\ reg'.dirs = reg.dirs
      /\ reg'.files = reg.files /\ reg'.comps = [reg.comps EXCEPT ![p] = c]
  BY <1>1
<1>3. /\ DOMAIN reg'.comps = DOMAIN reg.comps /\ reg'.comps[p] = c
      /\ \A q \in DOMAIN reg.comps : q # p => reg'.comps[q] = reg.comps[q]
  BY <1>2
<1>4. SamePlaces(reg, reg')  BY <1>2, <1>3 DEF SamePlaces
<1>5. Shaped(reg')
  BY <1>1, <1>2, <1>3 DEF RegistryHolds, Shaped
<1>6. \A q : HomeIn(reg', q) = HomeIn(reg, q)
  BY <1>4, SameHomes
<1>7. \A dir, values : AtHome(reg, dir, values) => AtHome(reg', dir, values)
  BY <1>2 DEF AtHome
<1>8. NodesAtHome(reg', reg'.dirs.root, reg'.root.nodes)
  BY <1>2, <1>7 DEF RegistryHolds, NodesAtHome
<1>9. \A q \in DOMAIN reg'.comps : \A values \in OwnValues(reg'.comps[q]) :
        AtHome(reg', HomeIn(reg', q), values)
  BY <1>3, <1>6, <1>7 DEF RegistryHolds
<1> QED  BY <1>2, <1>3, <1>4, <1>5, <1>8, <1>9 DEF RegistryHolds

(* With it, what is read through has one composition more.                 *)
LEMMA OneMoreRead ==
    ASSUME NEW r, NEW q, SamePlaces(r, q), NEW S, ClosedUnder(r, S), NEW p \in DOMAIN r.comps,
           \A x \in DOMAIN r.comps : x # p => q.comps[x] = r.comps[x],
           \A values \in OwnValues(q.comps[p]) : ~Open(values),
           Contained(q, p) \subseteq S \cup {p}
    PROVE  ClosedUnder(q, S \cup {p})
<1>1. \A x \in S : x # p => q.comps[x] = r.comps[x] /\ Contained(q, x) = Contained(r, x)
  BY DEF SamePlaces, Contained, Named, ClosedUnder
<1> QED  BY <1>1 DEF ClosedUnder, SamePlaces

LEMMA ResolveTrainableKeeps ==
    ASSUME FilesInv, AtNode("composition"), NEW p, p = Node.name, p \in DOMAIN reg.comps,
           reg.comps[p].kind = "trainable", ResolveTrainable(p, reg.comps[p])
    PROVE  FilesInv'
<1> DEFINE c == reg.comps[p]
           pre == [i \in DOMAIN c.pre |-> [c.pre[i] EXCEPT !.values = ReadAll(AnchorOf(p), @)]]
           d == [c EXCEPT !.pre = pre]
<1>1. CASE \E values \in OwnValues(c) : ~Readable(AnchorOf(p), values)
  BY <1>1, RefusingKeeps DEF ResolveTrainable, Unsupported
<1>2. CASE \A values \in OwnValues(c) : Readable(AnchorOf(p), values)
  <2>1. /\ reg' = [reg EXCEPT !.comps = [reg.comps EXCEPT ![p] = d]]
        /\ walk' = [walk EXCEPT ![Len(walk)].at = @ + 1]
        /\ phase' = phase
    BY <1>2 DEF ResolveTrainable
  <2>2. /\ "pre" \in DOMAIN c
        /\ \A i \in DOMAIN c.pre : "values" \in DOMAIN c.pre[i]
    BY DEF FilesInv, RegistryHolds, Shaped
  <2>3. /\ d.kind = "trainable" /\ d.pre = pre /\ "pre" \in DOMAIN d
    BY <2>2
  <2>4. /\ DOMAIN pre = DOMAIN c.pre
        /\ \A i \in DOMAIN c.pre : /\ "values" \in DOMAIN pre[i]
                                   /\ pre[i].values = ReadAll(AnchorOf(p), c.pre[i].values)
    BY <2>2
  <2> HIDE DEF d, pre
  <2>5. AnchorOf(p) = HomeIn(reg, p)  BY DEF AnchorOf, HomeIn
  <2>6. \A values \in OwnValues(d) : ~Open(values) /\ AtHome(reg, HomeIn(reg, p), values)
    <3> SUFFICES ASSUME NEW i \in DOMAIN c.pre
                 PROVE  /\ ~Open(pre[i].values)
                        /\ AtHome(reg, HomeIn(reg, p), pre[i].values)
      BY <2>3, <2>4 DEF OwnValues
    <3>1. c.pre[i].values \in OwnValues(c)  BY DEF OwnValues
    <3>2. AtHome(reg, HomeIn(reg, p), c.pre[i].values)
      BY <3>1 DEF FilesInv, RegistryHolds
    <3>3. Readable(AnchorOf(p), c.pre[i].values)  BY <1>2, <3>1
    <3> QED  BY <2>4, <2>5, <3>2, <3>3, ReadingReads
  <2>7. /\ RegistryHolds(reg') /\ SamePlaces(reg, reg') /\ reg'.root = reg.root
        /\ reg'.comps[p] = d
        /\ \A q \in DOMAIN reg.comps : q # p => reg'.comps[q] = reg.comps[q]
    BY <2>1, <2>3, <2>4, <2>6, RegisteredAgain DEF FilesInv
  <2>8. PICK S : /\ ClosedUnder(reg, S) /\ WalkRead(reg, S, walk)
                 /\ phase \in {"params", "compile"} => RootRead(reg, S)
    BY DEF FilesInv
  <2>9. ClosedUnder(reg', S \cup {p})
    <3>1. Contained(reg', p) = {}  BY <2>3, <2>7 DEF Contained
    <3> QED  BY <2>6, <2>7, <2>8, <3>1, OneMoreRead
  <2>10. WalkRead(reg', S \cup {p}, walk)
    BY <2>7, <2>8, WalkCarriesOver
  <2>11. walk # <<>>  BY DEF AtNode
  <2>12. FrameRead(reg', S \cup {p}, Reading)
    BY <2>10, <2>11, InnermostRead
  <2>13. EntryRead(reg', S \cup {p}, Node)
    BY DEF EntryRead, AtNode
  <2> DEFINE g == [Reading EXCEPT !.at = @ + 1]
  <2>14. FrameRead(reg', S \cup {p}, g) /\ g.path = Reading.path /\ g.dir = Reading.dir
    BY <2>12, <2>13, AdvancedRead DEF Node
  <2>15. walk' = [walk EXCEPT ![Len(walk)] = g]  BY <2>1 DEF Reading
  <2> HIDE DEF g
  <2>16. WalkRead(reg', S \cup {p}, walk')
    BY <2>10, <2>11, <2>14, <2>15, NextEntryKeeps
  <2>17. phase' = "files"  BY <2>1, <2>11 DEF FilesInv
  <2> QED  BY <2>7, <2>9, <2>16, <2>17 DEF FilesInv
<1> QED  BY <1>1, <1>2

(* A composition that is no trainable is gone into.                        *)
LEMMA EnterKeeps ==
    ASSUME FilesInv, AtNode("composition"), NEW p, p = Node.name, p \in DOMAIN reg.comps,
           reg.comps[p].kind # "trainable", UNCHANGED <<reg, phase>>,
           walk' = Append(walk, WalkFrame(p, reg.comps[p].kind, AnchorOf(p), reg.comps[p].nodes))
    PROVE  FilesInv'
<1> DEFINE c == reg.comps[p]
           h == WalkFrame(p, c.kind, AnchorOf(p), c.nodes)
<1>1. walk # <<>> /\ Node.form = "composition"  BY DEF AtNode
<1>2. PICK S : /\ ClosedUnder(reg, S) /\ WalkRead(reg, S, walk)
               /\ phase \in {"params", "compile"} => RootRead(reg, S)
  BY DEF FilesInv
<1>3. NodeList(c.nodes)  BY DEF FilesInv, RegistryHolds, Shaped
<1>4. AnchorOf(p) = HomeIn(reg, p)  BY DEF AnchorOf, HomeIn
<1>5. NodesAtHome(reg, HomeIn(reg, p), c.nodes)
  <2> SUFFICES ASSUME NEW i \in DOMAIN c.nodes, c.nodes[i].form = "handler"
               PROVE  AtHome(reg, HomeIn(reg, p), c.nodes[i].values)
    BY DEF NodesAtHome
  <2>1. c.nodes[i].values \in OwnValues(c)  BY DEF OwnValues
  <2> QED  BY <2>1 DEF FilesInv, RegistryHolds
<1>6. /\ DOMAIN h = {"path", "kind", "dir", "nodes", "at"} /\ h.path = p
      /\ h.dir = AnchorOf(p) /\ h.nodes = c.nodes /\ h.at = 1
  BY DEF WalkFrame
<1>7. \A i \in DOMAIN c.nodes : ~(i < 1)
  BY <1>3 DEF NodeList, IsList
<1> HIDE DEF h
<1>8. FrameRead(reg, S, h)
  BY <1>3, <1>4, <1>5, <1>6, <1>7 DEF FrameRead
<1>9. /\ Len(walk) \in Nat /\ Len(walk) # 0 /\ DOMAIN walk = 1..Len(walk)
  BY <1>1, <1>2, InnermostRead
<1>10. PICK T : walk \in Seq(T)  BY <1>2 DEF WalkRead
<1> DEFINE w == Append(walk, h)
<1>11. walk \in Seq(T \cup {h})  BY <1>10
<1>12. /\ w \in Seq(T \cup {h}) /\ Len(w) = Len(walk) + 1
       /\ DOMAIN w = DOMAIN walk \cup {Len(walk) + 1}
       /\ w[Len(walk) + 1] = h /\ \A k \in DOMAIN walk : w[k] = walk[k]
  BY <1>9, <1>11
<1>13. walk' = w  BY DEF h
<1> HIDE DEF w
<1>14. /\ Len(walk) + 1 # 1 /\ \A k \in DOMAIN walk : k # Len(w)
       /\ \A k \in DOMAIN walk : k # Len(walk) => k + 1 \in DOMAIN walk
  BY <1>9, <1>12
<1>15. \A k \in DOMAIN walk : k # Len(walk) => w[k + 1].path = walk[k + 1].path
  BY <1>12, <1>14
<1>16. /\ w[Len(walk)].nodes[w[Len(walk)].at].form = "composition"
       /\ w[Len(walk)].nodes[w[Len(walk)].at].name = w[Len(walk) + 1].path
  <2>1. w[Len(walk)] = Reading
    <3>1. Len(walk) \in DOMAIN walk  BY <1>9
    <3> QED  BY <1>12, <3>1 DEF Reading
  <2>2. w[Len(walk) + 1].path = Node.name  BY <1>6, <1>12
  <2>3. Node.form = "composition"  BY <1>1
  <2> QED  BY <2>1, <2>2, <2>3 DEF Node
<1>17. WalkRead(reg, S, w)
  <2>1. \A k \in DOMAIN w : FrameRead(reg, S, w[k])
    BY <1>2, <1>8, <1>12 DEF WalkRead
  <2>2. \A k \in DOMAIN w : k = 1 => w[k].dir = reg.dirs.root
    BY <1>2, <1>12, <1>14 DEF WalkRead
  <2>3. \A k \in DOMAIN w : k # 1 =>
          /\ w[k].path \in DOMAIN reg.comps
          /\ reg.comps[w[k].path].kind # "trainable"
          /\ w[k].dir = HomeIn(reg, w[k].path)
    BY <1>2, <1>4, <1>6, <1>12 DEF WalkRead
  <2>4. \A k \in DOMAIN w : k # Len(w) =>
          /\ w[k].nodes[w[k].at].form = "composition"
          /\ w[k].nodes[w[k].at].name = w[k + 1].path
    BY <1>2, <1>12, <1>14, <1>15, <1>16 DEF WalkRead
  <2> QED  BY <1>12, <2>1, <2>2, <2>3, <2>4 DEF WalkRead
<1>18. phase = "files"  BY <1>1 DEF FilesInv
<1> QED  BY <1>2, <1>13, <1>17, <1>18 DEF FilesInv

LEMMA ResolveCompositionKeeps == ASSUME FilesInv, ResolveComposition PROVE FilesInv'
<1> DEFINE p == Node.name
<1>1. AtNode("composition")  BY DEF ResolveComposition
<1>2. CASE \E check : RefuseFile(check)  BY <1>2, RefusingKeeps
<1>3. CASE ~\E check : RefuseFile(check)
  <2>1. /\ p \in DOMAIN reg.comps
        /\ IF reg.comps[p].kind = "trainable" THEN ResolveTrainable(p, reg.comps[p])
           ELSE /\ walk' = Append(walk, WalkFrame(p, reg.comps[p].kind, AnchorOf(p),
                                                 reg.comps[p].nodes))
                /\ UNCHANGED <<vars, phase>>
    BY <1>3 DEF ResolveComposition, Unsupported
  <2> HIDE DEF p
  <2>2. CASE reg.comps[p].kind = "trainable"
    BY <1>1, <2>1, <2>2, ResolveTrainableKeeps DEF p
  <2>3. CASE reg.comps[p].kind # "trainable"
    <3>1. UNCHANGED <<reg, phase>>  BY <2>1, <2>3 DEF vars
    <3> QED  BY <1>1, <2>1, <2>3, <3>1, EnterKeeps DEF p
  <2> QED  BY <2>2, <2>3
<1> QED  BY <1>2, <1>3

(* The entry an embedder waits at is read once what it names is.           *)
LEMMA EmbedderRead ==
    ASSUME NEW r, NEW S, WalkRead(r, S, walk), NEW k \in DOMAIN walk, k # Len(walk),
           walk[k + 1].path \in S
    PROVE  EntryRead(r, S, walk[k].nodes[walk[k].at])
  BY DEF WalkRead, EntryRead

(* Going back to the embedder.                                             *)
LEMMA PoppedRead ==
    ASSUME NEW r, NEW S, WalkRead(r, S, walk), walk # <<>>, Len(walk) # 1,
           Reading.path \in S,
           walk' = [SubSeq(walk, 1, Len(walk) - 1) EXCEPT ![Len(walk) - 1].at = @ + 1]
    PROVE  WalkRead(r, S, walk') /\ walk' # <<>>
<1> DEFINE n == Len(walk) - 1
           b == SubSeq(walk, 1, n)
           f == walk[n]
           g == [f EXCEPT !.at = @ + 1]
<1>1. PICK T : walk \in Seq(T)  BY DEF WalkRead
<1>2. /\ Len(walk) \in Nat /\ DOMAIN walk = 1..Len(walk)
      /\ n \in Nat /\ n # 0 /\ n \in DOMAIN walk /\ n # Len(walk) /\ n + 1 = Len(walk)
      /\ 1..n \subseteq DOMAIN walk /\ n \in 1..n
      /\ \A k \in 1..n : k # Len(walk)
      /\ \A k \in 1..n : k # n => k + 1 \in 1..n
      /\ n <= Len(walk)
  <2>0. DOMAIN walk = 1..Len(walk)  BY InnermostRead
  <2>1. Len(walk) \in Nat /\ Len(walk) # 0 /\ Len(walk) # 1
    BY InnermostRead
  <2>2. n = Len(walk) - 1  OBVIOUS
  <2> HIDE DEF n
  <2>3. /\ n \in Nat /\ n # 0 /\ n \in 1..Len(walk) /\ n \in 1..n /\ n # Len(walk)
        /\ n + 1 = Len(walk) /\ n <= Len(walk) /\ 1..n \subseteq 1..Len(walk)
        /\ \A k \in 1..n : k # Len(walk) /\ (k # n => k + 1 \in 1..n)
    BY ONLY <2>1, <2>2
  <2> QED  BY <2>0, <2>1, <2>3, Zenon
<1>3. /\ b \in Seq(T \cup {g}) /\ Len(b) = n /\ DOMAIN b = 1..n
      /\ \A k \in 1..n : b[k] = walk[k]
  <2>1. walk \in Seq(T \cup {g})  BY <1>1
  <2> HIDE DEF n
  <2> QED  BY <1>2, <2>1, SubSeqProperties
<1>4. walk' = [b EXCEPT ![n] = g]  BY <1>2, <1>3
<1>5. EntryRead(r, S, f.nodes[f.at])
  BY <1>2, EmbedderRead DEF Reading
<1>6. FrameRead(r, S, f)  BY <1>2 DEF WalkRead
<1>7. FrameRead(r, S, g) /\ g.path = f.path /\ g.dir = f.dir
  BY <1>5, <1>6, AdvancedRead
<1> HIDE DEF g, b
<1>8. /\ walk' \in Seq(T \cup {g}) /\ Len(walk') = n /\ DOMAIN walk' = 1..n
      /\ walk'[n] = g /\ \A k \in 1..n : k # n => walk'[k] = walk[k]
  <2> HIDE DEF n
  <2>1. n \in 1..Len(b) /\ b \in Seq(T \cup {g}) /\ g \in T \cup {g}
    BY <1>2, <1>3
  <2>2. /\ walk' \in Seq(T \cup {g}) /\ Len(walk') = Len(b) /\ DOMAIN walk' = 1..Len(b)
        /\ walk'[n] = g /\ \A k \in 1..Len(b) : k # n => walk'[k] = b[k]
    BY ONLY <1>4, <2>1
  <2> QED  BY <1>3, <2>2
<1> HIDE DEF n
<1>9. \A k \in 1..n : walk'[k].path = walk[k].path /\ walk'[k].dir = walk[k].dir
  BY <1>7, <1>8
<1>10. WalkRead(r, S, walk')
  <2>1. \A k \in 1..n : FrameRead(r, S, walk'[k])
    BY <1>2, <1>7, <1>8 DEF WalkRead
  <2>2. \A k \in 1..n : k = 1 => walk'[k].dir = r.dirs.root
    BY <1>2, <1>9 DEF WalkRead
  <2>3. \A k \in 1..n : k # 1 =>
          /\ walk'[k].path \in DOMAIN r.comps
          /\ r.comps[walk'[k].path].kind # "trainable"
          /\ walk'[k].dir = HomeIn(r, walk'[k].path)
    BY <1>2, <1>9 DEF WalkRead
  <2>4. \A k \in 1..n : k # n =>
          /\ walk'[k].nodes[walk'[k].at].form = "composition"
          /\ walk'[k].nodes[walk'[k].at].name = walk'[k + 1].path
    BY <1>2, <1>8, <1>9 DEF WalkRead
  <2> QED  BY <1>8, <2>1, <2>2, <2>3, <2>4 DEF WalkRead
<1>11. walk' # <<>>  BY <1>2, <1>8
<1> QED  BY <1>10, <1>11

(* A frame at its end has every entry read.                                *)
LEMMA EndOfFrame ==
    ASSUME NEW r, NEW S, WalkRead(r, S, walk), walk # <<>>, Reading.at > Len(Reading.nodes)
    PROVE  \A i \in DOMAIN Reading.nodes : EntryRead(r, S, Reading.nodes[i])
<1>1. /\ FrameRead(r, S, Reading) /\ Len(Reading.nodes) \in Nat
      /\ DOMAIN Reading.nodes = 1..Len(Reading.nodes)
  BY InnermostRead
<1>2. \A i \in DOMAIN Reading.nodes : i < Reading.at
  BY <1>1 DEF FrameRead
<1> QED  BY <1>1, <1>2 DEF FrameRead

LEMMA ReturnFromEmbed ==
    ASSUME FilesInv, ReturnResolved, Len(walk) # 1
    PROVE  FilesInv'
<1> DEFINE p == Reading.path
           c == [reg.comps[p] EXCEPT !.nodes = Reading.nodes]
<1>1. /\ walk # <<>> /\ Reading.at > Len(Reading.nodes)
      /\ reg' = [reg EXCEPT !.comps = [reg.comps EXCEPT ![p] = c]]
      /\ walk' = [SubSeq(walk, 1, Len(walk) - 1) EXCEPT ![Len(walk) - 1].at = @ + 1]
      /\ phase' = phase
  BY DEF ReturnResolved
<1>2. PICK S : /\ ClosedUnder(reg, S) /\ WalkRead(reg, S, walk)
               /\ phase \in {"params", "compile"} => RootRead(reg, S)
  BY DEF FilesInv
<1>3. /\ FrameRead(reg, S, Reading) /\ Len(walk) \in DOMAIN walk
  BY <1>1, <1>2, InnermostRead
<1>4. /\ p \in DOMAIN reg.comps /\ reg.comps[p].kind # "trainable"
      /\ Reading.dir = HomeIn(reg, p)
  BY <1>2, <1>3 DEF WalkRead, Reading
<1>5. "nodes" \in DOMAIN reg.comps[p]
  BY <1>4 DEF FilesInv, RegistryHolds, Shaped
<1>6. /\ c.nodes = Reading.nodes /\ "nodes" \in DOMAIN c /\ c.kind = reg.comps[p].kind
  BY <1>5
<1> HIDE DEF c
<1>7. \A i \in DOMAIN Reading.nodes : EntryRead(reg, S, Reading.nodes[i])
  BY <1>1, <1>2, EndOfFrame
<1>8. \A values \in OwnValues(c) : ~Open(values) /\ AtHome(reg, HomeIn(reg, p), values)
  <2> SUFFICES ASSUME NEW i \in DOMAIN Reading.nodes, Reading.nodes[i].form = "handler"
               PROVE  /\ ~Open(Reading.nodes[i].values)
                      /\ AtHome(reg, HomeIn(reg, p), Reading.nodes[i].values)
    BY <1>4, <1>6 DEF OwnValues
  <2> QED  BY <1>3, <1>4, <1>7 DEF EntryRead, FrameRead, NodesAtHome
<1>9. NodeList(c.nodes)  BY <1>3, <1>6 DEF FrameRead
<1> HIDE DEF p
<1>10. /\ RegistryHolds(reg') /\ SamePlaces(reg, reg')
       /\ reg'.comps[p] = c
       /\ \A q \in DOMAIN reg.comps : q # p => reg'.comps[q] = reg.comps[q]
  BY <1>1, <1>4, <1>6, <1>8, <1>9, RegisteredAgain DEF FilesInv
<1>11. Contained(reg', p) \subseteq S
  <2> SUFFICES ASSUME NEW i \in DOMAIN Reading.nodes,
                      Reading.nodes[i].form = "composition",
                      Reading.nodes[i].name \in DOMAIN reg.comps
               PROVE  Reading.nodes[i].name \in S
    BY <1>4, <1>6, <1>10 DEF Contained, Named, ToSet, SamePlaces
  <2> QED  BY <1>7 DEF EntryRead
<1>12. ClosedUnder(reg', S \cup {p})
  <2>1. \A values \in OwnValues(reg'.comps[p]) : ~Open(values)
    BY <1>8, <1>10
  <2> QED  BY <1>2, <1>4, <1>10, <1>11, <2>1, OneMoreRead
<1>13. WalkRead(reg', S \cup {p}, walk)
  BY <1>2, <1>10, WalkCarriesOver
<1>14. WalkRead(reg', S \cup {p}, walk') /\ walk' # <<>>
  BY <1>1, <1>13, PoppedRead DEF p
<1>15. phase' = "files"  BY <1>1 DEF FilesInv
<1> QED  BY <1>10, <1>12, <1>14, <1>15 DEF FilesInv

(* A registry in which no composition has changed.                         *)
LEMMA UnchangedComps ==
    ASSUME NEW r, NEW q, RegistryHolds(r), q.comps = r.comps, q.dirs = r.dirs, q.files = r.files,
           Shaped(q), NodesAtHome(r, r.dirs.root, q.root.nodes)
    PROVE  RegistryHolds(q) /\ SamePlaces(r, q)
<1>1. SamePlaces(r, q)  BY DEF SamePlaces
<1>2. \A dir, values : AtHome(r, dir, values) => AtHome(q, dir, values)
  BY DEF AtHome
<1>3. \A p : HomeIn(q, p) = HomeIn(r, p)  BY <1>1, SameHomes
<1> QED  BY <1>1, <1>2, <1>3 DEF RegistryHolds, NodesAtHome

LEMMA NothingToWalk == ASSUME NEW r, NEW S PROVE WalkRead(r, S, <<>>)
<1>1. <<>> \in Seq({})  OBVIOUS
<1> QED  BY <1>1 DEF WalkRead

LEMMA ReturnFromRoot ==
    ASSUME FilesInv, ReturnResolved, Len(walk) = 1
    PROVE  FilesInv'
<1>1. /\ walk # <<>> /\ Reading.at > Len(Reading.nodes)
      /\ reg' = [reg EXCEPT !.root.nodes = Reading.nodes]
      /\ walk' = <<>> /\ phase' = "params"
  BY DEF ReturnResolved
<1>2. PICK S : ClosedUnder(reg, S) /\ WalkRead(reg, S, walk)
  BY DEF FilesInv
<1>3. /\ FrameRead(reg, S, Reading) /\ Reading.dir = reg.dirs.root
  BY <1>1, <1>2, InnermostRead DEF WalkRead, Reading
<1>4. /\ {"root", "comps", "handlers", "dirs", "files"} \subseteq DOMAIN reg
      /\ "nodes" \in DOMAIN reg.root
  BY DEF FilesInv, RegistryHolds, Shaped
<1>5. /\ DOMAIN reg' = DOMAIN reg /\ reg'.comps = reg.comps /\ reg'.dirs = reg.dirs
      /\ reg'.files = reg.files
      /\ reg'.root.nodes = Reading.nodes /\ "nodes" \in DOMAIN reg'.root
  BY <1>1, <1>4
<1>6. NodeList(Reading.nodes) /\ NodesAtHome(reg, reg.dirs.root, Reading.nodes)
  BY <1>3 DEF FrameRead
<1>7. Shaped(reg')
  BY <1>5, <1>6 DEF FilesInv, RegistryHolds, Shaped
<1>8. RegistryHolds(reg') /\ SamePlaces(reg, reg')
  BY <1>5, <1>6, <1>7, UnchangedComps DEF FilesInv
<1>9. ClosedUnder(reg', S)
  BY <1>2, <1>5 DEF ClosedUnder, Contained, Named
<1>10. RootRead(reg', S)
  <2>1. \A i \in DOMAIN Reading.nodes : EntryRead(reg, S, Reading.nodes[i])
    BY <1>1, <1>2, EndOfFrame
  <2> QED  BY <1>5, <2>1 DEF RootRead, EntryRead
<1> QED  BY <1>1, <1>8, <1>9, <1>10, NothingToWalk DEF FilesInv

LEMMA ResolveParamsKeeps == ASSUME FilesInv, ResolveParams PROVE FilesInv'
<1>1. CASE Unsupported  BY <1>1, RefusingKeeps DEF Unsupported
<1>2. CASE ~Unsupported
  <2>1. PICK handlers : reg' = [reg EXCEPT !.handlers = handlers]
    BY <1>2 DEF ResolveParams
  <2>2. /\ phase = "params" /\ phase' = "compile" /\ walk' = walk
    BY <1>2 DEF ResolveParams
  <2>3. {"root", "comps", "handlers", "dirs", "files"} \subseteq DOMAIN reg
    BY DEF FilesInv, RegistryHolds, Shaped
  <2>4. /\ DOMAIN reg' = DOMAIN reg /\ reg'.comps = reg.comps /\ reg'.dirs = reg.dirs
        /\ reg'.files = reg.files /\ reg'.root = reg.root
    BY <2>1, <2>3
  <2>5. Shaped(reg')
    BY <2>4 DEF FilesInv, RegistryHolds, Shaped
  <2>6. RegistryHolds(reg')
    BY <2>4, <2>5, UnchangedComps DEF FilesInv, RegistryHolds
  <2>7. PICK S : ClosedUnder(reg, S) /\ RootRead(reg, S)
    BY <2>2 DEF FilesInv
  <2>8. ClosedUnder(reg', S) /\ RootRead(reg', S)
    BY <2>4, <2>7 DEF ClosedUnder, Contained, Named, RootRead, EntryRead
  <2>9. walk' = <<>>  BY <2>2 DEF FilesInv
  <2> QED  BY <2>6, <2>8, <2>9, NothingToWalk DEF FilesInv
<1> QED  BY <1>1, <1>2

(* Compile changes no registry.                                            *)
LEMMA CompileKeepsRegistry == Next => reg' = reg
<1> SUFFICES ASSUME Next PROVE reg' = reg  OBVIOUS
<1>1. \A faults : Raise(faults) => reg' = reg  BY DEF Raise
<1>2. \A faults : SkipNode(faults) => reg' = reg  BY DEF SkipNode
<1>3. Substitute => reg' = reg  BY <1>1 DEF Substitute
<1>4. FlattenHandler => reg' = reg  BY <1>2 DEF FlattenHandler
<1>5. SkipComposition => reg' = reg  BY <1>2 DEF SkipComposition
<1>6. FlattenTrainable => reg' = reg
  <2> DEFINE t == reg.comps[Entry.name]
  <2>1. CASE BackendFault(t) = {} /\ BrokenNull(t.config, Backend(t))
    BY <1>1, <2>1 DEF FlattenTrainable
  <2>2. CASE ~(BackendFault(t) = {} /\ BrokenNull(t.config, Backend(t)))
    BY <2>2 DEF FlattenTrainable
  <2> QED  BY <2>1, <2>2
<1>7. FlattenEmbed => reg' = reg  BY <1>1 DEF FlattenEmbed
<1>8. CloseGroupA => reg' = reg  BY <1>1 DEF CloseGroupA
<1>9. CheckTopology => reg' = reg  BY <1>1 DEF CheckTopology
<1>10. CheckCoverage => reg' = reg  BY <1>1 DEF CheckCoverage
<1>11. Deliver => reg' = reg  BY DEF Deliver
<1> QED
  BY <1>3, <1>4, <1>5, <1>6, <1>7, <1>8, <1>9, <1>10, <1>11 DEF Next

LEMMA FilesInvStep == FilesInv /\ [FilesNext]_<<vars, resolution>> => FilesInv'
<1> SUFFICES ASSUME FilesInv, [FilesNext]_<<vars, resolution>> PROVE FilesInv'
  OBVIOUS
<1>1. CASE UNCHANGED <<reg, resolution>>
  BY <1>1 DEF FilesInv, resolution
<1>2. CASE Resolve
  <2>1. CASE ReturnResolved  BY <2>1, ReturnFromEmbed, ReturnFromRoot
  <2> QED
    BY <1>2, <2>1, ResolveHandlerNodeKeeps, ResolveCompositionKeeps, ResolveParamsKeeps
       DEF Resolve
<1>3. CASE Next /\ UNCHANGED resolution
  BY <1>1, <1>3, CompileKeepsRegistry
<1> QED  BY <1>1, <1>2, <1>3 DEF FilesNext, vars

LEMMA FilesInvInit == FilesInit => FilesInv
<1> SUFFICES ASSUME FilesInit PROVE FilesInv  OBVIOUS
<1>1. Shaped(reg) /\ AsParsed(reg)  BY RegistriesShaped DEF FilesInit
<1>2. RegistryHolds(reg)
  BY <1>1 DEF RegistryHolds, AsParsed, Unread, NodesAtHome, AtHome
<1> DEFINE h == WalkFrame("root", "pipeline", reg.dirs.root, reg.root.nodes)
<1>3. /\ DOMAIN h = {"path", "kind", "dir", "nodes", "at"}
      /\ h.dir = reg.dirs.root /\ h.nodes = reg.root.nodes /\ h.at = 1
  BY DEF WalkFrame
<1>4. walk = <<h>> /\ phase = "files"  BY DEF FilesInit, RootWalk
<1> HIDE DEF h
<1>5. NodeList(reg.root.nodes)  BY <1>1 DEF Shaped
<1>6. \A i \in DOMAIN reg.root.nodes : ~(i < 1)
  BY <1>5 DEF NodeList, IsList
<1>7. FrameRead(reg, {}, h)
  BY <1>2, <1>3, <1>5, <1>6 DEF FrameRead, RegistryHolds
<1>8. /\ <<h>> \in Seq({h}) /\ Len(<<h>>) = 1 /\ DOMAIN <<h>> = {1} /\ <<h>>[1] = h
  OBVIOUS
<1>9. WalkRead(reg, {}, walk)
  BY <1>3, <1>4, <1>7, <1>8 DEF WalkRead
<1>10. ClosedUnder(reg, {})  BY DEF ClosedUnder
<1> QED  BY <1>2, <1>4, <1>9, <1>10 DEF FilesInv

(* The inductive invariant holds of every pass over the files.             *)
THEOREM FilesInvariant == FilesSpec => []FilesInv
  BY FilesInvInit, FilesInvStep, PTL DEF FilesSpec

LEMMA ReadIsAtHome == FilesInv => FilesResolvedAtHome
<1> SUFFICES ASSUME FilesInv, phase = "compile", NEW home \in ReadIn
             PROVE  ~Open(home[2]) /\ AtHome(reg, home[1], home[2])
  BY DEF FilesResolvedAtHome, Open, AtHome
<1>1. PICK S : ClosedUnder(reg, S) /\ RootRead(reg, S)
  BY DEF FilesInv
<1>2. Reached(reg, Named(reg, reg.root.nodes)) \subseteq S
  <2>1. Named(reg, reg.root.nodes) \subseteq S
    BY <1>1 DEF RootRead, EntryRead, Named, ToSet
  <2>2. IsFiniteSet(DOMAIN reg.comps)  BY DEF FilesInv, RegistryHolds, Shaped
  <2> QED  BY <1>1, <2>1, <2>2, ReachedStaysIn DEF ClosedUnder
<1>3. CASE \E i \in DOMAIN reg.root.nodes :
          /\ reg.root.nodes[i].form = "handler"
          /\ home = <<reg.dirs.root, reg.root.nodes[i].values>>
  BY <1>1, <1>3 DEF RootRead, EntryRead, FilesInv, RegistryHolds, NodesAtHome
<1>4. CASE \E p \in S : \E values \in OwnValues(reg.comps[p]) : home = <<Home(p), values>>
  <2>1. \A p : Home(p) = HomeIn(reg, p)  BY DEF Home, HomeIn
  <2> QED  BY <1>1, <1>4, <2>1 DEF ClosedUnder, FilesInv, RegistryHolds
<1> QED  BY <1>2, <1>3, <1>4 DEF ReadIn, ToSet

(* `resolve_pipeline_bindings` leaves no value unread in anything that is   *)
(* compiled and hashed, through whatever embeds and bundles it is reached,  *)
(* and has read each file in the directory of the declaration that named    *)
(* it and not of the one that embeds it.                                   *)
THEOREM FilesAreReadAtHome == FilesSpec => []FilesResolvedAtHome
  BY ReadIsAtHome, FilesInvariant, PTL

-----------------------------------------------------------------------------
(***************************************************************************)
(* Assembly: what a frame has built is right for the unit it assembles,    *)
(* and the unit is one that compile handed on.                             *)
(***************************************************************************)
AsmFields == {"unit", "at", "compiled", "adapters", "nodes"}

ScopeOf(r, unit, from) == IF from = "outer" THEN unit.decl.supply ELSE r.comps[from].supply

Fitting(fields, values) ==
    /\ DOMAIN values = FieldNames(fields)
    /\ \A f \in ToSet(fields) : values[f.name] = None => IsNullable(f)

(* The service a node calls is its own scope's, under a transport that fits.*)
CallsOwn(r, unit, from, sv) ==
    LET supplied == ScopeOf(r, unit, from)[sv.name]
    IN  /\ sv.type = supplied.type /\ sv.identity = supplied.identity
        /\ Fitting(r.types[sv.type].transport, sv.transport)

NodeBuilt(r, unit, n) == \A sv \in ToSet(n.services) : CallsOwn(r, unit, n.from, sv)

AdaptersKept(r, unit, adapters) ==
    \A key \in DOMAIN adapters :
        LET supplied == ScopeOf(r, unit, key[1])[key[2]]
        IN  adapters[key].type = supplied.type /\ adapters[key].identity = supplied.identity

FrameBuilt(r, d, f) ==
    /\ DOMAIN f = AsmFields
    /\ f.unit \in d
    /\ IsList(f.nodes) /\ \A n \in ToSet(f.nodes) : NodeBuilt(r, f.unit, n)
    /\ AdaptersKept(r, f.unit, f.adapters)

AsmHolds(r, d, a) ==
    /\ \E S : a \in Seq(S)
    /\ \A i \in DOMAIN a : FrameBuilt(r, d, a[i])

(* The compile call that assembly has made, or was made before it, and what *)
(* is known when it has been answered.                                     *)
Asked == IF asm = <<>> THEN "root" ELSE Joined.from
Asking == IF asm = <<>> THEN built = NotBuilt ELSE Joining.compiled
Answered ==
    /\ stack # <<>> => Asking /\ stack[1].path = Asked
    /\ (stack = <<>> /\ Asking /\ outcome.status # "refused") =>
            \E d \in done : d.path = Asked

AInv == IInv /\ AsmHolds(reg, done, asm) /\ Answered

(* A frame in progress is the innermost one.                               *)
LEMMA JoiningHolds ==
    ASSUME AInv, asm # <<>>
    PROVE  /\ Len(asm) \in Nat /\ Len(asm) # 0 /\ DOMAIN asm = 1..Len(asm)
           /\ FrameBuilt(reg, done, Joining) /\ UnitHolds(reg, Joining.unit)
<1>1. PICK S : asm \in Seq(S)  BY DEF AInv, AsmHolds
<1>2. Len(asm) \in Nat /\ Len(asm) # 0 /\ DOMAIN asm = 1..Len(asm)
  BY <1>1, EmptySeq
<1>3. FrameBuilt(reg, done, Joining)  BY <1>2 DEF AInv, AsmHolds, Joining
<1>4. UnitHolds(reg, Joining.unit)  BY <1>3 DEF AInv, IInv, FrameBuilt
<1> QED  BY <1>2, <1>3, <1>4

LEMMA JoinedHolds ==
    ASSUME AInv, NEW kinds, Joins(kinds)
    PROVE  /\ asm # <<>> /\ stack = <<>> /\ Joined.kind \in kinds
           /\ Joined \in ToSet(Joining.unit.flat)
  BY DEF Joins, Joined, ToSet

EndsIn(a, g) == a # <<>> /\ a[Len(a)] = g

(* The innermost frame replaced.                                           *)
LEMMA AsmSwap ==
    ASSUME NEW r, NEW d, NEW a, AsmHolds(r, d, a), a # <<>>, NEW g, FrameBuilt(r, d, g)
    PROVE  LET b == [a EXCEPT ![Len(a)] = g]
           IN  AsmHolds(r, d, b) /\ EndsIn(b, g)
<1>1. PICK S : a \in Seq(S)  BY DEF AsmHolds
<1>2. a \in Seq(S \cup {g}) /\ Len(a) \in Nat /\ Len(a) # 0 /\ DOMAIN a = 1..Len(a)
  BY <1>1, EmptySeq
<1> DEFINE b == [a EXCEPT ![Len(a)] = g]
<1>3. /\ b \in Seq(S \cup {g}) /\ Len(b) = Len(a) /\ DOMAIN b = DOMAIN a
      /\ \A k \in DOMAIN a : b[k] = IF k = Len(a) THEN g ELSE a[k]
  BY <1>2
<1>4. Len(a) \in DOMAIN a  BY <1>2
<1> HIDE DEF b
<1>5. \A k \in DOMAIN b : FrameBuilt(r, d, b[k])  BY <1>3 DEF AsmHolds
<1>6. AsmHolds(r, d, b) /\ EndsIn(b, g)
  BY <1>3, <1>4, <1>5 DEF AsmHolds, EndsIn
<1> QED  BY <1>6 DEF b

LEMMA AsmPush ==
    ASSUME NEW r, NEW d, NEW a, AsmHolds(r, d, a), NEW g, FrameBuilt(r, d, g)
    PROVE  LET b == Append(a, g)
           IN  AsmHolds(r, d, b) /\ EndsIn(b, g)
<1>1. PICK S : a \in Seq(S)  BY DEF AsmHolds
<1>2. a \in Seq(S \cup {g}) /\ Len(a) \in Nat /\ DOMAIN a = 1..Len(a)
  BY <1>1
<1> DEFINE b == Append(a, g)
<1>3. /\ b \in Seq(S \cup {g}) /\ Len(b) = Len(a) + 1
      /\ DOMAIN b = DOMAIN a \cup {Len(b)} /\ b[Len(b)] = g
      /\ \A k \in DOMAIN a : b[k] = a[k]
  BY <1>2
<1> HIDE DEF b
<1>4. \A k \in DOMAIN b : FrameBuilt(r, d, b[k])  BY <1>3 DEF AsmHolds
<1>5. AsmHolds(r, d, b) /\ EndsIn(b, g)
  BY <1>3, <1>4 DEF AsmHolds, EndsIn
<1> QED  BY <1>5 DEF b

LEMMA AsmPop ==
    ASSUME NEW r, NEW d, NEW a, AsmHolds(r, d, a), NEW m \in Nat, m <= Len(a)
    PROVE  AsmHolds(r, d, SubSeq(a, 1, m))
<1>1. PICK S : a \in Seq(S)  BY DEF AsmHolds
<1>2. a \in Seq(S) /\ Len(a) \in Nat /\ DOMAIN a = 1..Len(a)
  BY <1>1
<1> DEFINE b == SubSeq(a, 1, m)
<1>3. \A i \in 1..m : a[i] \in S /\ i \in DOMAIN a  BY <1>2
<1>4. /\ b \in Seq(S) /\ Len(b) = IF 1 <= m THEN m - 1 + 1 ELSE 0
      /\ \A i \in 1..(m - 1 + 1) : b[i] = a[1 + i - 1]
  BY <1>3, SubSeqProperties
<1> HIDE DEF b
<1>5. DOMAIN b = 1..m /\ \A i \in 1..m : b[i] = a[i]
  BY <1>4
<1>6. \A k \in DOMAIN b : FrameBuilt(r, d, b[k])  BY <1>3, <1>5 DEF AsmHolds
<1>7. AsmHolds(r, d, b)  BY <1>4, <1>6 DEF AsmHolds
<1> QED  BY <1>7 DEF b

(* A longer record of what was handed on takes nothing back.               *)
LEMMA MoreIsDone ==
    ASSUME NEW r, NEW d, NEW a, AsmHolds(r, d, a), NEW e, d \subseteq e
    PROVE  AsmHolds(r, e, a)
  BY DEF AsmHolds, FrameBuilt

LEMMA NothingBuilt == ASSUME NEW r, NEW d PROVE AsmHolds(r, d, <<>>)
<1>1. <<>> \in Seq({})  OBVIOUS
<1> QED  BY <1>1 DEF AsmHolds

(* A frame as it is entered.                                               *)
LEMMA OpenedBuilt ==
    ASSUME NEW r, NEW d, NEW unit \in d
    PROVE  FrameBuilt(r, d, Opened(unit)) /\ ~Opened(unit).compiled
<1> DEFINE g == Opened(unit)
<1>1. /\ DOMAIN g = AsmFields /\ g.unit = unit /\ g.nodes = <<>> /\ g.adapters = <<>>
      /\ g.compiled = FALSE
  BY DEF Opened, AsmFields
<1> HIDE DEF g
<1>2. IsList(g.nodes) /\ ToSet(g.nodes) = {} /\ DOMAIN g.adapters = {}
  BY <1>1, EmptyList
<1> QED  BY <1>1, <1>2 DEF FrameBuilt, AdaptersKept, g

(* A node joins a list of nodes.                                           *)
LEMMA OneMoreBuilt ==
    ASSUME NEW r, NEW unit, NEW ns, IsList(ns), \A n \in ToSet(ns) : NodeBuilt(r, unit, n),
           NEW node, NodeBuilt(r, unit, node)
    PROVE  LET ms == Append(ns, node)
           IN  IsList(ms) /\ \A n \in ToSet(ms) : NodeBuilt(r, unit, n)
<1> DEFINE ms == Append(ns, node)
           G == ToSet(ns) \cup {node}
<1>1. ns \in Seq(G)
  <2>1. ns \in Seq(ToSet(ns))  BY DEF IsList
  <2> QED  BY <2>1
<1>2. node \in G  OBVIOUS
<1> HIDE DEF G
<1>3. ms \in Seq(G)  BY <1>1, <1>2
<1> HIDE DEF ms
<1>4. IsList(ms) /\ ToSet(ms) \subseteq G  BY <1>3, ListOver
<1>5. IsList(ms) /\ \A n \in ToSet(ms) : NodeBuilt(r, unit, n)  BY <1>4 DEF G
<1> QED  BY <1>5 DEF ms

-----------------------------------------------------------------------------
(* One lemma per action.                                                   *)

LEMMA NothingCompiles ==
    ASSUME IInv, UNCHANGED vars
    PROVE  IInv' /\ UNCHANGED <<reg, stack, outcome, done>>
  BY DEF IInv, vars

(* The innermost frame goes on while nothing is being compiled.            *)
LEMMA FrameGoesOn ==
    ASSUME AInv, stack = <<>>, UNCHANGED vars, UNCHANGED built, AsmHolds(reg, done, asm'),
           asm' # <<>>, ~asm'[Len(asm')].compiled
    PROVE  AInv'
<1>1. IInv' /\ UNCHANGED <<reg, stack, outcome, done>>  BY NothingCompiles DEF AInv
<1>2. AsmHolds(reg', done', asm')  BY <1>1
<1>3. ~Asking' /\ stack' = <<>>  BY <1>1 DEF Asking, Joining
<1>4. Answered'  BY <1>3 DEF Answered
<1> QED  BY <1>1, <1>2, <1>4 DEF AInv

(* Assembly is over.                                                       *)
LEMMA AssemblyEnds ==
    ASSUME AInv, stack = <<>>, UNCHANGED vars, asm' = <<>>, built' # NotBuilt
    PROVE  AInv'
<1>1. IInv' /\ UNCHANGED <<reg, stack, outcome, done>>  BY NothingCompiles DEF AInv
<1>2. AsmHolds(reg', done', asm')  BY NothingBuilt
<1>3. ~Asking' /\ stack' = <<>>  BY <1>1 DEF Asking
<1>4. Answered'  BY <1>3 DEF Answered
<1> QED  BY <1>1, <1>2, <1>4 DEF AInv

LEMMA FailKeeps ==
    ASSUME AInv, stack = <<>>, NEW status, NEW check, Fail(status, check)
    PROVE  AInv'
<1>1. built' # NotBuilt
  <2>1. DOMAIN built' = {"status", "check"} /\ DOMAIN NotBuilt = {"status"}
    BY DEF Fail, NotBuilt
  <2> QED  BY <2>1
<1> QED  BY <1>1, AssemblyEnds DEF Fail

LEMMA JoinKeeps ==
    ASSUME AInv, stack = <<>>, asm # <<>>, NEW node, NEW adapters, Join(node, adapters),
           NodeBuilt(reg, Joining.unit, node), AdaptersKept(reg, Joining.unit, adapters)
    PROVE  AInv'
<1> DEFINE g == [Joining EXCEPT !.nodes = Append(@, node), !.at = @ + 1,
                                !.adapters = adapters, !.compiled = FALSE]
<1>1. FrameBuilt(reg, done, Joining)  BY JoiningHolds
<1>2. /\ DOMAIN g = AsmFields /\ g.unit = Joining.unit /\ g.adapters = adapters
      /\ g.nodes = Append(Joining.nodes, node) /\ g.compiled = FALSE
  BY <1>1 DEF FrameBuilt, AsmFields
<1>3. asm' = [asm EXCEPT ![Len(asm)] = g] /\ UNCHANGED <<vars, built>>
  BY DEF Join
<1> HIDE DEF g
<1>4. IsList(g.nodes) /\ \A n \in ToSet(g.nodes) : NodeBuilt(reg, g.unit, n)
  BY <1>1, <1>2, OneMoreBuilt DEF FrameBuilt
<1>5. FrameBuilt(reg, done, g)  BY <1>1, <1>2, <1>4 DEF FrameBuilt
<1>6. AsmHolds(reg, done, asm') /\ EndsIn(asm', g)
  BY <1>3, <1>5, AsmSwap DEF AInv
<1> QED  BY <1>2, <1>3, <1>6, FrameGoesOn DEF EndsIn

(* `compile_pipeline` came back with what was asked for.                   *)
LEMMA UnitIsDone ==
    ASSUME AInv, stack = <<>>, Asking, outcome.status # "refused"
    PROVE  UnitOf(Asked) \in done
<1>1. \E d \in done : d.path = Asked  BY DEF AInv, Answered
<1> QED  BY <1>1 DEF UnitOf

LEMMA BeginAssemblyKeeps == ASSUME AInv, BeginAssembly PROVE AInv'
<1> DEFINE g == Opened(UnitOf("root"))
<1>1. UnitOf("root") \in done
  BY UnitIsDone DEF BeginAssembly, Asking, Asked
<1>2. FrameBuilt(reg, done, g) /\ ~g.compiled  BY <1>1, OpenedBuilt
<1>3. asm' = <<g>> /\ stack = <<>> /\ UNCHANGED vars /\ UNCHANGED built
  BY DEF BeginAssembly
<1> HIDE DEF g
<1>4. /\ <<g>> \in Seq({g}) /\ Len(<<g>>) = 1 /\ DOMAIN <<g>> = {1} /\ <<g>>[1] = g
      /\ <<g>> # <<>>
  OBVIOUS
<1>5. AsmHolds(reg, done, <<g>>)  BY <1>2, <1>4 DEF AsmHolds
<1> QED  BY <1>2, <1>3, <1>4, <1>5, FrameGoesOn

LEMMA AssembleEmbedKeeps == ASSUME AInv, AssembleEmbed PROVE AInv'
<1>1. asm # <<>> /\ stack = <<>> /\ Joining.compiled
  BY JoinedHolds DEF AssembleEmbed
<1>2. CASE outcome.status = "refused"
  <2>1. Fail("drift", "recompile")  BY <1>2 DEF AssembleEmbed
  <2> QED  BY <1>1, <2>1, FailKeeps
<1>3. CASE outcome.status # "refused"
  <2> DEFINE g == Opened(UnitOf(Joined.from))
  <2>1. UnitOf(Joined.from) \in done
    BY <1>1, <1>3, UnitIsDone DEF Asking, Asked
  <2>2. FrameBuilt(reg, done, g) /\ ~g.compiled  BY <2>1, OpenedBuilt
  <2>3. asm' = Append(asm, g) /\ UNCHANGED vars /\ UNCHANGED built
    BY <1>3 DEF AssembleEmbed
  <2> HIDE DEF g
  <2>4. AsmHolds(reg, done, asm') /\ EndsIn(asm', g)
    BY <2>2, <2>3, AsmPush DEF AInv
  <2> QED  BY <1>1, <2>2, <2>3, <2>4, FrameGoesOn DEF EndsIn
<1> QED  BY <1>2, <1>3

LEMMA RecompileEmbedKeeps == ASSUME AInv, RecompileEmbed PROVE AInv'
<1>1. asm # <<>> /\ stack = <<>> /\ Joined.kind = "pipeline" /\ Joined \in ToSet(Joining.unit.flat)
  BY JoinedHolds DEF RecompileEmbed
<1>2. FrameBuilt(reg, done, Joining) /\ UnitHolds(reg, Joining.unit)  BY <1>1, JoiningHolds
<1> DEFINE g == [Joining EXCEPT !.compiled = TRUE]
           f == Frame(Joined.from, reg.comps[Joined.from])
<1>3. /\ DOMAIN g = AsmFields /\ g.unit = Joining.unit /\ g.adapters = Joining.adapters
      /\ g.nodes = Joining.nodes /\ g.at = Joining.at /\ g.compiled = TRUE
  BY <1>2 DEF FrameBuilt, AsmFields
<1>4. /\ asm' = [asm EXCEPT ![Len(asm)] = g] /\ stack' = <<f>>
      /\ UNCHANGED <<reg, done, built>>
  BY DEF RecompileEmbed
<1>5. Joined.from \in Embeds(reg, "pipeline")  BY <1>1, <1>2 DEF UnitHolds
<1>6. PipelineTyped(reg.comps[Joined.from])
  BY <1>5 DEF AInv, IInv, RegistryTyped, Embeds
<1>7. FrameHolds(reg, f) /\ f.path = Joined.from  BY <1>5, <1>6, EnteredHolds
<1> HIDE DEF f, g
<1>8. /\ <<f>> \in Seq({f}) /\ Len(<<f>>) = 1 /\ DOMAIN <<f>> = {1} /\ <<f>>[1] = f
      /\ <<f>> # <<>>
  OBVIOUS
<1>9. StackHolds(reg, <<f>>)  BY <1>7, <1>8 DEF StackHolds, Simple
<1>10. IInv'  BY <1>4, <1>9 DEF AInv, IInv
<1>11. FrameBuilt(reg, done, g)  BY <1>2, <1>3 DEF FrameBuilt
<1>12. AsmHolds(reg, done, asm') /\ EndsIn(asm', g)
  BY <1>1, <1>4, <1>11, AsmSwap DEF AInv
<1>13. Asking' /\ Asked' = Joined.from
  BY <1>3, <1>12 DEF EndsIn, Asking, Asked, Joining, Joined
<1>14. Answered'  BY <1>4, <1>7, <1>8, <1>13 DEF Answered
<1> QED  BY <1>4, <1>10, <1>12, <1>14 DEF AInv

LEMMA CloseAssemblyKeeps == ASSUME AInv, CloseAssembly PROVE AInv'
<1>1. asm # <<>> /\ stack = <<>>  BY DEF CloseAssembly
<1>2. Len(asm) \in Nat /\ Len(asm) # 0 /\ DOMAIN asm = 1..Len(asm)  BY <1>1, JoiningHolds
<1>3. CASE Len(asm) = 1
  <2>1. built' # NotBuilt
    <3>1. DOMAIN built' = {"status", "meaning", "hash"} /\ DOMAIN NotBuilt = {"status"}
      BY <1>3 DEF CloseAssembly, NotBuilt
    <3> QED  BY <3>1
  <2>2. asm' = <<>> /\ UNCHANGED vars  BY <1>3 DEF CloseAssembly
  <2> QED  BY <1>1, <2>1, <2>2, AssemblyEnds
<1>4. CASE Len(asm) # 1
  <2> DEFINE outer == asm[Len(asm) - 1]
             node == [RunnableNode(outer.unit.flat[outer.at], <<>>, <<>>, <<>>)
                      EXCEPT !.inner = <<Meaning(Joining)>>]
  <2>1. FrameBuilt(reg, done, outer)
    <3>1. Len(asm) - 1 \in DOMAIN asm  BY <1>2, <1>4
    <3> QED  BY <3>1 DEF AInv, AsmHolds
  <2>2. node.services = <<>>  BY DEF RunnableNode
  <2>3. NodeBuilt(reg, outer.unit, node)  BY <2>2, EmptyList DEF NodeBuilt
  <2> HIDE DEF node, outer
  <2> DEFINE g == [outer EXCEPT !.nodes = Append(@, node), !.at = @ + 1, !.compiled = FALSE]
             m == Len(asm) - 2
  <2>4. asm' = Append(SubSeq(asm, 1, m), g) /\ UNCHANGED vars /\ UNCHANGED built
    BY <1>4 DEF CloseAssembly, node, outer
  <2>5. /\ DOMAIN g = AsmFields /\ g.unit = outer.unit /\ g.adapters = outer.adapters
        /\ g.nodes = Append(outer.nodes, node) /\ g.compiled = FALSE
    BY <2>1 DEF FrameBuilt, AsmFields
  <2>6. m \in Nat /\ m <= Len(asm)  BY <1>2, <1>4
  <2> HIDE DEF g, m
  <2>7. IsList(g.nodes) /\ \A n \in ToSet(g.nodes) : NodeBuilt(reg, g.unit, n)
    BY <2>1, <2>3, <2>5, OneMoreBuilt DEF FrameBuilt
  <2>8. FrameBuilt(reg, done, g)  BY <2>1, <2>5, <2>7 DEF FrameBuilt
  <2>9. AsmHolds(reg, done, SubSeq(asm, 1, m))  BY <2>6, AsmPop DEF AInv
  <2>10. AsmHolds(reg, done, asm') /\ EndsIn(asm', g)
    BY <2>4, <2>8, <2>9, AsmPush
  <2> QED  BY <1>1, <2>4, <2>5, <2>10, FrameGoesOn DEF EndsIn
<1> QED  BY <1>3, <1>4

LEMMA CompileStepKeeps == ASSUME AInv, Next, UNCHANGED assembly PROVE AInv'
<1>1. IInv' /\ RootStep  BY NextKeeps DEF AInv, Kept
<1>2. stack # <<>>
  <2>1. Substitute => stack # <<>>  BY DEF Substitute
  <2>2. FlattenHandler => stack # <<>>  BY DEF FlattenHandler, Flattening
  <2>3. SkipComposition => stack # <<>>  BY DEF SkipComposition, Flattening
  <2>4. FlattenTrainable => stack # <<>>  BY DEF FlattenTrainable, Flattens, Flattening
  <2>5. FlattenEmbed => stack # <<>>  BY DEF FlattenEmbed, Flattens, Flattening
  <2>6. CloseGroupA => stack # <<>>  BY DEF CloseGroupA
  <2>7. CheckTopology => stack # <<>>  BY DEF CheckTopology
  <2>8. CheckCoverage => stack # <<>>  BY DEF CheckCoverage
  <2>9. Deliver => stack # <<>>  BY DEF Deliver
  <2> QED  BY <2>1, <2>2, <2>3, <2>4, <2>5, <2>6, <2>7, <2>8, <2>9 DEF Next
<1>3. reg' = reg /\ done \subseteq done' /\ asm' = asm /\ built' = built
  BY <1>1 DEF RootStep, assembly
<1>4. AsmHolds(reg', done', asm')  BY <1>3, MoreIsDone DEF AInv
<1>5. Asking' = Asking /\ Asked' = Asked  BY <1>3 DEF Asking, Asked, Joining, Joined
<1>6. Asking /\ stack[1].path = Asked  BY <1>2 DEF AInv, Answered
<1>7. Answered'  BY <1>1, <1>5, <1>6 DEF Answered, RootStep
<1> QED  BY <1>1, <1>4, <1>7 DEF AInv

(* The stages of a join without an error.                                  *)
LEMMA NoErrors ==
    ASSUME NEW a, NEW b, NEW c, FirstErrors(<<a, b, c>>) = {}
    PROVE  b = {}
<1> DEFINE s == <<a, b, c>>
           first(i) == s[i] # {} /\ \A j \in 1..(i - 1) : s[j] = {}
<1>1. DOMAIN s = {1, 2, 3} /\ s[1] = a /\ s[2] = b /\ s[3] = c  OBVIOUS
<1> SUFFICES ASSUME b # {} PROVE FALSE  OBVIOUS
<1>2. \E i \in DOMAIN s : first(i)
  <2>1. CASE a # {}
    <3>1. first(1)  BY <1>1, <2>1
    <3> QED  BY <1>1, <3>1
  <2>2. CASE a = {}
    <3>1. \A j \in 1..1 : j = 1  OBVIOUS
    <3>2. first(2)  BY <1>1, <2>2, <3>1
    <3> QED  BY <1>1, <3>2
  <2> QED  BY <2>1, <2>2
<1> DEFINE k == CHOOSE i \in DOMAIN s : first(i)
<1>3. s[k] # {}  BY <1>2
<1>4. FirstErrors(s) = s[k]  BY <1>1 DEF FirstErrors
<1> QED  BY <1>3, <1>4

LEMMA TransportIsThere ==
    ASSUME NEW sb, NEW supplies, NEW config, ServiceErrors(sb, supplies, config) = {}
    PROVE  TransportOf("transport", sb.name) = {} => reg.types[sb.type].transport = <<>>
<1> DEFINE t == TransportOf("transport", sb.name)
           st == reg.types[sb.type]
           unheld == {y \in {st} : t = {} /\ y.transport # <<>>}
           lost == {<<"drift", "transport">> : x \in unheld}
<1>1. lost = {}
  <2> DEFINE unmet == {<<"drift", "service_binding">>}
             wrong == {<<"drift", "config_schema_supply">> : x \in ConfigFaults(config, st)}
             none == sb.name \notin DOMAIN supplies \/ sb.type \notin DOMAIN reg.types
  <2>1. (IF none THEN unmet ELSE wrong \cup lost) = {}  BY DEF ServiceErrors
  <2>2. unmet # {}  OBVIOUS
  <2> HIDE DEF unmet, wrong, lost, none
  <2> QED  BY <2>1, <2>2
<1>2. unheld = {}
  <2> HIDE DEF unheld
  <2> QED  BY <1>1
<1> QED  BY <1>2

(* A covering block is one of the deployment's, and holds no None.         *)
LEMMA CoveringIsTyped ==
    ASSUME NEW d, DeploymentTyped(d), NEW p, NEW name, NEW b \in Covering(d, p, "transport", name)
    PROVE  BlockTyped(b)
<1> DEFINE overrides == IF p \in DOMAIN d.pipelines THEN d.pipelines[p]["transport"] ELSE <<>>
<1>1. \/ name \in DOMAIN overrides /\ b = overrides[name]
      \/ name \in DOMAIN d["transport"] /\ b = d["transport"][name]
  BY DEF Covering
<1>2. CASE name \in DOMAIN overrides /\ b = overrides[name]
  <2>1. p \in DOMAIN d.pipelines
    <3>1. DOMAIN <<>> = {}  OBVIOUS
    <3> QED  BY <1>2, <3>1
  <2> QED  BY <1>2, <2>1 DEF DeploymentTyped
<1>3. CASE name \in DOMAIN d["transport"] /\ b = d["transport"][name]
  BY <1>3 DEF DeploymentTyped
<1> QED  BY <1>1, <1>2, <1>3

(* The block that was covered is the block delivered.                      *)
LEMMA BlockIsDelivered ==
    ASSUME NEW fields, NEW b, BlockFits(fields, b), BlockTyped(b)
    PROVE  Fitting(fields, Delivered(b))
<1> DEFINE v == Delivered(b)
<1>1. /\ DOMAIN v = DOMAIN b
      /\ \A k \in DOMAIN b : v[k] = IF ExplicitNull(b[k]) = "yes" THEN None ELSE b[k]
  BY DEF Delivered
<1> HIDE DEF v
<1>2. ASSUME NEW f \in ToSet(fields), v[f.name] = None PROVE IsNullable(f)
  <2>1. f.name \in DOMAIN b  BY DEF BlockFits, FieldNames, ToSet
  <2>2. b[f.name] # None  BY <2>1 DEF BlockTyped, None
  <2> QED  BY <1>1, <1>2, <2>1, <2>2 DEF BlockFits
<1>3. DOMAIN v = FieldNames(fields)  BY <1>1 DEF BlockFits
<1>4. Fitting(fields, v)  BY <1>2, <1>3 DEF Fitting
<1> QED  BY <1>4 DEF v

LEMMA DeliveredFits ==
    ASSUME AInv, asm # <<>>, NEW n \in ToSet(Joining.unit.flat), n.kind # "pipeline",
           NEW sb \in NodeServices(reg, n),
           TransportOf("transport", sb.name) = {} => reg.types[sb.type].transport = <<>>
    PROVE  Fitting(reg.types[sb.type].transport, Or(TransportOf("transport", sb.name), <<>>))
<1> DEFINE fields == reg.types[sb.type].transport
           V == TransportOf("transport", sb.name)
           name == Joining.unit.decl.name
<1>1. CASE V = {}
  <2>1. fields = <<>> /\ Or(V, <<>>) = <<>>  BY <1>1 DEF Or
  <2>2. FieldNames(<<>>) = {} /\ ToSet(<<>>) = {} /\ DOMAIN <<>> = {}
    BY EmptyList DEF FieldNames
  <2> HIDE DEF fields, V
  <2>3. Fitting(fields, Or(V, <<>>))  BY <2>1, <2>2 DEF Fitting
  <2> QED  BY <2>3 DEF fields, V
<1>2. CASE V # {}
  <2>1. Or(V, <<>>) \in V  BY <1>2 DEF Or
  <2>2. PICK b \in Blocks("transport", sb.name) : Or(V, <<>>) = Delivered(b)
    BY <2>1 DEF TransportOf
  <2>3. PICK d \in ToSet(reg.deployment) : b \in Covering(d, name, "transport", sb.name)
    BY <2>2 DEF Blocks
  <2>4. CoveredBy(reg, name, sb)
    BY JoiningHolds DEF UnitHolds
  <2>5. BlockFits(fields, b)  BY <2>3, <2>4 DEF CoveredBy
  <2>6. BlockTyped(b)
    BY <2>3, CoveringIsTyped DEF AInv, IInv, RegistryTyped
  <2> QED  BY <2>2, <2>5, <2>6, BlockIsDelivered
<1> QED  BY <1>1, <1>2

(* One adapter more, the first of its scope's handle.                      *)
LEMMA AdapterAdded ==
    ASSUME NEW r, NEW unit, NEW adapters, AdaptersKept(r, unit, adapters), NEW from, NEW name,
           NEW fresh, fresh.type = ScopeOf(r, unit, from)[name].type,
           fresh.identity = ScopeOf(r, unit, from)[name].identity
    PROVE  LET key == <<from, name>>
               more == Keeping(adapters, key, fresh)
           IN  /\ AdaptersKept(r, unit, more)
               /\ more[key].type = ScopeOf(r, unit, from)[name].type
               /\ more[key].identity = ScopeOf(r, unit, from)[name].identity
<1> DEFINE key == <<from, name>>
           more == Keeping(adapters, key, fresh)
<1>1. /\ DOMAIN more = DOMAIN adapters \cup {key}
      /\ \A k \in DOMAIN adapters : more[k] = adapters[k]
      /\ key \notin DOMAIN adapters => more[key] = fresh
  BY DEF Keeping
<1>2. key[1] = from /\ key[2] = name  OBVIOUS
<1> HIDE DEF key, more
<1>3. ASSUME NEW k \in DOMAIN more
      PROVE  /\ more[k].type = ScopeOf(r, unit, k[1])[k[2]].type
             /\ more[k].identity = ScopeOf(r, unit, k[1])[k[2]].identity
  <2>1. CASE k \in DOMAIN adapters  BY <1>1, <2>1 DEF AdaptersKept
  <2>2. CASE k \notin DOMAIN adapters
    <3>1. k = key /\ more[k] = fresh  BY <1>1, <2>2
    <3> QED  BY <1>2, <3>1
  <2> QED  BY <2>1, <2>2
<1>4. AdaptersKept(r, unit, more)  BY <1>3 DEF AdaptersKept
<1>5. /\ more[key].type = ScopeOf(r, unit, from)[name].type
      /\ more[key].identity = ScopeOf(r, unit, from)[name].identity
  BY <1>1, <1>2, <1>3
<1> QED  BY <1>4, <1>5 DEF key, more

LEMMA OnlyOne == ASSUME NEW v, NEW x \in ToSet(<<v>>) PROVE x = v
  BY DEF ToSet

(* A service-typed binding and the supply of its scope.                    *)
LEMMA SupplyServes ==
    ASSUME AInv, asm # <<>>, NEW n \in ToSet(Joining.unit.flat), n.kind # "pipeline",
           NEW sb \in NodeServices(reg, n)
    PROVE  sb.type = ScopeOf(reg, Joining.unit, n.from)[sb.name].type
<1>1. Supplied(reg, Joining.unit.decl, n)  BY JoiningHolds DEF UnitHolds
<1>2. Serves(reg, SupplyOf(reg, Joining.unit.decl, n), sb)  BY <1>1 DEF Supplied
<1> QED  BY <1>2 DEF Serves, SupplyOf, ScopeOf

LEMMA AssembleTrainableKeeps == ASSUME AInv, AssembleTrainable PROVE AInv'
<1> DEFINE t == reg.comps[Joined.from]
           sb == t.services[1]
           errors == ServiceErrors(sb, t.supply, t.config)
           sv == ServiceRuntime(sb, t.supply, t.config)
           node == RunnableNode(Joined, EffectiveConfig(t.config, reg.types[sb.type]), <<sv>>, <<>>)
<1>1. /\ asm # <<>> /\ stack = <<>> /\ Joined.kind = "trainable"
      /\ Joined \in ToSet(Joining.unit.flat)
  BY JoinedHolds DEF AssembleTrainable
<1>2. CASE errors # {}
  <2>1. PICK e \in errors : Fail(e[1], e[2])  BY <1>2 DEF AssembleTrainable
  <2> QED  BY <1>1, <2>1, FailKeeps
<1>3. CASE errors = {}
  <2>1. Join(node, Joining.adapters)  BY <1>3 DEF AssembleTrainable
  <2>2. Joined.from \in Embeds(reg, "trainable") /\ Len(t.services) = 1
    BY <1>1, JoiningHolds DEF UnitHolds
  <2>3. sb \in NodeServices(reg, Joined)
    <3>1. IsList(t.services)  BY <2>2 DEF AInv, IInv, RegistryTyped, TrainableTyped, Embeds
    <3>2. sb \in ToSet(t.services)
      <4>1. 1 \in DOMAIN t.services  BY <2>2, <3>1, ListFacts
      <4> QED  BY <4>1 DEF ToSet
    <3> QED  BY <1>1, <3>2 DEF NodeServices
  <2>4. ScopeOf(reg, Joining.unit, Joined.from) = t.supply
    BY <2>2 DEF AInv, IInv, Embeds, ScopeOf
  <2>5. Fitting(reg.types[sb.type].transport, Or(TransportOf("transport", sb.name), <<>>))
    BY <1>1, <1>3, <2>3, TransportIsThere, DeliveredFits
  <2>6. sb.type = t.supply[sb.name].type  BY <1>1, <2>3, <2>4, SupplyServes
  <2>7. /\ sv.name = sb.name /\ sv.type = sb.type /\ sv.identity = t.supply[sb.name].identity
        /\ sv.transport = Or(TransportOf("transport", sb.name), <<>>)
    BY DEF ServiceRuntime
  <2>8. node.services = <<sv>> /\ node.from = Joined.from  BY DEF RunnableNode
  <2> HIDE DEF t, sb, sv, node
  <2>9. CallsOwn(reg, Joining.unit, Joined.from, sv)
    BY <2>4, <2>5, <2>6, <2>7 DEF CallsOwn
  <2>10. NodeBuilt(reg, Joining.unit, node)
    BY <2>8, <2>9, OnlyOne DEF NodeBuilt
  <2>11. AdaptersKept(reg, Joining.unit, Joining.adapters)
    BY <1>1, JoiningHolds DEF FrameBuilt
  <2> QED  BY <1>1, <2>1, <2>10, <2>11, JoinKeeps
<1> QED  BY <1>2, <1>3

LEMMA AssembleBareKeeps == ASSUME AInv, AssembleBare PROVE AInv'
<1> DEFINE h == reg.handlers[Joined.name]
           supplies == SuppliesOf(Joined)
           config == IF h.services = <<>> THEN <<>> ELSE supplies[h.services[1].name].config
           own == UNION {ServiceErrors(sb, supplies, supplies[sb.name].config) :
                            sb \in ToSet(h.services)}
           errors == FirstErrors(<<BindingErrors(h, Joined.values), own,
                                   IF h.kind = "hook" THEN HookErrors(Joined, h) ELSE {}>>)
           bindings == [b \in DOMAIN h.bindings |-> BindingValue(h, Joined.values, b)]
           hook == IF h.kind = "hook" THEN HookTransport(Joined, h) ELSE <<>>
<1>1. /\ asm # <<>> /\ stack = <<>> /\ Joined.kind \in {"transform", "service", "hook"}
      /\ Joined \in ToSet(Joining.unit.flat)
  BY JoinedHolds DEF AssembleBare
<1>2. AdaptersKept(reg, Joining.unit, Joining.adapters)
  BY <1>1, JoiningHolds DEF FrameBuilt
<1>3. CASE errors # {}
  <2>1. PICK e \in errors : Fail(e[1], e[2])  BY <1>3 DEF AssembleBare
  <2> QED  BY <1>1, <2>1, FailKeeps
<1>4. CASE errors = {} /\ h.services = <<>>
  <2> DEFINE node == RunnableNode(Joined, bindings, <<>>, hook)
  <2>1. Join(node, Joining.adapters)  BY <1>4 DEF AssembleBare
  <2>2. node.services = <<>>  BY DEF RunnableNode
  <2> HIDE DEF node
  <2>3. NodeBuilt(reg, Joining.unit, node)  BY <2>2, EmptyList DEF NodeBuilt
  <2> QED  BY <1>1, <1>2, <2>1, <2>3, JoinKeeps
<1>5. CASE errors = {} /\ h.services # <<>>
  <2> DEFINE sb == h.services[1]
             key == AdapterKey(Joined, sb)
             fresh == [type |-> sb.type, identity |-> supplies[sb.name].identity]
             adapters == Keeping(Joining.adapters, key, fresh)
             sv == [ServiceRuntime(sb, supplies, config)
                    EXCEPT !.type = adapters[key].type, !.identity = adapters[key].identity]
             node == RunnableNode(Joined, bindings, <<sv>>, hook)
  <2>1. Join(node, adapters)  BY <1>5 DEF AssembleBare
  <2>2. sb \in ToSet(h.services)
    <3>1. Joined.name \in DOMAIN reg.handlers  BY <1>1, JoiningHolds DEF UnitHolds
    <3>2. IsList(h.services)  BY <3>1 DEF AInv, IInv, RegistryTyped, HandlerTyped
    <3>3. 1 \in DOMAIN h.services  BY <1>5, <3>2, ListFacts
    <3> QED  BY <3>3 DEF ToSet
  <2>3. sb \in NodeServices(reg, Joined)  BY <1>1, <2>2 DEF NodeServices
  <2>4. ServiceErrors(sb, supplies, supplies[sb.name].config) = {}
    <3>1. own = {}  BY <1>5, NoErrors
    <3> QED  BY <2>2, <3>1
  <2>5. Fitting(reg.types[sb.type].transport, Or(TransportOf("transport", sb.name), <<>>))
    BY <1>1, <2>3, <2>4, TransportIsThere, DeliveredFits
  <2>6. supplies = ScopeOf(reg, Joining.unit, Joined.from)
    BY DEF SuppliesOf, ScopeOf
  <2>7. sb.type = supplies[sb.name].type  BY <1>1, <2>3, <2>6, SupplyServes
  <2>8. key = <<Joined.from, sb.name>>  BY DEF AdapterKey
  <2>9. /\ AdaptersKept(reg, Joining.unit, adapters)
        /\ adapters[key].type = supplies[sb.name].type
        /\ adapters[key].identity = supplies[sb.name].identity
    <3>1. fresh.type = supplies[sb.name].type /\ fresh.identity = supplies[sb.name].identity
      BY <2>7
    <3> HIDE DEF fresh, supplies, sb, key
    <3> QED  BY <1>2, <2>6, <2>8, <3>1, AdapterAdded
  <2>10. /\ sv.name = sb.name /\ sv.type = adapters[key].type
         /\ sv.identity = adapters[key].identity
         /\ sv.transport = Or(TransportOf("transport", sb.name), <<>>)
    <3> HIDE DEF sb, key, adapters, supplies, config
    <3> QED  BY DEF ServiceRuntime
  <2>11. node.services = <<sv>> /\ node.from = Joined.from  BY DEF RunnableNode
  <2> HIDE DEF sb, key, fresh, adapters, sv, node, supplies, h
  <2>12. CallsOwn(reg, Joining.unit, Joined.from, sv)
    BY <2>5, <2>6, <2>7, <2>9, <2>10 DEF CallsOwn
  <2>13. NodeBuilt(reg, Joining.unit, node)
    BY <2>11, <2>12, OnlyOne DEF NodeBuilt
  <2> QED  BY <1>1, <2>1, <2>9, <2>13, JoinKeeps
<1> QED  BY <1>3, <1>4, <1>5

LEMMA AInvStep == AInv /\ [AssemblyNext]_<<vars, assembly>> => AInv'
<1> SUFFICES ASSUME AInv, [AssemblyNext]_<<vars, assembly>> PROVE AInv'  OBVIOUS
<1>1. CASE UNCHANGED <<vars, assembly>>
  BY <1>1 DEF AInv, IInv, Answered, Asking, Asked, Joining, Joined, vars, assembly
<1>2. CASE Next /\ UNCHANGED assembly  BY <1>2, CompileStepKeeps
<1>3. CASE Assemble
  BY <1>3, BeginAssemblyKeeps, AssembleBareKeeps, AssembleTrainableKeeps,
     RecompileEmbedKeeps, AssembleEmbedKeeps, CloseAssemblyKeeps DEF Assemble
<1> QED  BY <1>1, <1>2, <1>3 DEF AssemblyNext

LEMMA AInvInit == Beginning /\ AssembleInit => AInv
<1> SUFFICES ASSUME Beginning, AssembleInit PROVE AInv  OBVIOUS
<1>1. IInv  BY IInvInit
<1>2. asm = <<>> /\ built = NotBuilt  BY DEF AssembleInit
<1>3. AsmHolds(reg, done, asm)  BY <1>2, NothingBuilt
<1> DEFINE f == Frame("root", reg.root)
<1>4. stack = <<f>> /\ f.path = "root"  BY DEF Beginning, Frame
<1> HIDE DEF f
<1>5. stack # <<>> /\ stack[1] = f  BY <1>4
<1>6. Answered  BY <1>2, <1>4, <1>5 DEF Answered, Asking, Asked
<1> QED  BY <1>1, <1>3, <1>6 DEF AInv

(* The inductive invariant holds of every compilation and its assembly.    *)
THEOREM AssemblyInvariant == AssemblySpec => []AInv
  BY InitBegins, AInvInit, AInvStep, PTL DEF AssemblySpec

(* `_assemble_impl` keeps one adapter per scope and handle, and every node  *)
(* that shares it calls the type and the identity that its own scope        *)
(* supplied, for every set of registries and however scopes share handles. *)
THEOREM SharedAdaptersAgree == AssemblySpec => []SharedAdapterAgrees
<1>1. AInv => SharedAdapterAgrees
  BY DEF AInv, AsmHolds, FrameBuilt, NodeBuilt, CallsOwn, ScopeOf, ScopeSupply,
         SharedAdapterAgrees
<1> QED  BY <1>1, AssemblyInvariant, PTL

(* The transport block that `_transport_for_binding` delivers is the one    *)
(* that `_check_deployment_coverage` found complete for the service-type,   *)
(* overrides, shared blocks and reserved nulls included.                   *)
THEOREM DeliveredTransportsFit == AssemblySpec => []DeliveredTransportFits
<1>1. AInv => DeliveredTransportFits
  BY DEF AInv, AsmHolds, FrameBuilt, NodeBuilt, CallsOwn, Fitting, BuiltNodes,
         DeliveredTransportFits
<1> QED  BY <1>1, AssemblyInvariant, PTL

-----------------------------------------------------------------------------
(***************************************************************************)
(* What compile accepts, assembly builds: no join lacks what it looks for,  *)
(* and no nested pipeline that was handed on is refused when it is compiled *)
(* again.                                                                  *)
(***************************************************************************)
Unrefused ==
    asm # <<>> => /\ outcome.status # "refused" /\ HandedOn(done, "root")
                  /\ stack # <<>> => HandedOn(done, stack[1].path)

Assembles == HandlesApart(reg) => AcceptedAssembles
AssemblesInv == AInv /\ RecallInv /\ Unrefused /\ Assembles

(* One of the three stages has the error.                                  *)
LEMMA ErrorsOfAStage ==
    ASSUME NEW a, NEW b, NEW c, NEW e \in FirstErrors(<<a, b, c>>)
    PROVE  e \in a \/ e \in b \/ e \in c
<1> DEFINE s == <<a, b, c>>
           first(i) == s[i] # {} /\ \A j \in 1..(i - 1) : s[j] = {}
           k == CHOOSE i \in DOMAIN s : first(i)
<1>1. DOMAIN s = {1, 2, 3} /\ s[1] = a /\ s[2] = b /\ s[3] = c  OBVIOUS
<1>2. \E i \in DOMAIN s : s[i] # {}  BY DEF FirstErrors
<1>3. \E i \in DOMAIN s : first(i)
  <2>1. CASE a # {}
    <3>1. first(1)  BY <1>1, <2>1
    <3> QED  BY <1>1, <3>1
  <2>2. CASE a = {} /\ b # {}
    <3>1. \A j \in 1..1 : j = 1  OBVIOUS
    <3>2. first(2)  BY <1>1, <2>2, <3>1
    <3> QED  BY <1>1, <3>2
  <2>3. CASE a = {} /\ b = {} /\ c # {}
    <3>1. \A j \in 1..2 : j = 1 \/ j = 2  OBVIOUS
    <3>2. first(3)  BY <1>1, <2>3, <3>1
    <3> QED  BY <1>1, <3>2
  <2> QED  BY <1>1, <1>2, <2>1, <2>2, <2>3
<1>4. k \in DOMAIN s  BY <1>3
<1>5. FirstErrors(s) = s[k]  BY <1>2 DEF FirstErrors
<1> QED  BY <1>1, <1>4, <1>5

(* Bindings supplied without a fault are bindings a join resolves.         *)
LEMMA BindingsAreSupplied ==
    ASSUME NEW h, NEW values, SchemaSupplyFaults(h.bindings, values) = {},
           NEW e \in BindingErrors(h, values)
    PROVE  e[1] = "refused"
<1> DEFINE unsupplied(b) == ~h.bindings[b].compile /\ b \notin DOMAIN values
                            /\ h.bindings[b].default = <<>>
           wrong == {<<"drift", "bindings">> : b \in DOMAIN values \ DOMAIN h.bindings}
           lacking == {<<"drift", "bindings">> : b \in {x \in DOMAIN h.bindings : unsupplied(x)}}
<1>1. {<<"binding_supply", <<"unsupplied", b>>>> :
            b \in {d \in DOMAIN h.bindings \ DOMAIN values :
                    ~h.bindings[d].compile /\ h.bindings[d].default = <<>>}} = {}
  BY DEF SchemaSupplyFaults
<1>2. {<<"binding_supply", <<"supplied", b>>>> :
            b \in {v \in DOMAIN values :
                    v \in DOMAIN h.bindings => h.bindings[v].compile}} = {}
  BY DEF SchemaSupplyFaults
<1>3. wrong = {} /\ lacking = {}  BY <1>1, <1>2
<1>4. e \in wrong \/ e \in lacking \/ e[1] = "refused"
  BY DEF BindingErrors
<1> QED  BY <1>3, <1>4

(* With a deployment, a covered handle has a block.                        *)
LEMMA CoveredHasBlock ==
    ASSUME AInv, asm # <<>>, reg.deployment # <<>>,
           NEW sb, CoveredBy(reg, Joining.unit.decl.name, sb)
    PROVE  TransportOf("transport", sb.name) # {}
<1>1. PICK d \in ToSet(reg.deployment) : TRUE
  <2>1. IsList(reg.deployment)  BY DEF AInv, IInv, RegistryTyped
  <2>2. 1 \in DOMAIN reg.deployment  BY <2>1, ListFacts
  <2> QED  BY <2>2 DEF ToSet
<1>2. Covering(d, Joining.unit.decl.name, "transport", sb.name) # {}
  BY DEF CoveredBy
<1>3. Blocks("transport", sb.name) # {}  BY <1>2 DEF Blocks
<1> QED  BY <1>3 DEF TransportOf

LEMMA ServedWithoutError ==
    ASSUME NEW sb, NEW supplies, NEW config, Serves(reg, supplies, sb),
           ConfigFaults(config, reg.types[sb.type]) = {},
           TransportOf("transport", sb.name) # {}
    PROVE  ServiceErrors(sb, supplies, config) = {}
<1> DEFINE t == TransportOf("transport", sb.name)
           st == reg.types[sb.type]
           unheld == {y \in {st} : t = {} /\ y.transport # <<>>}
           lost == {<<"drift", "transport">> : x \in unheld}
           wrong == {<<"drift", "config_schema_supply">> : x \in ConfigFaults(config, st)}
<1>1. ServiceErrors(sb, supplies, config) = wrong \cup lost
  BY DEF ServiceErrors, Serves
<1>2. unheld = {}
  <2> HIDE DEF st
  <2> QED  OBVIOUS
<1>3. lost = {}
  <2> HIDE DEF unheld
  <2> QED  BY <1>2
<1>4. wrong = {}  OBVIOUS
<1> HIDE DEF wrong, lost
<1> QED  BY <1>1, <1>3, <1>4

LEMMA HookHasBlock ==
    ASSUME NEW n, NEW h, h = reg.handlers[n.name], reg.deployment # <<>>, AInv, asm # <<>>,
           HookCovered(reg, Joining.unit.decl.name, n)
    PROVE  HookErrors(n, h) = {}
<1>1. PICK d \in ToSet(reg.deployment) : TRUE
  <2>1. IsList(reg.deployment)  BY DEF AInv, IInv, RegistryTyped
  <2>2. 1 \in DOMAIN reg.deployment  BY <2>1, ListFacts
  <2> QED  BY <2>2 DEF ToSet
<1>2. HookName(n) = AddressOf(reg, n)  BY DEF HookName, AddressOf
<1>3. PICK b \in Covering(d, Joining.unit.decl.name, "hooks", HookName(n)) :
            FieldNames(h.transport) \subseteq DOMAIN b
  BY <1>2 DEF HookCovered
<1>4. Delivered(b) \in TransportOf("hooks", HookName(n))
  BY <1>3 DEF TransportOf, Blocks
<1>5. DOMAIN Delivered(b) = DOMAIN b  BY DEF Delivered
<1> DEFINE unheld == {y \in {h.transport} : y # <<>> /\
                ~\E x \in TransportOf("hooks", HookName(n)) : FieldNames(y) \subseteq DOMAIN x}
<1>6. unheld = {}  BY <1>3, <1>4, <1>5
<1>7. HookErrors(n, h) = {<<"drift", "hook_transport">> : x \in unheld}
  BY DEF HookErrors
<1> HIDE DEF unheld
<1> QED  BY <1>6, <1>7

-----------------------------------------------------------------------------
(* One lemma per action.                                                   *)

LEMMA SameRecalls == ASSUME RecallInv, UNCHANGED vars PROVE RecallInv'
  BY RecallInvStep

(* Nothing is compiled, and nothing goes wrong.                            *)
LEMMA StillAssembles ==
    ASSUME AssemblesInv, stack = <<>>, UNCHANGED vars, AInv',
           asm' # <<>> => asm # <<>>, HandlesApart(reg) /\ reg.deployment # <<>> => built'.status # "drift"
    PROVE  AssemblesInv'
<1>1. RecallInv'  BY SameRecalls DEF AssemblesInv
<1>2. Unrefused'
  BY DEF AssemblesInv, Unrefused, vars, HandedOn
<1>3. Assembles'
  BY DEF Assembles, AcceptedAssembles, HandlesApart, Embeds, vars
<1> QED  BY <1>1, <1>2, <1>3 DEF AssemblesInv

LEMMA BeginAssemblyAssembles == ASSUME AssemblesInv, BeginAssembly PROVE AssemblesInv'
<1>1. AInv'  BY BeginAssemblyKeeps DEF AssemblesInv
<1>2. stack = <<>> /\ outcome.status = "compiled" /\ UNCHANGED vars /\ built' = built
  BY DEF BeginAssembly
<1>3. RecallInv'  BY <1>2, SameRecalls DEF AssemblesInv
<1>4. HandedOn(done, "root")
  BY <1>2 DEF AssemblesInv, RecallInv, CyclesInv, RootComesFirst, HandedOn
<1>5. Unrefused'  BY <1>2, <1>4 DEF Unrefused, vars, HandedOn
<1>6. Assembles'
  BY <1>2 DEF AssemblesInv, Assembles, AcceptedAssembles, HandlesApart, Embeds, vars
<1> QED  BY <1>1, <1>3, <1>5, <1>6 DEF AssemblesInv

LEMMA JoinAssembles ==
    ASSUME AssemblesInv, stack = <<>>, asm # <<>>, AInv', NEW node, NEW adapters, Join(node, adapters)
    PROVE  AssemblesInv'
<1>1. UNCHANGED vars /\ built' = built  BY DEF Join
<1>2. HandlesApart(reg) /\ reg.deployment # <<>> => built'.status # "drift"
  BY <1>1 DEF AssemblesInv, Assembles, AcceptedAssembles
<1> QED  BY <1>1, <1>2, StillAssembles

LEMMA FailAssembles ==
    ASSUME AssemblesInv, stack = <<>>, AInv', NEW status, NEW check, Fail(status, check),
           HandlesApart(reg) /\ reg.deployment # <<>> => status # "drift"
    PROVE  AssemblesInv'
<1>1. UNCHANGED vars /\ asm' = <<>> /\ built'.status = status  BY DEF Fail
<1> QED  BY <1>1, StillAssembles

LEMMA AssembleTrainableAssembles == ASSUME AssemblesInv, AssembleTrainable PROVE AssemblesInv'
<1> DEFINE t == reg.comps[Joined.from]
           sb == t.services[1]
           errors == ServiceErrors(sb, t.supply, t.config)
<1>1. AInv /\ AInv'  BY AssembleTrainableKeeps DEF AssemblesInv
<1>2. /\ asm # <<>> /\ stack = <<>> /\ Joined.kind = "trainable"
      /\ Joined \in ToSet(Joining.unit.flat)
  BY <1>1, JoinedHolds DEF AssembleTrainable
<1>3. CASE errors = {}
  BY <1>1, <1>2, <1>3, JoinAssembles DEF AssembleTrainable
<1>4. CASE errors # {}
  <2>1. PICK e \in errors : Fail(e[1], e[2])  BY <1>4 DEF AssembleTrainable
  <2>2. ~(HandlesApart(reg) /\ reg.deployment # <<>>)
    <3> SUFFICES ASSUME reg.deployment # <<>> PROVE FALSE  OBVIOUS
    <3>1. Joined.from \in Embeds(reg, "trainable") /\ Len(t.services) = 1
      BY <1>1, <1>2, JoiningHolds DEF UnitHolds
    <3>2. sb \in NodeServices(reg, Joined)
      <4>1. IsList(t.services)  BY <1>1, <3>1 DEF AInv, IInv, RegistryTyped, TrainableTyped, Embeds
      <4>2. 1 \in DOMAIN t.services  BY <3>1, <4>1, ListFacts
      <4> QED  BY <1>2, <4>2 DEF NodeServices, ToSet
    <3>3. /\ Supplied(reg, Joining.unit.decl, Joined)
          /\ CoveredBy(reg, Joining.unit.decl.name, sb)
      BY <1>1, <1>2, <3>2, JoiningHolds DEF UnitHolds
    <3>4. SupplyOf(reg, Joining.unit.decl, Joined) = t.supply
      BY <1>1, <3>1 DEF AInv, IInv, Embeds, SupplyOf
    <3>5. Serves(reg, t.supply, sb) /\ ConfigFaults(t.config, reg.types[sb.type]) = {}
      BY <1>2, <3>2, <3>3, <3>4 DEF Supplied, Configured
    <3>6. TransportOf("transport", sb.name) # {}  BY <1>1, <1>2, <3>3, CoveredHasBlock
    <3> QED  BY <1>4, <3>5, <3>6, ServedWithoutError
  <2> QED  BY <1>1, <1>2, <2>1, <2>2, FailAssembles
<1> QED  BY <1>3, <1>4

LEMMA AssembleBareAssembles == ASSUME AssemblesInv, AssembleBare PROVE AssemblesInv'
<1> DEFINE h == reg.handlers[Joined.name]
           supplies == SuppliesOf(Joined)
           own == UNION {ServiceErrors(sb, supplies, supplies[sb.name].config) :
                            sb \in ToSet(h.services)}
           hooked == IF h.kind = "hook" THEN HookErrors(Joined, h) ELSE {}
           errors == FirstErrors(<<BindingErrors(h, Joined.values), own, hooked>>)
<1>1. AInv /\ AInv'  BY AssembleBareKeeps DEF AssemblesInv
<1>2. /\ asm # <<>> /\ stack = <<>> /\ Joined.kind \in Bare
      /\ Joined \in ToSet(Joining.unit.flat)
  BY <1>1, JoinedHolds DEF AssembleBare, Bare
<1>3. CASE errors = {}
  <2>1. \E node, adapters : Join(node, adapters)  BY <1>3 DEF AssembleBare
  <2> QED  BY <1>1, <1>2, <2>1, JoinAssembles
<1>4. CASE errors # {}
  <2>1. PICK e \in errors : Fail(e[1], e[2])  BY <1>4 DEF AssembleBare
  <2>2. ASSUME HandlesApart(reg), reg.deployment # <<>> PROVE e[1] # "drift"
    <3> DEFINE supply == SupplyOf(reg, Joining.unit.decl, Joined)
    <3>1. supply = supplies  BY DEF SuppliesOf, SupplyOf
    <3>2. /\ Supplied(reg, Joining.unit.decl, Joined)
          /\ \A sb \in NodeServices(reg, Joined) : CoveredBy(reg, Joining.unit.decl.name, sb)
          /\ h.kind = "hook" => HookCovered(reg, Joining.unit.decl.name, Joined)
      BY <1>1, <1>2, JoiningHolds DEF UnitHolds, Bare
    <3>3. Joined.kind # "pipeline" /\ Joined.kind # "trainable"  BY <1>2 DEF Bare
    <3>4. NodeServices(reg, Joined) = ToSet(h.services)  BY <3>3 DEF NodeServices
    <3>5. /\ \A sb \in ToSet(h.services) : Serves(reg, supplies, sb)
                                           /\ Configures(reg, supplies, sb)
          /\ SchemaSupplyFaults(h.bindings, Joined.values) = {}
      BY <2>2, <3>1, <3>2, <3>3, <3>4 DEF Supplied, Configured
    <3> HIDE DEF supplies, h
    <3>6. own = {}
      <4>1. ASSUME NEW sb \in ToSet(h.services)
            PROVE  ServiceErrors(sb, supplies, supplies[sb.name].config) = {}
        <5>1. TransportOf("transport", sb.name) # {}
          BY <1>1, <1>2, <2>2, <3>2, <3>4, CoveredHasBlock
        <5> QED  BY <3>5, <5>1, ServedWithoutError DEF Configures
      <4> QED  BY <4>1
    <3>7. hooked = {}  BY <1>1, <1>2, <2>2, <3>2, HookHasBlock DEF h
    <3> HIDE DEF own, hooked
    <3>8. e \in BindingErrors(h, Joined.values)
      BY <2>1, <3>6, <3>7, ErrorsOfAStage
    <3>9. e[1] = "refused"  BY <3>5, <3>8, BindingsAreSupplied
    <3> QED  BY <3>9
  <2> QED  BY <1>1, <1>2, <2>1, <2>2, FailAssembles
<1> QED  BY <1>3, <1>4

(* What is nested in a unit that was handed on was handed on.              *)
LEMMA NestedIsHandedOn ==
    ASSUME AssemblesInv, asm # <<>>, Joined \in ToSet(Joining.unit.flat), Joined.kind = "pipeline"
    PROVE  HandedOn(done, Joined.from)
<1>1. Joining.unit \in done  BY JoiningHolds DEF AssemblesInv, FrameBuilt
<1> QED  BY <1>1 DEF AssemblesInv, RecallInv, AnswersAgree, Embedded

LEMMA RecompileEmbedAssembles == ASSUME AssemblesInv, RecompileEmbed PROVE AssemblesInv'
<1> DEFINE path == Joined.from
           f == Frame(path, reg.comps[path])
<1>1. AInv /\ AInv'  BY RecompileEmbedKeeps DEF AssemblesInv
<1>2. /\ asm # <<>> /\ stack = <<>> /\ Joined.kind = "pipeline"
      /\ Joined \in ToSet(Joining.unit.flat)
  BY <1>1, JoinedHolds DEF RecompileEmbed
<1>3. /\ stack' = <<f>> /\ outcome'.status = "compiling"
      /\ reg' = reg /\ done' = done /\ built' = built
  BY DEF RecompileEmbed
<1>4. HandedOn(done, path) /\ HandedOn(done, "root")
  BY <1>2, NestedIsHandedOn DEF AssemblesInv, Unrefused
<1>5. path \in Embeds(reg, "pipeline")  BY <1>1, <1>2, JoiningHolds DEF UnitHolds
<1>6. path # "root"  BY <1>1, <1>5 DEF AInv, IInv, Embeds
<1>7. f = Frame(path, DeclOf(reg, path)) /\ f.path = path /\ f.decl = DeclOf(reg, path)
  BY <1>6 DEF DeclOf, Frame
<1>8. FrameFinished(reg, {}, f)
  <2>1. \A i \in DOMAIN <<>> : ~(i < 1)  OBVIOUS
  <2> QED  BY <2>1 DEF Frame, FrameFinished
<1>9. \A S : FrameFinished(reg, S, f)  BY <1>8 DEF FrameFinished, Frame, EntryFinished
<1> HIDE DEF f
<1>10. <<f>> # <<>> /\ Len(<<f>>) = 1 /\ DOMAIN <<f>> = {1} /\ <<f>>[1] = f  OBVIOUS
<1>11. CyclesInv'
  <2>1. PICK S : Holding(S)  BY DEF AssemblesInv, RecallInv, CyclesInv
  <2>2. CallsFinished(reg, S, <<f>>)  BY <1>7, <1>9, <1>10 DEF CallsFinished
  <2>3. Holding(S)'  BY <1>3, <2>1, <2>2 DEF Holding
  <2>4. RootComesFirst'  BY <1>3, <1>4 DEF RootComesFirst, HandedOn
  <2> QED  BY <1>1, <2>3, <2>4 DEF CyclesInv, AInv
<1>12. RecallInv'
  <2>1. PICK H : Recalling(H)  BY DEF AssemblesInv, RecallInv, Recalling
  <2>2. Tracked(done, H, f)  BY <1>7, <2>1, EnteredTracked
  <2>3. CallsTracked(done, H, <<f>>)  BY <1>10, <2>2 DEF CallsTracked
  <2>4. Trail(done, H) /\ Begun(done, H)  BY <2>1 DEF Recalling, Trailing
  <2>5. /\ Trail(done, H)' <=> Trail(done, H)
        /\ Begun(done, H)' <=> Begun(done, H)
        /\ CallsTracked(done, H, stack)' <=> CallsTracked(done, H, <<f>>)
    BY <1>3, SameTrails
  <2>6. Trailing(H)'  BY <2>3, <2>4, <2>5 DEF Trailing
  <2>7. AnswersAgree'  BY <1>3, <2>1 DEF Recalling, AnswersAgree
  <2> QED  BY <1>11, <2>6, <2>7 DEF RecallInv
<1>13. Unrefused'
  BY <1>3, <1>4, <1>7, <1>10 DEF Unrefused, HandedOn
<1>14. Assembles'
  BY <1>3 DEF AssemblesInv, Assembles, AcceptedAssembles, HandlesApart, Embeds
<1> QED  BY <1>1, <1>12, <1>13, <1>14 DEF AssemblesInv

LEMMA AssembleEmbedAssembles == ASSUME AssemblesInv, AssembleEmbed PROVE AssemblesInv'
<1>1. AInv /\ AInv'  BY AssembleEmbedKeeps DEF AssemblesInv
<1>2. asm # <<>> /\ stack = <<>>  BY <1>1, JoinedHolds DEF AssembleEmbed
<1>3. outcome.status # "refused"  BY <1>2 DEF AssemblesInv, Unrefused
<1>4. UNCHANGED vars /\ built' = built  BY <1>3 DEF AssembleEmbed
<1>5. HandlesApart(reg) /\ reg.deployment # <<>> => built'.status # "drift"
  BY <1>4 DEF AssemblesInv, Assembles, AcceptedAssembles
<1> QED  BY <1>1, <1>2, <1>4, <1>5, StillAssembles

LEMMA CloseAssemblyAssembles == ASSUME AssemblesInv, CloseAssembly PROVE AssemblesInv'
<1>1. AInv /\ AInv'  BY CloseAssemblyKeeps DEF AssemblesInv
<1>2. asm # <<>> /\ stack = <<>>  BY DEF CloseAssembly
<1>3. UNCHANGED vars /\ (built' = built \/ built'.status = "assembled")
  BY DEF CloseAssembly
<1>4. HandlesApart(reg) /\ reg.deployment # <<>> => built'.status # "drift"
  BY <1>3 DEF AssemblesInv, Assembles, AcceptedAssembles
<1> QED  BY <1>1, <1>2, <1>3, <1>4, StillAssembles

LEMMA CompileStepAssembles ==
    ASSUME AssemblesInv, Next, UNCHANGED assembly PROVE AssemblesInv'
<1>1. AInv'  BY CompileStepKeeps DEF AssemblesInv
<1>2. RecallInv'  BY RecallInvStep DEF AssemblesInv
<1>3. asm' = asm /\ built' = built  BY DEF assembly
<1>4. reg' = reg  BY CompileKeepsRegistry
<1>5. Unrefused'
  <2> SUFFICES ASSUME asm # <<>>
               PROVE  /\ outcome'.status # "refused" /\ HandedOn(done', "root")
                      /\ stack' # <<>> => HandedOn(done', stack'[1].path)
    BY <1>3 DEF Unrefused
  <2>1. stack # <<>>  BY NextCalls
  <2>2. HandedOn(done, "root") /\ HandedOn(done, stack[1].path) /\ outcome.status # "refused"
    BY <2>1 DEF AssemblesInv, Unrefused
  <2>3. RootStep  BY NextKeeps DEF Kept, AssemblesInv, AInv
  <2>4. stack' = <<>> => outcome'.status # "refused"
    BY <2>2, NextRecalls DEF AssemblesInv, RecallNext
  <2> QED  BY <2>2, <2>3, <2>4 DEF RootStep, HandedOn
<1>6. Assembles'
  BY <1>3, <1>4 DEF AssemblesInv, Assembles, AcceptedAssembles, HandlesApart, Embeds
<1> QED  BY <1>1, <1>2, <1>5, <1>6 DEF AssemblesInv

LEMMA AssemblesInvStep == AssemblesInv /\ [AssemblyNext]_<<vars, assembly>> => AssemblesInv'
<1> SUFFICES ASSUME AssemblesInv, [AssemblyNext]_<<vars, assembly>> PROVE AssemblesInv'  OBVIOUS
<1>1. CASE UNCHANGED <<vars, assembly>>
  <2>1. AInv'  BY <1>1, AInvStep DEF AssemblesInv
  <2>2. RecallInv'  BY <1>1, SameRecalls DEF AssemblesInv
  <2>3. Unrefused' /\ Assembles'
    BY <1>1 DEF AssemblesInv, Unrefused, Assembles, AcceptedAssembles, HandlesApart, Embeds,
       vars, assembly
  <2> QED  BY <2>1, <2>2, <2>3 DEF AssemblesInv
<1>2. CASE Next /\ UNCHANGED assembly  BY <1>2, CompileStepAssembles
<1>3. CASE Assemble
  BY <1>3, BeginAssemblyAssembles, AssembleBareAssembles, AssembleTrainableAssembles,
     RecompileEmbedAssembles, AssembleEmbedAssembles, CloseAssemblyAssembles DEF Assemble
<1> QED  BY <1>1, <1>2, <1>3 DEF AssemblyNext

LEMMA AssemblesInvInit == Beginning /\ AssembleInit => AssemblesInv
<1> SUFFICES ASSUME Beginning, AssembleInit PROVE AssemblesInv  OBVIOUS
<1>1. AInv /\ RecallInv  BY AInvInit, RecallInvInit
<1>2. Unrefused /\ Assembles
  BY DEF AssembleInit, Unrefused, Assembles, AcceptedAssembles, NotBuilt
<1> QED  BY <1>1, <1>2 DEF AssemblesInv

(* The inductive invariant, of what is compiled again too.                 *)
THEOREM AssemblesInvariant == AssemblySpec => []AssemblesInv
  BY InitBegins, AssemblesInvInit, AssemblesInvStep, PTL DEF AssemblySpec

(* `_recompile` of a nested pipeline at assembly hands on the unit that its *)
(* first compile call did, and so does each later call of one declaration.  *)
THEOREM RecompilingAgrees == AssemblySpec => []EveryAnswerAgrees
<1>1. AssemblesInv => EveryAnswerAgrees
  BY DEF AssemblesInv, RecallInv, AnswersAgree, EveryAnswerAgrees
<1> QED  BY <1>1, AssemblesInvariant, PTL

(* What `compile_pipeline` accepts with a deployment, `assemble` builds     *)
(* without an engine error, for every set of registries in which no         *)
(* preprocessor takes the handle of its composition's backend: no binding,  *)
(* identity, config or transport is missing, and no recompiled embed is     *)
(* refused.                                                                *)
THEOREM AcceptedPipelinesAssemble ==
    AssemblySpec => [](HandlesApart(reg) => AcceptedAssembles)
<1>1. AssemblesInv => (HandlesApart(reg) => AcceptedAssembles)
  BY DEF AssemblesInv, Assembles
<1> QED  BY <1>1, AssemblesInvariant, PTL
-----------------------------------------------------------------------------
(***************************************************************************)
(* A load whose documents have been parsed: the files are read, and what    *)
(* that leaves registered is compiled and assembled.  What holds of compile *)
(* and assembly for every typed registry holds then too, since reading     *)
(* files and registering again leave a registry typed.                     *)
(***************************************************************************)
StagesInit == FilesInit /\ AssembleInit
StagesNext ==
    \/ Resolve /\ UNCHANGED assembly
    \/ AssemblyNext /\ UNCHANGED resolution
StagesSpec == StagesInit /\ [][StagesNext]_<<vars, assembly, resolution>>

(* What compile and assembly keep.                                         *)
LoadHolds == AssemblesInv /\ StreamInv

(* Until the files are read compile has not been called.                   *)
NotCalled ==
    /\ stack = <<>> /\ done = {} /\ AssembleInit
    /\ phase \in {"files", "params", "refused"}
    /\ IF phase = "refused" THEN outcome.status = "refused"
       ELSE outcome = [status |-> "compiling"]

StagesInv ==
    /\ FilesInv /\ RegistryGiven
    /\ IF phase = "compile" THEN LoadHolds ELSE NotCalled

(* A composition registered again with its kind, typed.                    *)
LEMMA RegisteredTyped ==
    ASSUME NEW r, RegistryTyped(r), NEW p \in DOMAIN r.comps, NEW c,
           "kind" \in DOMAIN c, c.kind = r.comps[p].kind,
           c.kind = "trainable" => TrainableTyped(c),
           c.kind = "pipeline" => PipelineTyped(c),
           c.kind = "bundle" => IsList(c.nodes),
           NEW q, q = [r EXCEPT !.comps = [r.comps EXCEPT ![p] = c]]
    PROVE  RegistryTyped(q) /\ DOMAIN q.comps = DOMAIN r.comps
<1>1. {"root", "comps", "handlers", "deployment"} \subseteq DOMAIN r  BY DEF RegistryTyped
<1>2. /\ DOMAIN q = DOMAIN r /\ q.root = r.root /\ q.handlers = r.handlers
      /\ q.deployment = r.deployment /\ q.comps = [r.comps EXCEPT ![p] = c]
  BY <1>1
<1>3. /\ DOMAIN q.comps = DOMAIN r.comps /\ q.comps[p] = c
      /\ \A x \in DOMAIN r.comps : x # p => q.comps[x] = r.comps[x]
  BY <1>2
<1>4. \A x \in DOMAIN q.comps :
        /\ "kind" \in DOMAIN q.comps[x]
        /\ q.comps[x].kind = "trainable" => TrainableTyped(q.comps[x])
        /\ q.comps[x].kind = "pipeline" => PipelineTyped(q.comps[x])
        /\ q.comps[x].kind = "bundle" => IsList(q.comps[x].nodes)
  <2> TAKE x \in DOMAIN q.comps
  <2>1. CASE x = p  BY <1>3, <2>1
  <2>2. CASE x # p  BY <1>3, <2>2 DEF RegistryTyped
  <2> QED  BY <2>1, <2>2
<1> QED  BY <1>1, <1>2, <1>3, <1>4 DEF RegistryTyped

LEMMA NodesReadTyped ==
    ASSUME NEW c, PipelineTyped(c), NEW nodes, IsList(nodes)
    PROVE  PipelineTyped([c EXCEPT !.nodes = nodes])
<1> DEFINE d == [c EXCEPT !.nodes = nodes]
<1>1. DOMAIN d = DOMAIN c /\ d.nodes = nodes /\ d.inputs = c.inputs /\ d.outputs = c.outputs
  BY DEF PipelineTyped
<1> HIDE DEF d
<1>2. PipelineTyped(d)  BY <1>1 DEF PipelineTyped
<1> QED  BY <1>2 DEF d

LEMMA TrainableReadTyped ==
    ASSUME NEW t, TrainableTyped(t), NEW pre, pre = [i \in DOMAIN t.pre |-> pre[i]],
           \A i \in DOMAIN t.pre : /\ DOMAIN pre[i] = DOMAIN t.pre[i]
                                  /\ pre[i].rmap = t.pre[i].rmap /\ pre[i].wmap = t.pre[i].wmap
    PROVE  TrainableTyped([t EXCEPT !.pre = pre])
<1> DEFINE d == [t EXCEPT !.pre = pre]
<1>1. /\ DOMAIN d = DOMAIN t /\ d.name = t.name /\ d.streamable = t.streamable
      /\ d.reads = t.reads /\ d.writes = t.writes /\ d.services = t.services
      /\ d.merge = t.merge /\ d.pre = pre
  BY DEF TrainableTyped
<1>2. IsList(pre) /\ DOMAIN pre = DOMAIN t.pre
  <2>1. t.pre \in Seq(ToSet(t.pre))  BY DEF TrainableTyped, IsList
  <2>2. Len(t.pre) \in Nat /\ DOMAIN t.pre = 1..Len(t.pre)  BY <2>1
  <2> QED  BY <2>2, ListOfValues
<1> HIDE DEF d
<1>3. TrainableTyped(d)
  BY <1>1, <1>2 DEF TrainableTyped
<1> QED  BY <1>3 DEF d

LEMMA HandlersStampedTyped ==
    ASSUME NEW r, RegistryTyped(r), NEW handlers, DOMAIN handlers = DOMAIN r.handlers,
           \A n \in DOMAIN handlers : HandlerTyped(handlers[n]),
           NEW q, q = [r EXCEPT !.handlers = handlers]
    PROVE  RegistryTyped(q) /\ q.root = r.root /\ q.comps = r.comps
<1>1. {"root", "comps", "handlers", "deployment"} \subseteq DOMAIN r  BY DEF RegistryTyped
<1>2. /\ DOMAIN q = DOMAIN r /\ q.root = r.root /\ q.handlers = handlers
      /\ q.deployment = r.deployment /\ q.comps = r.comps
  BY <1>1
<1> QED  BY <1>1, <1>2 DEF RegistryTyped

(* `resolve_composition_bindings` and the return from a declaration.        *)
LEMMA ResolveTrainableTyped ==
    ASSUME FilesInv, RegistryGiven, NEW p \in DOMAIN reg.comps,
           reg.comps[p].kind = "trainable", ResolveTrainable(p, reg.comps[p])
    PROVE  RegistryGiven'
<1> DEFINE c == reg.comps[p]
           pre == [i \in DOMAIN c.pre |-> [c.pre[i] EXCEPT !.values = ReadAll(AnchorOf(p), @)]]
           d == [c EXCEPT !.pre = pre]
<1>1. CASE \E values \in OwnValues(c) : ~Readable(AnchorOf(p), values)
  BY <1>1 DEF ResolveTrainable, Unsupported, RefuseFile, RegistryGiven
<1>2. CASE \A values \in OwnValues(c) : Readable(AnchorOf(p), values)
  <2>1. reg' = [reg EXCEPT !.comps = [reg.comps EXCEPT ![p] = d]]
    BY <1>2 DEF ResolveTrainable
  <2>2. TrainableTyped(c) /\ "kind" \in DOMAIN c  BY DEF RegistryGiven, RegistryTyped
  <2>3. \A i \in DOMAIN c.pre : /\ DOMAIN pre[i] = DOMAIN c.pre[i]
                                /\ pre[i].rmap = c.pre[i].rmap /\ pre[i].wmap = c.pre[i].wmap
    <3> SUFFICES ASSUME NEW i \in DOMAIN c.pre
                 PROVE  /\ DOMAIN pre[i] = DOMAIN c.pre[i]
                        /\ pre[i].rmap = c.pre[i].rmap /\ pre[i].wmap = c.pre[i].wmap
      OBVIOUS
    <3>1. {"rmap", "wmap"} \subseteq DOMAIN c.pre[i]  BY <2>2 DEF TrainableTyped
    <3>2. pre[i] = [c.pre[i] EXCEPT !.values = ReadAll(AnchorOf(p), @)]  OBVIOUS
    <3> QED  BY <3>1, <3>2
  <2>4. pre = [i \in DOMAIN c.pre |-> pre[i]]  OBVIOUS
  <2> HIDE DEF pre
  <2>5. TrainableTyped(d)  BY <2>2, <2>3, <2>4, TrainableReadTyped
  <2>6. "kind" \in DOMAIN d /\ d.kind = "trainable"  BY <2>2
  <2> HIDE DEF d
  <2> QED  BY <2>1, <2>5, <2>6, RegisteredTyped DEF RegistryGiven
<1> QED  BY <1>1, <1>2

LEMMA ReturnResolvedTyped ==
    ASSUME FilesInv, RegistryGiven, ReturnResolved PROVE RegistryGiven'
<1>1. walk # <<>>  BY DEF ReturnResolved
<1>2. PICK S : WalkRead(reg, S, walk)  BY DEF FilesInv
<1>3. FrameRead(reg, S, Reading) /\ Len(walk) \in DOMAIN walk  BY <1>1, <1>2, InnermostRead
<1>4. IsList(Reading.nodes)  BY <1>3 DEF FrameRead, NodeList
<1>5. CASE Len(walk) = 1
  <2> DEFINE root == [reg.root EXCEPT !.nodes = Reading.nodes]
  <2>1. reg' = [reg EXCEPT !.root = root]  BY <1>5 DEF ReturnResolved
  <2>2. PipelineTyped(root)  BY <1>4, NodesReadTyped DEF RegistryGiven, RegistryTyped
  <2> HIDE DEF root
  <2>3. {"root", "comps", "handlers", "deployment"} \subseteq DOMAIN reg
    BY DEF RegistryGiven, RegistryTyped
  <2>4. /\ DOMAIN reg' = DOMAIN reg /\ reg'.root = root /\ reg'.comps = reg.comps
        /\ reg'.handlers = reg.handlers /\ reg'.deployment = reg.deployment
    BY <2>1, <2>3
  <2> QED  BY <2>2, <2>4 DEF RegistryGiven, RegistryTyped
<1>6. CASE Len(walk) # 1
  <2> DEFINE p == Reading.path
             c == reg.comps[p]
             d == [c EXCEPT !.nodes = Reading.nodes]
  <2>1. reg' = [reg EXCEPT !.comps = [reg.comps EXCEPT ![p] = d]]  BY <1>6 DEF ReturnResolved
  <2>2. p \in DOMAIN reg.comps /\ c.kind # "trainable"
    BY <1>2, <1>3, <1>6 DEF WalkRead, Reading
  <2>3. {"kind", "nodes"} \subseteq DOMAIN c
    BY <2>2 DEF RegistryGiven, RegistryTyped, FilesInv, RegistryHolds, Shaped
  <2>4. DOMAIN d = DOMAIN c /\ d.kind = c.kind /\ d.nodes = Reading.nodes  BY <2>3
  <2>5. c.kind = "pipeline" => PipelineTyped(d)
    BY <1>4, <2>2, NodesReadTyped DEF RegistryGiven, RegistryTyped
  <2> HIDE DEF d
  <2> QED  BY <1>4, <2>1, <2>2, <2>3, <2>4, <2>5, RegisteredTyped DEF RegistryGiven
<1> QED  BY <1>5, <1>6

(* `resolve_compile_param_files` stamps parameters only.                    *)
LEMMA ResolveParamsTyped ==
    ASSUME RegistryGiven, ResolveParams
    PROVE  RegistryGiven' /\ reg'.root = reg.root
<1>1. CASE Unsupported  BY <1>1 DEF Unsupported, RefuseFile, RegistryGiven
<1>2. CASE ~Unsupported
  <2> DEFINE handlers == [n \in DOMAIN reg.handlers |->
                             IF n \in WithFileParams THEN Stamped(n) ELSE reg.handlers[n]]
  <2>1. reg' = [reg EXCEPT !.handlers = handlers]  BY <1>2 DEF ResolveParams
  <2>2. \A n \in DOMAIN reg.handlers : HandlerTyped(reg.handlers[n])
    BY DEF RegistryGiven, RegistryTyped
  <2>3. \A n \in DOMAIN reg.handlers : HandlerTyped(Stamped(n))
    <3> SUFFICES ASSUME NEW n \in DOMAIN reg.handlers PROVE HandlerTyped(Stamped(n))
      OBVIOUS
    <3> DEFINE h == reg.handlers[n]
    <3>1. {"kind", "reads", "writes", "services"} \subseteq DOMAIN h  BY <2>2 DEF HandlerTyped
    <3>2. /\ DOMAIN Stamped(n) = DOMAIN h /\ Stamped(n).kind = h.kind
          /\ Stamped(n).reads = h.reads /\ Stamped(n).writes = h.writes
          /\ Stamped(n).services = h.services
      BY <3>1 DEF Stamped
    <3> QED  BY <2>2, <3>2 DEF HandlerTyped
  <2>4. \A n \in DOMAIN handlers : HandlerTyped(handlers[n])  BY <2>2, <2>3
  <2>5. DOMAIN handlers = DOMAIN reg.handlers  OBVIOUS
  <2> HIDE DEF handlers
  <2> QED  BY <2>1, <2>4, <2>5, HandlersStampedTyped DEF RegistryGiven
<1> QED  BY <1>1, <1>2

(* Whatever the pass does, the registry stays typed.                       *)
LEMMA ResolveTyped == ASSUME FilesInv, RegistryGiven, Resolve PROVE RegistryGiven'
<1>1. CASE UNCHANGED reg  BY <1>1 DEF RegistryGiven
<1>2. CASE ResolveHandlerNode
  BY <1>1, <1>2 DEF ResolveHandlerNode, Unsupported, RefuseFile, vars
<1>3. CASE ResolveComposition
  <2> DEFINE p == Node.name
  <2>1. CASE \E check : RefuseFile(check)  BY <1>1, <2>1 DEF RefuseFile
  <2>2. CASE ~\E check : RefuseFile(check)
    <3>1. /\ p \in DOMAIN reg.comps
          /\ reg.comps[p].kind = "trainable" => ResolveTrainable(p, reg.comps[p])
          /\ reg.comps[p].kind # "trainable" => UNCHANGED reg
      BY <1>3, <2>2 DEF ResolveComposition, Unsupported, vars
    <3> HIDE DEF p
    <3> QED  BY <1>1, <3>1, ResolveTrainableTyped
  <2> QED  BY <2>1, <2>2
<1> QED  BY <1>2, <1>3, ReturnResolvedTyped, ResolveParamsTyped DEF Resolve

(* The pass is refused, goes on, or calls compile.                         *)
LEMMA ResolveGoesOn ==
    ASSUME StagesInv, Resolve
    PROVE  /\ NotCalled /\ phase # "refused" /\ done' = done
           /\ \/ phase' = "refused" /\ outcome'.status = "refused" /\ stack' = stack
              \/ phase' \in {"files", "params"} /\ UNCHANGED <<stack, outcome>>
              \/ /\ phase' = "compile" /\ outcome' = [status |-> "compiling"]
                 /\ stack' = <<Frame("root", reg'.root)>>
<1> DEFINE Goes == \/ phase' = "refused" /\ outcome'.status = "refused" /\ stack' = stack
                   \/ phase' \in {"files", "params"} /\ UNCHANGED <<stack, outcome>>
                   \/ /\ phase' = "compile" /\ outcome' = [status |-> "compiling"]
                      /\ stack' = <<Frame("root", reg'.root)>>
<1>1. walk # <<>> => phase = "files"  BY DEF StagesInv, FilesInv
<1>2. walk # <<>> \/ phase = "params"
  BY DEF Resolve, ResolveHandlerNode, ResolveComposition, ReturnResolved, ResolveParams, AtNode
<1>3. NotCalled /\ phase # "refused"  BY <1>1, <1>2 DEF StagesInv
<1>4. \A check : RefuseFile(check) => done' = done /\ Goes  BY DEF RefuseFile
<1>5. CASE ResolveHandlerNode
  <2>1. phase = "files"  BY <1>1, <1>5 DEF ResolveHandlerNode, AtNode
  <2> QED  BY <1>3, <1>4, <1>5, <2>1 DEF ResolveHandlerNode, Unsupported, vars
<1>6. CASE ResolveComposition
  <2>1. phase = "files"  BY <1>1, <1>6 DEF ResolveComposition, AtNode
  <2>2. CASE \E check : RefuseFile(check)  BY <1>3, <1>4, <2>2
  <2>3. CASE ~\E check : RefuseFile(check)
    <3>1. UNCHANGED <<stack, outcome, done, phase>>
      BY <1>6, <2>3 DEF ResolveComposition, ResolveTrainable, Unsupported, vars
    <3> QED  BY <1>3, <2>1, <3>1
  <2> QED  BY <2>2, <2>3
<1>7. CASE ReturnResolved
  <2>1. phase = "files"  BY <1>1, <1>7 DEF ReturnResolved
  <2>2. UNCHANGED <<stack, outcome, done>> /\ phase' \in {phase, "params"}
    BY <1>7 DEF ReturnResolved
  <2> QED  BY <1>3, <2>1, <2>2
<1>8. CASE ResolveParams
  <2>1. CASE Unsupported  BY <1>3, <1>4, <2>1 DEF Unsupported
  <2>2. CASE ~Unsupported
    <3>1. reg'.root = reg.root  BY <1>8, ResolveParamsTyped DEF StagesInv
    <3>2. phase = "params"  BY <1>8 DEF ResolveParams
    <3>3. outcome = [status |-> "compiling"]  BY <1>3, <3>2 DEF NotCalled
    <3>4. /\ phase' = "compile" /\ stack' = <<Frame("root", reg.root)>>
          /\ UNCHANGED <<outcome, done>>
      BY <1>8, <2>2 DEF ResolveParams
    <3> QED  BY <1>3, <3>1, <3>3, <3>4
  <2> QED  BY <2>1, <2>2
<1> QED  BY <1>5, <1>6, <1>7, <1>8 DEF Resolve

LEMMA LoadBegins == Beginning /\ AssembleInit => LoadHolds
  BY AssemblesInvInit, StreamInvInit DEF LoadHolds

LEMMA LoadBeginsNext == Beginning' /\ AssembleInit' => LoadHolds'
  BY LoadBegins, PTL

(* Assembly compiles an embed again, or leaves compile's state alone.      *)
LEMMA AssembleCalls == ASSUME Assemble PROVE RecompileEmbed \/ UNCHANGED vars
<1>1. \A status, check : Fail(status, check) => UNCHANGED vars  BY DEF Fail
<1>2. \A node, adapters : Join(node, adapters) => UNCHANGED vars  BY DEF Join
<1>3. BeginAssembly \/ CloseAssembly => UNCHANGED vars  BY DEF BeginAssembly, CloseAssembly
<1>4. AssembleBare => UNCHANGED vars  BY <1>1, <1>2 DEF AssembleBare
<1>5. AssembleTrainable => UNCHANGED vars  BY <1>1, <1>2 DEF AssembleTrainable
<1>6. AssembleEmbed => UNCHANGED vars  BY <1>1 DEF AssembleEmbed
<1> QED  BY <1>3, <1>4, <1>5, <1>6 DEF Assemble

LEMMA LoadStep == ASSUME LoadHolds, AssemblyNext PROVE LoadHolds'
<1>1. AssemblesInv'  BY AssemblesInvStep DEF LoadHolds
<1>2. CASE Next \/ UNCHANGED vars
  <2>1. StreamInv'  BY <1>2, StreamInvStep DEF LoadHolds
  <2> QED  BY <1>1, <2>1 DEF LoadHolds
<1>3. CASE RecompileEmbed
  <2> DEFINE f == Frame(Joined.from, reg.comps[Joined.from])
  <2>1. stack' = <<f>> /\ reg' = reg /\ done' = done  BY <1>3 DEF RecompileEmbed
  <2>2. StreamsTraced(reg, f)  BY EmptyList DEF StreamsTraced, Frame
  <2> HIDE DEF f
  <2>3. Len(<<f>>) = 1 /\ DOMAIN <<f>> = {1} /\ <<f>>[1] = f  OBVIOUS
  <2>4. StreamsHold(reg, <<f>>)  BY <2>2, <2>3 DEF StreamsHold
  <2>5. CyclesInv'  BY <1>1 DEF AssemblesInv, RecallInv
  <2>6. NestedApart(reg) => UnitsStream  BY DEF LoadHolds, StreamInv
  <2>7. StreamInv'  BY <2>1, <2>4, <2>5, <2>6 DEF StreamInv, UnitsStream
  <2> QED  BY <1>1, <2>7 DEF LoadHolds
<1> QED  BY <1>2, <1>3, AssembleCalls DEF AssemblyNext

LEMMA StagesInvStep ==
    StagesInv /\ [StagesNext]_<<vars, assembly, resolution>> => StagesInv'
<1> SUFFICES ASSUME StagesInv, [StagesNext]_<<vars, assembly, resolution>> PROVE StagesInv'
  OBVIOUS
<1>1. CASE UNCHANGED <<vars, assembly, resolution>>
  <2>1. FilesInv'  BY <1>1, FilesInvStep DEF StagesInv
  <2>2. LoadHolds => LoadHolds'
    BY <1>1, AssemblesInvStep, StreamInvStep DEF LoadHolds
  <2>3. NotCalled => NotCalled'
    BY <1>1 DEF NotCalled, AssembleInit, vars, assembly, resolution
  <2>4. RegistryGiven' /\ phase' = phase  BY <1>1 DEF StagesInv, RegistryGiven, vars, resolution
  <2> QED  BY <2>1, <2>2, <2>3, <2>4 DEF StagesInv
<1>2. CASE Resolve /\ UNCHANGED assembly
  <2>1. FilesInv'  BY <1>2, FilesInvStep DEF StagesInv, FilesNext
  <2>2. RegistryGiven'  BY <1>2, ResolveTyped DEF StagesInv
  <2>3. NotCalled /\ phase # "refused" /\ done' = done  BY <1>2, ResolveGoesOn
  <2>4. AssembleInit'  BY <1>2, <2>3 DEF NotCalled, AssembleInit, assembly
  <2>5. CASE phase' = "compile"
    <3>1. Beginning'
      BY <1>2, <2>2, <2>3, <2>5, ResolveGoesOn DEF Beginning, NotCalled
    <3> QED  BY <2>1, <2>2, <2>4, <2>5, <3>1, LoadBeginsNext DEF StagesInv
  <2>6. CASE phase' # "compile"
    <3>1. outcome = [status |-> "compiling"] /\ stack = <<>> /\ done = {}
      BY <2>3 DEF NotCalled
    <3>2. NotCalled'
      BY <1>2, <2>3, <2>4, <2>6, <3>1, ResolveGoesOn DEF NotCalled
    <3> QED  BY <2>1, <2>2, <2>6, <3>2 DEF StagesInv
  <2> QED  BY <2>5, <2>6
<1>3. CASE AssemblyNext /\ UNCHANGED resolution
  <2>1. phase = "compile"
    <3> SUFFICES ASSUME NotCalled PROVE FALSE  BY DEF StagesInv
    <3>1. stack = <<>> /\ asm = <<>> /\ outcome.status # "compiled"
      BY DEF NotCalled, AssembleInit
    <3>2. ~Next  BY <3>1, NextCalls
    <3>3. ~Assemble
      BY <3>1 DEF Assemble, BeginAssembly, AssembleBare, AssembleTrainable, RecompileEmbed,
                  AssembleEmbed, CloseAssembly, Joins
    <3> QED  BY <1>3, <3>2, <3>3 DEF AssemblyNext
  <2>2. LoadHolds'  BY <1>3, <2>1, LoadStep DEF StagesInv
  <2>3. reg' = reg
    <3>1. Next => reg' = reg  BY CompileKeepsRegistry
    <3>2. Assemble => reg' = reg  BY AssembleCalls DEF RecompileEmbed, vars
    <3> QED  BY <1>3, <3>1, <3>2 DEF AssemblyNext
  <2>4. FilesInv' /\ phase' = phase
    BY <1>3, <2>3 DEF StagesInv, FilesInv, resolution
  <2>5. RegistryGiven'  BY <2>3 DEF StagesInv, RegistryGiven
  <2> QED  BY <2>1, <2>2, <2>4, <2>5 DEF StagesInv
<1> QED  BY <1>1, <1>2, <1>3 DEF StagesNext

LEMMA StagesInvInit == StagesInit => StagesInv
<1> SUFFICES ASSUME StagesInit PROVE StagesInv  OBVIOUS
<1>1. FilesInv  BY FilesInvInit DEF StagesInit
<1>2. RegistryGiven
  BY OuterIsNoPath, RegistriesTyped DEF StagesInit, FilesInit, RegistryGiven
<1>3. NotCalled /\ phase = "files"  BY DEF StagesInit, FilesInit, NotCalled
<1> QED  BY <1>1, <1>2, <1>3 DEF StagesInv

(* The inductive invariant holds of every load of parsed declarations.     *)
THEOREM StagesInvariant == StagesSpec => []StagesInv
  BY StagesInvInit, StagesInvStep, PTL DEF StagesSpec

LoadPromises ==
    /\ FilesResolvedAtHome
    /\ StackIsSimple /\ MergesStayInScope /\ NoCycleCompiles
    /\ RulesHoldOfGraphs /\ EveryAnswerAgrees
    /\ NestedApart(reg) => CompiledGraphsAreAccepted
    /\ SharedAdapterAgrees /\ DeliveredTransportFits
    /\ HandlesApart(reg) => AcceptedAssembles

LEMMA LoadKeepsPromises ==
    ASSUME LoadHolds
    PROVE  /\ StackIsSimple /\ MergesStayInScope /\ NoCycleCompiles
           /\ RulesHoldOfGraphs /\ EveryAnswerAgrees
           /\ NestedApart(reg) => CompiledGraphsAreAccepted
           /\ SharedAdapterAgrees /\ DeliveredTransportFits
           /\ HandlesApart(reg) => AcceptedAssembles
<1>1. AInv /\ RecallInv /\ Assembles /\ StreamInv  BY DEF LoadHolds, AssemblesInv
<1>2. IInv  BY <1>1 DEF AInv
<1>3. StackIsSimple  BY <1>2 DEF IInv, StackHolds, Simple, StackIsSimple
<1>4. MergesStayInScope  BY <1>2 DEF IInv, UnitHolds, MergesStayInScope
<1>5. RulesHoldOfGraphs
  BY <1>2 DEF IInv, UnitHolds, RulesHoldOfGraphs, Walkable, TopologyRules
<1>6. NoCycleCompiles  BY <1>1, FinishedIsAcyclic DEF RecallInv
<1>7. NestedApart(reg) => CompiledGraphsAreAccepted  BY <1>1, ScannedIsAccepted
<1>8. EveryAnswerAgrees  BY <1>1 DEF RecallInv, AnswersAgree, EveryAnswerAgrees
<1>9. SharedAdapterAgrees
  BY <1>1 DEF AInv, AsmHolds, FrameBuilt, NodeBuilt, CallsOwn, ScopeOf, ScopeSupply,
              SharedAdapterAgrees
<1>10. DeliveredTransportFits
  BY <1>1 DEF AInv, AsmHolds, FrameBuilt, NodeBuilt, CallsOwn, Fitting, BuiltNodes,
              DeliveredTransportFits
<1> QED
  BY <1>1, <1>3, <1>4, <1>5, <1>6, <1>7, <1>8, <1>9, <1>10 DEF Assembles

(* Before compile is called there is nothing to promise.                   *)
LEMMA NothingPromised ==
    ASSUME NotCalled
    PROVE  /\ StackIsSimple /\ MergesStayInScope /\ NoCycleCompiles
           /\ RulesHoldOfGraphs /\ EveryAnswerAgrees /\ CompiledGraphsAreAccepted
           /\ SharedAdapterAgrees /\ DeliveredTransportFits /\ AcceptedAssembles
<1>1. /\ stack = <<>> /\ DOMAIN stack = {} /\ done = {} /\ asm = <<>> /\ DOMAIN asm = {}
      /\ built = NotBuilt /\ outcome.status # "compiled"
  BY DEF NotCalled, AssembleInit
<1>2. StackIsSimple /\ MergesStayInScope /\ NoCycleCompiles /\ RulesHoldOfGraphs
  BY <1>1 DEF StackIsSimple, MergesStayInScope, NoCycleCompiles, RulesHoldOfGraphs
<1>3. EveryAnswerAgrees /\ CompiledGraphsAreAccepted
  BY <1>1 DEF EveryAnswerAgrees, OneAnswer, CompiledGraphsAreAccepted
<1>4. SharedAdapterAgrees /\ DeliveredTransportFits /\ AcceptedAssembles
  BY <1>1 DEF SharedAdapterAgrees, DeliveredTransportFits, BuiltNodes, AcceptedAssembles, NotBuilt
<1> QED  BY <1>2, <1>3, <1>4

(* What compile and assembly promise of a typed registry that is handed to  *)
(* them they promise of the registries that reading the files of any parsed *)
(* declarations leaves: no step of `resolve_pipeline_bindings` or           *)
(* `resolve_compile_param_files` costs a registry what they rely on.        *)
THEOREM LoadsKeepTheirPromises == StagesSpec => []LoadPromises
<1>1. StagesInv => LoadPromises
  <2> SUFFICES ASSUME StagesInv PROVE LoadPromises  OBVIOUS
  <2>1. FilesResolvedAtHome  BY ReadIsAtHome DEF StagesInv
  <2>2. CASE LoadHolds  BY <2>1, <2>2, LoadKeepsPromises DEF LoadPromises
  <2>3. CASE NotCalled  BY <2>1, <2>3, NothingPromised DEF LoadPromises
  <2> QED  BY <2>2, <2>3 DEF StagesInv
<1> QED  BY <1>1, StagesInvariant, PTL
==============================================================================
