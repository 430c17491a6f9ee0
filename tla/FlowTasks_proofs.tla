-------------------------- MODULE FlowTasks_proofs --------------------------
(***************************************************************************)
(* Proofs about the goroutines of a request: the edges they follow, the    *)
(* paths that name them, the tree they form, and the types of all          *)
(* variables of the orchestrator.                                          *)
(***************************************************************************)
EXTENDS FlowOrchestrator, FiniteSetTheorems, SequenceTheorems, TLAPS

\* A set of naturals with an element has a least one.
LEMMA LeastElement ==
  ASSUME NEW S \in SUBSET Nat, S # {}
  PROVE  \E i \in S : \A j \in S : i <= j
<1>1. PICK top \in S : TRUE
  OBVIOUS
<1> DEFINE upTo(i) == 0 .. i
           T       == {upTo(i) : i \in {j \in S : j <= top}}
<1>2. IsWellFoundedOn(StrictSubsetOrdering(upTo(top)), SUBSET upTo(top))
  <2>1. IsFiniteSet(upTo(top))
    BY FS_Interval
  <2> HIDE DEF upTo
  <2> QED
    BY <2>1, FS_FiniteSubsetsOfFinite, FS_StrictSubsetOrderingWellFounded
<1>3. T \subseteq SUBSET upTo(top) /\ T # {}
  BY <1>1
<1> HIDE DEF T
<1>4. PICK x \in T : \A y \in T : ~(<<y, x>> \in StrictSubsetOrdering(upTo(top)))
  <2> HIDE DEF upTo
  <2> QED
    BY <1>2, <1>3, WFMin, Zenon
<1>5. PICK i \in S : i <= top /\ x = upTo(i)
  BY <1>4 DEF T
<1>6. ASSUME NEW j \in S, j < i PROVE FALSE
  <2>1. upTo(j) \in T /\ upTo(j) \subseteq upTo(i) /\ i \in upTo(i) /\ i \notin upTo(j)
    BY <1>5, <1>6 DEF T
  <2>2. <<upTo(j), x>> \in StrictSubsetOrdering(upTo(top))
    BY <1>3, <1>4, <1>5, <2>1 DEF StrictSubsetOrdering
  <2> QED
    BY <1>4, <2>1, <2>2
<1> QED
  BY <1>5, <1>6

\* GetEdge returns an edge that joins the two nodes, and no earlier one does.
LEMMA FirstEdge ==
  ASSUME NEW nodes, NEW limits, NEW edges \in Seq(EdgeSet(nodes, limits)),
         NEW i \in DOMAIN edges
  PROVE  LET e == GetEdge(edges, edges[i].from, edges[i].to)
         IN  /\ e \in EdgeSet(nodes, limits)
             /\ e.from = edges[i].from /\ e.to = edges[i].to
             /\ \E k \in DOMAIN edges :
                   /\ e = edges[k]
                   /\ \A j \in DOMAIN edges :
                         edges[j].from = e.from /\ edges[j].to = e.to => k <= j
<1> DEFINE between == {j \in DOMAIN edges : edges[j].from = edges[i].from
                                             /\ edges[j].to = edges[i].to}
           k       == CHOOSE j \in between : \A l \in between : j <= l
<1>1. between # {} /\ between \subseteq Nat
  OBVIOUS
<1>2. \E j \in between : \A l \in between : j <= l
  BY <1>1, LeastElement
<1>3. k \in between /\ \A l \in between : k <= l
  BY <1>2
<1>4. GetEdge(edges, edges[i].from, edges[i].to) = edges[k]
  BY DEF GetEdge
<1>5. edges[k] \in EdgeSet(nodes, limits)
  BY <1>3
<1> HIDE DEF k
<1> QED
  BY <1>3, <1>4, <1>5

----------------------------------------------------------------------------
(* Paths *)

Branches == DOMAIN Edges

LEMMA BranchesNat == Branches \subseteq Nat \ {0} /\ Edges \in [Branches -> EdgeSet(Nodes, Int)]
BY GraphAssumption DEF Branches

LEMMA DepthNat == MaxDepth \in Nat
BY BoundsAssumption

LEMMA PathSeq ==
  ASSUME NEW p \in Paths
  PROVE  /\ p \in Seq(Branches) /\ Len(p) \in 0 .. MaxDepth /\ p \in [1 .. Len(p) -> Branches]
         /\ p # Root => Len(p) > 0
<1>1. PICK k \in 0 .. MaxDepth : p \in [1 .. k -> Branches]
  BY DEF Paths, Branches
<1>2. p \in Seq(Branches) /\ Len(p) = k
  BY <1>1
<1> QED
  BY <1>1, <1>2, EmptySeq DEF Root

LEMMA SeqPath ==
  ASSUME NEW p \in Seq(Branches), Len(p) <= MaxDepth PROVE p \in Paths
<1>1. Len(p) \in 0 .. MaxDepth /\ p \in [1 .. Len(p) -> Branches]
  BY LenProperties, DepthNat
<1> QED
  BY <1>1 DEF Paths, Branches

LEMMA RootPath == Root \in Paths
<1>1. Root \in Seq(Branches) /\ Len(Root) <= MaxDepth
  BY EmptySeq, DepthNat DEF Root
<1> QED
  BY <1>1, SeqPath

\* What it means for one path to lead to another.
LEMMA PrefixMeans ==
  ASSUME NEW q \in Seq(Branches), NEW p \in Seq(Branches)
  PROVE  IsStrictPrefix(q, p) <=> Len(q) < Len(p) /\ \A i \in 1 .. Len(q) : q[i] = p[i]
<1>0. Len(q) \in Nat /\ Len(p) \in Nat
  BY LenProperties
<1>1. SubSeq(q, 1, Len(q)) = q
  BY SubSeqFull
<1>2. ASSUME Len(q) <= Len(p)
      PROVE  /\ SubSeq(p, 1, Len(q)) \in Seq(Branches) /\ Len(SubSeq(p, 1, Len(q))) = Len(q)
             /\ \A i \in 1 .. Len(q) : SubSeq(p, 1, Len(q))[i] = p[i]
  <2>1. \A i \in 1 .. Len(q) : p[i] \in Branches
    BY <1>0, <1>2, ElementOfSeq
  <2>2. \A i \in 1 .. Len(q) - 1 + 1 : SubSeq(p, 1, Len(q))[i] = p[1 + i - 1]
    BY <1>0, <2>1, SubSeqProperties
  <2>3. SubSeq(p, 1, Len(q)) \in Seq(Branches)
        /\ Len(SubSeq(p, 1, Len(q))) = (IF 1 <= Len(q) THEN Len(q) - 1 + 1 ELSE 0)
    BY <1>0, <2>1, SubSeqProperties
  <2> QED
    BY <1>0, <2>2, <2>3
<1>3. ASSUME IsStrictPrefix(q, p)
      PROVE  Len(q) < Len(p) /\ \A i \in 1 .. Len(q) : q[i] = p[i]
  <2>1. Len(q) <= Len(p) /\ q = SubSeq(p, 1, Len(q)) /\ q # p
    BY <1>1, <1>3 DEF IsStrictPrefix, IsPrefix
  <2>2. \A i \in 1 .. Len(q) : q[i] = p[i]
    BY <1>2, <2>1
  <2> QED
    BY <1>0, <2>1, <2>2, SeqEqual
<1>4. ASSUME Len(q) < Len(p), \A i \in 1 .. Len(q) : q[i] = p[i]
      PROVE  IsStrictPrefix(q, p)
  <2>1. q = SubSeq(p, 1, Len(q))
    BY <1>0, <1>2, <1>4, SeqEqual
  <2> QED
    BY <1>0, <1>1, <1>4, <2>1 DEF IsStrictPrefix, IsPrefix
<1> QED
  BY <1>3, <1>4

\* The parent of a path: what the path is without its last step.
LEMMA ParentMeans ==
  ASSUME NEW p \in Paths, p # Root
  PROVE  /\ Front(p) \in Paths /\ Len(Front(p)) = Len(p) - 1
         /\ \A i \in 1 .. Len(p) - 1 : Front(p)[i] = p[i]
         /\ IsStrictPrefix(Front(p), p)
<1>1. /\ p \in Seq(Branches) /\ Len(p) \in Nat /\ Len(p) > 0
      /\ MaxDepth \in Nat /\ Len(p) <= MaxDepth
  BY PathSeq, DepthNat
<1>2. \A i \in 1 .. Len(p) - 1 : p[i] \in Branches
  BY <1>1, ElementOfSeq
<1>3. /\ Front(p) \in Seq(Branches)
      /\ Len(Front(p)) = IF 1 <= Len(p) - 1 THEN Len(p) - 1 - 1 + 1 ELSE 0
      /\ \A i \in 1 .. Len(p) - 1 - 1 + 1 : Front(p)[i] = p[1 + i - 1]
  BY <1>1, <1>2, SubSeqProperties DEF Front
<1>4. Len(Front(p)) = Len(p) - 1 /\ \A i \in 1 .. Len(p) - 1 : Front(p)[i] = p[i]
  <2>1. Len(Front(p)) = Len(p) - 1
    <3>1. CASE 1 <= Len(p) - 1
      BY <1>1, <1>3, <3>1
    <3>2. CASE ~(1 <= Len(p) - 1)
      <4>0. \A n \in Nat : n > 0 /\ ~(1 <= n - 1) => n = 1
        OBVIOUS
      <4>1. Len(p) = 1
        BY <1>1, <3>2, <4>0
      <4>2. Front(p) = << >>
        BY <4>1, SubSeqEmpty DEF Front
      <4> QED
        BY <4>1, <4>2, EmptySeq
    <3> QED
      BY <3>1, <3>2
  <2>2. ASSUME NEW i \in 1 .. Len(p) - 1 PROVE Front(p)[i] = p[i]
    <3>1. Len(p) - 1 - 1 + 1 = Len(p) - 1 /\ 1 + i - 1 = i
      BY <1>1
    <3>2. i \in 1 .. Len(p) - 1 - 1 + 1
      BY <3>1
    <3> QED
      BY <1>3, <3>1, <3>2
  <2> QED
    BY <2>1, <2>2
<1>5. Front(p) \in Paths
  BY <1>1, <1>3, <1>4, SeqPath, DepthNat
<1>6. IsStrictPrefix(Front(p), p)
  BY <1>1, <1>3, <1>4, PrefixMeans
<1> QED
  BY <1>4, <1>5, <1>6

\* Whatever leads to a path is its parent or leads to its parent.
LEMMA AboveParent ==
  ASSUME NEW p \in Paths, NEW q \in Paths, IsStrictPrefix(q, p)
  PROVE  p # Root /\ (q = Front(p) \/ IsStrictPrefix(q, Front(p)))
<1>1. p \in Seq(Branches) /\ q \in Seq(Branches) /\ Len(q) \in Nat /\ Len(p) \in Nat
  BY PathSeq
<1>2. Len(q) < Len(p) /\ \A i \in 1 .. Len(q) : q[i] = p[i]
  BY <1>1, PrefixMeans
<1>3. p # Root
  BY <1>1, <1>2, EmptySeq DEF Root
<1>4. /\ Front(p) \in Paths /\ Len(Front(p)) = Len(p) - 1
      /\ \A i \in 1 .. Len(p) - 1 : Front(p)[i] = p[i]
  BY <1>3, ParentMeans
<1>5. Front(p) \in Seq(Branches) /\ \A i \in 1 .. Len(q) : q[i] = Front(p)[i]
  BY <1>1, <1>2, <1>4, PathSeq
<1>6. CASE Len(q) = Len(p) - 1
  BY <1>1, <1>3, <1>4, <1>5, <1>6, SeqEqual
<1>7. CASE Len(q) < Len(p) - 1
  BY <1>1, <1>3, <1>4, <1>5, <1>7, PrefixMeans
<1> QED
  BY <1>1, <1>2, <1>6, <1>7

LEMMA AboveTransitive ==
  ASSUME NEW o \in Paths, NEW q \in Paths, NEW p \in Paths,
         IsStrictPrefix(o, q), IsStrictPrefix(q, p)
  PROVE  IsStrictPrefix(o, p)
<1>1. /\ p \in Seq(Branches) /\ q \in Seq(Branches) /\ o \in Seq(Branches)
      /\ Len(o) \in Nat /\ Len(q) \in Nat /\ Len(p) \in Nat
  BY PathSeq
<1>2. /\ Len(q) < Len(p) /\ \A i \in 1 .. Len(q) : q[i] = p[i]
      /\ Len(o) < Len(q) /\ \A i \in 1 .. Len(o) : o[i] = q[i]
  BY <1>1, PrefixMeans
<1>3. Len(o) < Len(p) /\ \A i \in 1 .. Len(o) : o[i] = p[i]
  BY <1>1, <1>2
<1> QED
  BY <1>1, <1>3, PrefixMeans

LEMMA NotAboveSelf ==
  ASSUME NEW p PROVE ~IsStrictPrefix(p, p)
BY DEF IsStrictPrefix

LEMMA NothingAboveRoot ==
  ASSUME NEW q \in Paths PROVE ~IsStrictPrefix(q, Root)
BY AboveParent, RootPath

LEMMA RootAbove ==
  ASSUME NEW p \in Paths, p # Root PROVE IsStrictPrefix(Root, p)
<1>1. p \in Seq(Branches) /\ Len(p) > 0 /\ Len(p) \in Nat
  BY PathSeq
<1>2. Root \in Seq(Branches) /\ Len(Root) = 0
  BY EmptySeq DEF Root
<1>3. Len(Root) < Len(p) /\ \A i \in 1 .. Len(Root) : Root[i] = p[i]
  BY <1>1, <1>2
<1> HIDE DEF Root
<1> QED
  BY <1>1, <1>2, <1>3, PrefixMeans

\* On the way from a path to one it leads to lies a child of it.
LEMMA ChildTowards ==
  ASSUME NEW q \in Paths, NEW p \in Paths, IsStrictPrefix(q, p)
  PROVE  \E c \in Paths : c # Root /\ Front(c) = q /\ (c = p \/ IsStrictPrefix(c, p))
<1>1. p \in Seq(Branches) /\ q \in Seq(Branches) /\ Len(q) \in Nat /\ Len(p) \in 0 .. MaxDepth
  BY PathSeq
<1>2. Len(q) < Len(p) /\ \A i \in 1 .. Len(q) : q[i] = p[i]
  BY <1>1, PrefixMeans
<1> DEFINE c == [i \in 1 .. Len(q) + 1 |-> p[i]]
<1>3. c \in Seq(Branches) /\ Len(c) = Len(q) + 1 /\ \A i \in 1 .. Len(q) + 1 : c[i] = p[i]
  <2>1. \A i \in 1 .. Len(q) + 1 : p[i] \in Branches
    BY <1>1, <1>2, ElementOfSeq
  <2>2. c \in [1 .. Len(q) + 1 -> Branches]
    BY <2>1
  <2> QED
    BY <1>1, <2>2
<1>4. c \in Paths
  BY <1>1, <1>2, <1>3, SeqPath, DepthNat
<1> HIDE DEF c
<1>5. c # Root
  BY <1>1, <1>3, EmptySeq DEF Root
<1>6. Front(c) = q
  <2>1. /\ Front(c) \in Paths /\ Len(Front(c)) = Len(c) - 1
        /\ \A i \in 1 .. Len(c) - 1 : Front(c)[i] = c[i]
    BY <1>4, <1>5, ParentMeans
  <2>2. Front(c) \in Seq(Branches)
    BY <2>1, PathSeq
  <2>3. Len(Front(c)) = Len(q) /\ \A i \in 1 .. Len(Front(c)) : Front(c)[i] = q[i]
    BY <1>1, <1>2, <1>3, <2>1
  <2> QED
    BY <1>1, <2>2, <2>3, SeqEqual
<1>7. CASE Len(p) = Len(q) + 1
  <2>1. c = p
    BY <1>1, <1>3, <1>7, SeqEqual
  <2> QED
    BY <1>4, <1>5, <1>6, <2>1
<1>8. CASE Len(p) # Len(q) + 1
  <2>1. IsStrictPrefix(c, p)
    BY <1>1, <1>2, <1>3, <1>8, PrefixMeans
  <2> QED
    BY <1>4, <1>5, <1>6, <2>1
<1> QED
  BY <1>7, <1>8

LEMMA ChildPath ==
  ASSUME NEW p \in Paths, NEW i \in Branches, Len(p) < MaxDepth
  PROVE  /\ Child(p, i) \in Paths /\ Child(p, i) # Root /\ Child(p, i) # p
         /\ Front(Child(p, i)) = p /\ Last(Child(p, i)) = i
         /\ IsStrictPrefix(p, Child(p, i))
<1> DEFINE c == Child(p, i)
<1>1. p \in Seq(Branches) /\ Len(p) \in 0 .. MaxDepth
  BY PathSeq
<1>2. /\ c \in Seq(Branches) /\ Len(c) = Len(p) + 1
      /\ \A j \in 1 .. Len(p) : c[j] = p[j]
      /\ c[Len(p) + 1] = i
  BY <1>1 DEF Child
<1> HIDE DEF c
<1>3. c \in Paths
  BY <1>1, <1>2, SeqPath, DepthNat
<1>4. c # Root /\ c # p
  BY <1>1, <1>2, EmptySeq DEF Root
<1>5. Last(c) = i
  BY <1>1, <1>2 DEF Last
<1>6. Front(c) = p
  <2>1. /\ Front(c) \in Paths /\ Len(Front(c)) = Len(c) - 1
        /\ \A j \in 1 .. Len(c) - 1 : Front(c)[j] = c[j]
    BY <1>3, <1>4, ParentMeans
  <2>2. Front(c) \in Seq(Branches) /\ Len(Front(c)) = Len(p)
    BY <1>1, <1>2, <2>1, PathSeq
  <2>3. \A j \in 1 .. Len(p) : Front(c)[j] = p[j]
    BY <1>1, <1>2, <2>1
  <2> QED
    BY <1>1, <2>2, <2>3, SeqEqual
<1>7. IsStrictPrefix(p, c)
  BY <1>1, <1>2, PrefixMeans
<1> QED
  BY <1>3, <1>4, <1>5, <1>6, <1>7 DEF c

----------------------------------------------------------------------------
(* The goroutines of a request *)

\* The results a goroutine can have: a fork keeps the first error of its branches
\* while it waits for the others.
ResultsAt(pc) ==
    CASE pc = "return" -> {"ok", "failed", "await"}
      [] pc = "join"   -> {"none", "failed", "await"}
      [] OTHER         -> {"none"}

\* What each goroutine is, wherever it is in the tree: it considers and follows
\* edges that leave its node.
TaskOk(x) ==
    /\ x \in TaskSet \union {NoTask}
    /\ x.result \in ResultsAt(x.pc)
    /\ \A i \in x.todo \union x.next : i \in Branches /\ Edges[i].from = x.node
    /\ x.pc \notin {"resolve", "stuck"} => x.todo = {} /\ x.next = {}

\* Nothing is below a goroutine.
IsLeaf(t, p) == \A q \in Paths : IsStrictPrefix(p, q) => t[q] = NoTask

\* The goroutines of one request, t, form a tree: everything above a goroutine is a
\* fork that waits for it.  A goroutine is cancelled exactly if the client has gone
\* or a fork above it has an error.
Tree(t, gone) ==
    /\ t \in [Paths -> TaskSet \union {NoTask}]
    /\ \A p \in Paths : TaskOk(t[p])
    /\ \A p, q \in Paths : IsStrictPrefix(q, p) /\ t[p] # NoTask => t[q].pc = "join"
    /\ \A p, q \in Paths : IsStrictPrefix(q, p) /\ t[p] # NoTask /\ t[q].result # "none"
                              => t[p].cancelled
    /\ \A p \in Paths : t[p].cancelled =>
          gone \/ \E q \in Paths : IsStrictPrefix(q, p) /\ t[q].result # "none"

LEMMA NoTaskIs ==
  /\ NoTask \notin TaskSet /\ NoTask.pc = "none" /\ NoTask.result = "none"
  /\ NoTask.todo = {} /\ NoTask.next = {} /\ NoTask.cancelled = FALSE /\ TaskOk(NoTask)
BY DEF NoTask, TaskSet, TaskPCs, TaskOk, ResultsAt

LEMMA TaskAtIs ==
  ASSUME NEW node \in Nodes, NEW cancelled \in BOOLEAN
  PROVE  LET x == TaskAt(node, cancelled)
         IN  /\ x \in TaskSet /\ x # NoTask /\ TaskOk(x) /\ x.node = node /\ x.pc = "enter"
             /\ x.todo = {} /\ x.next = {} /\ x.result = "none" /\ x.cancelled = cancelled
<1> DEFINE x == TaskAt(node, cancelled)
<1>1. /\ x.node = node /\ x.pc = "enter" /\ x.todo = {} /\ x.next = {}
      /\ x.result = "none" /\ x.cancelled = cancelled
  BY DEF TaskAt, NoTask
<1>2. x \in TaskSet
  BY DEF TaskAt, NoTask, TaskSet, TaskPCs, Outcomes
<1> HIDE DEF x
<1>3. TaskOk(x)
  BY <1>1, <1>2 DEF TaskOk, ResultsAt
<1> QED
  BY <1>1, <1>2, <1>3, NoTaskIs DEF x

LEMMA EmptyTree == ASSUME NEW gone PROVE Tree(NoTasks, gone)
BY NoTaskIs DEF Tree, NoTasks

\* Whatever does not wait for branches has nothing below it.
LEMMA OnlyForksHaveBranches ==
  ASSUME NEW t, NEW gone, Tree(t, gone), NEW p \in Paths, t[p].pc # "join"
  PROVE  IsLeaf(t, p)
BY DEF Tree, IsLeaf

\* Nor has a fork whose branches have all returned.
LEMMA ForkWithoutBranches ==
  ASSUME NEW t, NEW gone, Tree(t, gone), NEW p \in Paths,
         \A q \in Paths : q # Root /\ Front(q) = p => t[q] = NoTask
  PROVE  IsLeaf(t, p)
<1> SUFFICES ASSUME NEW q \in Paths, IsStrictPrefix(p, q), t[q] # NoTask PROVE FALSE
  BY DEF IsLeaf
<1>1. PICK c \in Paths : c # Root /\ Front(c) = p /\ (c = q \/ IsStrictPrefix(c, q))
  BY ChildTowards
<1>2. t[c] = NoTask
  BY <1>1
<1>3. t[c].pc = "join"
  BY <1>1, <1>2 DEF Tree
<1> QED
  BY <1>2, <1>3, NoTaskIs

\* A goroutine with nothing below it takes a step, returns or, at the root, starts
\* or ends.
LEMMA LeafStep ==
  ASSUME NEW t, NEW gone, Tree(t, gone), NEW p \in Paths, IsLeaf(t, p),
         t[p] # NoTask \/ p = Root,
         NEW x, TaskOk(x), x.cancelled => gone \/ t[p].cancelled,
         t[p].cancelled => x = NoTask \/ x.cancelled
  PROVE  Tree([t EXCEPT ![p] = x], gone)
<1> DEFINE u == [t EXCEPT ![p] = x]
<1>1. u \in [Paths -> TaskSet \union {NoTask}]
  BY DEF Tree, TaskOk
<1>2. \A q \in Paths : u[q] = IF q = p THEN x ELSE t[q]
  BY DEF Tree
<1> HIDE DEF u
<1>3. \A q \in Paths : TaskOk(u[q])
  BY <1>2 DEF Tree
<1>4. ASSUME NEW q \in Paths, NEW o \in Paths, IsStrictPrefix(o, q), u[q] # NoTask
      PROVE  u[o].pc = "join" /\ (u[o].result # "none" => u[q].cancelled)
  <2>1. o # p
    <3>1. CASE q = p
      BY <1>4, <3>1, NotAboveSelf
    <3>2. CASE q # p
      BY <1>2, <1>4, <3>2 DEF IsLeaf
    <3> QED
      BY <3>1, <3>2
  <2>2. t[q] # NoTask
    BY <1>2, <1>4, NothingAboveRoot
  <2>3. t[o].pc = "join" /\ (t[o].result # "none" => t[q].cancelled)
    BY <1>4, <2>2 DEF Tree
  <2> QED
    BY <1>2, <1>4, <2>1, <2>3
<1>5. ASSUME NEW q \in Paths, u[q].cancelled
      PROVE  gone \/ \E o \in Paths : IsStrictPrefix(o, q) /\ u[o].result # "none"
  <2>1. gone \/ t[q].cancelled
    BY <1>2, <1>5
  <2>2. gone \/ \E o \in Paths : IsStrictPrefix(o, q) /\ t[o].result # "none"
    BY <2>1 DEF Tree
  <2>3. ASSUME NEW o \in Paths, IsStrictPrefix(o, q) PROVE u[o] = t[o]
    <3>1. CASE q = p
      BY <1>2, <2>3, <3>1, NotAboveSelf
    <3>2. CASE q # p
      BY <1>2, <1>5, <2>3, <3>2, NoTaskIs DEF IsLeaf
    <3> QED
      BY <3>1, <3>2
  <2> QED
    BY <2>2, <2>3
<1>6. Tree(u, gone)
  BY <1>1, <1>3, <1>4, <1>5 DEF Tree
<1> QED
  BY <1>6 DEF u

\* A goroutine forks.
LEMMA ForkStep ==
  ASSUME NEW t, NEW gone, Tree(t, gone), NEW p \in Paths, t[p] # NoTask,
         t[p].pc = "resolve", NEW f, TaskOk(f), f.pc = "join", f.result = "none",
         f.cancelled = t[p].cancelled, NEW next \in SUBSET Branches,
         Len(p) < MaxDepth
  PROVE  Tree([q \in Paths |-> IF q = p THEN f
                  ELSE IF \E i \in next : q = Child(p, i)
                       THEN TaskAt(Edges[Last(q)].to, t[p].cancelled) ELSE t[q]], gone)
<1> DEFINE u == [q \in Paths |-> IF q = p THEN f
                     ELSE IF \E i \in next : q = Child(p, i)
                          THEN TaskAt(Edges[Last(q)].to, t[p].cancelled) ELSE t[q]]
           New(q) == \E i \in next : q = Child(p, i)
<1>0. IsLeaf(t, p) /\ t[p].result = "none" /\ t[p].cancelled \in BOOLEAN
  BY OnlyForksHaveBranches DEF Tree, TaskOk, ResultsAt, TaskSet
<1>1. ASSUME NEW q \in Paths, New(q)
      PROVE  /\ u[q] = TaskAt(Edges[Last(q)].to, t[p].cancelled) /\ TaskOk(u[q])
             /\ u[q].pc = "enter" /\ u[q].result = "none" /\ u[q] # NoTask
             /\ u[q].cancelled = t[p].cancelled
             /\ q # Root /\ Front(q) = p /\ IsStrictPrefix(p, q) /\ q # p
  <2>1. PICK i \in next : q = Child(p, i)
    BY <1>1
  <2>2. q # Root /\ q # p /\ Front(q) = p /\ Last(q) = i /\ IsStrictPrefix(p, q)
    BY <2>1, ChildPath
  <2>3. u[q] = TaskAt(Edges[Last(q)].to, t[p].cancelled)
    BY <1>1, <2>2
  <2>4. Edges[i].to \in Nodes
    BY BranchesNat DEF EdgeSet
  <2> QED
    BY <1>0, <2>2, <2>3, <2>4, TaskAtIs
<1>2. u[p] = f
  OBVIOUS
<1>3. \A q \in Paths : q # p /\ ~New(q) => u[q] = t[q]
  OBVIOUS
<1>4. \A q \in Paths : TaskOk(u[q])
  BY <1>1, <1>2, <1>3 DEF Tree
<1>5. u \in [Paths -> TaskSet \union {NoTask}]
  <2>1. \A q \in Paths : u[q] \in TaskSet \union {NoTask}
    BY <1>4 DEF TaskOk
  <2> QED
    BY <2>1
<1> HIDE DEF u, New
<1>6. ASSUME NEW q \in Paths, NEW o \in Paths, IsStrictPrefix(o, q), u[q] # NoTask
      PROVE  u[o].pc = "join" /\ (u[o].result # "none" => u[q].cancelled)
  <2>1. CASE New(q)
    <3>1. o = p \/ IsStrictPrefix(o, p)
      BY <1>1, <1>6, <2>1, AboveParent
    <3>2. CASE o = p
      BY <1>2, <3>2
    <3>3. CASE IsStrictPrefix(o, p)
      <4>1. t[o].pc = "join" /\ (t[o].result # "none" => t[p].cancelled)
        BY <3>3 DEF Tree
      <4>2. t[o] # NoTask /\ o # p
        BY <4>1, NoTaskIs
      <4>3. ~New(o)
        BY <1>0, <1>1, <4>2 DEF IsLeaf
      <4> QED
        BY <1>1, <1>3, <2>1, <4>1, <4>2, <4>3
    <3> QED
      BY <3>1, <3>2, <3>3
  <2>2. CASE ~New(q)
    <3>1. t[q] # NoTask /\ u[q].cancelled = t[q].cancelled
      BY <1>2, <1>3, <1>6, <2>2
    <3>2. t[o].pc = "join" /\ (t[o].result # "none" => t[q].cancelled)
      BY <1>6, <3>1 DEF Tree
    <3>3. o # p /\ ~New(o)
      BY <1>0, <1>1, <3>2, NoTaskIs DEF IsLeaf
    <3> QED
      BY <1>3, <3>1, <3>2, <3>3
  <2> QED
    BY <2>1, <2>2
<1>7. ASSUME NEW q \in Paths, u[q].cancelled
      PROVE  gone \/ \E o \in Paths : IsStrictPrefix(o, q) /\ u[o].result # "none"
  <2> DEFINE s == IF New(q) THEN p ELSE q
  <2>1. t[s].cancelled /\ s \in Paths /\ (s # q => IsStrictPrefix(s, q))
    BY <1>1, <1>2, <1>3, <1>7
  <2>2. gone \/ \E o \in Paths : IsStrictPrefix(o, s) /\ t[o].result # "none"
    BY <2>1 DEF Tree
  <2>3. ASSUME NEW o \in Paths, IsStrictPrefix(o, s), t[o].result # "none"
        PROVE  IsStrictPrefix(o, q) /\ u[o].result # "none"
    <3>1. IsStrictPrefix(o, q)
      BY <2>1, <2>3, AboveTransitive
    <3>2. t[o] # NoTask /\ o # p
      BY <1>0, <2>3, NoTaskIs
    <3>3. ~New(o)
      BY <1>0, <1>1, <3>2 DEF IsLeaf
    <3> QED
      BY <1>3, <2>3, <3>1, <3>2, <3>3
  <2> QED
    BY <2>2, <2>3
<1>8. Tree(u, gone)
  BY <1>4, <1>5, <1>6, <1>7 DEF Tree
<1> QED
  BY <1>8 DEF u

\* What is left of the goroutines when branch p has returned.
Left(t, u, p) ==
    LET parent == Front(p)
        first  == t[p].result # "ok" /\ t[parent].result = "none"
    IN
    /\ parent \in Paths /\ parent # p /\ t[parent].pc = "join" /\ u[p] = NoTask
    /\ \A q \in Paths \ {p} :
          /\ u[q].pc = t[q].pc /\ u[q].node = t[q].node
          /\ u[q].todo = t[q].todo /\ u[q].next = t[q].next
          /\ u[q] # NoTask <=> t[q] # NoTask
          /\ u[q].result = (IF q = parent /\ first THEN t[p].result ELSE t[q].result)
          /\ t[q].cancelled => u[q].cancelled
          /\ u[q].cancelled <=> \/ t[q].cancelled
                                \/ IsStrictPrefix(parent, q) /\ first /\ t[q] # NoTask

\* A branch returns to the fork above it.  The first error of the branches of a fork
\* becomes its result and cancels everything below it.
LEMMA BranchFields ==
  ASSUME NEW t, NEW gone, Tree(t, gone), NEW p \in Paths, p # Root, t[p].pc = "return",
         NEW u, u \in [Paths -> TaskSet \union {NoTask}],
         \A q \in Paths : u[q] =
            IF q = p THEN NoTask
            ELSE IF q = Front(p) /\ t[p].result # "ok" /\ t[Front(p)].result = "none"
                 THEN [t[q] EXCEPT !.result = t[p].result]
            ELSE IF /\ IsStrictPrefix(Front(p), q) /\ t[q] # NoTask
                    /\ t[p].result # "ok" /\ t[Front(p)].result = "none"
                 THEN [t[q] EXCEPT !.cancelled = TRUE]
            ELSE t[q]
  PROVE  Left(t, u, p)
<1> DEFINE parent == Front(p)
           first  == t[p].result # "ok" /\ t[parent].result = "none"
<1>0. /\ parent \in Paths /\ IsStrictPrefix(parent, p) /\ parent # p
      /\ t[p] # NoTask /\ t[parent].pc = "join" /\ IsLeaf(t, p)
      /\ t[p].result \in {"ok", "failed", "await"}
  <2>1. parent \in Paths /\ IsStrictPrefix(parent, p) /\ parent # p
    BY ParentMeans, NotAboveSelf
  <2>2. t[p] # NoTask /\ IsLeaf(t, p)
    BY OnlyForksHaveBranches, NoTaskIs
  <2>3. t[parent].pc = "join"
    BY <2>1, <2>2 DEF Tree
  <2>4. t[p].result \in {"ok", "failed", "await"}
    BY DEF Tree, TaskOk, ResultsAt
  <2> QED
    BY <2>1, <2>2, <2>3, <2>4
<1>1. \A q \in Paths : t[q] = NoTask \/ t[q] \in TaskSet
  BY DEF Tree
<1>2. u[p] = NoTask
  OBVIOUS
<1>3. ASSUME NEW q \in Paths, q # p
      PROVE  /\ u[q].pc = t[q].pc /\ u[q].node = t[q].node
             /\ u[q].todo = t[q].todo /\ u[q].next = t[q].next
             /\ u[q] # NoTask <=> t[q] # NoTask
             /\ u[q].result = (IF q = parent /\ first THEN t[p].result ELSE t[q].result)
             /\ t[q].cancelled => u[q].cancelled
             /\ u[q].cancelled <=> \/ t[q].cancelled
                                   \/ IsStrictPrefix(parent, q) /\ first /\ t[q] # NoTask
  <2>1. CASE q = parent /\ first
    <3>1. u[q] = [t[q] EXCEPT !.result = t[p].result] /\ t[q] \in TaskSet
      BY <1>0, <1>1, <1>3, <2>1, NoTaskIs
    <3>2. ~IsStrictPrefix(parent, q)
      BY <2>1, NotAboveSelf
    <3> QED
      BY <1>0, <2>1, <3>1, <3>2, NoTaskIs DEF TaskSet
  <2>2. CASE ~(q = parent /\ first) /\ IsStrictPrefix(parent, q) /\ first /\ t[q] # NoTask
    <3>1. u[q] = [t[q] EXCEPT !.cancelled = TRUE] /\ t[q] \in TaskSet
      BY <1>0, <1>1, <1>3, <2>2
    <3> QED
      BY <1>3, <2>2, <3>1, NoTaskIs DEF TaskSet, TaskPCs
  <2>3. CASE ~(q = parent /\ first) /\ ~(IsStrictPrefix(parent, q) /\ first /\ t[q] # NoTask)
    <3>1. u[q] = t[q]
      BY <1>0, <1>1, <1>3, <2>3
    <3>2. t[q].cancelled \in BOOLEAN
      <4>1. \A x \in TaskSet : x.cancelled \in BOOLEAN
        BY DEF TaskSet
      <4> QED
        BY <1>1, <4>1, NoTaskIs
    <3> QED
      BY <2>3, <3>1, <3>2
  <2> QED
    BY <2>1, <2>2, <2>3
<1> QED
  BY <1>0, <1>2, <1>3 DEF Left

LEMMA BranchStep ==
  ASSUME NEW t, NEW gone, Tree(t, gone), NEW p \in Paths, p # Root, t[p].pc = "return",
         NEW u, u \in [Paths -> TaskSet \union {NoTask}],
         \A q \in Paths : u[q] =
            IF q = p THEN NoTask
            ELSE IF q = Front(p) /\ t[p].result # "ok" /\ t[Front(p)].result = "none"
                 THEN [t[q] EXCEPT !.result = t[p].result]
            ELSE IF /\ IsStrictPrefix(Front(p), q) /\ t[q] # NoTask
                    /\ t[p].result # "ok" /\ t[Front(p)].result = "none"
                 THEN [t[q] EXCEPT !.cancelled = TRUE]
            ELSE t[q]
  PROVE  Tree(u, gone)
<1> DEFINE parent == Front(p)
           first  == t[p].result # "ok" /\ t[parent].result = "none"
<1>0. /\ parent \in Paths /\ IsStrictPrefix(parent, p) /\ parent # p
      /\ t[p] # NoTask /\ t[parent].pc = "join" /\ IsLeaf(t, p)
      /\ t[p].result \in {"ok", "failed", "await"}
  <2>1. parent \in Paths /\ IsStrictPrefix(parent, p) /\ parent # p
    BY ParentMeans, NotAboveSelf
  <2>2. t[p] # NoTask /\ IsLeaf(t, p)
    BY OnlyForksHaveBranches, NoTaskIs
  <2>3. t[parent].pc = "join"
    BY <2>1, <2>2 DEF Tree
  <2>4. t[p].result \in {"ok", "failed", "await"}
    BY DEF Tree, TaskOk, ResultsAt
  <2> QED
    BY <2>1, <2>2, <2>3, <2>4
<1>2. u[p] = NoTask
  OBVIOUS
<1>3. ASSUME NEW q \in Paths, q # p
      PROVE  /\ u[q].pc = t[q].pc /\ u[q].node = t[q].node
             /\ u[q].todo = t[q].todo /\ u[q].next = t[q].next
             /\ u[q] # NoTask <=> t[q] # NoTask
             /\ u[q].result = (IF q = parent /\ first THEN t[p].result ELSE t[q].result)
             /\ t[q].cancelled => u[q].cancelled
             /\ u[q].cancelled <=> \/ t[q].cancelled
                                   \/ IsStrictPrefix(parent, q) /\ first /\ t[q] # NoTask
  <2>1. Left(t, u, p)
    BY BranchFields
  <2> QED
    BY <1>3, <2>1 DEF Left
<1>4. \A q \in Paths : TaskOk(u[q])
  <2> SUFFICES ASSUME NEW q \in Paths PROVE TaskOk(u[q])
    OBVIOUS
  <2>1. CASE q = p
    BY <1>2, <2>1, NoTaskIs
  <2>2. CASE q # p
    <3>1. TaskOk(t[q]) /\ u[q] \in TaskSet \union {NoTask}
      BY DEF Tree
    <3>2. u[q].result \in ResultsAt(u[q].pc)
      <4>1. CASE q = parent /\ first
        BY <1>0, <1>3, <2>2, <4>1 DEF ResultsAt
      <4>2. CASE ~(q = parent /\ first)
        BY <1>3, <2>2, <3>1, <4>2 DEF TaskOk
      <4> QED
        BY <4>1, <4>2
    <3> QED
      BY <1>3, <2>2, <3>1, <3>2 DEF TaskOk
  <2> QED
    BY <2>1, <2>2
<1>5. ASSUME NEW q \in Paths, NEW o \in Paths, IsStrictPrefix(o, q), u[q] # NoTask
      PROVE  u[o].pc = "join" /\ (u[o].result # "none" => u[q].cancelled)
  <2>1. q # p /\ t[q] # NoTask
    BY <1>2, <1>3, <1>5
  <2>2. t[o].pc = "join" /\ (t[o].result # "none" => t[q].cancelled)
    BY <1>5, <2>1 DEF Tree
  <2>3. o # p
    BY <1>0, <1>5, <2>1 DEF IsLeaf
  <2>4. u[o].pc = "join"
    BY <1>3, <2>2, <2>3
  <2>5. u[o].result # "none" => u[q].cancelled
    <3>1. CASE o = parent /\ first
      BY <1>3, <1>5, <2>1, <3>1
    <3>2. CASE ~(o = parent /\ first)
      BY <1>3, <2>1, <2>2, <2>3, <3>2
    <3> QED
      BY <3>1, <3>2
  <2> QED
    BY <2>4, <2>5
<1>6. ASSUME NEW q \in Paths, u[q].cancelled
      PROVE  gone \/ \E o \in Paths : IsStrictPrefix(o, q) /\ u[o].result # "none"
  <2>1. q # p
    BY <1>2, <1>6, NoTaskIs
  <2>2. CASE t[q].cancelled
    <3>1. gone \/ \E o \in Paths : IsStrictPrefix(o, q) /\ t[o].result # "none"
      BY <2>2 DEF Tree
    <3>2. ASSUME NEW o \in Paths, IsStrictPrefix(o, q), t[o].result # "none"
          PROVE  u[o].result # "none"
      <4>1. o # p
        BY <1>0, <2>2, <3>2, NoTaskIs DEF IsLeaf
      <4> QED
        BY <1>0, <1>3, <3>2, <4>1
    <3> QED
      BY <3>1, <3>2
  <2>3. CASE ~t[q].cancelled
    <3>1. IsStrictPrefix(parent, q) /\ first
      BY <1>3, <1>6, <2>1, <2>3
    <3>2. u[parent].result = t[p].result
      BY <1>0, <1>3, <3>1
    <3> QED
      BY <1>0, <3>1, <3>2
  <2> QED
    BY <2>2, <2>3
<1> QED
  BY <1>4, <1>5, <1>6 DEF Tree

\* The client goes away: everything is cancelled.
LEMMA GoneStep ==
  ASSUME NEW t, NEW gone, Tree(t, gone)
  PROVE  Tree([p \in Paths |-> IF t[p] = NoTask THEN NoTask
                               ELSE [t[p] EXCEPT !.cancelled = TRUE]], TRUE)
<1> DEFINE u == [p \in Paths |-> IF t[p] = NoTask THEN NoTask
                                 ELSE [t[p] EXCEPT !.cancelled = TRUE]]
<1>1. ASSUME NEW p \in Paths
      PROVE  /\ u[p] \in TaskSet \union {NoTask} /\ TaskOk(u[p])
             /\ u[p] # NoTask <=> t[p] # NoTask
             /\ u[p] # NoTask => u[p].cancelled
             /\ t[p].pc = "join" => u[p].pc = "join"
  <2>1. CASE t[p] = NoTask
    BY <2>1, NoTaskIs
  <2>2. CASE t[p] # NoTask
    <3>1. t[p] \in TaskSet /\ TaskOk(t[p]) /\ u[p] = [t[p] EXCEPT !.cancelled = TRUE]
      BY <2>2 DEF Tree
    <3> HIDE DEF u
    <3>2. u[p] \in TaskSet /\ u[p].cancelled /\ u[p].pc = t[p].pc
      BY <3>1 DEF TaskSet
    <3>3. TaskOk(u[p])
      BY <3>1, <3>2 DEF TaskOk, TaskSet
    <3> QED
      BY <2>2, <3>2, <3>3, NoTaskIs
  <2> QED
    BY <2>1, <2>2
<1>2. u \in [Paths -> TaskSet \union {NoTask}]
  BY <1>1
<1> HIDE DEF u
<1>3. \A p, q \in Paths : IsStrictPrefix(q, p) /\ u[p] # NoTask => u[q].pc = "join" /\ u[p].cancelled
  BY <1>1 DEF Tree
<1>4. Tree(u, TRUE)
  BY <1>1, <1>2, <1>3 DEF Tree
<1> QED
  BY <1>4 DEF u

----------------------------------------------------------------------------
(* Requests *)

\* What a request knows when: a resume has the record it started from, and a
\* result is known once the goroutines are gone.
RequestOk(y) ==
    /\ y \in RequestSet \union {NoRequest}
    /\ y.kind = "resume" => y.hitl \in HITLStates
    /\ y.pc \in {"none", "counters", "running"} => y.result = "none"
    /\ y.pc \in {"persist", "delete"} => y.result \in {"ok", "failed"}
    /\ y.pc = "cleanup" => y.result \in {"ok", "failed", "await"}
    /\ y.pc = "delete" => y.kind = "resume"

\* A request, its node instances and its goroutines.
Serves(y, m, t) ==
    /\ RequestOk(y)
    /\ m \in [Nodes -> Instances]
    /\ Tree(t, y.gone)
    /\ y.pc # "running" => t = NoTasks

Served ==
    /\ requests \in [Requests -> RequestSet \union {NoRequest}]
    /\ nodeRuns \in [Requests -> [Nodes -> Instances]]
    /\ tasks \in [Requests -> [Paths -> TaskSet \union {NoTask}]]
    /\ \A r \in Requests : Serves(requests[r], nodeRuns[r], tasks[r])

LEMMA NoRequestIs ==
  /\ NoRequest \notin RequestSet /\ NoRequest.pc = "none" /\ NoRequest.kind = "none"
  /\ NoRequest.result = "none" /\ NoRequest.run = "none" /\ NoRequest.gone = FALSE
  /\ NoRequest.hitl = NoHITL /\ NoRequest.missing = {} /\ RequestOk(NoRequest)
BY DEF NoRequest, RequestSet, RequestOk

LEMMA NoHITLIs == NoHITL \notin HITLStates /\ NoHITL.node = "none"
BY NamesAssumption DEF NoHITL, HITLStates

LEMMA NoInstanceIs ==
  /\ NoInstance \in Instances /\ NoInstance.status = "none"
  /\ NoInstances \in [Nodes -> Instances] /\ \A n \in Nodes : NoInstances[n] = NoInstance
BY DEF NoInstance, NoInstances, Instances, RunStatuses

LEMMA NobodyServed ==
  ASSUME NEW y, RequestOk(y), y.pc # "running", NEW m \in [Nodes -> Instances]
  PROVE  Serves(y, m, NoTasks)
BY EmptyTree DEF Serves

LEMMA ServeStep ==
  ASSUME Served, NEW r \in Requests, NEW y, NEW m, NEW t, Serves(y, m, t),
         requests' = [requests EXCEPT ![r] = y],
         nodeRuns' = [nodeRuns EXCEPT ![r] = m],
         tasks' = [tasks EXCEPT ![r] = t]
  PROVE  Served'
<1>1. y \in RequestSet \union {NoRequest} /\ m \in [Nodes -> Instances]
      /\ t \in [Paths -> TaskSet \union {NoTask}]
  BY DEF Serves, RequestOk, Tree
<1>2. /\ requests' \in [Requests -> RequestSet \union {NoRequest}]
      /\ nodeRuns' \in [Requests -> [Nodes -> Instances]]
      /\ tasks' \in [Requests -> [Paths -> TaskSet \union {NoTask}]]
  BY <1>1 DEF Served
<1>3. ASSUME NEW s \in Requests PROVE Serves(requests'[s], nodeRuns'[s], tasks'[s])
  BY DEF Served
<1> QED
  BY <1>2, <1>3 DEF Served

\* What is left as it is.
LEMMA Unchanged ==
  ASSUME Served, NEW r \in Requests
  PROVE  /\ requests = [requests EXCEPT ![r] = requests[r]]
         /\ nodeRuns = [nodeRuns EXCEPT ![r] = nodeRuns[r]]
         /\ tasks = [tasks EXCEPT ![r] = tasks[r]]
BY DEF Served

\* A goroutine runs only for a request that is running.
LEMMA Running ==
  ASSUME Served, NEW r \in Requests, NEW p \in Paths, tasks[r][p].pc # "none"
  PROVE  /\ requests[r] \in RequestSet /\ requests[r].pc = "running"
         /\ requests[r].result = "none" /\ Run(r) \in Runs
         /\ tasks[r][p] \in TaskSet /\ tasks[r][p].node \in Nodes
         /\ Tree(tasks[r], requests[r].gone) /\ TaskOk(tasks[r][p])
<1>1. Serves(requests[r], nodeRuns[r], tasks[r])
  BY DEF Served
<1>2. requests[r].pc = "running"
  BY <1>1, NoTaskIs DEF Serves, NoTasks
<1>3. requests[r] \in RequestSet /\ requests[r].result = "none"
  BY <1>1, <1>2, NoRequestIs DEF Serves, RequestOk
<1>4. tasks[r][p] \in TaskSet /\ TaskOk(tasks[r][p])
  BY <1>1, NoTaskIs DEF Serves, Tree
<1> QED
  BY <1>1, <1>2, <1>3, <1>4 DEF Serves, RequestSet, TaskSet, Run

\* A step of a goroutine that has nothing below it.
LEMMA LeafServed ==
  ASSUME Served, NEW r \in Requests, NEW p \in Paths,
         tasks[r][p].pc # "none", IsLeaf(tasks[r], p),
         NEW x, TaskOk(x), x.cancelled = tasks[r][p].cancelled,
         NEW m \in [Nodes -> Instances],
         requests' = requests, nodeRuns' = [nodeRuns EXCEPT ![r] = m],
         tasks' = [tasks EXCEPT ![r][p] = x]
  PROVE  Served'
<1> DEFINE t == [tasks[r] EXCEPT ![p] = x]
<1>1. Tree(t, requests[r].gone)
  BY Running, LeafStep, NoTaskIs
<1>2. Serves(requests[r], m, t)
  BY <1>1, Running DEF Served, Serves
<1>3. requests' = [requests EXCEPT ![r] = requests[r]]
  BY Unchanged
<1>4. tasks' = [tasks EXCEPT ![r] = t]
  OBVIOUS
<1> HIDE DEF t
<1> QED
  BY <1>2, <1>3, <1>4, ServeStep

\* Steps of a request's own, outside of the goroutines.
LEMMA RequestServed ==
  ASSUME Served, NEW r \in Requests, requests[r].pc # "running",
         NEW y, RequestOk(y), y.pc # "running", NEW m \in [Nodes -> Instances],
         requests' = [requests EXCEPT ![r] = y], nodeRuns' = [nodeRuns EXCEPT ![r] = m],
         tasks' = tasks
  PROVE  Served'
<1>1. tasks[r] = NoTasks /\ Serves(y, m, NoTasks)
  BY NobodyServed DEF Served, Serves
<1>2. tasks' = [tasks EXCEPT ![r] = NoTasks]
  BY <1>1, Unchanged
<1> QED
  BY <1>1, <1>2, ServeStep

----------------------------------------------------------------------------
(* Requests and goroutines take a step *)

\* A goroutine returns.
LEMMA ReturningIs ==
  ASSUME NEW x \in TaskSet, NEW result \in {"ok", "failed", "await"}, x.todo = {}, x.next = {}
  PROVE  LET y == Returning(x, result)
         IN  /\ TaskOk(y) /\ y # NoTask /\ y.pc = "return" /\ y.result = result
             /\ y.node = x.node /\ y.cancelled = x.cancelled /\ y.next = {} /\ y.todo = {}
<1> DEFINE y == Returning(x, result)
<1>1. /\ y.pc = "return" /\ y.result = result /\ y.node = x.node
      /\ y.cancelled = x.cancelled /\ y.next = {} /\ y.todo = {}
  BY DEF Returning, TaskSet
<1>2. y \in TaskSet
  BY DEF Returning, TaskSet, TaskPCs, Outcomes
<1> HIDE DEF y
<1>3. TaskOk(y)
  BY <1>1, <1>2 DEF TaskOk, ResultsAt
<1> QED
  BY <1>1, <1>2, <1>3, NoTaskIs DEF y

\* A goroutine goes on.
LEMMA GoingOnIs ==
  ASSUME NEW x \in TaskSet, TaskOk(x), x.result = "none", x.todo = {}, x.next = {},
         NEW pc \in {"enter", "sandbox", "pauseHITL", "pauseRun", "resolve"}
  PROVE  LET y == [x EXCEPT !.pc = pc]
         IN  /\ TaskOk(y) /\ y # NoTask /\ y.pc = pc /\ y.result = "none"
             /\ y.node = x.node /\ y.cancelled = x.cancelled /\ y.next = {} /\ y.todo = {}
<1> DEFINE y == [x EXCEPT !.pc = pc]
<1>1. /\ y.pc = pc /\ y.result = "none" /\ y.node = x.node
      /\ y.cancelled = x.cancelled /\ y.next = {} /\ y.todo = {}
  BY DEF TaskSet
<1>2. y \in TaskSet
  BY DEF TaskSet, TaskPCs
<1> HIDE DEF y
<1>3. TaskOk(y)
  BY <1>1, <1>2 DEF TaskOk, ResultsAt
<1> QED
  BY <1>1, <1>2, <1>3, NoTaskIs DEF y

\* A goroutine has edges to look at.
LEMMA LookingIs ==
  ASSUME NEW y \in TaskSet, y.pc = "resolve", y.result = "none",
         \A i \in y.todo : Edges[i].from = y.node, \A i \in y.next : Edges[i].from = y.node
  PROVE  TaskOk(y) /\ y # NoTask
<1>1. y.todo \subseteq Branches /\ y.next \subseteq Branches
  BY DEF TaskSet, Branches
<1> QED
  BY <1>1, NoTaskIs DEF TaskOk, ResultsAt

LEMMA SetInstanceIs ==
  ASSUME Served, NEW r \in Requests, NEW p, NEW node \in Nodes, NEW status \in RunStatuses,
         NEW lost, SetInstance(r, p, node, status, lost)
  PROVE  \E m \in [Nodes -> Instances] : nodeRuns' = [nodeRuns EXCEPT ![r] = m]
<1> DEFINE m == [nodeRuns[r] EXCEPT ![node] =
                    IF @.by = p THEN [@ EXCEPT !.status = status] ELSE @]
<1>1. nodeRuns[r] \in [Nodes -> Instances]
  BY DEF Served
<1>2. nodeRuns[r][node] \in Instances
  BY <1>1
<1>3. [nodeRuns[r][node] EXCEPT !.status = status] \in Instances
  BY <1>2 DEF Instances
<1>4. m \in [Nodes -> Instances]
  BY <1>1, <1>2, <1>3
<1>5. nodeRuns' = [nodeRuns EXCEPT ![r] = m]
  BY DEF SetInstance
<1> HIDE DEF m
<1> QED
  BY <1>4, <1>5

\* The instance that a goroutine makes.
LEMMA NewInstance ==
  ASSUME Served, NEW r \in Requests, NEW p \in Paths, NEW node \in Nodes,
         NEW status \in RunStatuses
  PROVE  [nodeRuns[r] EXCEPT ![node] = [by |-> p, status |-> status, attempts |-> 1]]
            \in [Nodes -> Instances]
<1>1. nodeRuns[r] \in [Nodes -> Instances]
  BY DEF Served
<1>2. [by |-> p, status |-> status, attempts |-> 1] \in Instances
  BY DEF Instances
<1> QED
  BY <1>1, <1>2

LEMMA EnterNodeServed ==
  ASSUME Served, NEW r \in Requests, NEW p \in Paths, EnterNode(r, p) PROVE Served'
<1> DEFINE task == tasks[r][p]
<1>1. task.pc = "enter" /\ requests' = requests
  BY DEF EnterNode
<1>2. /\ task \in TaskSet /\ TaskOk(task) /\ task.node \in Nodes /\ IsLeaf(tasks[r], p)
      /\ task.result = "none" /\ task.todo = {} /\ task.next = {}
  BY <1>1, Running, OnlyForksHaveBranches DEF TaskOk, ResultsAt
<1>3. ASSUME NEW m \in [Nodes -> Instances], nodeRuns' = [nodeRuns EXCEPT ![r] = m],
             \/ tasks' = [tasks EXCEPT ![r][p] = Returning(@, "failed")]
             \/ tasks' = [tasks EXCEPT ![r][p] = [@ EXCEPT !.pc = "sandbox"]]
      PROVE  Served'
  <2>1. CASE tasks' = [tasks EXCEPT ![r][p] = Returning(@, "failed")]
    BY <1>1, <1>2, <1>3, <2>1, LeafServed, ReturningIs
  <2>2. CASE tasks' = [tasks EXCEPT ![r][p] = [@ EXCEPT !.pc = "sandbox"]]
    BY <1>1, <1>2, <1>3, <2>2, LeafServed, GoingOnIs
  <2> QED
    BY <1>3, <2>1, <2>2
<1>4. CASE UNCHANGED nodeRuns /\ tasks' = [tasks EXCEPT ![r][p] = Returning(@, "failed")]
  <2>1. nodeRuns' = [nodeRuns EXCEPT ![r] = nodeRuns[r]] /\ nodeRuns[r] \in [Nodes -> Instances]
    BY <1>4, Unchanged DEF Served
  <2> QED
    BY <1>3, <1>4, <2>1
<1>5. ASSUME NEW status \in {"RUNNING", "FAILED"},
             nodeRuns' = [nodeRuns EXCEPT ![r][task.node] =
                             [by |-> p, status |-> status, attempts |-> 1]],
             tasks' = [tasks EXCEPT ![r][p] = IF status = "FAILED" THEN Returning(@, "failed")
                                              ELSE [@ EXCEPT !.pc = "sandbox"]]
      PROVE  Served'
  <2> DEFINE m == [nodeRuns[r] EXCEPT ![task.node] = [by |-> p, status |-> status, attempts |-> 1]]
  <2>1. m \in [Nodes -> Instances]
    BY <1>2, NewInstance DEF RunStatuses
  <2>2. nodeRuns' = [nodeRuns EXCEPT ![r] = m]
    BY <1>5
  <2>3. \/ tasks' = [tasks EXCEPT ![r][p] = Returning(@, "failed")]
        \/ tasks' = [tasks EXCEPT ![r][p] = [@ EXCEPT !.pc = "sandbox"]]
    BY <1>5
  <2> QED
    BY <1>3, <2>1, <2>2, <2>3
<1> QED
  BY <1>4, <1>5 DEF EnterNode

LEMMA ScriptFailsServed ==
  ASSUME Served, NEW r \in Requests, NEW p \in Paths, ScriptFails(r, p) PROVE Served'
<1> DEFINE task == tasks[r][p]
<1>1. task.pc = "sandbox" /\ requests' = requests
  BY DEF ScriptFails
<1>2. /\ task \in TaskSet /\ TaskOk(task) /\ task.node \in Nodes /\ IsLeaf(tasks[r], p)
      /\ task.result = "none" /\ task.todo = {} /\ task.next = {}
  BY <1>1, Running, OnlyForksHaveBranches DEF TaskOk, ResultsAt
<1>3. /\ tasks' = [tasks EXCEPT ![r][p] = Returning(@, "failed")]
      /\ \E lost \in BOOLEAN : SetInstance(r, p, task.node, "FAILED", lost)
  BY DEF ScriptFails, CanRetry
<1>4. PICK m \in [Nodes -> Instances] : nodeRuns' = [nodeRuns EXCEPT ![r] = m]
  BY <1>2, <1>3, SetInstanceIs DEF RunStatuses
<1> QED
  BY <1>1, <1>2, <1>3, <1>4, LeafServed, ReturningIs

LEMMA NextNodes ==
  ASSUME NEW node, NEW holds
  PROVE  /\ GetNextNodes(Edges, node, holds) \subseteq Branches
         /\ \A i \in GetNextNodes(Edges, node, holds) : Edges[i].from = node
BY DEF GetNextNodes, Followed, Branches

LEMMA ScriptReturnsServed ==
  ASSUME Served, NEW r \in Requests, NEW p \in Paths, ScriptReturns(r, p) PROVE Served'
<1> DEFINE task == tasks[r][p]
           node == task.node
<1>1. task.pc = "sandbox" /\ requests' = requests
  BY DEF ScriptReturns
<1>2. /\ task \in TaskSet /\ TaskOk(task) /\ node \in Nodes /\ IsLeaf(tasks[r], p)
      /\ task.result = "none" /\ task.todo = {} /\ task.next = {}
  BY <1>1, Running, OnlyForksHaveBranches DEF TaskOk, ResultsAt
<1>3. ASSUME NEW lost, SetInstance(r, p, node, "FAILED", lost),
             tasks' = [tasks EXCEPT ![r][p] = Returning(@, "failed")]
      PROVE  Served'
  <2>1. PICK m \in [Nodes -> Instances] : nodeRuns' = [nodeRuns EXCEPT ![r] = m]
    BY <1>2, <1>3, SetInstanceIs DEF RunStatuses
  <2> QED
    BY <1>1, <1>2, <1>3, <2>1, LeafServed, ReturningIs
<1>4. ASSUME nodeRuns' = [nodeRuns EXCEPT ![r][node] =
                             [by |-> p, status |-> "WAITING_FEEDBACK", attempts |-> 1]],
             tasks' = [tasks EXCEPT ![r][p].pc = "pauseHITL"]
      PROVE  Served'
  <2> DEFINE m == [nodeRuns[r] EXCEPT ![node] =
                      [by |-> p, status |-> "WAITING_FEEDBACK", attempts |-> 1]]
  <2>1. m \in [Nodes -> Instances]
    BY <1>2, NewInstance DEF RunStatuses
  <2>2. nodeRuns' = [nodeRuns EXCEPT ![r] = m]
    BY <1>4
  <2>3. tasks' = [tasks EXCEPT ![r][p] = [@ EXCEPT !.pc = "pauseHITL"]]
    BY <1>4
  <2> HIDE DEF m
  <2> QED
    BY <1>1, <1>2, <2>1, <2>2, <2>3, LeafServed, GoingOnIs
<1>5. ASSUME NEW lost, SetInstance(r, p, node, "SUCCESS", lost), NEW holds,
             tasks' = [tasks EXCEPT ![r][p].pc = "resolve",
                                    ![r][p].todo = GetNextNodes(Edges, node, holds)]
      PROVE  Served'
  <2> DEFINE todo == GetNextNodes(Edges, node, holds)
             x    == [task EXCEPT !.pc = "resolve", !.todo = todo, !.next = {}]
  <2>1. PICK m \in [Nodes -> Instances] : nodeRuns' = [nodeRuns EXCEPT ![r] = m]
    BY <1>2, <1>5, SetInstanceIs DEF RunStatuses
  <2>2. tasks' = [tasks EXCEPT ![r][p] = [task EXCEPT !.pc = "resolve", !.todo = todo]]
    BY <1>5 DEF Served
  <2>3. [task EXCEPT !.pc = "resolve", !.todo = todo] = x
    BY <1>2 DEF TaskSet
  <2>4. TaskOk(x) /\ x.cancelled = task.cancelled
    <3>1. todo \in SUBSET Branches /\ \A i \in todo : Edges[i].from = node
      BY NextNodes
    <3> HIDE DEF todo
    <3>2. /\ x.pc = "resolve" /\ x.todo = todo /\ x.next = {} /\ x.result = "none"
          /\ x.node = node /\ x.cancelled = task.cancelled
      BY <1>2 DEF TaskSet
    <3>3. x \in TaskSet
      BY <1>2, <3>1 DEF TaskSet, TaskPCs, Branches
    <3> HIDE DEF x
    <3> QED
      BY <3>1, <3>2, <3>3, LookingIs
  <2> HIDE DEF x
  <2> QED
    BY <1>1, <1>2, <2>1, <2>2, <2>3, <2>4, LeafServed
<1> QED
  BY <1>3, <1>4, <1>5 DEF ScriptReturns

LEMMA PausesServed ==
  ASSUME Served, NEW r \in Requests, NEW p \in Paths, PauseHITL(r, p) \/ PauseRun(r, p)
  PROVE  Served'
<1> DEFINE task == tasks[r][p]
<1>1. /\ task.pc \in {"pauseHITL", "pauseRun"} /\ requests' = requests
      /\ nodeRuns' = [nodeRuns EXCEPT ![r] = nodeRuns[r]] /\ nodeRuns[r] \in [Nodes -> Instances]
  BY Unchanged DEF PauseHITL, PauseRun, Served
<1>2. /\ task \in TaskSet /\ TaskOk(task) /\ IsLeaf(tasks[r], p)
      /\ task.result = "none" /\ task.todo = {} /\ task.next = {}
  BY <1>1, Running, OnlyForksHaveBranches DEF TaskOk, ResultsAt
<1>3. \/ tasks' = [tasks EXCEPT ![r][p] = [@ EXCEPT !.pc = "pauseRun"]]
      \/ tasks' = [tasks EXCEPT ![r][p] = Returning(@, "await")]
  BY DEF PauseHITL, PauseRun
<1>4. CASE tasks' = [tasks EXCEPT ![r][p] = [@ EXCEPT !.pc = "pauseRun"]]
  BY <1>1, <1>2, <1>4, LeafServed, GoingOnIs
<1>5. CASE tasks' = [tasks EXCEPT ![r][p] = Returning(@, "await")]
  BY <1>1, <1>2, <1>5, LeafServed, ReturningIs
<1> QED
  BY <1>3, <1>4, <1>5

\* The next edge to look at is one of those left.
LEMMA NextCandidate ==
  ASSUME NEW todo \in SUBSET Branches, todo # {}
  PROVE  Min(todo) \in todo
<1>1. \E i \in todo : \A j \in todo : i <= j
  BY LeastElement, BranchesNat
<1> QED
  BY <1>1 DEF Min

LEMMA ProcessDiesServed == Served /\ ProcessDies => Served'
<1> SUFFICES ASSUME Served, ProcessDies PROVE Served'
  OBVIOUS
<1>1. /\ requests' = [r \in Requests |-> NoRequest]
      /\ nodeRuns' = [r \in Requests |-> NoInstances]
      /\ tasks' = [r \in Requests |-> NoTasks]
  BY DEF ProcessDies
<1>2. Serves(NoRequest, NoInstances, NoTasks)
  BY NoRequestIs, NoInstanceIs, NobodyServed
<1>3. NoTasks \in [Paths -> TaskSet \union {NoTask}]
  BY <1>2 DEF Serves, Tree
<1> QED
  BY <1>1, <1>2, <1>3, NoInstanceIs DEF Served

\* What a goroutine does with its next edge: skip it or follow it, unless it panics.
LEMMA ResolveServed ==
  ASSUME Served, NEW r \in Requests, NEW p \in Paths, Resolve(r, p) PROVE Served'
<1> DEFINE task == tasks[r][p]
           i    == Min(task.todo)
<1>1. task.pc = "resolve" /\ task.todo # {}
  BY DEF Resolve
<1>2. /\ task \in TaskSet /\ TaskOk(task) /\ IsLeaf(tasks[r], p) /\ task.result = "none"
      /\ task.todo \in SUBSET Branches /\ task.next \in SUBSET Branches
      /\ \A j \in task.todo : Edges[j].from = task.node
      /\ \A j \in task.next : Edges[j].from = task.node
      /\ nodeRuns[r] \in [Nodes -> Instances]
  BY <1>1, Running, OnlyForksHaveBranches DEF TaskOk, ResultsAt, Served
<1>3. i \in task.todo
  BY <1>1, <1>2, NextCandidate
<1> HIDE DEF i
<1>0. task.pc # "none" /\ IsLeaf(tasks[r], p) /\ nodeRuns[r] \in [Nodes -> Instances]
  BY <1>1, <1>2
<1>4. ASSUME requests' = requests, nodeRuns' = nodeRuns, NEW next \in {task.next, task.next \union {i}},
             tasks' = [tasks EXCEPT ![r][p] =
                          [task EXCEPT !.pc = "resolve", !.todo = @ \ {i}, !.next = next]]
      PROVE  Served'
  <2> DEFINE todo == task.todo \ {i}
             x    == [task EXCEPT !.pc = "resolve", !.todo = todo, !.next = next]
  <2>1. /\ todo \in SUBSET Branches /\ next \in SUBSET Branches
        /\ \A j \in todo : Edges[j].from = task.node
        /\ \A j \in next : Edges[j].from = task.node
    BY <1>2, <1>3
  <2>2. requests' = requests /\ nodeRuns' = [nodeRuns EXCEPT ![r] = nodeRuns[r]]
    BY <1>4, Unchanged
  <2>3. tasks' = [tasks EXCEPT ![r][p] = x]
    BY <1>4
  <2> HIDE DEF todo
  <2>4. TaskOk(x) /\ x.cancelled = task.cancelled
    <3>1. /\ x.pc = "resolve" /\ x.todo = todo /\ x.next = next /\ x.result = "none"
          /\ x.node = task.node /\ x.cancelled = task.cancelled
      BY <1>2 DEF TaskSet
    <3>2. x \in TaskSet
      BY <1>2, <2>1 DEF TaskSet, TaskPCs, Branches
    <3> HIDE DEF x
    <3>3. (\A j \in x.todo : Edges[j].from = x.node) /\ (\A j \in x.next : Edges[j].from = x.node)
      BY <2>1, <3>1
    <3> QED
      BY <3>1, <3>2, <3>3, LookingIs
  <2> HIDE DEF x
  <2> QED
    BY <1>0, <2>2, <2>3, <2>4, LeafServed
<1>5. CASE requests' = requests /\ nodeRuns' = nodeRuns /\ tasks' = [tasks EXCEPT ![r][p].todo = @ \ {i}]
  <2>1. [task EXCEPT !.todo = @ \ {i}]
           = [task EXCEPT !.pc = "resolve", !.todo = @ \ {i}, !.next = task.next]
    BY <1>1, <1>2 DEF TaskSet
  <2>2. tasks' = [tasks EXCEPT ![r][p] = [task EXCEPT !.todo = @ \ {i}]]
    BY <1>5
  <2> QED
    BY <1>4, <1>5, <2>1, <2>2
<1>6. CASE /\ requests' = requests /\ nodeRuns' = nodeRuns
           /\ tasks' = [tasks EXCEPT ![r][p].todo = @ \ {i}, ![r][p].next = @ \union {i}]
  <2>1. [task EXCEPT !.todo = @ \ {i}, !.next = @ \union {i}]
           = [task EXCEPT !.pc = "resolve", !.todo = @ \ {i}, !.next = task.next \union {i}]
    BY <1>1, <1>2 DEF TaskSet
  <2>2. tasks' = [tasks EXCEPT ![r][p] = [task EXCEPT !.todo = @ \ {i}, !.next = @ \union {i}]]
    BY <1>6 DEF Served
  <2> QED
    BY <1>4, <1>6, <2>1, <2>2
<1>7. CASE requests' = requests /\ nodeRuns' = nodeRuns /\ tasks' = [tasks EXCEPT ![r][p].pc = "stuck"]
  <2> DEFINE x == [task EXCEPT !.pc = "stuck"]
  <2>1. x \in TaskSet
    BY <1>2 DEF TaskSet, TaskPCs
  <2>2. TaskOk(x) /\ x.cancelled = task.cancelled
    BY <1>2, <2>1 DEF TaskOk, ResultsAt, TaskSet
  <2>3. /\ tasks' = [tasks EXCEPT ![r][p] = x] /\ requests' = requests
        /\ nodeRuns' = [nodeRuns EXCEPT ![r] = nodeRuns[r]]
    BY <1>7, Unchanged
  <2> HIDE DEF x
  <2> QED
    BY <1>0, <2>2, <2>3, LeafServed
<1> QED
  BY <1>5, <1>6, <1>7, ProcessDiesServed DEF Resolve, i

LEMMA FollowServed ==
  ASSUME Served, NEW r \in Requests, NEW p \in Paths, Follow(r, p) PROVE Served'
<1> DEFINE task == tasks[r][p]
           next == task.next
<1>1. task.pc = "resolve" /\ task.todo = {} /\ requests' = requests /\ nodeRuns' = nodeRuns
  BY DEF Follow
<1>2. /\ task \in TaskSet /\ TaskOk(task) /\ IsLeaf(tasks[r], p) /\ task.result = "none"
      /\ next \in SUBSET Branches /\ task.cancelled \in BOOLEAN
      /\ Tree(tasks[r], requests[r].gone) /\ task # NoTask
  BY <1>1, Running, OnlyForksHaveBranches, NoTaskIs DEF TaskOk, ResultsAt, TaskSet
<1>3. /\ task.pc # "none" /\ requests' = requests
      /\ nodeRuns' = [nodeRuns EXCEPT ![r] = nodeRuns[r]] /\ nodeRuns[r] \in [Nodes -> Instances]
  BY <1>1, Unchanged DEF Served
<1>4. CASE next = {} /\ tasks' = [tasks EXCEPT ![r][p] = Returning(@, "ok")]
  BY <1>1, <1>2, <1>3, <1>4, LeafServed, ReturningIs
<1>5. ASSUME NEW i \in next, tasks' = [tasks EXCEPT ![r][p] = TaskAt(Edges[i].to, task.cancelled)]
      PROVE  Served'
  <2>1. Edges[i].to \in Nodes
    BY <1>2, BranchesNat DEF EdgeSet
  <2>2. TaskOk(TaskAt(Edges[i].to, task.cancelled))
        /\ TaskAt(Edges[i].to, task.cancelled).cancelled = task.cancelled
    BY <1>2, <2>1, TaskAtIs
  <2> QED
    BY <1>2, <1>3, <1>5, <2>2, LeafServed
<1>6. ASSUME Len(p) < MaxDepth,
             tasks' = [tasks EXCEPT ![r] = [q \in Paths |->
                          IF q = p THEN [task EXCEPT !.pc = "join", !.next = {}]
                          ELSE IF \E i \in next : q = Child(p, i)
                               THEN TaskAt(Edges[Last(q)].to, task.cancelled)
                               ELSE tasks[r][q]]]
      PROVE  Served'
  <2> DEFINE f == [task EXCEPT !.pc = "join", !.next = {}]
             t == [q \in Paths |-> IF q = p THEN f
                          ELSE IF \E i \in next : q = Child(p, i)
                               THEN TaskAt(Edges[Last(q)].to, task.cancelled)
                               ELSE tasks[r][q]]
  <2>1. TaskOk(f) /\ f.pc = "join" /\ f.result = "none" /\ f.cancelled = task.cancelled
    <3>1. /\ f.pc = "join" /\ f.result = "none" /\ f.cancelled = task.cancelled
          /\ f.next = {} /\ f.todo = {} /\ f.node = task.node
      BY <1>1, <1>2 DEF TaskSet
    <3>2. f \in TaskSet
      BY <1>2 DEF TaskSet, TaskPCs
    <3> HIDE DEF f
    <3> QED
      BY <3>1, <3>2 DEF TaskOk, ResultsAt
  <2>2. tasks' = [tasks EXCEPT ![r] = t]
    BY <1>6
  <2>3. Tree(t, requests[r].gone)
    <3> HIDE DEF f
    <3> QED
      BY <1>1, <1>2, <1>6, <2>1, ForkStep
  <2>4. Serves(requests[r], nodeRuns[r], t)
    <3>1. RequestOk(requests[r]) /\ requests[r].pc = "running" /\ nodeRuns[r] \in [Nodes -> Instances]
      BY <1>3, Running DEF Served, Serves
    <3> QED
      BY <2>3, <3>1 DEF Serves
  <2>5. requests' = [requests EXCEPT ![r] = requests[r]]
    BY <1>1, Unchanged
  <2> HIDE DEF t
  <2> QED
    BY <1>3, <2>2, <2>4, <2>5, ServeStep
<1> QED
  BY <1>4, <1>5, <1>6 DEF Follow

\* What a branch leaves behind when it returns.
LEMMA BranchReturns ==
  ASSUME Served, NEW r \in Requests, NEW p \in Paths, ReturnFromBranch(r, p),
         NEW t, t = tasks'[r]
  PROVE  /\ p # Root /\ tasks[r][p].pc = "return" /\ Front(p) \in Paths
         /\ tasks' = [tasks EXCEPT ![r] = t] /\ Tree(t, requests[r].gone)
         /\ \A q \in Paths : t[q] =
            IF q = p THEN NoTask
            ELSE IF q = Front(p) /\ tasks[r][p].result # "ok" /\ tasks[r][Front(p)].result = "none"
                 THEN [tasks[r][q] EXCEPT !.result = tasks[r][p].result]
            ELSE IF /\ IsStrictPrefix(Front(p), q) /\ tasks[r][q] # NoTask
                    /\ tasks[r][p].result # "ok" /\ tasks[r][Front(p)].result = "none"
                 THEN [tasks[r][q] EXCEPT !.cancelled = TRUE]
            ELSE tasks[r][q]
<1> DEFINE result == tasks[r][p].result
           first  == result # "ok" /\ tasks[r][Front(p)].result = "none"
           u == [q \in Paths |->
                   IF q = p THEN NoTask
                   ELSE IF q = Front(p) /\ first THEN [tasks[r][q] EXCEPT !.result = result]
                   ELSE IF IsStrictPrefix(Front(p), q) /\ first /\ tasks[r][q] # NoTask
                        THEN [tasks[r][q] EXCEPT !.cancelled = TRUE]
                   ELSE tasks[r][q]]
<1>1. p # Root /\ tasks[r][p].pc = "return" /\ tasks' = [tasks EXCEPT ![r] = u]
  BY DEF ReturnFromBranch, Cancels
<1>2. /\ tasks[r][p] \in TaskSet /\ TaskOk(tasks[r][p]) /\ tasks[r][p] # NoTask
      /\ Tree(tasks[r], requests[r].gone) /\ Front(p) \in Paths
      /\ result \in {"ok", "failed", "await"}
  BY <1>1, Running, NoTaskIs, ParentMeans DEF TaskOk, ResultsAt
<1>3. t = u
  BY <1>1 DEF Served
<1>4. \A q \in Paths : tasks[r][q] \in TaskSet \union {NoTask}
  BY <1>2 DEF Tree
<1>5. ASSUME NEW q \in Paths PROVE u[q] \in TaskSet \union {NoTask}
  <2>1. CASE q = p
    BY <2>1
  <2>2. CASE q # p /\ q = Front(p) /\ first
    <3>1. tasks[r][q].pc = "join"
      BY <1>1, <1>2, <2>2, ParentMeans DEF Tree
    <3>2. tasks[r][q] \in TaskSet
      BY <1>4, <3>1, NoTaskIs
    <3>3. [tasks[r][q] EXCEPT !.result = result] \in TaskSet
      BY <1>2, <3>2 DEF TaskSet, Outcomes
    <3> QED
      BY <2>2, <3>3
  <2>3. CASE q # p /\ ~(q = Front(p) /\ first) /\ IsStrictPrefix(Front(p), q) /\ first
             /\ tasks[r][q] # NoTask
    <3>1. tasks[r][q] \in TaskSet
      BY <1>4, <2>3
    <3>2. [tasks[r][q] EXCEPT !.cancelled = TRUE] \in TaskSet
      BY <3>1 DEF TaskSet
    <3> QED
      BY <2>3, <3>2
  <2>4. CASE q # p /\ ~(q = Front(p) /\ first)
             /\ ~(IsStrictPrefix(Front(p), q) /\ first /\ tasks[r][q] # NoTask)
    <3>1. u[q] = tasks[r][q]
      BY <2>4
    <3> QED
      BY <1>4, <3>1
  <2> QED
    BY <2>1, <2>2, <2>3, <2>4
<1>6. u \in [Paths -> TaskSet \union {NoTask}]
  BY <1>5
<1>7. \A q \in Paths : u[q] =
            IF q = p THEN NoTask
            ELSE IF q = Front(p) /\ first THEN [tasks[r][q] EXCEPT !.result = result]
            ELSE IF IsStrictPrefix(Front(p), q) /\ first /\ tasks[r][q] # NoTask
                 THEN [tasks[r][q] EXCEPT !.cancelled = TRUE]
            ELSE tasks[r][q]
  OBVIOUS
<1> HIDE DEF u
<1>8. Tree(u, requests[r].gone)
  <2>1. \A q \in Paths : u[q] =
            IF q = p THEN NoTask
            ELSE IF q = Front(p) /\ result # "ok" /\ tasks[r][Front(p)].result = "none"
                 THEN [tasks[r][q] EXCEPT !.result = result]
            ELSE IF /\ IsStrictPrefix(Front(p), q) /\ tasks[r][q] # NoTask
                    /\ result # "ok" /\ tasks[r][Front(p)].result = "none"
                 THEN [tasks[r][q] EXCEPT !.cancelled = TRUE]
            ELSE tasks[r][q]
    BY <1>7
  <2> QED
    BY <1>1, <1>2, <1>6, <2>1, BranchStep
<1>9. tasks' = [tasks EXCEPT ![r] = t]
  BY <1>1, <1>3
<1> QED
  BY <1>1, <1>2, <1>3, <1>7, <1>8, <1>9

LEMMA ReturnFromBranchServed ==
  ASSUME Served, NEW r \in Requests, NEW p \in Paths, ReturnFromBranch(r, p) PROVE Served'
<1> DEFINE t == tasks'[r]
<1>1. tasks' = [tasks EXCEPT ![r] = t] /\ Tree(t, requests[r].gone) /\ tasks[r][p].pc = "return"
  BY BranchReturns
<1>2. requests' = [requests EXCEPT ![r] = requests[r]] /\ nodeRuns' = [nodeRuns EXCEPT ![r] = nodeRuns[r]]
  BY Unchanged DEF ReturnFromBranch
<1>3. Serves(requests[r], nodeRuns[r], t)
  BY <1>1, Running DEF Served, Serves
<1> HIDE DEF t
<1> QED
  BY <1>1, <1>2, <1>3, ServeStep

LEMMA JoinServed ==
  ASSUME Served, NEW r \in Requests, NEW p \in Paths, Join(r, p) PROVE Served'
<1> DEFINE task == tasks[r][p]
           result == IF task.result = "none" THEN "ok" ELSE task.result
<1>1. /\ task.pc = "join" /\ Children(r, p) = {} /\ requests' = requests
      /\ nodeRuns' = [nodeRuns EXCEPT ![r] = nodeRuns[r]] /\ nodeRuns[r] \in [Nodes -> Instances]
      /\ tasks' = [tasks EXCEPT ![r][p] = Returning(task, result)]
  BY Unchanged DEF Join, Served
<1>2. /\ task \in TaskSet /\ TaskOk(task) /\ Tree(tasks[r], requests[r].gone)
      /\ result \in {"ok", "failed", "await"} /\ task.todo = {} /\ task.next = {}
  BY <1>1, Running DEF TaskOk, ResultsAt
<1>3. \A q \in Paths : q # Root /\ Front(q) = p => tasks[r][q] = NoTask
  BY <1>1 DEF Children
<1>4. IsLeaf(tasks[r], p)
  BY <1>2, <1>3, ForkWithoutBranches
<1>5. TaskOk(Returning(task, result)) /\ Returning(task, result).cancelled = task.cancelled
  BY <1>2, ReturningIs
<1> HIDE DEF result
<1> QED
  BY <1>1, <1>4, <1>5, LeafServed

\* The same request at another point of its life.
RequestAt(x, pc, result, missing) ==
    [x EXCEPT !.pc = pc, !.result = result, !.missing = missing]

LEMMA RequestIs ==
  ASSUME NEW x \in RequestSet, RequestOk(x),
         NEW pc \in {"running", "persist", "delete", "cleanup"}, NEW result \in Outcomes,
         NEW missing \in SUBSET Nodes
  PROVE  LET y == RequestAt(x, pc, result, missing)
         IN  /\ y \in RequestSet /\ y.pc = pc /\ y.result = result /\ y.kind = x.kind
             /\ y.run = x.run /\ y.gone = x.gone /\ y.hitl = x.hitl
             /\ y.kind = "resume" => y.hitl \in HITLStates
<1> DEFINE y == RequestAt(x, pc, result, missing)
<1>1. /\ y.pc = pc /\ y.result = result /\ y.kind = x.kind
      /\ y.run = x.run /\ y.gone = x.gone /\ y.hitl = x.hitl
  BY DEF RequestSet, RequestAt
<1>2. y \in RequestSet
  BY DEF RequestSet, RequestAt
<1>3. y.kind = "resume" => y.hitl \in HITLStates
  BY <1>1 DEF RequestOk
<1> QED
  BY <1>1, <1>2, <1>3

\* The parts of a request that a step leaves as they are.
LEMMA SameFields ==
  ASSUME NEW x \in RequestSet, NEW pc, NEW result, NEW missing
  PROVE  /\ [x EXCEPT !.pc = pc] = RequestAt(x, pc, x.result, x.missing)
         /\ [x EXCEPT !.result = result, !.pc = pc] = RequestAt(x, pc, result, x.missing)
         /\ [x EXCEPT !.pc = pc, !.missing = missing] = RequestAt(x, pc, x.result, missing)
BY DEF RequestSet, RequestAt

\* A request that is being served has a kind and a run.
LEMMA Busy ==
  ASSUME Served, NEW r \in Requests, requests[r].pc # "none"
  PROVE  /\ requests[r] \in RequestSet /\ RequestOk(requests[r]) /\ Run(r) \in Runs
         /\ requests[r].result \in Outcomes /\ requests[r].missing \in SUBSET Nodes
         /\ requests[r].kind \in {"execute", "resume"} /\ requests[r].gone \in BOOLEAN
         /\ nodeRuns[r] \in [Nodes -> Instances] /\ requests[r] # NoRequest
<1>1. RequestOk(requests[r]) /\ requests[r] \in RequestSet /\ nodeRuns[r] \in [Nodes -> Instances]
  BY NoRequestIs DEF Served, Serves, RequestOk
<1> QED
  BY <1>1, NoRequestIs DEF RequestSet, Run

LEMMA ReturnFromRootServed ==
  ASSUME Served, NEW r \in Requests, ReturnFromRoot(r) PROVE Served'
<1> DEFINE result == tasks[r][Root].result
           pc     == IF result = "await" THEN "cleanup" ELSE "persist"
           y      == [requests[r] EXCEPT !.result = result, !.pc = pc]
<1>1. /\ tasks[r][Root].pc = "return" /\ requests' = [requests EXCEPT ![r] = y]
      /\ tasks' = [tasks EXCEPT ![r][Root] = NoTask] /\ nodeRuns' = nodeRuns
  BY DEF ReturnFromRoot, Served
<1>2. /\ requests[r] \in RequestSet /\ RequestOk(requests[r]) /\ nodeRuns[r] \in [Nodes -> Instances]
      /\ requests[r].missing \in SUBSET Nodes
      /\ Tree(tasks[r], requests[r].gone) /\ result \in {"ok", "failed", "await"}
  <2>1. tasks[r][Root].pc # "none" /\ requests[r].pc = "running"
    BY <1>1, Running, RootPath
  <2> QED
    BY <1>1, <2>1, Busy, Running, RootPath DEF TaskOk, ResultsAt
<1>3. RequestOk(y) /\ y.pc # "running"
  <2>1. y = RequestAt(requests[r], pc, result, requests[r].missing)
    BY <1>2, SameFields
  <2>2. pc \in {"running", "persist", "delete", "cleanup"} /\ result \in Outcomes
    BY <1>2 DEF Outcomes
  <2>3. pc = "cleanup" \/ (pc = "persist" /\ result \in {"ok", "failed"})
    BY <1>2
  <2> HIDE DEF pc, result, y
  <2>4. /\ y \in RequestSet /\ y.pc = pc /\ y.result = result
        /\ y.kind = "resume" => y.hitl \in HITLStates
    BY <1>2, <2>1, <2>2, RequestIs
  <2> QED
    BY <1>2, <2>3, <2>4 DEF RequestOk
<1>4. tasks' = [tasks EXCEPT ![r] = NoTasks]
  <2>1. IsLeaf(tasks[r], Root)
    BY <1>1, <1>2, OnlyForksHaveBranches, RootPath
  <2>2. [tasks[r] EXCEPT ![Root] = NoTask] = NoTasks
    <3>1. \A q \in Paths : q # Root => tasks[r][q] = NoTask
      BY <2>1, RootAbove DEF IsLeaf
    <3> QED
      BY <1>2, <3>1 DEF NoTasks, Tree
  <2> QED
    BY <1>1, <2>2
<1> HIDE DEF y
<1>5. Serves(y, nodeRuns[r], NoTasks)
  BY <1>2, <1>3, NobodyServed
<1>6. nodeRuns' = [nodeRuns EXCEPT ![r] = nodeRuns[r]]
  BY <1>1, Unchanged
<1> QED
  BY <1>1, <1>4, <1>5, <1>6, ServeStep

\* The end of a request.
LEMMA EndServed ==
  ASSUME Served, NEW r \in Requests, Persist(r) \/ ResumeDelete(r) \/ Cleanup(r)
  PROVE  Served'
<1>1. ASSUME NEW pc \in {"delete", "cleanup"}, requests[r].pc \in {"persist", "delete"},
             pc = "delete" => requests[r].pc = "persist" /\ requests[r].kind = "resume",
             requests' = [requests EXCEPT ![r].pc = pc], UNCHANGED <<nodeRuns, tasks>>
      PROVE  Served'
  <2> DEFINE y == [requests[r] EXCEPT !.pc = pc]
  <2>1. /\ requests[r] \in RequestSet /\ RequestOk(requests[r]) /\ requests[r].missing \in SUBSET Nodes
        /\ requests[r].result \in {"ok", "failed"} /\ nodeRuns[r] \in [Nodes -> Instances]
    BY <1>1, Busy DEF RequestOk
  <2>2. y = RequestAt(requests[r], pc, requests[r].result, requests[r].missing)
    BY <2>1, SameFields
  <2> HIDE DEF y
  <2>3. /\ y \in RequestSet /\ y.pc = pc /\ y.result = requests[r].result
        /\ y.kind = requests[r].kind /\ (y.kind = "resume" => y.hitl \in HITLStates)
    BY <2>1, <2>2, RequestIs DEF Outcomes
  <2>4. RequestOk(y) /\ y.pc # "running"
    BY <1>1, <2>1, <2>3 DEF RequestOk
  <2>5. requests' = [requests EXCEPT ![r] = y] /\ nodeRuns' = [nodeRuns EXCEPT ![r] = nodeRuns[r]]
    BY <1>1, Unchanged DEF y
  <2> QED
    BY <1>1, <2>1, <2>4, <2>5, RequestServed
<1>2. CASE Persist(r)
  BY <1>1, <1>2 DEF Persist
<1>3. CASE ResumeDelete(r)
  BY <1>1, <1>3 DEF ResumeDelete
<1>4. CASE Cleanup(r)
  <2>1. /\ requests' = [requests EXCEPT ![r] = NoRequest] /\ tasks' = tasks
        /\ nodeRuns' = [nodeRuns EXCEPT ![r] = NoInstances] /\ requests[r].pc = "cleanup"
    BY <1>4 DEF Cleanup
  <2> QED
    BY <2>1, RequestServed, NoRequestIs, NoInstanceIs
<1> QED
  BY <1>2, <1>3, <1>4

\* A request comes in.
Incoming(kind, run, record) ==
    [NoRequest EXCEPT !.kind = kind, !.run = run, !.pc = "counters", !.hitl = record]

LEMMA NewRequest ==
  ASSUME NEW run \in Runs, NEW kind \in {"execute", "resume"},
         NEW record \in HITLStates \union {NoHITL}, kind = "resume" => record \in HITLStates
  PROVE  LET y == Incoming(kind, run, record)
         IN  /\ RequestOk(y) /\ y.pc = "counters" /\ y.run = run /\ y.kind = kind
             /\ y.hitl = record /\ y.result = "none" /\ y.gone = FALSE /\ y.missing = {}
<1> DEFINE y == Incoming(kind, run, record)
<1>1. /\ y.pc = "counters" /\ y.run = run /\ y.kind = kind
      /\ y.hitl = record /\ y.result = "none" /\ y.gone = FALSE /\ y.missing = {}
  BY DEF Incoming, NoRequest
<1>2. y \in RequestSet
  BY DEF Incoming, NoRequest, RequestSet, Outcomes
<1> HIDE DEF y
<1>3. RequestOk(y)
  BY <1>1, <1>2 DEF RequestOk
<1> QED
  BY <1>1, <1>3 DEF y

LEMMA IncomingIs ==
  ASSUME NEW run
  PROVE  [NoRequest EXCEPT !.kind = "execute", !.run = run, !.pc = "counters"]
            = Incoming("execute", run, NoHITL)
<1> DEFINE Blank == [kind : {"none"}, run : {"none"}, pc : {"none"}, result : {"none"},
                     gone : {FALSE}, missing : {{}}, hitl : {NoHITL}]
<1>1. NoRequest \in Blank
  BY DEF NoRequest
<1> QED
  BY <1>1 DEF Incoming

LEMMA BeginServed ==
  ASSUME Served, NEW r \in Requests, NEW run \in Runs, ExecuteBegin(r, run) PROVE Served'
<1> DEFINE y == Incoming("execute", run, NoHITL)
<1>1. RequestOk(y) /\ y.pc # "running"
  BY NewRequest
<1>2. /\ requests[r].pc # "running" /\ nodeRuns[r] \in [Nodes -> Instances]
      /\ nodeRuns' = [nodeRuns EXCEPT ![r] = nodeRuns[r]] /\ tasks' = tasks
  BY NoRequestIs, Unchanged DEF ExecuteBegin, Served
<1>3. CASE requests' = [requests EXCEPT ![r] = y]
  <2> HIDE DEF y
  <2> QED
    BY <1>1, <1>2, <1>3, RequestServed
<1>4. CASE requests' = requests
  BY <1>2, <1>4 DEF Served, ExecuteBegin
<1> QED
  BY <1>3, <1>4, IncomingIs DEF ExecuteBegin

HITLTyped == hitl \in [Runs -> HITLStates \union {NoHITL}]

LEMMA FeedbackServed ==
  ASSUME Served, HITLTyped, NEW r \in Requests, NEW run \in Runs,
         SubmitFeedback(r, run) \/ FeedbackAbandoned(r)
  PROVE  Served'
<1>1. /\ nodeRuns[r] \in [Nodes -> Instances]
      /\ nodeRuns' = [nodeRuns EXCEPT ![r] = nodeRuns[r]] /\ tasks' = tasks
      /\ requests[r].pc # "running"
  BY NoRequestIs, Unchanged DEF SubmitFeedback, FeedbackAbandoned, Served
<1>2. CASE SubmitFeedback(r, run)
  <2> DEFINE y == Incoming("resume", run, hitl[run])
  <2>1. hitl[run] \in HITLStates
    BY <1>2 DEF SubmitFeedback, HITLTyped
  <2>2. RequestOk(y) /\ y.pc # "running"
    BY <2>1, NewRequest
  <2>3. requests' = [requests EXCEPT ![r] = y]
    BY <1>2 DEF SubmitFeedback, Incoming
  <2> HIDE DEF y
  <2> QED
    BY <1>1, <2>2, <2>3, RequestServed
<1>3. CASE FeedbackAbandoned(r)
  <2>1. requests' = [requests EXCEPT ![r] = NoRequest]
    BY <1>3 DEF FeedbackAbandoned
  <2> QED
    BY <1>1, <2>1, RequestServed, NoRequestIs
<1> QED
  BY <1>2, <1>3

\* A request starts to walk the graph.
LEMMA PlantServed ==
  ASSUME Served, NEW r \in Requests, requests[r].pc = "counters",
         NEW x, TaskOk(x), x.cancelled = requests[r].gone,
         NEW m \in [Nodes -> Instances], NEW missing \in SUBSET Nodes,
         requests' = [requests EXCEPT ![r] = RequestAt(requests[r], "running", "none", missing)],
         nodeRuns' = [nodeRuns EXCEPT ![r] = m],
         tasks' = [tasks EXCEPT ![r][Root] = x]
  PROVE  Served'
<1> DEFINE y == RequestAt(requests[r], "running", "none", missing)
           t == [tasks[r] EXCEPT ![Root] = x]
<1>1. /\ requests[r] \in RequestSet /\ RequestOk(requests[r]) /\ tasks[r] = NoTasks
      /\ requests[r].result = "none" /\ requests[r].gone \in BOOLEAN
  BY Busy DEF Served, Serves, RequestOk
<1>2. RequestOk(y) /\ y.gone = requests[r].gone /\ y.pc = "running"
  <2>1. /\ y \in RequestSet /\ y.pc = "running" /\ y.result = "none" /\ y.gone = requests[r].gone
        /\ y.kind = "resume" => y.hitl \in HITLStates
    BY <1>1, RequestIs DEF Outcomes
  <2> HIDE DEF y
  <2> QED
    BY <2>1 DEF RequestOk
<1>3. Tree(t, y.gone)
  <2>1. Tree(NoTasks, requests[r].gone) /\ IsLeaf(NoTasks, Root) /\ ~NoTasks[Root].cancelled
    BY EmptyTree, NoTaskIs, RootPath DEF IsLeaf, NoTasks
  <2> QED
    BY <1>1, <1>2, <2>1, LeafStep, RootPath
<1>4. Serves(y, m, t)
  BY <1>2, <1>3 DEF Serves
<1>5. tasks' = [tasks EXCEPT ![r] = t]
  OBVIOUS
<1> HIDE DEF y, t
<1> QED
  BY <1>4, <1>5, ServeStep DEF y

LEMMA CountersServed ==
  ASSUME Served, NEW r \in Requests, ExecuteCounters(r) \/ ResumeCounters(r) PROVE Served'
<1>1. /\ requests[r].pc = "counters" /\ requests[r] \in RequestSet /\ RequestOk(requests[r])
      /\ requests[r].result = "none" /\ requests[r].gone \in BOOLEAN
      /\ requests[r].missing \in SUBSET Nodes /\ nodeRuns[r] \in [Nodes -> Instances]
  <2>1. requests[r].pc = "counters"
    BY DEF ExecuteCounters, ResumeCounters
  <2> QED
    BY <2>1, Busy DEF RequestOk
<1>2. CASE ExecuteCounters(r)
  <2> DEFINE x == TaskAt(Entry, requests[r].gone)
  <2>1. TaskOk(x) /\ x.cancelled = requests[r].gone
    BY <1>1, TaskAtIs, GraphAssumption
  <2>2. /\ requests' = [requests EXCEPT ![r] = RequestAt(requests[r], "running", "none", requests[r].missing)]
        /\ nodeRuns' = [nodeRuns EXCEPT ![r] = nodeRuns[r]]
        /\ tasks' = [tasks EXCEPT ![r][Root] = x]
    BY <1>1, <1>2, SameFields, Unchanged DEF ExecuteCounters
  <2> HIDE DEF x
  <2> QED
    BY <1>1, <2>1, <2>2, PlantServed
<1>3. CASE ResumeCounters(r)
  <2> DEFINE state == requests[r].hitl
  <2>1. state \in HITLStates /\ state.node \in Nodes /\ state.runs \in [Nodes -> Instances]
    BY <1>1, <1>3 DEF ResumeCounters, RequestOk, HITLStates
  <2>2. PICK missing \in SUBSET Deletable :
           requests' = [requests EXCEPT ![r].pc = "running", ![r].missing = missing]
    BY <1>3 DEF ResumeCounters
  <2>3. missing \in SUBSET Nodes
    BY <2>2, GraphAssumption
  <2>4. requests' = [requests EXCEPT ![r] = RequestAt(requests[r], "running", "none", missing)]
    <3>1. requests' = [requests EXCEPT ![r] = [requests[r] EXCEPT !.pc = "running", !.missing = missing]]
      BY <2>2 DEF Served
    <3>2. [requests[r] EXCEPT !.pc = "running", !.missing = missing]
             = RequestAt(requests[r], "running", "none", missing)
      BY <1>1 DEF RequestAt, RequestSet
    <3> QED
      BY <3>1, <3>2
  <2>5. PICK holds \in SUBSET ConditionalFrom(Edges, state.node) :
           tasks' = [tasks EXCEPT ![r][Root] =
                       [TaskAt(state.node, requests[r].gone) EXCEPT
                           !.pc = "resolve", !.todo = GetNextNodes(Edges, state.node, holds)]]
    BY <1>3 DEF ResumeCounters
  <2> DEFINE todo == GetNextNodes(Edges, state.node, holds)
             x    == [TaskAt(state.node, requests[r].gone) EXCEPT !.pc = "resolve", !.todo = todo]
  <2>6. TaskOk(x) /\ x.cancelled = requests[r].gone
    <3> DEFINE x0 == TaskAt(state.node, requests[r].gone)
    <3>1. /\ x0 \in TaskSet /\ x0.node = state.node /\ x0.next = {} /\ x0.result = "none"
          /\ x0.cancelled = requests[r].gone
      BY <1>1, <2>1, TaskAtIs
    <3>2. todo \in SUBSET Branches /\ \A i \in todo : Edges[i].from = state.node
      BY NextNodes
    <3> HIDE DEF x0, todo
    <3>3. /\ x.pc = "resolve" /\ x.todo = todo /\ x.next = {} /\ x.result = "none"
          /\ x.node = state.node /\ x.cancelled = requests[r].gone
      BY <3>1 DEF TaskSet, x0
    <3>4. x \in TaskSet
      BY <3>1, <3>2 DEF TaskSet, TaskPCs, Branches, x0
    <3> HIDE DEF x
    <3> QED
      BY <3>2, <3>3, <3>4, LookingIs
  <2>7. tasks' = [tasks EXCEPT ![r][Root] = x] /\ nodeRuns' = [nodeRuns EXCEPT ![r] = state.runs]
    BY <1>3, <2>5 DEF ResumeCounters
  <2> HIDE DEF x
  <2> QED
    BY <1>1, <2>1, <2>3, <2>4, <2>6, <2>7, PlantServed
<1> QED
  BY <1>2, <1>3

LEMMA DisconnectServed ==
  ASSUME Served, NEW r \in Requests, Disconnect(r) PROVE Served'
<1> DEFINE y == [requests[r] EXCEPT !.gone = TRUE]
           t == [p \in Paths |-> IF tasks[r][p] = NoTask THEN NoTask
                                 ELSE [tasks[r][p] EXCEPT !.cancelled = TRUE]]
<1>1. /\ requests[r] \in RequestSet /\ RequestOk(requests[r]) /\ nodeRuns[r] \in [Nodes -> Instances]
      /\ Tree(tasks[r], requests[r].gone) /\ (requests[r].pc # "running" => tasks[r] = NoTasks)
  BY DEF Served, Serves, Disconnect, Active
<1>2. RequestOk(y) /\ y.gone = TRUE /\ y.pc = requests[r].pc
  <2>1. /\ y.gone = TRUE /\ y.pc = requests[r].pc /\ y.result = requests[r].result
        /\ y.kind = requests[r].kind /\ y.hitl = requests[r].hitl
    BY <1>1 DEF RequestSet
  <2>2. y \in RequestSet
    BY <1>1 DEF RequestSet
  <2> HIDE DEF y
  <2> QED
    BY <1>1, <2>1, <2>2 DEF RequestOk
<1>3. Tree(t, TRUE)
  BY <1>1, GoneStep
<1>4. requests[r].pc # "running" => t = NoTasks
  BY <1>1 DEF NoTasks
<1>5. requests' = [requests EXCEPT ![r] = y] /\ tasks' = [tasks EXCEPT ![r] = t]
      /\ nodeRuns' = [nodeRuns EXCEPT ![r] = nodeRuns[r]]
  BY Unchanged DEF Disconnect
<1> HIDE DEF y, t
<1>6. Serves(y, nodeRuns[r], t)
  BY <1>1, <1>2, <1>3, <1>4 DEF Serves
<1> QED
  BY <1>5, <1>6, ServeStep

LEMMA ServedInit == Init => Served
BY NoRequestIs, NoInstanceIs, NobodyServed, EmptyTree DEF Init, Served, Tree

LEMMA ServedStep ==
  ASSUME Served, HITLTyped, [Next]_vars PROVE Served'
<1>1. ASSUME NEW r \in Requests, NEW run \in Runs, ExecuteBegin(r, run) \/ SubmitFeedback(r, run)
      PROVE  Served'
  BY <1>1, BeginServed, FeedbackServed
<1>2. ASSUME NEW r \in Requests, Serve(r) PROVE Served'
  BY <1>2, CountersServed, ReturnFromRootServed, EndServed DEF Serve
<1>3. ASSUME NEW r \in Requests, FeedbackAbandoned(r) PROVE Served'
  <2>1. requests[r].pc # "none"
    BY <1>3 DEF FeedbackAbandoned
  <2>2. Run(r) \in Runs
    BY <2>1, Busy
  <2> QED
    BY <1>3, <2>2, FeedbackServed
<1>4. ASSUME NEW r \in Requests, Disconnect(r) PROVE Served'
  BY <1>4, DisconnectServed
<1>5. ASSUME NEW r \in Requests, NEW p \in Paths, Task(r, p) PROVE Served'
  BY <1>5, EnterNodeServed, ScriptFailsServed, ScriptReturnsServed, PausesServed,
     ResolveServed, FollowServed, ReturnFromBranchServed, JoinServed DEF Task
<1>6. CASE Crash
  BY <1>6, ProcessDiesServed DEF Crash
<1>7. CASE UNCHANGED vars
  BY <1>7 DEF vars, serving, Served
<1> QED
  BY <1>1, <1>2, <1>3, <1>4, <1>5, <1>6, <1>7 DEF Next

----------------------------------------------------------------------------
(* Redis *)

RedisTyped ==
    /\ flowRun \in [Runs -> RunStatuses]
    /\ HITLTyped
    /\ nodeState \in [Runs -> [Nodes -> RunStatuses]]

\* The state of a node after a step that writes it.
LEMMA NodeWritten ==
  ASSUME RedisTyped, NEW run \in Runs, NEW node \in Nodes, NEW status \in RunStatuses,
         nodeState' = nodeState \/ nodeState' = [nodeState EXCEPT ![run][node] = status]
  PROVE  nodeState' \in [Runs -> [Nodes -> RunStatuses]]
BY DEF RedisTyped

\* The record of a pause.
LEMMA PauseRecord ==
  ASSUME NEW node \in Nodes, NEW m \in [Nodes -> Instances]
  PROVE  [node |-> node, runs |-> [n \in Nodes |-> [m[n] EXCEPT !.by = Restored]]] \in HITLStates
<1>1. \A n \in Nodes : [m[n] EXCEPT !.by = Restored] \in Instances
  <2>1. \A x \in Instances : [x EXCEPT !.by = Restored] \in Instances
    BY DEF Instances
  <2> QED
    BY <2>1
<1>2. [n \in Nodes |-> [m[n] EXCEPT !.by = Restored]] \in [Nodes -> Instances]
  BY <1>1
<1> QED
  BY <1>2 DEF HITLStates

LEMMA RedisStep ==
  ASSUME Served, RedisTyped, [Next]_vars PROVE RedisTyped'
<1>1. CASE UNCHANGED redis
  BY <1>1 DEF redis, RedisTyped, HITLTyped
<1>2. ASSUME NEW r \in Requests, NEW run \in Runs, ExecuteBegin(r, run) \/ SubmitFeedback(r, run)
      PROVE  RedisTyped'
  <2>1. CASE ExecuteBegin(r, run)
    BY <2>1 DEF ExecuteBegin, RedisTyped, HITLTyped, RunStatuses
  <2>2. CASE SubmitFeedback(r, run)
    BY <1>1, <2>2 DEF SubmitFeedback
  <2> QED
    BY <1>2, <2>1, <2>2
<1>3. ASSUME NEW r \in Requests, Serve(r) PROVE RedisTyped'
  <2>1. CASE ExecuteCounters(r) \/ ResumeCounters(r) \/ ReturnFromRoot(r) \/ Cleanup(r)
    BY <1>1, <2>1 DEF ExecuteCounters, ResumeCounters, ReturnFromRoot, Cleanup
  <2>2. CASE Persist(r)
    <3>1. /\ flowRun' = flowRun \/ \E status \in {"SUCCESS", "FAILED"} :
                                      flowRun' = [flowRun EXCEPT ![Run(r)] = status]
          /\ UNCHANGED <<hitl, nodeState>>
      BY <2>2 DEF Persist
    <3> QED
      BY <3>1 DEF RedisTyped, HITLTyped, RunStatuses
  <2>3. CASE ResumeDelete(r)
    <3>1. /\ hitl' = hitl \/ hitl' = [hitl EXCEPT ![Run(r)] = NoHITL]
          /\ UNCHANGED <<flowRun, nodeState>>
      BY <2>3 DEF ResumeDelete
    <3> QED
      BY <3>1 DEF RedisTyped, HITLTyped
  <2> QED
    BY <1>3, <2>1, <2>2, <2>3 DEF Serve
<1>4. ASSUME NEW r \in Requests, FeedbackAbandoned(r) \/ Disconnect(r) PROVE RedisTyped'
  BY <1>1, <1>4 DEF FeedbackAbandoned, Disconnect
<1>5. ASSUME NEW r \in Requests, NEW p \in Paths, Task(r, p) PROVE RedisTyped'
  <2> DEFINE task == tasks[r][p]
  <2>1. CASE EnterNode(r, p) \/ ScriptFails(r, p) \/ ScriptReturns(r, p)
    <3>1. task.pc # "none"
      BY <2>1 DEF EnterNode, ScriptFails, ScriptReturns
    <3>2. Run(r) \in Runs /\ task.node \in Nodes
      BY <3>1, Running
    <3>3. /\ UNCHANGED <<flowRun, hitl>>
          /\ nodeState' = nodeState \/ \E status \in RunStatuses :
                nodeState' = [nodeState EXCEPT ![Run(r)][task.node] = status]
      <4>1. CASE EnterNode(r, p)
        BY <4>1 DEF EnterNode, RunStatuses
      <4>2. CASE ScriptFails(r, p)
        BY <4>2 DEF ScriptFails, SetInstance, RunStatuses
      <4>3. CASE ScriptReturns(r, p)
        BY <4>3 DEF ScriptReturns, SetInstance, RunStatuses
      <4> QED
        BY <2>1, <4>1, <4>2, <4>3
    <3>4. nodeState' \in [Runs -> [Nodes -> RunStatuses]]
      BY <3>2, <3>3, NodeWritten DEF RedisTyped
    <3> QED
      BY <3>3, <3>4 DEF RedisTyped, HITLTyped
  <2>2. CASE PauseHITL(r, p)
    <3> DEFINE record == [node |-> task.node,
                          runs |-> [n \in Nodes |-> [nodeRuns[r][n] EXCEPT !.by = Restored]]]
    <3>1. /\ hitl' = hitl \/ hitl' = [hitl EXCEPT ![Run(r)] = record]
          /\ UNCHANGED <<flowRun, nodeState>> /\ task.pc # "none"
      BY <2>2 DEF PauseHITL
    <3>2. record \in HITLStates
      BY <3>1, Running, PauseRecord DEF Served
    <3> HIDE DEF record
    <3> QED
      BY <3>1, <3>2 DEF RedisTyped, HITLTyped
  <2>3. CASE PauseRun(r, p)
    <3>1. /\ flowRun' = flowRun \/ flowRun' = [flowRun EXCEPT ![Run(r)] = "WAITING_FEEDBACK"]
          /\ UNCHANGED <<hitl, nodeState>>
      BY <2>3 DEF PauseRun
    <3> QED
      BY <3>1 DEF RedisTyped, HITLTyped, RunStatuses
  <2>4. CASE Resolve(r, p)
    BY <1>1, <2>4 DEF Resolve, ProcessDies, redis
  <2>5. CASE Follow(r, p) \/ ReturnFromBranch(r, p) \/ Join(r, p)
    BY <1>1, <2>5 DEF Follow, ReturnFromBranch, Join
  <2> QED
    BY <1>5, <2>1, <2>2, <2>3, <2>4, <2>5 DEF Task
<1>6. CASE Crash
  BY <1>1, <1>6 DEF Crash, ProcessDies
<1>7. CASE UNCHANGED vars
  BY <1>1, <1>7 DEF vars
<1> QED
  BY <1>2, <1>3, <1>4, <1>5, <1>6, <1>7 DEF Next

BudgetTyped == budget \in [faults : Nat, crashes : Nat, disconnects : Nat]

LEMMA WriteTyped ==
  ASSUME BudgetTyped, NEW done, NEW lost, Write(done, lost)
  PROVE  /\ BudgetTyped' /\ budget'.faults >= budget.faults
         /\ budget'.crashes = budget.crashes /\ budget'.disconnects = budget.disconnects
BY DEF BudgetTyped, Write

LEMMA BudgetStep ==
  ASSUME BudgetTyped, [Next]_vars
  PROVE  /\ BudgetTyped' /\ budget'.faults >= budget.faults
         /\ budget'.crashes >= budget.crashes /\ budget'.disconnects >= budget.disconnects
<1> DEFINE Goal == /\ BudgetTyped' /\ budget'.faults >= budget.faults
                   /\ budget'.crashes >= budget.crashes
                   /\ budget'.disconnects >= budget.disconnects
<1>1. budget' = budget => Goal
  BY DEF BudgetTyped
<1>2. \A done, lost : Write(done, lost) => Goal
  BY WriteTyped DEF BudgetTyped
<1>3. \/ budget' = [budget EXCEPT !.faults = @ + 1]
      \/ budget' = [budget EXCEPT !.crashes = @ + 1]
      \/ budget' = [budget EXCEPT !.disconnects = @ + 1]
      => Goal
  BY DEF BudgetTyped
<1> HIDE DEF Goal
<1>4. ASSUME NEW r \in Requests, NEW run \in Runs, ExecuteBegin(r, run) \/ SubmitFeedback(r, run)
      PROVE  Goal
  BY <1>1, <1>2, <1>4 DEF ExecuteBegin, SubmitFeedback
<1>5. ASSUME NEW r \in Requests, Serve(r) PROVE Goal
  <2>1. CASE ExecuteCounters(r) \/ ResumeCounters(r) \/ ReturnFromRoot(r) \/ Cleanup(r)
    BY <1>1, <2>1 DEF ExecuteCounters, ResumeCounters, ReturnFromRoot, Cleanup
  <2>2. CASE Persist(r) \/ ResumeDelete(r)
    BY <1>2, <2>2 DEF Persist, ResumeDelete
  <2> QED
    BY <1>5, <2>1, <2>2 DEF Serve
<1>6. ASSUME NEW r \in Requests, FeedbackAbandoned(r) \/ Disconnect(r) PROVE Goal
  BY <1>3, <1>6 DEF FeedbackAbandoned, Disconnect
<1>7. ASSUME NEW r \in Requests, NEW p \in Paths, Task(r, p) PROVE Goal
  <2>1. CASE EnterNode(r, p)
    BY <1>1, <1>2, <2>1 DEF EnterNode
  <2>2. CASE ScriptFails(r, p) \/ ScriptReturns(r, p)
    BY <1>1, <1>2, <2>2 DEF ScriptFails, ScriptReturns
  <2>3. CASE PauseHITL(r, p) \/ PauseRun(r, p)
    BY <1>2, <2>3 DEF PauseHITL, PauseRun
  <2>4. CASE Resolve(r, p) \/ Follow(r, p) \/ ReturnFromBranch(r, p) \/ Join(r, p)
    BY <1>1, <2>4 DEF Resolve, Follow, ReturnFromBranch, Join
  <2> QED
    BY <1>7, <2>1, <2>2, <2>3, <2>4 DEF Task
<1>8. ASSUME Crash PROVE Goal
  BY <1>3, <1>8 DEF Crash
<1>9. ASSUME UNCHANGED vars PROVE Goal
  BY <1>1, <1>9 DEF vars
<1>10. Goal
  BY <1>4, <1>5, <1>6, <1>7, <1>8, <1>9 DEF Next
<1> QED
  BY <1>10 DEF Goal

ServedInv == Served /\ RedisTyped /\ BudgetTyped

LEMMA ServedInvInit == Init => ServedInv
BY ServedInit DEF Init, ServedInv, RedisTyped, HITLTyped, RunStatuses, BudgetTyped

LEMMA ServedInvStep == ServedInv /\ [Next]_vars => ServedInv'
BY ServedStep, RedisStep, BudgetStep DEF ServedInv, RedisTyped

----------------------------------------------------------------------------
(* What each step does, value by value *)

\* Goroutine p of request r becomes x; all others stay as they are.
Moves(r, p, x) ==
    /\ x \in TaskSet \union {NoTask}
    /\ \A s \in Requests, q \in Paths :
          tasks'[s][q] = IF s = r /\ q = p THEN x ELSE tasks[s][q]

\* Goroutine x goes on as y at the same node.
Stays(x, y) == y.node = x.node /\ y.cancelled = x.cancelled

\* The state of a node of a run is written.
Noted(run, node, status, lost) ==
    \A u \in Runs, n \in Nodes :
        nodeState'[u][n] = IF u = run /\ n = node /\ ~lost THEN status ELSE nodeState[u][n]

\* The instance of a node is replaced.
Made(r, node, instance) ==
    \A s \in Requests, n \in Nodes :
        nodeRuns'[s][n] = IF s = r /\ n = node THEN instance ELSE nodeRuns[s][n]

LEMMA MovesIs ==
  ASSUME Served, NEW r \in Requests, NEW p \in Paths, NEW x \in TaskSet \union {NoTask},
         tasks' = [tasks EXCEPT ![r][p] = x]
  PROVE  Moves(r, p, x)
BY DEF Served, Moves

LEMMA NotedIs ==
  ASSUME ServedInv, NEW run \in Runs, NEW node \in Nodes, NEW status, NEW lost \in BOOLEAN,
         nodeState' = IF lost THEN nodeState ELSE [nodeState EXCEPT ![run][node] = status]
  PROVE  Noted(run, node, status, lost)
<1>1. CASE lost
  BY <1>1 DEF Noted
<1>2. CASE ~lost
  BY <1>2 DEF Noted, ServedInv, RedisTyped
<1> QED
  BY <1>1, <1>2

LEMMA MadeIs ==
  ASSUME ServedInv, NEW r \in Requests, NEW node \in Nodes, NEW instance,
         nodeRuns' = [nodeRuns EXCEPT ![r][node] = instance]
  PROVE  Made(r, node, instance)
BY DEF Made, ServedInv, Served

\* The instance of a node as a goroutine that sets its status leaves it.
After(instance, p, status) ==
    IF instance.by = p THEN [instance EXCEPT !.status = status] ELSE instance

LEMMA SetInstanceMeans ==
  ASSUME ServedInv, NEW r \in Requests, Run(r) \in Runs, NEW p, NEW node \in Nodes, NEW status,
         NEW lost \in BOOLEAN, SetInstance(r, p, node, status, lost)
  PROVE  Made(r, node, After(nodeRuns[r][node], p, status)) /\ Noted(Run(r), node, status, lost)
<1>1. nodeRuns' = [nodeRuns EXCEPT ![r][node] = After(nodeRuns[r][node], p, status)]
  BY DEF SetInstance, After
<1>2. nodeState' = IF lost THEN nodeState ELSE [nodeState EXCEPT ![Run(r)][node] = status]
  BY DEF SetInstance
<1> QED
  BY <1>1, <1>2, MadeIs, NotedIs

\* Goroutine p enters its node and becomes x.
Enters(r, p, x) ==
    LET task == tasks[r][p] IN
    /\ task.pc = "enter" /\ Moves(r, p, x) /\ Stays(task, x) /\ x.todo = {} /\ x.next = {}
    /\ \/ /\ task.cancelled \/ task.node \in requests[r].missing
          /\ x.pc = "return" /\ x.result = "failed"
          /\ UNCHANGED <<nodeRuns, nodeState, budget>>
       \/ /\ ~task.cancelled /\ task.node \notin requests[r].missing
          /\ \E lost \in BOOLEAN, status \in {"RUNNING", "FAILED"} :
                /\ Write(FALSE, lost)
                /\ Made(r, task.node, [by |-> p, status |-> status, attempts |-> 1])
                /\ Noted(Run(r), task.node, status, lost)
                /\ status = "FAILED" => x.pc = "return" /\ x.result = "failed"
                /\ status = "RUNNING" => x.pc = "sandbox" /\ x.result = "none"

LEMMA EnterNodeIs ==
  ASSUME ServedInv, NEW r \in Requests, NEW p \in Paths, EnterNode(r, p)
  PROVE  \E x \in TaskSet : Enters(r, p, x)
<1> DEFINE task == tasks[r][p]
<1>0. Served
  BY DEF ServedInv
<1>1. task.pc = "enter"
  BY DEF EnterNode
<1>2. /\ task \in TaskSet /\ TaskOk(task) /\ task.node \in Nodes /\ Run(r) \in Runs
      /\ task.result = "none" /\ task.todo = {} /\ task.next = {}
  BY <1>0, <1>1, Running DEF TaskOk, ResultsAt
<1>3. CASE /\ task.cancelled \/ task.node \in requests[r].missing
           /\ tasks' = [tasks EXCEPT ![r][p] = Returning(task, "failed")]
           /\ UNCHANGED <<nodeRuns, nodeState, budget>>
  <2> DEFINE x == Returning(task, "failed")
  <2>1. /\ x \in TaskSet /\ Stays(task, x) /\ x.todo = {} /\ x.next = {}
        /\ x.pc = "return" /\ x.result = "failed"
    BY <1>2, ReturningIs DEF TaskOk, Stays
  <2>2. Moves(r, p, x)
    BY <1>0, <1>3, <2>1, MovesIs
  <2> HIDE DEF x
  <2> QED
    BY <1>1, <1>3, <2>1, <2>2 DEF Enters
<1>4. ASSUME NEW lost \in BOOLEAN, NEW status \in {"RUNNING", "FAILED"},
             ~task.cancelled, task.node \notin requests[r].missing, Write(FALSE, lost),
             nodeRuns' = [nodeRuns EXCEPT ![r][task.node] =
                             [by |-> p, status |-> status, attempts |-> 1]],
             nodeState' = IF lost THEN nodeState
                          ELSE [nodeState EXCEPT ![Run(r)][task.node] = status],
             tasks' = [tasks EXCEPT ![r][p] = IF status = "FAILED" THEN Returning(task, "failed")
                                              ELSE [task EXCEPT !.pc = "sandbox"]]
      PROVE  \E x \in TaskSet :
               /\ Moves(r, p, x) /\ Stays(task, x) /\ x.todo = {} /\ x.next = {}
               /\ Made(r, task.node, [by |-> p, status |-> status, attempts |-> 1])
               /\ Noted(Run(r), task.node, status, lost)
               /\ status = "FAILED" => x.pc = "return" /\ x.result = "failed"
               /\ status = "RUNNING" => x.pc = "sandbox" /\ x.result = "none"
  <2> DEFINE x == IF status = "FAILED" THEN Returning(task, "failed")
                  ELSE [task EXCEPT !.pc = "sandbox"]
  <2>1. /\ x \in TaskSet /\ Stays(task, x) /\ x.todo = {} /\ x.next = {}
        /\ status = "FAILED" => x.pc = "return" /\ x.result = "failed"
        /\ status = "RUNNING" => x.pc = "sandbox" /\ x.result = "none"
    <3>1. CASE status = "FAILED"
      BY <1>2, <3>1, ReturningIs DEF TaskOk, Stays
    <3>2. CASE status = "RUNNING"
      BY <1>2, <3>2, GoingOnIs DEF TaskOk, Stays
    <3> QED
      BY <3>1, <3>2
  <2>2. tasks' = [tasks EXCEPT ![r][p] = x]
    BY <1>4
  <2> HIDE DEF x
  <2>3. Moves(r, p, x)
    BY <1>0, <2>1, <2>2, MovesIs
  <2>4. Noted(Run(r), task.node, status, lost)
    BY <1>2, <1>4, NotedIs
  <2>5. Made(r, task.node, [by |-> p, status |-> status, attempts |-> 1])
    BY <1>2, <1>4, MadeIs
  <2> QED
    BY <2>1, <2>3, <2>4, <2>5
<1> HIDE DEF task
<1>5. \/ /\ task.cancelled \/ task.node \in requests[r].missing
         /\ tasks' = [tasks EXCEPT ![r][p] = Returning(task, "failed")]
         /\ UNCHANGED <<nodeRuns, nodeState, budget>>
      \/ /\ ~task.cancelled /\ task.node \notin requests[r].missing
         /\ \E lost \in BOOLEAN, status \in {"RUNNING", "FAILED"} :
               /\ Write(FALSE, lost)
               /\ nodeRuns' = [nodeRuns EXCEPT ![r][task.node] =
                                 [by |-> p, status |-> status, attempts |-> 1]]
               /\ nodeState' = IF lost THEN nodeState
                               ELSE [nodeState EXCEPT ![Run(r)][task.node] = status]
               /\ tasks' = [tasks EXCEPT ![r][p] =
                               IF status = "FAILED" THEN Returning(task, "failed")
                               ELSE [task EXCEPT !.pc = "sandbox"]]
  BY DEF EnterNode, task
<1> QED
  BY <1>1, <1>3, <1>4, <1>5 DEF task, Enters

LEMMA ScriptFailsIs ==
  ASSUME ServedInv, NEW r \in Requests, NEW p \in Paths, ScriptFails(r, p)
  PROVE  LET task == tasks[r][p] IN
         \E x \in TaskSet, lost \in BOOLEAN :
            /\ task.pc = "sandbox" /\ Moves(r, p, x) /\ Stays(task, x) /\ x.todo = {} /\ x.next = {}
            /\ x.pc = "return" /\ x.result = "failed"
            /\ Write(task.cancelled, lost)
            /\ Made(r, task.node, After(nodeRuns[r][task.node], p, "FAILED"))
            /\ Noted(Run(r), task.node, "FAILED", lost)
<1> DEFINE task == tasks[r][p]
           x    == Returning(task, "failed")
<1>0. Served
  BY DEF ServedInv
<1>1. task.pc = "sandbox"
  BY DEF ScriptFails
<1>2. /\ task \in TaskSet /\ TaskOk(task) /\ task.node \in Nodes /\ Run(r) \in Runs
      /\ task.result = "none" /\ task.todo = {} /\ task.next = {}
  BY <1>0, <1>1, Running DEF TaskOk, ResultsAt
<1>3. PICK lost \in BOOLEAN :
         /\ Write(task.cancelled, lost) /\ SetInstance(r, p, task.node, "FAILED", lost)
         /\ tasks' = [tasks EXCEPT ![r][p] = Returning(@, "failed")]
  BY DEF ScriptFails, CanRetry
<1>4. /\ Made(r, task.node, After(nodeRuns[r][task.node], p, "FAILED"))
      /\ Noted(Run(r), task.node, "FAILED", lost)
  BY <1>2, <1>3, SetInstanceMeans
<1>5. /\ x \in TaskSet /\ Stays(task, x) /\ x.todo = {} /\ x.next = {}
      /\ x.pc = "return" /\ x.result = "failed"
  BY <1>2, ReturningIs DEF TaskOk, Stays
<1>6. Moves(r, p, x)
  BY <1>0, <1>3, <1>5, MovesIs
<1> HIDE DEF x
<1> QED
  BY <1>1, <1>3, <1>4, <1>5, <1>6

\* The script of goroutine p returns, and the goroutine becomes x.
Outputs(r, p, x, lost) ==
    LET task == tasks[r][p] IN
    /\ task.pc = "sandbox" /\ Moves(r, p, x) /\ Stays(task, x) /\ x.next = {}
    /\ Write(task.cancelled, lost)
    /\ \/ /\ x.pc = "return" /\ x.result = "failed" /\ x.todo = {}
          /\ Made(r, task.node, After(nodeRuns[r][task.node], p, "FAILED"))
          /\ Noted(Run(r), task.node, "FAILED", lost)
       \/ /\ x.pc = "pauseHITL" /\ x.result = "none" /\ x.todo = {}
          /\ Made(r, task.node, [by |-> p, status |-> "WAITING_FEEDBACK", attempts |-> 1])
          /\ Noted(Run(r), task.node, "WAITING_FEEDBACK", lost)
       \/ /\ x.pc = "resolve" /\ x.result = "none"
          /\ Made(r, task.node, After(nodeRuns[r][task.node], p, "SUCCESS"))
          /\ Noted(Run(r), task.node, "SUCCESS", lost)

LEMMA ScriptReturnsIs ==
  ASSUME ServedInv, NEW r \in Requests, NEW p \in Paths, ScriptReturns(r, p)
  PROVE  \E x \in TaskSet, lost \in BOOLEAN : Outputs(r, p, x, lost)
<1> DEFINE task == tasks[r][p]
           node == task.node
<1>0. Served
  BY DEF ServedInv
<1>1. task.pc = "sandbox"
  BY DEF ScriptReturns
<1>2. /\ task \in TaskSet /\ TaskOk(task) /\ node \in Nodes /\ Run(r) \in Runs
      /\ task.result = "none" /\ task.todo = {} /\ task.next = {}
  BY <1>0, <1>1, Running DEF TaskOk, ResultsAt
<1>3. ASSUME NEW lost \in BOOLEAN, SetInstance(r, p, node, "FAILED", lost),
             tasks' = [tasks EXCEPT ![r][p] = Returning(@, "failed")]
      PROVE  \E x \in TaskSet :
               /\ Moves(r, p, x) /\ Stays(task, x) /\ x.next = {} /\ x.todo = {}
               /\ x.pc = "return" /\ x.result = "failed"
               /\ Made(r, node, After(nodeRuns[r][node], p, "FAILED"))
               /\ Noted(Run(r), node, "FAILED", lost)
  <2> DEFINE x == Returning(task, "failed")
  <2>1. /\ x \in TaskSet /\ Stays(task, x) /\ x.todo = {} /\ x.next = {}
        /\ x.pc = "return" /\ x.result = "failed"
    BY <1>2, ReturningIs DEF TaskOk, Stays
  <2>2. Moves(r, p, x)
    BY <1>0, <1>3, <2>1, MovesIs
  <2>3. /\ Made(r, node, After(nodeRuns[r][node], p, "FAILED"))
        /\ Noted(Run(r), node, "FAILED", lost)
    BY <1>2, <1>3, SetInstanceMeans
  <2> HIDE DEF x
  <2> QED
    BY <2>1, <2>2, <2>3
<1>4. ASSUME NEW lost \in BOOLEAN,
             nodeRuns' = [nodeRuns EXCEPT ![r][node] =
                             [by |-> p, status |-> "WAITING_FEEDBACK", attempts |-> 1]],
             nodeState' = IF lost THEN nodeState
                          ELSE [nodeState EXCEPT ![Run(r)][node] = "WAITING_FEEDBACK"],
             tasks' = [tasks EXCEPT ![r][p].pc = "pauseHITL"]
      PROVE  \E x \in TaskSet :
               /\ Moves(r, p, x) /\ Stays(task, x) /\ x.next = {} /\ x.todo = {}
               /\ x.pc = "pauseHITL" /\ x.result = "none"
               /\ Made(r, node, [by |-> p, status |-> "WAITING_FEEDBACK", attempts |-> 1])
               /\ Noted(Run(r), node, "WAITING_FEEDBACK", lost)
  <2> DEFINE x == [task EXCEPT !.pc = "pauseHITL"]
  <2>1. /\ x \in TaskSet /\ Stays(task, x) /\ x.todo = {} /\ x.next = {}
        /\ x.pc = "pauseHITL" /\ x.result = "none"
    BY <1>2, GoingOnIs DEF TaskOk, Stays
  <2>2. Moves(r, p, x)
    BY <1>0, <1>4, <2>1, MovesIs
  <2>3. /\ Made(r, node, [by |-> p, status |-> "WAITING_FEEDBACK", attempts |-> 1])
        /\ Noted(Run(r), node, "WAITING_FEEDBACK", lost)
    BY <1>2, <1>4, MadeIs, NotedIs
  <2> HIDE DEF x
  <2> QED
    BY <2>1, <2>2, <2>3
<1>5. ASSUME NEW lost \in BOOLEAN, SetInstance(r, p, node, "SUCCESS", lost), NEW holds,
             tasks' = [tasks EXCEPT ![r][p].pc = "resolve",
                                    ![r][p].todo = GetNextNodes(Edges, node, holds)]
      PROVE  \E x \in TaskSet :
               /\ Moves(r, p, x) /\ Stays(task, x) /\ x.next = {}
               /\ x.pc = "resolve" /\ x.result = "none"
               /\ Made(r, node, After(nodeRuns[r][node], p, "SUCCESS"))
               /\ Noted(Run(r), node, "SUCCESS", lost)
  <2> DEFINE todo == GetNextNodes(Edges, node, holds)
             x    == [task EXCEPT !.pc = "resolve", !.todo = todo]
  <2>1. todo \in SUBSET Branches
    BY NextNodes
  <2>2. tasks' = [tasks EXCEPT ![r][p] = x]
    BY <1>0, <1>5 DEF Served
  <2> HIDE DEF todo
  <2>3. /\ x.next = {} /\ x.pc = "resolve" /\ x.result = "none"
        /\ x.node = node /\ x.cancelled = task.cancelled
    BY <1>2 DEF TaskSet
  <2>4. x \in TaskSet
    BY <1>2, <2>1 DEF TaskSet, TaskPCs, Branches
  <2> HIDE DEF x
  <2>5. Moves(r, p, x)
    BY <1>0, <2>2, <2>4, MovesIs
  <2>6. /\ Made(r, node, After(nodeRuns[r][node], p, "SUCCESS"))
        /\ Noted(Run(r), node, "SUCCESS", lost)
    BY <1>2, <1>5, SetInstanceMeans
  <2> QED
    BY <2>3, <2>4, <2>5, <2>6 DEF Stays
<1> HIDE DEF task
<1>6. PICK lost \in BOOLEAN :
         /\ Write(task.cancelled, lost)
         /\ \/ /\ SetInstance(r, p, node, "FAILED", lost)
               /\ tasks' = [tasks EXCEPT ![r][p] = Returning(@, "failed")]
            \/ /\ nodeRuns' = [nodeRuns EXCEPT ![r][node] =
                                 [by |-> p, status |-> "WAITING_FEEDBACK", attempts |-> 1]]
               /\ nodeState' = IF lost THEN nodeState
                               ELSE [nodeState EXCEPT ![Run(r)][node] = "WAITING_FEEDBACK"]
               /\ tasks' = [tasks EXCEPT ![r][p].pc = "pauseHITL"]
            \/ /\ SetInstance(r, p, node, "SUCCESS", lost)
               /\ \E holds : tasks' = [tasks EXCEPT ![r][p].pc = "resolve",
                                          ![r][p].todo = GetNextNodes(Edges, node, holds)]
  BY DEF ScriptReturns, task
<1> QED
  BY <1>1, <1>3, <1>4, <1>5, <1>6 DEF task, Outputs

LEMMA PauseHITLIs ==
  ASSUME ServedInv, NEW r \in Requests, NEW p \in Paths, PauseHITL(r, p)
  PROVE  LET task == tasks[r][p] IN
         \E x \in TaskSet, lost \in BOOLEAN :
            /\ task.pc = "pauseHITL" /\ Moves(r, p, x) /\ Stays(task, x) /\ x.todo = {} /\ x.next = {}
            /\ x.pc = "pauseRun" /\ x.result = "none"
            /\ Write(task.cancelled, lost)
            /\ \A u \in Runs : u # Run(r) \/ lost => hitl'[u] = hitl[u]
            /\ ~lost => /\ hitl'[Run(r)] \in HITLStates /\ hitl'[Run(r)].node = task.node
                        /\ \A n \in Nodes : hitl'[Run(r)].runs[n].status = nodeRuns[r][n].status
<1> DEFINE task == tasks[r][p]
           x    == [task EXCEPT !.pc = "pauseRun"]
           record == [node |-> task.node,
                      runs |-> [n \in Nodes |-> [nodeRuns[r][n] EXCEPT !.by = Restored]]]
<1>0. Served
  BY DEF ServedInv
<1>1. task.pc = "pauseHITL"
  BY DEF PauseHITL
<1>2. /\ task \in TaskSet /\ TaskOk(task) /\ task.node \in Nodes /\ Run(r) \in Runs
      /\ task.result = "none" /\ task.todo = {} /\ task.next = {}
      /\ nodeRuns[r] \in [Nodes -> Instances]
  BY <1>0, <1>1, Running DEF TaskOk, ResultsAt, Served
<1>3. /\ x \in TaskSet /\ Stays(task, x) /\ x.todo = {} /\ x.next = {}
      /\ x.pc = "pauseRun" /\ x.result = "none"
  BY <1>2, GoingOnIs DEF TaskOk, Stays
<1>4. tasks' = [tasks EXCEPT ![r][p] = x]
  BY DEF PauseHITL
<1>5. Moves(r, p, x)
  BY <1>0, <1>3, <1>4, MovesIs
<1>6. /\ record \in HITLStates /\ record.node = task.node
      /\ \A n \in Nodes : record.runs[n].status = nodeRuns[r][n].status
  <2>1. \A i \in Instances : [i EXCEPT !.by = Restored].status = i.status
    BY DEF Instances
  <2> QED
    BY <1>2, <2>1, PauseRecord
<1>7. PICK lost \in BOOLEAN : /\ Write(task.cancelled, lost)
                              /\ hitl' = IF lost THEN hitl ELSE [hitl EXCEPT ![Run(r)] = record]
  BY DEF PauseHITL
<1> HIDE DEF x, record
<1>8. /\ \A u \in Runs : u # Run(r) \/ lost => hitl'[u] = hitl[u]
      /\ ~lost => hitl'[Run(r)] = record
  BY <1>2, <1>7 DEF ServedInv, RedisTyped, HITLTyped
<1> QED
  BY <1>1, <1>3, <1>5, <1>6, <1>7, <1>8

LEMMA PauseRunIs ==
  ASSUME ServedInv, NEW r \in Requests, NEW p \in Paths, PauseRun(r, p)
  PROVE  LET task == tasks[r][p] IN
         \E x \in TaskSet, lost \in BOOLEAN :
            /\ task.pc = "pauseRun" /\ Moves(r, p, x) /\ Stays(task, x) /\ x.todo = {} /\ x.next = {}
            /\ x.pc = "return" /\ x.result = "await"
            /\ Write(task.cancelled, lost)
            /\ \A u \in Runs : flowRun'[u] = IF u = Run(r) /\ ~lost THEN "WAITING_FEEDBACK"
                                             ELSE flowRun[u]
<1> DEFINE task == tasks[r][p]
           x    == Returning(task, "await")
<1>0. Served
  BY DEF ServedInv
<1>1. task.pc = "pauseRun"
  BY DEF PauseRun
<1>2. /\ task \in TaskSet /\ TaskOk(task) /\ Run(r) \in Runs
      /\ task.result = "none" /\ task.todo = {} /\ task.next = {}
  BY <1>0, <1>1, Running DEF TaskOk, ResultsAt
<1>3. /\ x \in TaskSet /\ Stays(task, x) /\ x.todo = {} /\ x.next = {}
      /\ x.pc = "return" /\ x.result = "await"
  BY <1>2, ReturningIs DEF TaskOk, Stays
<1>4. tasks' = [tasks EXCEPT ![r][p] = x]
  BY DEF PauseRun
<1>5. Moves(r, p, x)
  BY <1>0, <1>3, <1>4, MovesIs
<1>6. PICK lost \in BOOLEAN :
         /\ Write(task.cancelled, lost)
         /\ flowRun' = IF lost THEN flowRun ELSE [flowRun EXCEPT ![Run(r)] = "WAITING_FEEDBACK"]
  BY DEF PauseRun
<1>7. \A u \in Runs : flowRun'[u] = IF u = Run(r) /\ ~lost THEN "WAITING_FEEDBACK"
                                    ELSE flowRun[u]
  BY <1>6 DEF ServedInv, RedisTyped
<1> HIDE DEF x
<1> QED
  BY <1>1, <1>3, <1>5, <1>6, <1>7

\* Goroutine x has skipped or counted edge i.
Considers(x, y, i) ==
    /\ y.pc = "resolve" /\ y.result = "none" /\ y.todo = x.todo \ {i}
    /\ y.next \in {x.next, x.next \union {i}}

\* Goroutine p looks at its next candidate and becomes x.
Looks(r, p, x) ==
    LET task == tasks[r][p]
        i    == Min(task.todo)
        pair == <<task.node, Edges[i].to>>
    IN
    /\ UNCHANGED <<requests, nodeRuns>> /\ Moves(r, p, x) /\ Stays(task, x)
    /\ \/ /\ Considers(task, x, i) /\ x.next = task.next
          /\ UNCHANGED <<mu, history>>
       \/ /\ Considers(task, x, i) /\ x.next = task.next \union {i}
          /\ traversals' = [traversals EXCEPT ![Run(r)][pair] = @ + 1]
          /\ UNCHANGED <<mu, makes, forked, answered>>
       \/ /\ x.pc = "stuck" /\ x.result = "none" /\ Run(r) \notin live
          /\ x.todo = task.todo /\ x.next = task.next
          /\ UNCHANGED history

LEMMA ResolveIs ==
  ASSUME ServedInv, NEW r \in Requests, NEW p \in Paths, Resolve(r, p)
  PROVE  LET i == Min(tasks[r][p].todo) IN
         /\ tasks[r][p].pc = "resolve" /\ i \in tasks[r][p].todo /\ i \in Branches
         /\ \/ ProcessDies /\ p # Root /\ Run(r) \notin live
            \/ \E x \in TaskSet : Looks(r, p, x)
<1> DEFINE task == tasks[r][p]
           i    == Min(task.todo)
           pair == <<task.node, Edges[i].to>>
<1>0. Served
  BY DEF ServedInv
<1>1. task.pc = "resolve" /\ task.todo # {}
  BY DEF Resolve
<1>2. /\ task \in TaskSet /\ TaskOk(task) /\ task.result = "none"
      /\ task.todo \in SUBSET Branches /\ task.next \in SUBSET Branches
  BY <1>0, <1>1, Running DEF TaskOk, ResultsAt
<1>3. i \in task.todo /\ i \in Branches
  BY <1>1, <1>2, NextCandidate
<1>4. ASSUME tasks' = [tasks EXCEPT ![r][p].todo = @ \ {i}]
      PROVE  \E x \in TaskSet : /\ Moves(r, p, x) /\ Stays(task, x)
                               /\ Considers(task, x, i) /\ x.next = task.next
  <2> DEFINE x == [task EXCEPT !.todo = @ \ {i}]
  <2>1. /\ x.node = task.node /\ x.cancelled = task.cancelled /\ x.pc = "resolve"
        /\ x.result = "none" /\ x.todo = task.todo \ {i} /\ x.next = task.next
    BY <1>1, <1>2 DEF TaskSet
  <2>2. x \in TaskSet
    BY <1>2 DEF TaskSet
  <2>3. tasks' = [tasks EXCEPT ![r][p] = x]
    BY <1>4
  <2> HIDE DEF x
  <2> QED
    BY <1>0, <2>1, <2>2, <2>3, MovesIs DEF Stays, Considers
<1>5. ASSUME tasks' = [tasks EXCEPT ![r][p].todo = @ \ {i}, ![r][p].next = @ \union {i}]
      PROVE  \E x \in TaskSet : /\ Moves(r, p, x) /\ Stays(task, x)
                               /\ Considers(task, x, i) /\ x.next = task.next \union {i}
  <2> DEFINE x == [task EXCEPT !.todo = @ \ {i}, !.next = @ \union {i}]
  <2>1. /\ x.node = task.node /\ x.cancelled = task.cancelled /\ x.pc = "resolve"
        /\ x.result = "none" /\ x.todo = task.todo \ {i} /\ x.next = task.next \union {i}
    BY <1>1, <1>2 DEF TaskSet
  <2>2. x \in TaskSet
    BY <1>2, <1>3 DEF TaskSet, Branches
  <2>3. tasks' = [tasks EXCEPT ![r][p] = x]
    BY <1>0, <1>5 DEF Served
  <2> HIDE DEF x
  <2> QED
    BY <1>0, <2>1, <2>2, <2>3, MovesIs DEF Stays, Considers
<1>6. ASSUME tasks' = [tasks EXCEPT ![r][p].pc = "stuck"]
      PROVE  \E x \in TaskSet : /\ Moves(r, p, x) /\ Stays(task, x)
                               /\ x.pc = "stuck" /\ x.result = "none"
                               /\ x.todo = task.todo /\ x.next = task.next
  <2> DEFINE x == [task EXCEPT !.pc = "stuck"]
  <2>1. /\ x.node = task.node /\ x.cancelled = task.cancelled /\ x.pc = "stuck"
        /\ x.result = "none" /\ x.todo = task.todo /\ x.next = task.next
    BY <1>2 DEF TaskSet
  <2>2. x \in TaskSet
    BY <1>2 DEF TaskSet, TaskPCs
  <2>3. tasks' = [tasks EXCEPT ![r][p] = x]
    BY <1>6
  <2> HIDE DEF x
  <2> QED
    BY <1>0, <2>1, <2>2, <2>3, MovesIs DEF Stays
<1>7. \/ /\ tasks' = [tasks EXCEPT ![r][p].todo = @ \ {i}]
         /\ UNCHANGED <<requests, nodeRuns, mu, history>>
      \/ /\ tasks' = [tasks EXCEPT ![r][p].todo = @ \ {i}, ![r][p].next = @ \union {i}]
         /\ traversals' = [traversals EXCEPT ![Run(r)][pair] = @ + 1]
         /\ UNCHANGED <<requests, nodeRuns, mu, makes, forked, answered>>
      \/ /\ tasks' = [tasks EXCEPT ![r][p].pc = "stuck"] /\ Run(r) \notin live
         /\ UNCHANGED <<requests, nodeRuns, history>>
      \/ ProcessDies /\ p # Root /\ Run(r) \notin live
  BY DEF Resolve, memory
<1> HIDE DEF i, task
<1> QED
  BY <1>1, <1>3, <1>4, <1>5, <1>6, <1>7 DEF task, i, Looks

\* A goroutine forks: one branch for each edge, entering the edge's target.
Forks(r, p, x) ==
    LET task == tasks[r][p]
        Branch(q) == \E i \in task.next : q = Child(p, i)
    IN
    /\ x \in TaskSet /\ Stays(task, x) /\ x.pc = "join" /\ x.result = "none"
    /\ x.todo = {} /\ x.next = {}
    /\ tasks'[r][p] = x
    /\ \A s \in Requests, q \in Paths : s # r \/ (q # p /\ ~Branch(q)) => tasks'[s][q] = tasks[s][q]
    /\ \A i \in task.next :
          LET b == tasks'[r][Child(p, i)] IN
          /\ Child(p, i) \in Paths /\ Child(p, i) # p /\ Child(p, i) # Root
          /\ tasks[r][Child(p, i)] = NoTask
          /\ b \in TaskSet /\ b.pc = "enter" /\ b.node = Edges[i].to /\ b.result = "none"
          /\ b.todo = {} /\ b.next = {} /\ b.cancelled = task.cancelled

LEMMA FollowIs ==
  ASSUME ServedInv, NEW r \in Requests, NEW p \in Paths, Follow(r, p)
  PROVE  LET task == tasks[r][p] IN
         /\ task.pc = "resolve" /\ task.todo = {} /\ task.next \subseteq Branches
         /\ \/ /\ \E x \in TaskSet :
                    /\ Moves(r, p, x) /\ x.cancelled = task.cancelled /\ x.todo = {} /\ x.next = {}
                    /\ \/ task.next = {} /\ x.pc = "return" /\ x.result = "ok" /\ x.node = task.node
                       \/ /\ x.pc = "enter" /\ x.result = "none"
                          /\ \E i \in task.next : task.next = {i} /\ x.node = Edges[i].to
               /\ UNCHANGED forked
            \/ /\ \E i, j \in task.next : i # j
               /\ MaxDepth > 0
               /\ \E x : Forks(r, p, x)
               /\ forked' = forked \union {Run(r)}
<1> DEFINE task == tasks[r][p]
           next == task.next
<1>0. Served
  BY DEF ServedInv
<1>1. task.pc = "resolve" /\ task.todo = {}
  BY DEF Follow
<1>2. /\ task \in TaskSet /\ TaskOk(task) /\ IsLeaf(tasks[r], p) /\ task.result = "none"
      /\ next \in SUBSET Branches /\ task.cancelled \in BOOLEAN
  BY <1>0, <1>1, Running, OnlyForksHaveBranches DEF TaskOk, ResultsAt, TaskSet
<1>3. ASSUME next = {}, tasks' = [tasks EXCEPT ![r][p] = Returning(@, "ok")]
      PROVE  \E x \in TaskSet :
                /\ Moves(r, p, x) /\ x.cancelled = task.cancelled /\ x.todo = {} /\ x.next = {}
                /\ x.pc = "return" /\ x.result = "ok" /\ x.node = task.node
  <2> DEFINE x == Returning(task, "ok")
  <2>1. /\ x \in TaskSet /\ x.cancelled = task.cancelled /\ x.todo = {} /\ x.next = {}
        /\ x.pc = "return" /\ x.result = "ok" /\ x.node = task.node
    BY <1>1, <1>2, <1>3, ReturningIs DEF TaskOk
  <2>2. Moves(r, p, x)
    BY <1>0, <1>3, <2>1, MovesIs
  <2> HIDE DEF x
  <2> QED
    BY <2>1, <2>2
<1>4. ASSUME NEW i \in next, tasks' = [tasks EXCEPT ![r][p] = TaskAt(Edges[i].to, task.cancelled)]
      PROVE  \E x \in TaskSet :
                /\ Moves(r, p, x) /\ x.cancelled = task.cancelled /\ x.todo = {} /\ x.next = {}
                /\ x.pc = "enter" /\ x.result = "none" /\ x.node = Edges[i].to
  <2> DEFINE x == TaskAt(Edges[i].to, task.cancelled)
  <2>1. Edges[i].to \in Nodes
    BY <1>2, BranchesNat DEF EdgeSet
  <2>2. /\ x \in TaskSet /\ x.cancelled = task.cancelled /\ x.todo = {} /\ x.next = {}
        /\ x.pc = "enter" /\ x.result = "none" /\ x.node = Edges[i].to
    BY <1>2, <2>1, TaskAtIs
  <2>3. Moves(r, p, x)
    BY <1>0, <1>4, <2>2, MovesIs
  <2> HIDE DEF x
  <2> QED
    BY <2>2, <2>3
<1>5. ASSUME Len(p) < MaxDepth,
             tasks' = [tasks EXCEPT ![r] = [q \in Paths |->
                          IF q = p THEN [task EXCEPT !.pc = "join", !.next = {}]
                          ELSE IF \E i \in next : q = Child(p, i)
                               THEN TaskAt(Edges[Last(q)].to, task.cancelled)
                               ELSE tasks[r][q]]]
      PROVE  \E x : Forks(r, p, x)
  <2> DEFINE x == [task EXCEPT !.pc = "join", !.next = {}]
             t == [q \in Paths |-> IF q = p THEN x
                          ELSE IF \E i \in next : q = Child(p, i)
                               THEN TaskAt(Edges[Last(q)].to, task.cancelled)
                               ELSE tasks[r][q]]
  <2>1. /\ x.pc = "join" /\ x.result = "none" /\ x.cancelled = task.cancelled
        /\ x.next = {} /\ x.todo = {} /\ x.node = task.node
    BY <1>1, <1>2 DEF TaskSet
  <2>2. x \in TaskSet
    BY <1>2 DEF TaskSet, TaskPCs
  <2> HIDE DEF x
  <2>3. tasks' = [tasks EXCEPT ![r] = t]
    BY <1>5 DEF x
  <2>4. \A s \in Requests : s # r => tasks'[s] = tasks[s]
    BY <1>0, <2>3 DEF Served
  <2>5. \A q \in Paths : tasks'[r][q] = t[q]
    BY <1>0, <2>3 DEF Served
  <2>6. ASSUME NEW i \in next
        PROVE  LET b == tasks'[r][Child(p, i)] IN
          /\ Child(p, i) \in Paths /\ Child(p, i) # p /\ Child(p, i) # Root
          /\ tasks[r][Child(p, i)] = NoTask
          /\ b \in TaskSet /\ b.pc = "enter" /\ b.node = Edges[i].to /\ b.result = "none"
          /\ b.todo = {} /\ b.next = {} /\ b.cancelled = task.cancelled
    <3>1. /\ Child(p, i) \in Paths /\ Child(p, i) # p /\ Child(p, i) # Root
          /\ Last(Child(p, i)) = i /\ IsStrictPrefix(p, Child(p, i))
      BY <1>2, <1>5, ChildPath
    <3>2. tasks'[r][Child(p, i)] = TaskAt(Edges[i].to, task.cancelled)
      BY <2>5, <3>1
    <3>3. Edges[i].to \in Nodes
      BY <1>2, BranchesNat DEF EdgeSet
    <3>4. tasks[r][Child(p, i)] = NoTask
      BY <1>2, <3>1 DEF IsLeaf
    <3> QED
      BY <1>2, <3>1, <3>2, <3>3, <3>4, TaskAtIs
  <2>7. tasks'[r][p] = x
    BY <2>5
  <2>8. \A q \in Paths : q # p /\ ~(\E i \in next : q = Child(p, i)) => tasks'[r][q] = tasks[r][q]
    BY <2>5
  <2> QED
    BY <2>1, <2>2, <2>4, <2>6, <2>7, <2>8 DEF Forks, Stays
<1>6. Len(p) < MaxDepth => MaxDepth > 0
  <2>1. Len(p) \in 0 .. MaxDepth
    BY PathSeq
  <2> QED
    BY <2>1, DepthNat
<1> HIDE DEF task
<1>7. \/ /\ next = {} /\ UNCHANGED forked
         /\ tasks' = [tasks EXCEPT ![r][p] = Returning(@, "ok")]
      \/ /\ \E i \in next : /\ next = {i}
                            /\ tasks' = [tasks EXCEPT ![r][p] = TaskAt(Edges[i].to, task.cancelled)]
         /\ UNCHANGED forked
      \/ /\ \E i, j \in next : i # j
         /\ Len(p) < MaxDepth
         /\ tasks' = [tasks EXCEPT ![r] = [q \in Paths |->
                          IF q = p THEN [task EXCEPT !.pc = "join", !.next = {}]
                          ELSE IF \E i \in next : q = Child(p, i)
                               THEN TaskAt(Edges[Last(q)].to, task.cancelled)
                               ELSE tasks[r][q]]]
         /\ forked' = forked \union {Run(r)}
  BY DEF Follow, task
<1>8. CASE next = {} /\ UNCHANGED forked /\ tasks' = [tasks EXCEPT ![r][p] = Returning(@, "ok")]
  BY <1>1, <1>2, <1>3, <1>8 DEF task
<1>9. CASE /\ \E i \in next : /\ next = {i}
                              /\ tasks' = [tasks EXCEPT ![r][p] = TaskAt(Edges[i].to, task.cancelled)]
           /\ UNCHANGED forked
  BY <1>1, <1>2, <1>4, <1>9 DEF task
<1> QED
  BY <1>1, <1>2, <1>5, <1>6, <1>7, <1>8, <1>9 DEF task

\* A branch has returned: the first error of its fork is now the fork's result.
Returned(r, p) ==
    LET task   == tasks[r][p]
        parent == Front(p)
        first  == task.result # "ok" /\ tasks[r][parent].result = "none"
    IN
    /\ p # Root /\ task.pc = "return" /\ task.result \in {"ok", "failed", "await"}
    /\ parent \in Paths /\ parent # p /\ tasks[r][parent].pc = "join"
    /\ tasks'[r][p] = NoTask
    /\ \A s \in Requests, q \in Paths : s # r => tasks'[s][q] = tasks[s][q]
    /\ \A q \in Paths \ {p} :
          LET x == tasks[r][q]
              y == tasks'[r][q]
          IN  /\ y.pc = x.pc /\ y.node = x.node /\ y.todo = x.todo /\ y.next = x.next
              /\ y # NoTask <=> x # NoTask
              /\ y.result = IF q = parent /\ first THEN task.result ELSE x.result
              /\ x.cancelled => y.cancelled

LEMMA ReturnFromBranchIs ==
  ASSUME ServedInv, NEW r \in Requests, NEW p \in Paths, ReturnFromBranch(r, p)
  PROVE  Returned(r, p)
<1> DEFINE t == tasks'[r]
           u == tasks[r]
<1>0. Served
  BY DEF ServedInv
<1>1. /\ p # Root /\ u[p].pc = "return" /\ Front(p) \in Paths
      /\ tasks' = [tasks EXCEPT ![r] = t] /\ Tree(t, requests[r].gone)
      /\ \A q \in Paths : t[q] =
            IF q = p THEN NoTask
            ELSE IF q = Front(p) /\ u[p].result # "ok" /\ u[Front(p)].result = "none"
                 THEN [u[q] EXCEPT !.result = u[p].result]
            ELSE IF /\ IsStrictPrefix(Front(p), q) /\ u[q] # NoTask
                    /\ u[p].result # "ok" /\ u[Front(p)].result = "none"
                 THEN [u[q] EXCEPT !.cancelled = TRUE]
            ELSE u[q]
  BY <1>0, BranchReturns
<1>2. /\ Tree(u, requests[r].gone) /\ u[p].result \in {"ok", "failed", "await"}
      /\ t \in [Paths -> TaskSet \union {NoTask}]
  BY <1>0, <1>1, Running DEF TaskOk, ResultsAt, Tree
<1>3. \A s \in Requests : s # r => tasks'[s] = tasks[s]
  BY <1>0, <1>1 DEF Served
<1> HIDE DEF t, u
<1>4. Left(u, t, p)
  BY <1>1, <1>2, BranchFields
<1> QED
  BY <1>1, <1>2, <1>3, <1>4 DEF Returned, Left, t, u

LEMMA JoinIs ==
  ASSUME ServedInv, NEW r \in Requests, NEW p \in Paths, Join(r, p)
  PROVE  LET task == tasks[r][p] IN
         \E x \in TaskSet :
            /\ task.pc = "join" /\ Moves(r, p, x) /\ Stays(task, x) /\ x.todo = {} /\ x.next = {}
            /\ x.pc = "return" /\ x.result = IF task.result = "none" THEN "ok" ELSE task.result
            /\ \A q \in Paths : q # Root /\ Front(q) = p => tasks[r][q] = NoTask
<1> DEFINE task   == tasks[r][p]
           result == IF task.result = "none" THEN "ok" ELSE task.result
           x      == Returning(task, result)
<1>0. Served
  BY DEF ServedInv
<1>1. /\ task.pc = "join" /\ Children(r, p) = {} /\ tasks' = [tasks EXCEPT ![r][p] = x]
  BY DEF Join
<1>2. /\ task \in TaskSet /\ TaskOk(task)
      /\ result \in {"ok", "failed", "await"} /\ task.todo = {} /\ task.next = {}
  BY <1>0, <1>1, Running DEF TaskOk, ResultsAt
<1>3. /\ x \in TaskSet /\ Stays(task, x) /\ x.todo = {} /\ x.next = {}
      /\ x.pc = "return" /\ x.result = result
  <2> HIDE DEF result
  <2> QED
    BY <1>2, ReturningIs DEF TaskOk, Stays
<1>4. Moves(r, p, x)
  <2> HIDE DEF x
  <2> QED
    BY <1>0, <1>1, <1>3, MovesIs
<1>5. \A q \in Paths : q # Root /\ Front(q) = p => tasks[r][q] = NoTask
  BY <1>1 DEF Children
<1> HIDE DEF x
<1> QED
  BY <1>1, <1>3, <1>4, <1>5

\* Request r becomes y; all others stay as they are.
Asks(r, y) ==
    /\ RequestOk(y)
    /\ \A s \in Requests : requests'[s] = IF s = r THEN y ELSE requests[s]

\* Request x goes on as y, for the same run.
Keeps(x, y) ==
    /\ y \in RequestSet /\ y.kind = x.kind /\ y.run = x.run /\ y.hitl = x.hitl /\ y.gone = x.gone

\* The record of a run is written.
Recorded(run, status, lost) ==
    \A u \in Runs : flowRun'[u] = IF u = run /\ ~lost THEN status ELSE flowRun[u]

LEMMA AsksIs ==
  ASSUME Served, NEW r \in Requests, NEW y, RequestOk(y), requests' = [requests EXCEPT ![r] = y]
  PROVE  Asks(r, y)
BY DEF Served, Asks

LEMMA ExecuteBeginIs ==
  ASSUME ServedInv, NEW r \in Requests, NEW run \in Runs, ExecuteBegin(r, run)
  PROVE  /\ requests[r] = NoRequest /\ flowRun[run] = "none" /\ makes[run] = 0 /\ Idle(run)
         /\ Recorded(run, "RUNNING", FALSE)
         /\ \E lost \in BOOLEAN :
               /\ Write(FALSE, lost)
               /\ Asks(r, IF lost THEN NoRequest ELSE Incoming("execute", run, NoHITL))
<1>0. Served
  BY DEF ServedInv
<1>1. Recorded(run, "RUNNING", FALSE)
  BY DEF ExecuteBegin, Recorded, ServedInv, RedisTyped
<1>2. PICK err \in BOOLEAN :
         /\ Write(FALSE, err)
         /\ requests' = IF err THEN requests ELSE [requests EXCEPT ![r] = Incoming("execute", run, NoHITL)]
  BY IncomingIs DEF ExecuteBegin
<1>3. requests[r] = NoRequest
  BY DEF ExecuteBegin
<1>4. err => Asks(r, NoRequest)
  BY <1>2, <1>3, NoRequestIs DEF Asks
<1>5. ~err => Asks(r, Incoming("execute", run, NoHITL))
  <2>1. RequestOk(Incoming("execute", run, NoHITL))
    BY NewRequest
  <2> QED
    BY <1>0, <1>2, <2>1, AsksIs
<1>6. Asks(r, IF err THEN NoRequest ELSE Incoming("execute", run, NoHITL))
  BY <1>4, <1>5
<1> QED
  BY <1>1, <1>2, <1>6 DEF ExecuteBegin

LEMMA SubmitFeedbackIs ==
  ASSUME ServedInv, NEW r \in Requests, NEW run \in Runs, SubmitFeedback(r, run)
  PROVE  /\ requests[r] = NoRequest /\ hitl[run] \in HITLStates /\ (Overlap \/ Idle(run))
         /\ Asks(r, Incoming("resume", run, hitl[run]))
<1>0. Served
  BY DEF ServedInv
<1>1. hitl[run] \in HITLStates
  BY DEF SubmitFeedback, ServedInv, RedisTyped, HITLTyped
<1>2. RequestOk(Incoming("resume", run, hitl[run]))
  BY <1>1, NewRequest
<1>3. requests' = [requests EXCEPT ![r] = Incoming("resume", run, hitl[run])]
  BY DEF SubmitFeedback, Incoming
<1> QED
  BY <1>0, <1>1, <1>2, <1>3, AsksIs DEF SubmitFeedback

\* The root of a request's goroutines is planted.
LEMMA CountersIs ==
  ASSUME ServedInv, NEW r \in Requests, ExecuteCounters(r) \/ ResumeCounters(r)
  PROVE  /\ requests[r].pc = "counters" /\ Run(r) \in Runs /\ MakeCounters(Run(r))
         /\ \E y : Asks(r, y) /\ Keeps(requests[r], y) /\ y.pc = "running" /\ y.result = "none"
         /\ \E x \in TaskSet :
               /\ Moves(r, Root, x) /\ x.result = "none" /\ x.next = {}
               /\ x.cancelled = requests[r].gone
               /\ \/ /\ requests[r].kind = "execute" /\ x.pc = "enter" /\ x.node = Entry
                     /\ x.todo = {} /\ nodeRuns' = nodeRuns /\ answered' = answered
                  \/ /\ requests[r].kind = "resume" /\ x.pc = "resolve"
                     /\ x.node = requests[r].hitl.node /\ requests[r].hitl \in HITLStates
                     /\ nodeRuns' = [nodeRuns EXCEPT ![r] = requests[r].hitl.runs]
                     /\ answered' = [answered EXCEPT ![Run(r)] = @ \union {requests[r].hitl.node}]
<1>0. Served
  BY DEF ServedInv
<1>1. requests[r].pc = "counters" /\ MakeCounters(Run(r))
  BY DEF ExecuteCounters, ResumeCounters
<1>2. /\ requests[r] \in RequestSet /\ RequestOk(requests[r]) /\ Run(r) \in Runs
      /\ requests[r].result = "none" /\ requests[r].gone \in BOOLEAN
      /\ requests[r].missing \in SUBSET Nodes
  BY <1>0, <1>1, Busy DEF RequestOk
<1>3. ASSUME NEW missing \in SUBSET Nodes,
             requests' = [requests EXCEPT ![r] = RequestAt(requests[r], "running", "none", missing)]
      PROVE  \E y : Asks(r, y) /\ Keeps(requests[r], y) /\ y.pc = "running" /\ y.result = "none"
  <2> DEFINE y == RequestAt(requests[r], "running", "none", missing)
  <2>1. /\ Keeps(requests[r], y) /\ y.pc = "running" /\ y.result = "none"
        /\ y.kind = "resume" => y.hitl \in HITLStates
    BY <1>2, RequestIs DEF Outcomes, Keeps
  <2> HIDE DEF y
  <2>2. RequestOk(y)
    BY <2>1 DEF RequestOk, Keeps
  <2>3. Asks(r, y)
    BY <1>0, <1>3, <2>2, AsksIs DEF y
  <2> QED
    BY <2>1, <2>3
<1>4. CASE ExecuteCounters(r)
  <2>1. requests' = [requests EXCEPT ![r] = RequestAt(requests[r], "running", "none", requests[r].missing)]
    BY <1>2, <1>4, SameFields DEF ExecuteCounters
  <2>2. \E y : Asks(r, y) /\ Keeps(requests[r], y) /\ y.pc = "running" /\ y.result = "none"
    BY <1>2, <1>3, <2>1
  <2> DEFINE x == TaskAt(Entry, requests[r].gone)
  <2>3. /\ x \in TaskSet /\ x.result = "none" /\ x.next = {} /\ x.cancelled = requests[r].gone
        /\ x.pc = "enter" /\ x.node = Entry /\ x.todo = {}
    BY <1>2, TaskAtIs, GraphAssumption
  <2>4. tasks' = [tasks EXCEPT ![r][Root] = x]
    BY <1>4 DEF ExecuteCounters
  <2> HIDE DEF x
  <2>5. Moves(r, Root, x)
    BY <1>0, <2>3, <2>4, MovesIs, RootPath
  <2>6. requests[r].kind = "execute" /\ nodeRuns' = nodeRuns /\ answered' = answered
    BY <1>4 DEF ExecuteCounters
  <2> QED
    BY <1>1, <1>2, <2>2, <2>3, <2>5, <2>6
<1>5. CASE ResumeCounters(r)
  <2> DEFINE state == requests[r].hitl
  <2>1. /\ requests[r].kind = "resume" /\ state \in HITLStates /\ state.node \in Nodes
        /\ nodeRuns' = [nodeRuns EXCEPT ![r] = state.runs]
        /\ answered' = [answered EXCEPT ![Run(r)] = @ \union {state.node}]
    BY <1>2, <1>5 DEF ResumeCounters, RequestOk, HITLStates
  <2>2. PICK missing \in SUBSET Deletable :
           requests' = [requests EXCEPT ![r].pc = "running", ![r].missing = missing]
    BY <1>5 DEF ResumeCounters
  <2>3. missing \in SUBSET Nodes
    BY <2>2, GraphAssumption
  <2>4. requests' = [requests EXCEPT ![r] = RequestAt(requests[r], "running", "none", missing)]
    <3>1. requests' = [requests EXCEPT ![r] = [requests[r] EXCEPT !.pc = "running", !.missing = missing]]
      BY <1>0, <2>2 DEF Served
    <3>2. [requests[r] EXCEPT !.pc = "running", !.missing = missing]
             = RequestAt(requests[r], "running", "none", missing)
      BY <1>2 DEF RequestAt, RequestSet
    <3> QED
      BY <3>1, <3>2
  <2>5. \E y : Asks(r, y) /\ Keeps(requests[r], y) /\ y.pc = "running" /\ y.result = "none"
    BY <1>3, <2>3, <2>4
  <2>6. PICK holds \in SUBSET ConditionalFrom(Edges, state.node) :
           tasks' = [tasks EXCEPT ![r][Root] =
                       [TaskAt(state.node, requests[r].gone) EXCEPT
                           !.pc = "resolve", !.todo = GetNextNodes(Edges, state.node, holds)]]
    BY <1>5 DEF ResumeCounters
  <2> DEFINE todo == GetNextNodes(Edges, state.node, holds)
             x0   == TaskAt(state.node, requests[r].gone)
             x    == [x0 EXCEPT !.pc = "resolve", !.todo = todo]
  <2>7. /\ x \in TaskSet /\ x.result = "none" /\ x.next = {} /\ x.cancelled = requests[r].gone
        /\ x.pc = "resolve" /\ x.node = state.node
    <3>1. /\ x0 \in TaskSet /\ x0.node = state.node /\ x0.next = {} /\ x0.result = "none"
          /\ x0.cancelled = requests[r].gone
      BY <1>2, <2>1, TaskAtIs
    <3>2. todo \in SUBSET Branches
      BY NextNodes
    <3> HIDE DEF x0, todo
    <3> QED
      BY <3>1, <3>2 DEF TaskSet, TaskPCs, Branches
  <2>8. tasks' = [tasks EXCEPT ![r][Root] = x]
    BY <2>6
  <2> HIDE DEF x
  <2>9. Moves(r, Root, x)
    BY <1>0, <2>7, <2>8, MovesIs, RootPath
  <2> QED
    BY <1>1, <1>2, <2>1, <2>5, <2>7, <2>9
<1> QED
  BY <1>4, <1>5

LEMMA ReturnFromRootIs ==
  ASSUME ServedInv, NEW r \in Requests, ReturnFromRoot(r)
  PROVE  LET task == tasks[r][Root] IN
         /\ task.pc = "return" /\ task.result \in {"ok", "failed", "await"}
         /\ Moves(r, Root, NoTask) /\ requests[r].pc = "running" /\ Run(r) \in Runs
         /\ \A q \in Paths : q # Root => tasks[r][q] = NoTask
         /\ \E y : /\ Asks(r, y) /\ Keeps(requests[r], y) /\ y.result = task.result
                   /\ y.pc = IF task.result = "await" THEN "cleanup" ELSE "persist"
<1> DEFINE result == tasks[r][Root].result
           pc     == IF result = "await" THEN "cleanup" ELSE "persist"
           y      == [requests[r] EXCEPT !.result = result, !.pc = pc]
<1>0. Served /\ Root \in Paths
  BY RootPath DEF ServedInv
<1>1. /\ tasks[r][Root].pc = "return" /\ requests' = [requests EXCEPT ![r] = y]
      /\ tasks' = [tasks EXCEPT ![r][Root] = NoTask]
  BY <1>0 DEF ReturnFromRoot, Served
<1>2. /\ Tree(tasks[r], requests[r].gone) /\ result \in {"ok", "failed", "await"}
      /\ requests[r].pc = "running" /\ Run(r) \in Runs
  BY <1>0, <1>1, Running DEF TaskOk, ResultsAt
<1>3. /\ requests[r] \in RequestSet /\ RequestOk(requests[r])
      /\ requests[r].missing \in SUBSET Nodes
  BY <1>0, <1>2, Busy
<1>4. Moves(r, Root, NoTask)
  BY <1>0, <1>1, MovesIs
<1>5. \A q \in Paths : q # Root => tasks[r][q] = NoTask
  BY <1>0, <1>1, <1>2, OnlyForksHaveBranches, RootAbove DEF IsLeaf
<1>6. Asks(r, y) /\ Keeps(requests[r], y) /\ y.result = result /\ y.pc = pc
  <2>1. y = RequestAt(requests[r], pc, result, requests[r].missing)
    BY <1>3, SameFields
  <2>2. pc \in {"running", "persist", "delete", "cleanup"} /\ result \in Outcomes
    BY <1>2 DEF Outcomes
  <2>3. pc = "cleanup" \/ (pc = "persist" /\ result \in {"ok", "failed"})
    BY <1>2
  <2> HIDE DEF pc, result, y
  <2>4. /\ Keeps(requests[r], y) /\ y.pc = pc /\ y.result = result
        /\ y.kind = "resume" => y.hitl \in HITLStates
    BY <1>3, <2>1, <2>2, RequestIs DEF Keeps
  <2>5. RequestOk(y)
    BY <1>2, <2>3, <2>4 DEF RequestOk, Keeps, result
  <2> QED
    BY <1>0, <1>1, <2>4, <2>5, AsksIs
<1> HIDE DEF y
<1> QED
  BY <1>1, <1>2, <1>4, <1>5, <1>6

\* The end of a request: the final status, the HITL record, the answer.
LEMMA PersistIs ==
  ASSUME ServedInv, NEW r \in Requests, Persist(r)
  PROVE  LET x == requests[r] IN
         /\ x.pc = "persist" /\ x.result \in {"ok", "failed"} /\ Run(r) \in Runs
         /\ \E lost \in BOOLEAN :
               /\ Write(x.gone, lost)
               /\ Recorded(Run(r), IF x.result = "ok" THEN "SUCCESS" ELSE "FAILED", lost)
         /\ \E y : /\ Asks(r, y) /\ Keeps(x, y) /\ y.result = x.result
                   /\ y.pc = IF x.kind = "resume" THEN "delete" ELSE "cleanup"
<1> DEFINE x  == requests[r]
           pc == IF x.kind = "resume" THEN "delete" ELSE "cleanup"
           y  == [x EXCEPT !.pc = pc]
<1>0. Served
  BY DEF ServedInv
<1>1. x.pc = "persist" /\ requests' = [requests EXCEPT ![r] = y]
  BY DEF Persist
<1>2. /\ x \in RequestSet /\ RequestOk(x) /\ x.missing \in SUBSET Nodes /\ Run(r) \in Runs
      /\ x.result \in {"ok", "failed"}
  BY <1>0, <1>1, Busy DEF RequestOk
<1>3. PICK lost \in BOOLEAN :
         /\ Write(x.gone, lost)
         /\ flowRun' = IF lost THEN flowRun
                       ELSE [flowRun EXCEPT ![Run(r)] =
                                 IF x.result = "ok" THEN "SUCCESS" ELSE "FAILED"]
  BY DEF Persist
<1>4. Recorded(Run(r), IF x.result = "ok" THEN "SUCCESS" ELSE "FAILED", lost)
  BY <1>3 DEF Recorded, ServedInv, RedisTyped
<1>5. y = RequestAt(x, pc, x.result, x.missing)
  BY <1>2, SameFields
<1> HIDE DEF y
<1>6. /\ Keeps(x, y) /\ y.pc = pc /\ y.result = x.result
      /\ y.kind = "resume" => y.hitl \in HITLStates
  BY <1>2, <1>5, RequestIs DEF Keeps, Outcomes
<1>7. Asks(r, y)
  <2>1. RequestOk(y)
    BY <1>2, <1>6 DEF RequestOk, Keeps
  <2> QED
    BY <1>0, <1>1, <2>1, AsksIs
<1> QED
  BY <1>1, <1>2, <1>3, <1>4, <1>6, <1>7

LEMMA ResumeDeleteIs ==
  ASSUME ServedInv, NEW r \in Requests, ResumeDelete(r)
  PROVE  LET x == requests[r] IN
         /\ x.pc = "delete" /\ Run(r) \in Runs
         /\ \E lost \in BOOLEAN :
               /\ Write(x.gone, lost)
               /\ \A u \in Runs : hitl'[u] = IF u = Run(r) /\ ~lost THEN NoHITL ELSE hitl[u]
         /\ \E y : Asks(r, y) /\ Keeps(x, y) /\ y.result = x.result /\ y.pc = "cleanup"
<1> DEFINE x  == requests[r]
           y  == [x EXCEPT !.pc = "cleanup"]
<1>0. Served
  BY DEF ServedInv
<1>1. x.pc = "delete" /\ requests' = [requests EXCEPT ![r] = y]
  BY DEF ResumeDelete
<1>2. /\ x \in RequestSet /\ RequestOk(x) /\ x.missing \in SUBSET Nodes /\ Run(r) \in Runs
      /\ x.result \in {"ok", "failed"}
  BY <1>0, <1>1, Busy DEF RequestOk
<1>3. PICK lost \in BOOLEAN : /\ Write(x.gone, lost)
                              /\ hitl' = IF lost THEN hitl ELSE [hitl EXCEPT ![Run(r)] = NoHITL]
  BY DEF ResumeDelete
<1>4. \A u \in Runs : hitl'[u] = IF u = Run(r) /\ ~lost THEN NoHITL ELSE hitl[u]
  BY <1>3 DEF ServedInv, RedisTyped, HITLTyped
<1>5. y = RequestAt(x, "cleanup", x.result, x.missing)
  BY <1>2, SameFields
<1> HIDE DEF y
<1>6. /\ Keeps(x, y) /\ y.pc = "cleanup" /\ y.result = x.result
      /\ y.kind = "resume" => y.hitl \in HITLStates
  BY <1>2, <1>5, RequestIs DEF Keeps, Outcomes
<1>7. Asks(r, y)
  <2>1. RequestOk(y)
    BY <1>2, <1>6 DEF RequestOk, Keeps
  <2> QED
    BY <1>0, <1>1, <2>1, AsksIs
<1> QED
  BY <1>1, <1>2, <1>3, <1>4, <1>6, <1>7

LEMMA GoesAwayIs ==
  ASSUME ServedInv, NEW r \in Requests, Cleanup(r) \/ FeedbackAbandoned(r)
  PROVE  requests[r].pc \in {"cleanup", "counters"} /\ Run(r) \in Runs /\ Asks(r, NoRequest)
<1>0. Served
  BY DEF ServedInv
<1>1. requests[r].pc \in {"cleanup", "counters"} /\ requests' = [requests EXCEPT ![r] = NoRequest]
  BY DEF Cleanup, FeedbackAbandoned
<1> QED
  BY <1>0, <1>1, Busy, AsksIs, NoRequestIs

\* The client goes away: every goroutine is cancelled and otherwise stays as it is.
LEMMA DisconnectIs ==
  ASSUME ServedInv, NEW r \in Requests, Disconnect(r)
  PROVE  /\ requests[r] \in RequestSet /\ Run(r) \in Runs /\ budget'.disconnects > 0
         /\ \E y : /\ Asks(r, y) /\ y \in RequestSet /\ y.gone /\ y.kind = requests[r].kind
                   /\ y.run = requests[r].run /\ y.hitl = requests[r].hitl
                   /\ y.pc = requests[r].pc /\ y.result = requests[r].result
         /\ \A s \in Requests, q \in Paths :
               LET x == tasks[s][q]
                   y == tasks'[s][q]
               IN  /\ s # r => y = x
                   /\ y.pc = x.pc /\ y.node = x.node /\ y.todo = x.todo /\ y.next = x.next
                   /\ y.result = x.result /\ (y # NoTask <=> x # NoTask)
                   /\ s = r /\ x # NoTask => y.cancelled
<1> DEFINE y == [requests[r] EXCEPT !.gone = TRUE]
<1>0. Served
  BY DEF ServedInv
<1>1. requests[r] \in RequestSet /\ RequestOk(requests[r]) /\ Run(r) \in Runs
  BY <1>0 DEF Served, Serves, Disconnect, Active, RequestSet, Run
<1>2. /\ y.gone = TRUE /\ y.pc = requests[r].pc /\ y.result = requests[r].result
      /\ y.kind = requests[r].kind /\ y.hitl = requests[r].hitl /\ y.run = requests[r].run
  BY <1>1 DEF RequestSet
<1>3. y \in RequestSet
  BY <1>1 DEF RequestSet
<1>4. requests' = [requests EXCEPT ![r] = y]
  BY DEF Disconnect
<1> HIDE DEF y
<1>5. Asks(r, y)
  <2>1. RequestOk(y)
    BY <1>1, <1>2, <1>3 DEF RequestOk
  <2> QED
    BY <1>0, <1>4, <2>1, AsksIs
<1>6. budget'.disconnects > 0
  BY DEF Disconnect, ServedInv, BudgetTyped
<1>7. ASSUME NEW s \in Requests, NEW q \in Paths, s # r PROVE tasks'[s][q] = tasks[s][q]
  BY <1>0, <1>7 DEF Disconnect, Served
<1>8. ASSUME NEW q \in Paths
      PROVE  LET x == tasks[r][q]
                 z == tasks'[r][q]
             IN  /\ z.pc = x.pc /\ z.node = x.node /\ z.todo = x.todo /\ z.next = x.next
                 /\ z.result = x.result /\ (z # NoTask <=> x # NoTask)
                 /\ x # NoTask => z.cancelled
  <2>1. tasks'[r][q] = IF tasks[r][q] = NoTask THEN NoTask
                       ELSE [tasks[r][q] EXCEPT !.cancelled = TRUE]
    BY <1>0 DEF Disconnect, Served
  <2>2. CASE tasks[r][q] = NoTask
    BY <2>1, <2>2
  <2>3. CASE tasks[r][q] # NoTask
    <3>1. tasks[r][q] \in TaskSet
      BY <1>0, <2>3 DEF Served
    <3> QED
      BY <2>1, <2>3, <3>1, NoTaskIs DEF TaskSet, TaskPCs
  <2> QED
    BY <2>2, <2>3
<1> QED
  BY <1>1, <1>2, <1>3, <1>5, <1>6, <1>7, <1>8

----------------------------------------------------------------------------
\* Once a branch has failed or paused, no goroutine below the same fork starts another
\* node: it was cancelled with the first error, however deep it is and whenever it was
\* forked, and a cancelled goroutine enters no node.
THEOREM CancelledGroupsStop == Spec => FirstErrorStopsGroup
<1>1. ASSUME ServedInv, [Next]_vars,
             NEW r \in Requests, NEW p \in Paths, NEW q \in Paths,
             tasks[r][p].pc = "enter", tasks'[r][p].pc = "sandbox", IsStrictPrefix(q, p)
      PROVE  tasks[r][q].result = "none"
  <2>1. /\ Tree(tasks[r], requests[r].gone) /\ tasks[r][p] \in TaskSet
    BY <1>1, Running DEF ServedInv
  <2>2. ~tasks[r][p].cancelled
    <3>1. ASSUME NEW s \in Requests, NEW o \in Paths, NEW x, Moves(s, o, x),
                 x.pc # "sandbox" \/ s # r \/ o # p
          PROVE  FALSE
      BY <1>1, <3>1 DEF Moves
    <3>2. tasks' # tasks /\ ~(tasks'[r][p].pc \in {"none", "enter"})
      BY <1>1
    <3>3. ASSUME NEW s \in Requests, NEW o \in Paths, EnterNode(s, o), tasks[r][p].cancelled
          PROVE  FALSE
      <4>1. PICK x \in TaskSet : Enters(s, o, x)
        BY <1>1, <3>3, EnterNodeIs
      <4> QED
        BY <3>1, <3>3, <4>1 DEF Enters
    <3>4. ASSUME NEW s \in Requests, NEW o \in Paths, Task(s, o), ~EnterNode(s, o) PROVE FALSE
      <4>1. CASE ScriptFails(s, o) \/ PauseHITL(s, o) \/ PauseRun(s, o) \/ Join(s, o)
        <5>1. \E x : Moves(s, o, x) /\ x.pc \in {"return", "pauseRun"}
          BY <1>1, <4>1, ScriptFailsIs, PauseHITLIs, PauseRunIs, JoinIs
        <5> QED
          BY <3>1, <5>1
      <4>2. CASE ScriptReturns(s, o)
        <5>1. PICK x, lost : Outputs(s, o, x, lost)
          BY <1>1, <4>2, ScriptReturnsIs
        <5> QED
          BY <3>1, <5>1 DEF Outputs
      <4>3. CASE Resolve(s, o)
        <5>1. ~ProcessDies
          BY <1>1, NoTaskIs DEF ProcessDies, NoTasks
        <5>2. PICK x : Looks(s, o, x)
          BY <1>1, <4>3, <5>1, ResolveIs
        <5> QED
          BY <3>1, <5>2 DEF Looks, Considers
      <4>4. CASE Follow(s, o)
        <5>1. \/ \E x : Moves(s, o, x) /\ x.pc \in {"return", "enter"}
              \/ \E x : Forks(s, o, x)
          BY <1>1, <4>4, FollowIs
        <5>2. ASSUME NEW x, Forks(s, o, x) PROVE FALSE
          BY <1>1, <3>2, <5>2 DEF Forks
        <5> QED
          BY <3>1, <5>1, <5>2
      <4>5. CASE ReturnFromBranch(s, o)
        <5>1. Returned(s, o)
          BY <1>1, <4>5, ReturnFromBranchIs
        <5> QED
          BY <1>1, <5>1, NoTaskIs DEF Returned
      <4> QED
        BY <3>4, <4>1, <4>2, <4>3, <4>4, <4>5 DEF Task
    <3>5. ASSUME NEW s \in Requests, Serve(s) PROVE FALSE
      <4>1. CASE ExecuteCounters(s) \/ ResumeCounters(s)
        <5>1. \E x : Moves(s, Root, x) /\ x.pc \in {"enter", "resolve"}
          BY <1>1, <4>1, CountersIs
        <5> QED
          BY <3>1, <5>1, RootPath
      <4>2. CASE ReturnFromRoot(s)
        BY <1>1, <3>1, <4>2, ReturnFromRootIs, RootPath, NoTaskIs
      <4>3. CASE Persist(s) \/ ResumeDelete(s) \/ Cleanup(s)
        BY <3>2, <4>3 DEF Persist, ResumeDelete, Cleanup
      <4> QED
        BY <3>5, <4>1, <4>2, <4>3 DEF Serve
    <3>6. ASSUME NEW s \in Requests, Disconnect(s) PROVE FALSE
      BY <1>1, <3>6, DisconnectIs
    <3>7. ASSUME NEW s \in Requests, NEW run \in Runs,
                 ExecuteBegin(s, run) \/ SubmitFeedback(s, run)
          PROVE  FALSE
      BY <3>2, <3>7 DEF ExecuteBegin, SubmitFeedback
    <3>8. ASSUME NEW s \in Requests, FeedbackAbandoned(s) PROVE FALSE
      BY <3>2, <3>8 DEF FeedbackAbandoned
    <3>9. ~Crash /\ ~UNCHANGED vars
      BY <1>1, <3>2, NoTaskIs DEF Crash, ProcessDies, NoTasks, vars, serving
    <3> QED
      BY <1>1, <3>3, <3>4, <3>5, <3>6, <3>7, <3>8, <3>9 DEF Next
  <2> QED
    BY <1>1, <2>1, <2>2, NoTaskIs DEF Tree
<1>2. ServedInv /\ [Next]_vars =>
         [\A r \in Requests, p, q \in Paths :
             /\ tasks[r][p].pc = "enter" /\ tasks'[r][p].pc = "sandbox"
             /\ IsStrictPrefix(q, p)
             => tasks[r][q].result = "none"]_vars
  BY <1>1
<1> QED
  BY <1>2, ServedInvInit, ServedInvStep, PTL DEF Spec, FirstErrorStopsGroup
=============================================================================
