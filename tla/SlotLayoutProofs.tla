-------------------------- MODULE SlotLayoutProofs --------------------------
(***************************************************************************)
(* Why the cells that LayoutPass hands out suffice and are not shared      *)
(* while they are in use (layout_pass.cc, slot_allocator.cc), for every    *)
(* expression.                                                             *)
(***************************************************************************)
EXTENDS SlotLayout, Integers, TLAPS, FiniteSetTheorems, SequenceTheorems,
    WellFoundedInduction, NaturalsInduction

-----------------------------------------------------------------------------
(* Numbers and sequences. *)

\* A set of naturals has a least member.
LEMMA LeastIndex ==
    ASSUME NEW S, S \subseteq Nat, S # {}
    PROVE  \E i \in S : \A j \in S : i <= j
<1>1. PICK i \in S : \A j \in S : ~(<<j, i>> \in OpToRel(<, Nat))
  BY WFMin, NatLessThanWellFounded, Zenon
<1>2. \A j \in S : ~(j < i)
  BY <1>1 DEF OpToRel
<1> QED
  BY <1>2

\* A bounded set of naturals has a greatest member.
LEMMA GreatestIndex ==
    ASSUME NEW n \in Nat, NEW S, S \subseteq 0 .. n, S # {}
    PROVE  \E i \in S : \A j \in S : j <= i
<1> DEFINE T == {d \in Nat : n - d \in S}
<1>1. T \subseteq Nat /\ T # {}
  <2>1. PICK s \in S : TRUE
    OBVIOUS
  <2>2. n - s \in Nat /\ n - (n - s) = s
    BY <2>1
  <2> QED
    BY <2>1, <2>2
<1>2. PICK d \in T : \A e \in T : d <= e
  BY <1>1, LeastIndex
<1>3. n - d \in S
  BY <1>2
<1>4. \A j \in S : j <= n - d
  <2>1. TAKE j \in S
  <2>2. n - j \in Nat /\ n - (n - j) = j
    BY <2>1
  <2>3. n - j \in T
    BY <2>1, <2>2
  <2> QED
    BY <1>2, <2>2, <2>3
<1> QED
  BY <1>3, <1>4

-----------------------------------------------------------------------------
(* The tree.  Ids are in pre-order, so a subtree is an interval. *)

\* What a member of Trees is: numbered, with kids of the right arity in pre-order.
LEMMA Shape ==
    ASSUME tree \in Trees
    PROVE  /\ Len(tree.op) \in Nat \ {0} /\ Nodes = 1 .. Len(tree.op) /\ 1 \in Nodes
           /\ \A n \in Nodes : /\ Op(n) \in Ops
                               /\ Kids(n) \in Seq(Nat) /\ Len(Kids(n)) \in Arity(Op(n))
                               /\ NameShape(Op(n), tree.name[n])
                               /\ KidSet(n) = {Kids(n)[i] : i \in 1 .. Len(Kids(n))}
           /\ PreOrder(tree.kids) /\ DOMAIN tree.kids = Nodes
           /\ Len(tree.kids) = Len(tree.op)
<1>1. /\ tree.op \in Seq(Ops) /\ tree.op # <<>>
      /\ tree.kids \in Seq(Seq(Nat)) /\ Len(tree.kids) = Len(tree.op) /\ PreOrder(tree.kids)
      /\ \A n \in 1 .. Len(tree.op) : /\ Len(tree.kids[n]) \in Arity(tree.op[n])
                                      /\ NameShape(tree.op[n], tree.name[n])
  BY SlotLayoutAssumption
<1>2. Len(tree.op) \in Nat \ {0} /\ DOMAIN tree.kids = 1 .. Len(tree.op)
  BY <1>1
<1>3. \A n \in 1 .. Len(tree.op) : tree.op[n] \in Ops /\ tree.kids[n] \in Seq(Nat)
  BY <1>1, <1>2
<1>4. \A n \in 1 .. Len(tree.op) : KidSet(n) = {Kids(n)[i] : i \in 1 .. Len(Kids(n))}
  BY <1>3 DEF KidSet, ToSet, Kids
<1> QED
  BY <1>1, <1>2, <1>3, <1>4 DEF Nodes, Op, Kids

\* The nodes are 1 .. n.
LEMMA NodeNat ==
    ASSUME tree \in Trees
    PROVE  /\ Len(tree.op) \in Nat \ {0} /\ Nodes = 1 .. Len(tree.op) /\ 1 \in Nodes
           /\ Nodes \subseteq Nat /\ \A n \in Nodes : n >= 1
  BY Shape

\* Nodes are numbered in pre-order, so a kid comes after its parent.
LEMMA KidIsLater ==
    ASSUME tree \in Trees, NEW n \in Nodes, NEW k \in KidSet(n)
    PROVE  k \in Nodes /\ k > n /\ n \in Nat /\ k \in Nat
<1>1. PICK i \in 1 .. Len(Kids(n)) : k = Kids(n)[i]
  BY Shape
<1>2. n \in DOMAIN tree.kids /\ i \in DOMAIN tree.kids[n]
  BY Shape, <1>1 DEF Kids
<1>3. k \in (n + 1) .. Len(tree.op)
  BY <1>1, <1>2, Shape DEF PreOrder, Kids
<1> QED
  BY <1>3, Shape

\* A node has one parent.
LEMMA OneParent ==
    ASSUME tree \in Trees, NEW p \in Nodes, NEW q \in Nodes, NEW k,
           k \in KidSet(p), k \in KidSet(q)
    PROVE  p = q
<1>1. PICK i \in 1 .. Len(Kids(p)) : k = Kids(p)[i]
  BY Shape
<1>2. p \in DOMAIN tree.kids /\ i \in DOMAIN tree.kids[p] /\ q \in DOMAIN tree.kids
  BY Shape, <1>1 DEF Kids
<1> QED
  BY <1>1, <1>2, Shape DEF PreOrder, Kids, KidSet

\* What lies between a node and one of its kids has its parent there too.
LEMMA Between ==
    ASSUME tree \in Trees, NEW p \in Nodes, NEW k \in KidSet(p),
           NEW m \in Nodes, p < m, m <= k
    PROVE  \E q \in Nodes : p <= q /\ q < m /\ m \in KidSet(q)
<1>1. PICK i \in 1 .. Len(Kids(p)) : k = Kids(p)[i]
  BY Shape
<1>2. p \in DOMAIN tree.kids /\ i \in DOMAIN tree.kids[p]
  BY Shape, <1>1 DEF Kids
<1>3. m \in (p + 1) .. k
  BY KidIsLater, Shape
<1>4. PICK q \in p .. (m - 1) : m \in ToSet(tree.kids[q])
  BY <1>1, <1>2, <1>3, Shape DEF PreOrder, Kids
<1>5. q \in Nodes /\ p <= q /\ q < m
  BY <1>4, Shape
<1> QED
  BY <1>4, <1>5 DEF KidSet, Kids

\* Every node but the root has a parent, which comes before it.
LEMMA Rooted ==
    ASSUME tree \in Trees, NEW m \in Nodes, m # 1
    PROVE  \E p \in Nodes : p < m /\ m \in KidSet(p)
<1>1. m \in 2 .. Len(tree.kids)
  BY Shape
<1>2. PICK p \in 1 .. (m - 1) : m \in ToSet(tree.kids[p])
  BY <1>1, Shape DEF PreOrder
<1>3. p \in Nodes /\ p < m
  BY <1>2, Shape
<1> QED
  BY <1>2, <1>3 DEF KidSet, Kids

\* The kids of a node are distinct and in order.
LEMMA KidsInOrder ==
    ASSUME tree \in Trees, NEW n \in Nodes,
           NEW i \in 1 .. Len(Kids(n)), NEW j \in 1 .. Len(Kids(n))
    PROVE  /\ Kids(n)[i] \in KidSet(n)
           /\ i < j => Kids(n)[i] < Kids(n)[j]
           /\ Kids(n)[i] = Kids(n)[j] => i = j
<1>0. Kids(n) \in Seq(Nat) /\ n \in DOMAIN tree.kids /\ Len(Kids(n)) \in Nat
  BY Shape
<1>1. /\ i < j => Kids(n)[i] < Kids(n)[j]
      /\ j < i => Kids(n)[j] < Kids(n)[i]
  <2>1. i \in DOMAIN Kids(n) /\ j \in DOMAIN Kids(n) /\ i \in Nat /\ j \in Nat /\ i >= 1 /\ j >= 1
    BY <1>0
  <2>2. \A a \in DOMAIN Kids(n) : \A b \in 1 .. (a - 1) : Kids(n)[b] < Kids(n)[a]
    BY <1>0, Shape DEF PreOrder, Kids
  <2>3. (i < j => i \in 1 .. (j - 1)) /\ (j < i => j \in 1 .. (i - 1))
    BY <2>1
  <2> QED
    BY <2>1, <2>2, <2>3
<1>2. Kids(n)[i] \in KidSet(n) /\ Kids(n)[j] \in KidSet(n)
  BY Shape
<1>3. Kids(n)[i] \in Nat /\ Kids(n)[j] \in Nat
  BY <1>2, KidIsLater
<1>4. i \in Nat /\ j \in Nat
  BY <1>0
<1> QED
  BY <1>1, <1>2, <1>3, <1>4

\* A node is below n when every id from n to it hangs off one from n on.
LEMMA BelowDef ==
    ASSUME tree \in Trees, NEW n \in Nodes, NEW m
    PROVE  m \in Below(n) <=>
             /\ m \in Nodes /\ m >= n
             /\ \A k \in Nodes : k > n /\ k <= m =>
                  \E p \in Nodes : p >= n /\ p < k /\ k \in KidSet(p)
<1>1. \A k \in Nodes : (\E p \in n .. (k - 1) : k \in KidSet(p)) <=>
                        (\E p \in Nodes : p >= n /\ p < k /\ k \in KidSet(p))
  <2>1. \A k \in Nodes : n .. (k - 1) = {p \in Nodes : p >= n /\ p < k}
    BY NodeNat
  <2> QED
    BY <2>1
<1> QED
  BY <1>1 DEF Below

\* A node is the first of those below it.
LEMMA BelowSelf ==
    ASSUME tree \in Trees, NEW n \in Nodes
    PROVE  n \in Below(n) /\ Below(n) \subseteq Nodes /\ \A m \in Below(n) : m >= n
  BY BelowDef, Shape

\* What is below a node is an interval.
LEMMA BelowInterval ==
    ASSUME tree \in Trees, NEW n \in Nodes, NEW m \in Below(n), NEW k \in Nodes, n <= k, k <= m
    PROVE  k \in Below(n)
<1>1. m \in Nodes /\ m \in Nat /\ n \in Nat /\ k \in Nat
  BY BelowSelf, Shape
<1>2. \A j \in Nodes : j > n /\ j <= k => j <= m
  BY <1>1, Shape
<1> QED
  BY <1>1, <1>2, BelowDef

\* Being below is transitive.
LEMMA BelowTransitive ==
    ASSUME tree \in Trees, NEW n \in Nodes, NEW m \in Below(n)
    PROVE  Below(m) \subseteq Below(n)
<1>1. m \in Nodes /\ m \in Nat /\ n \in Nat /\ m >= n
  BY BelowSelf, Shape
<1>2. SUFFICES ASSUME NEW x \in Below(m) PROVE x \in Below(n)
  OBVIOUS
<1>3. x \in Nodes /\ x >= m /\ x \in Nat
  BY <1>1, BelowSelf, Shape
<1>4. ASSUME NEW k \in Nodes, k > n, k <= x
      PROVE  \E p \in Nodes : p >= n /\ p < k /\ k \in KidSet(p)
  <2>0. k \in Nat
    BY Shape
  <2>1. CASE k <= m
    BY <1>4, <2>1, BelowDef
  <2>2. CASE k > m
    <3>1. PICK p \in Nodes : p >= m /\ p < k /\ k \in KidSet(p)
      BY <1>1, <1>4, <2>2, BelowDef
    <3> QED
      BY <1>1, <3>1, Shape
  <2> QED
    BY <1>1, <2>0, <2>1, <2>2
<1> QED
  BY <1>1, <1>3, <1>4, BelowDef

\* A subtree contains the kids of its nodes.
LEMMA KidBelow ==
    ASSUME tree \in Trees, NEW n \in Nodes, NEW m \in Below(n), NEW k \in KidSet(m)
    PROVE  k \in Below(n)
<1>1. m \in Nodes /\ m \in Nat /\ n \in Nat /\ m >= n
  BY BelowSelf, Shape
<1>2. k \in Nodes /\ k > m /\ k \in Nat
  BY <1>1, KidIsLater
<1>3. ASSUME NEW j \in Nodes, j > n, j <= k
      PROVE  \E p \in Nodes : p >= n /\ p < j /\ j \in KidSet(p)
  <2>0. j \in Nat
    BY Shape
  <2>1. CASE j <= m
    BY <1>3, <2>1, BelowDef
  <2>2. CASE j > m
    <3>1. PICK p \in Nodes : m <= p /\ p < j /\ j \in KidSet(p)
      BY <1>1, <1>3, <2>2, Between
    <3> QED
      BY <1>1, <3>1, Shape
  <2> QED
    BY <1>1, <2>0, <2>1, <2>2
<1> QED
  BY <1>1, <1>2, <1>3, BelowDef

\* A subtree contains the parents of its nodes, its root's apart.
LEMMA ParentBelow ==
    ASSUME tree \in Trees, NEW n \in Nodes, NEW m \in Below(n), m # n,
           NEW p \in Nodes, m \in KidSet(p)
    PROVE  p \in Below(n)
<1>1. m \in Nodes /\ m \in Nat /\ n \in Nat /\ m >= n
  BY BelowSelf, Shape
<1>2. PICK q \in Nodes : q >= n /\ q < m /\ m \in KidSet(q)
  BY <1>1, BelowDef
<1>3. q = p
  BY <1>2, OneParent
<1> QED
  BY <1>1, <1>2, <1>3, BelowInterval, Shape

\* The subtree of a kid leaves out the parent.
LEMMA BelowKid ==
    ASSUME tree \in Trees, NEW n \in Nodes, NEW k \in KidSet(n)
    PROVE  Below(k) \subseteq Below(n) /\ n \notin Below(k) /\ k \in Below(n)
<1>1. k \in Below(n)
  BY BelowSelf, KidBelow
<1>2. n \notin Below(k)
  BY KidIsLater, BelowSelf
<1> QED
  BY <1>1, <1>2, BelowTransitive

\* The subtrees of two kids follow each other.
LEMMA KidsApart ==
    ASSUME tree \in Trees, NEW n \in Nodes, NEW k \in KidSet(n), NEW l \in KidSet(n), k < l
    PROVE  \A x \in Below(k), y \in Below(l) : x < y
<1>1. k \in Nodes /\ l \in Nodes /\ k \in Nat /\ l \in Nat /\ n \in Nat /\ n < k
  BY KidIsLater
<1>2. SUFFICES ASSUME NEW x \in Below(k), NEW y \in Below(l), ~(x < y) PROVE FALSE
  OBVIOUS
<1>3. x \in Nat /\ y \in Nat /\ y >= l /\ x \in Nodes
  <2>1. x \in Nodes
    BY <1>1, BelowSelf
  <2>2. y \in Nodes /\ y >= l
    BY <1>1, BelowSelf
  <2> QED
    BY <2>1, <2>2, NodeNat
<1>4. PICK p \in Nodes : p >= k /\ p < l /\ l \in KidSet(p)
  BY <1>1, <1>2, <1>3, BelowDef
<1>5. p = n
  BY <1>4, OneParent
<1> QED
  BY <1>1, <1>4, <1>5, Shape

\* Whatever is below a node and not the node is below one of its kids.
LEMMA BelowSplit ==
    ASSUME tree \in Trees, NEW n \in Nodes, NEW m \in Below(n), m # n
    PROVE  \E k \in KidSet(n) : m \in Below(k)
<1>1. m \in Nodes /\ m \in Nat /\ n \in Nat /\ m > n
  BY BelowSelf, Shape
<1> DEFINE S == {k \in KidSet(n) : k <= m}
<1>2. S \subseteq 0 .. m /\ S \subseteq Nodes
  BY <1>1, KidIsLater
<1>3. S # {}
  <2>1. n + 1 \in Nodes
    BY <1>1, Shape
  <2>2. PICK p \in Nodes : p >= n /\ p < n + 1 /\ n + 1 \in KidSet(p)
    BY <1>1, <2>1, BelowDef
  <2>3. p = n
    BY <1>1, <2>2, Shape
  <2> QED
    BY <1>1, <2>2, <2>3
<1>4. PICK k \in S : \A j \in S : j <= k
  BY <1>1, <1>2, <1>3, GreatestIndex
<1>5. k \in KidSet(n) /\ k \in Nodes /\ k \in Nat /\ n < k /\ k <= m
  BY <1>2, <1>4, KidIsLater
<1>6. ASSUME NEW j \in Nodes, j > k, j <= m
      PROVE  \E p \in Nodes : p >= k /\ p < j /\ j \in KidSet(p)
  <2>1. j \in Nat /\ j > n
    BY <1>1, <1>5, <1>6, Shape
  <2>2. PICK p \in Nodes : p >= n /\ p < j /\ j \in KidSet(p)
    BY <1>1, <1>6, <2>1, BelowDef
  <2>3. p # n
    BY <1>4, <1>5, <1>6, <2>1, <2>2
  <2>4. ASSUME p < k PROVE FALSE
    <3>1. PICK q \in Nodes : p <= q /\ q < k /\ k \in KidSet(q)
      BY <1>5, <1>6, <2>1, <2>2, <2>4, Between
    <3>2. q = n
      BY <1>5, <3>1, OneParent
    <3> QED
      BY <1>1, <2>2, <2>3, <3>1, <3>2, Shape
  <2> QED
    BY <1>5, <2>2, <2>4, Shape
<1>7. m \in Below(k)
  BY <1>1, <1>5, <1>6, BelowDef
<1> QED
  BY <1>5, <1>7

\* Everything is below the root.
LEMMA BelowRoot ==
    ASSUME tree \in Trees
    PROVE  Below(1) = Nodes
<1>1. ASSUME NEW m \in Nodes PROVE m \in Below(1)
  <2>1. \A k \in Nodes : k > 1 => \E p \in Nodes : p >= 1 /\ p < k /\ k \in KidSet(p)
    <3>1. TAKE k \in Nodes
    <3>2. HAVE k > 1
    <3>3. PICK p \in Nodes : p < k /\ k \in KidSet(p)
      BY <3>2, Rooted
    <3> QED
      BY <3>3, Shape
  <2> QED
    BY <2>1, BelowDef, Shape
<1> QED
  BY <1>1, BelowSelf, Shape

-----------------------------------------------------------------------------
(* The traversals of LayoutPass.  The stack holds what is still to be      *)
(* visited, whole subtrees for "pre" and single nodes for "post".          *)

Dos == {"pre", "post", "loop", "result", "pop", "eval", "kernel", "fill", "put", "same",
        "branch", "prologue", "into", "copy", "leave"}
ItemType == [do : Dos, n : Nodes, ks : Seq(Nodes)]

Cover(it) == IF it.do = "pre" THEN Below(it.n) ELSE {it.n}

\* What lies above b on the stack is done before the subtree of b is entered,
\* or inside it when b closes it.
Before(a, b) ==
    IF b.do = "pre" THEN \A x \in Cover(a), y \in Below(b.n) : x < y
    ELSE \A x \in Cover(a) : x \in Below(b.n) /\ x # b.n

Unposted(t)  == UNION {Cover(t[i]) : i \in 1 .. Len(t)}
Unvisited(t) == UNION {Below(t[i].n) : i \in {j \in 1 .. Len(t) : t[j].do = "pre"}}

Ordered(t)  == \A i, j \in 1 .. Len(t) : i < j => Before(t[i], t[j])
Complete(t) ==
    \A i \in 1 .. Len(t) : \A m \in Nodes :
        m > t[i].n /\ m \notin Below(t[i].n) =>
            \E j \in 1 .. Len(t) : j > i /\ t[j].do = "pre" /\ m \in Below(t[j].n)

\* What encloses an item is closed after it.
Closed(t) ==
    \A i \in 1 .. Len(t) : \A p \in Nodes :
        t[i].n \in Below(p) /\ p # t[i].n =>
            \E j \in 1 .. Len(t) : j > i /\ t[j].do = "post" /\ t[j].n = p

Passing(t) ==
    /\ t \in Seq(ItemType)
    /\ \A i \in 1 .. Len(t) : t[i].do \in {"pre", "post"}
    /\ Ordered(t) /\ Complete(t) /\ Closed(t)

\* What is read off the tree does not change with the other variables.
LEMMA SameTree ==
    ASSUME tree' = tree
    PROVE  /\ Nodes' = Nodes /\ Comps' = Comps
           /\ \A n : /\ Op(n)' = Op(n) /\ Kids(n)' = Kids(n) /\ KidSet(n)' = KidSet(n)
                     /\ Below(n)' = Below(n)
<1>1. Nodes' = Nodes
  BY DEF Nodes
<1>2. \A n : Op(n)' = Op(n) /\ Kids(n)' = Kids(n) /\ KidSet(n)' = KidSet(n)
  BY DEF Op, Kids, KidSet
<1>3. Comps' = Comps
  BY <1>1, <1>2 DEF Comps
<1>4. \A n : Below(n)' = Below(n)
  BY <1>1, <1>2 DEF Below
<1> QED
  BY <1>1, <1>2, <1>3, <1>4

\* The same of the work stack of a pass.
LEMMA SamePassing ==
    ASSUME tree' = tree, NEW t
    PROVE  /\ Passing(t)' <=> Passing(t)
           /\ Unposted(t)' = Unposted(t) /\ Unvisited(t)' = Unvisited(t)
<1>1. \A it : Cover(it)' = Cover(it)
  BY SameTree DEF Cover
<1>2. \A a, b : Before(a, b)' <=> Before(a, b)
  BY <1>1, SameTree DEF Before
<1>3. /\ Ordered(t)' <=> Ordered(t)
      /\ Complete(t)' <=> Complete(t)
      /\ Closed(t)' <=> Closed(t)
  BY <1>2, SameTree DEF Ordered, Complete, Closed
<1>4. ItemType' = ItemType
  BY SameTree DEF ItemType
<1>5. Passing(t)' <=> Passing(t)
  BY <1>3, <1>4 DEF Passing
<1>6. Unposted(t)' = Unposted(t)
  BY <1>1 DEF Unposted
<1>7. Unvisited(t)' = Unvisited(t)
  BY SameTree DEF Unvisited
<1> QED
  BY <1>5, <1>6, <1>7

\* An item has the fields it was made of.
LEMMA ItemFields ==
    ASSUME NEW do \in Dos, NEW n \in Nodes, NEW ks \in Seq(Nodes)
    PROVE  /\ Item(do, n, ks) \in ItemType
           /\ Item(do, n, ks).do = do /\ Item(do, n, ks).n = n /\ Item(do, n, ks).ks = ks
  BY DEF Item, ItemType

\* The same of the visit of a node.
LEMMA VisitFields ==
    ASSUME NEW n \in Nodes
    PROVE  Visit(n) \in ItemType /\ Visit(n).do = "pre" /\ Visit(n).n = n
<1>1. PICK e : e = << >>
  OBVIOUS
<1>2. e \in Seq(Nodes)
  BY <1>1
<1>3. Visit(n) = Item("pre", n, e) /\ "pre" \in Dos
  BY <1>1 DEF Visit, Dos
<1> QED
  BY <1>2, <1>3, ItemFields

\* A pass starts with everything still to be visited.
LEMMA Starting ==
    ASSUME tree \in Trees
    PROVE  /\ Passing(<<Visit(1)>>)
           /\ Unposted(<<Visit(1)>>) = Nodes /\ Unvisited(<<Visit(1)>>) = Nodes
<1>1. PICK t : t = <<Visit(1)>>
  OBVIOUS
<1>2. Visit(1) \in ItemType /\ Visit(1).n = 1 /\ Visit(1).do = "pre"
  BY NodeNat, VisitFields
<1>3. t \in Seq(ItemType) /\ Len(t) = 1 /\ t[1] = Visit(1)
  BY <1>1, <1>2
<1>4. Ordered(t) /\ Complete(t)
  BY <1>2, <1>3, BelowRoot DEF Ordered, Complete
<1>6. Closed(t)
  BY <1>2, <1>3, BelowSelf, NodeNat DEF Closed
<1>5. Unposted(t) = Nodes /\ Unvisited(t) = Nodes
  BY <1>2, <1>3, BelowRoot DEF Unposted, Unvisited, Cover
<1> QED
  BY <1>1, <1>2, <1>3, <1>4, <1>5, <1>6 DEF Passing

\* What Tail does, index by index.
LEMMA TailShape ==
    ASSUME NEW T, NEW t \in Seq(T), t # <<>>
    PROVE  /\ Tail(t) \in Seq(T) /\ Len(Tail(t)) = Len(t) - 1 /\ Len(t) \in Nat /\ Len(t) >= 1
           /\ \A i \in 1 .. Len(Tail(t)) : i + 1 \in 1 .. Len(t) /\ Tail(t)[i] = t[i + 1]
  OBVIOUS

\* A stack that nests still does without its top item.
LEMMA Popping ==
    ASSUME tree \in Trees, NEW t, Passing(t), t # <<>>
    PROVE  /\ Passing(Tail(t))
           /\ t[1].do = "post" => /\ Unposted(Tail(t)) = Unposted(t) \ {t[1].n}
                                  /\ Unvisited(Tail(t)) = Unvisited(t)
<1>1. t \in Seq(ItemType) /\ \A i \in 1 .. Len(t) : t[i] \in ItemType
  BY DEF Passing
<1>2. PICK u : u = Tail(t)
  OBVIOUS
<1>3. /\ u \in Seq(ItemType) /\ Len(u) = Len(t) - 1 /\ Len(t) \in Nat /\ Len(t) >= 1
      /\ \A i \in 1 .. Len(u) : i + 1 \in 1 .. Len(t) /\ u[i] = t[i + 1]
  BY <1>1, <1>2, TailShape
<1>4. Ordered(u)
  <2>1. SUFFICES ASSUME NEW i \in 1 .. Len(u), NEW j \in 1 .. Len(u), i < j
                 PROVE  Before(u[i], u[j])
    BY DEF Ordered
  <2>2. i + 1 < j + 1 /\ i + 1 \in 1 .. Len(t) /\ j + 1 \in 1 .. Len(t)
    BY <1>3, <2>1
  <2> QED
    BY <1>3, <2>2 DEF Passing, Ordered
<1>5. Complete(u)
  <2>1. SUFFICES ASSUME NEW i \in 1 .. Len(u), NEW m \in Nodes,
                        m > u[i].n, m \notin Below(u[i].n)
                 PROVE  \E j \in 1 .. Len(u) : j > i /\ u[j].do = "pre" /\ m \in Below(u[j].n)
    BY DEF Complete
  <2>2. i + 1 \in 1 .. Len(t) /\ u[i] = t[i + 1]
    BY <1>3
  <2>3. PICK j \in 1 .. Len(t) : j > i + 1 /\ t[j].do = "pre" /\ m \in Below(t[j].n)
    BY <2>1, <2>2 DEF Passing, Complete
  <2>4. j - 1 \in 1 .. Len(u) /\ j - 1 > i /\ (j - 1) + 1 = j
    BY <1>3, <2>3
  <2> QED
    BY <1>3, <2>3, <2>4
<1>8. Closed(u)
  <2>1. SUFFICES ASSUME NEW i \in 1 .. Len(u), NEW p \in Nodes,
                        u[i].n \in Below(p), p # u[i].n
                 PROVE  \E j \in 1 .. Len(u) : j > i /\ u[j].do = "post" /\ u[j].n = p
    BY DEF Closed
  <2>2. i + 1 \in 1 .. Len(t) /\ u[i] = t[i + 1]
    BY <1>3
  <2>3. PICK j \in 1 .. Len(t) : j > i + 1 /\ t[j].do = "post" /\ t[j].n = p
    BY <2>1, <2>2 DEF Passing, Closed
  <2>4. j - 1 \in 1 .. Len(u) /\ j - 1 > i /\ (j - 1) + 1 = j
    BY <1>3, <2>3
  <2> QED
    BY <1>3, <2>3, <2>4
<1>6. Passing(u)
  BY <1>3, <1>4, <1>5, <1>8 DEF Passing
<1>7. ASSUME t[1].do = "post"
      PROVE  Unposted(u) = Unposted(t) \ {t[1].n} /\ Unvisited(u) = Unvisited(t)
  <2>1. Cover(t[1]) = {t[1].n} /\ 1 \in 1 .. Len(t)
    BY <1>3, <1>7 DEF Cover
  <2>2. \A i \in 1 .. Len(t) : i # 1 => i - 1 \in 1 .. Len(u) /\ u[i - 1] = t[i]
    <3>1. TAKE i \in 1 .. Len(t)
    <3>2. HAVE i # 1
    <3>3. i - 1 \in 1 .. Len(u) /\ (i - 1) + 1 = i
      BY <1>3, <3>1, <3>2
    <3> QED
      BY <1>3, <3>3
  <2>3. \A i \in 1 .. Len(t) : i # 1 => t[1].n \notin Cover(t[i])
    <3>1. TAKE i \in 1 .. Len(t)
    <3>2. HAVE i # 1
    <3>3. Before(t[1], t[i])
      BY <1>3, <3>1, <3>2 DEF Passing, Ordered
    <3>4. t[1].n \in Nodes /\ t[i].n \in Nodes /\ t[1].n \in Nat
      BY <1>1, <1>3, NodeNat DEF ItemType
    <3>5. CASE t[i].do = "pre"
      <4>1. \A y \in Below(t[i].n) : t[1].n < y
        BY <2>1, <3>3, <3>5 DEF Before
      <4>2. ~(t[1].n < t[1].n)
        BY <3>4
      <4> QED
        BY <3>5, <4>1, <4>2 DEF Cover
    <3>6. CASE t[i].do # "pre"
      BY <2>1, <3>3, <3>4, <3>6 DEF Before, Cover
    <3> QED
      BY <3>5, <3>6
  <2>4. Unposted(u) \subseteq Unposted(t) \ {t[1].n}
    <3>1. SUFFICES ASSUME NEW i \in 1 .. Len(u), NEW x \in Cover(u[i])
                   PROVE  x \in Unposted(t) /\ x # t[1].n
      BY DEF Unposted
    <3>2. i + 1 \in 1 .. Len(t) /\ i + 1 # 1 /\ u[i] = t[i + 1]
      BY <1>3
    <3> QED
      BY <2>3, <3>1, <3>2 DEF Unposted
  <2>5. Unposted(t) \ {t[1].n} \subseteq Unposted(u)
    BY <2>1, <2>2 DEF Unposted
  <2>6. Unvisited(u) \subseteq Unvisited(t)
    BY <1>3 DEF Unvisited
  <2>7. Unvisited(t) \subseteq Unvisited(u)
    BY <1>7, <2>2 DEF Unvisited
  <2> QED
    BY <2>4, <2>5, <2>6, <2>7
<1> QED
  BY <1>2, <1>6, <1>7

\* The stack after t[1] has been replaced by the items s.
Pushed(s, t) == s \o Tail(t)

\* How the positions of the new stack u relate to those of s and t.
PushFact(T, s, t, u) ==
    /\ u \in Seq(T) /\ Len(u) = Len(s) + (Len(t) - 1)
    /\ Len(s) \in Nat /\ Len(t) \in Nat /\ Len(t) >= 1
    /\ \A i \in 1 .. Len(s) : i \in 1 .. Len(u) /\ u[i] = s[i]
    /\ \A i \in 2 .. Len(t) : /\ Len(s) + (i - 1) \in 1 .. Len(u)
                              /\ u[Len(s) + (i - 1)] = t[i]
    /\ \A i \in 1 .. Len(u) :
         \/ i \in 1 .. Len(s)
         \/ \E j \in 2 .. Len(t) : i = Len(s) + (j - 1)

\* What Pushed does, index by index.
LEMMA PushShape ==
    ASSUME NEW T, NEW t \in Seq(T), t # <<>>, NEW s \in Seq(T)
    PROVE  PushFact(T, s, t, Pushed(s, t))
<1>1. PICK v : v = Tail(t)
  OBVIOUS
<1>2. /\ v \in Seq(T) /\ Len(v) = Len(t) - 1 /\ Len(t) \in Nat /\ Len(t) >= 1
      /\ \A i \in 1 .. Len(v) : v[i] = t[i + 1]
  BY <1>1
<1>3. PICK u : u = s \o v
  OBVIOUS
<1>4. /\ u \in Seq(T) /\ Len(u) = Len(s) + Len(v) /\ Len(s) \in Nat /\ Len(v) \in Nat
      /\ \A i \in 1 .. Len(u) : u[i] = IF i <= Len(s) THEN s[i] ELSE v[i - Len(s)]
  BY <1>2, <1>3
<1>5. Pushed(s, t) = u
  BY <1>1, <1>3 DEF Pushed
<1>6. ASSUME NEW i \in 2 .. Len(t)
      PROVE  Len(s) + (i - 1) \in 1 .. Len(u) /\ u[Len(s) + (i - 1)] = t[i]
  <2>0. Len(s) \in Nat /\ Len(t) \in Nat
    BY <1>2, <1>4
  <2>1. Len(s) + (i - 1) \in Nat
    BY <2>0
  <2>2. PICK k \in Nat : k = Len(s) + (i - 1)
    BY <2>1
  <2>3. k \in 1 .. Len(u) /\ ~(k <= Len(s)) /\ k - Len(s) \in 1 .. Len(v) /\ (k - Len(s)) + 1 = i
    BY <1>2, <1>4, <2>2
  <2>4. u[k] = v[k - Len(s)] /\ v[k - Len(s)] = t[(k - Len(s)) + 1]
    BY <1>2, <1>4, <2>3
  <2> QED
    BY <2>2, <2>3, <2>4
<1>7. ASSUME NEW i \in 1 .. Len(u), i \notin 1 .. Len(s)
      PROVE  \E j \in 2 .. Len(t) : i = Len(s) + (j - 1)
  <2>1. (i - Len(s)) + 1 \in 2 .. Len(t) /\ i = Len(s) + (((i - Len(s)) + 1) - 1)
    BY <1>2, <1>4, <1>7
  <2> QED
    BY <2>1
<1>8. /\ Len(u) = Len(s) + (Len(t) - 1)
      /\ \A i \in 1 .. Len(s) : i \in 1 .. Len(u) /\ u[i] = s[i]
  BY <1>2, <1>4
<1>9. \A i \in 1 .. Len(u) : i \in 1 .. Len(s) \/ \E j \in 2 .. Len(t) : i = Len(s) + (j - 1)
  BY <1>7
<1>10. \A i \in 2 .. Len(t) : Len(s) + (i - 1) \in 1 .. Len(u) /\ u[Len(s) + (i - 1)] = t[i]
  BY <1>6
<1>11. u \in Seq(T) /\ Len(s) \in Nat /\ Len(t) \in Nat /\ Len(t) >= 1
  BY <1>2, <1>4
<1>12. PushFact(T, s, t, u)
  BY <1>8, <1>9, <1>10, <1>11 DEF PushFact
<1> QED
  BY <1>5, <1>12

\* What appending one item does, index by index.
LEMMA ConcatOne ==
    ASSUME NEW T, NEW a \in Seq(T), NEW x \in T
    PROVE  /\ a \o <<x>> \in Seq(T) /\ Len(a \o <<x>>) = Len(a) + 1 /\ Len(a) \in Nat
           /\ \A i \in 1 .. Len(a) : (a \o <<x>>)[i] = a[i]
           /\ (a \o <<x>>)[Len(a) + 1] = x
<1>1. PICK l \in Nat : l = Len(a)
  OBVIOUS
<1>2. a \o <<x>> = Append(a, x)
  BY AppendIsConcat
<1>3. /\ Append(a, x) \in Seq(T) /\ Len(Append(a, x)) = l + 1
      /\ \A i \in 1 .. l : Append(a, x)[i] = a[i]
      /\ Append(a, x)[l + 1] = x
  BY <1>1
<1> QED
  BY <1>1, <1>2, <1>3

Opened(n) == Each(Visit, Kids(n)) \o <<Item("post", n, <<>>)>>

\* What a pre-visit pushes: the visits of the kids, then the post-visit.
LEMMA OpenedShape ==
    ASSUME tree \in Trees, NEW n \in Nodes
    PROVE  /\ Opened(n) \in Seq(ItemType) /\ Len(Opened(n)) = Len(Kids(n)) + 1
           /\ Len(Kids(n)) \in Nat
           /\ \A i \in 1 .. Len(Kids(n)) :
                /\ Opened(n)[i] = Visit(Kids(n)[i]) /\ Kids(n)[i] \in KidSet(n)
                /\ Kids(n)[i] \in Nodes /\ Opened(n)[i].do = "pre" /\ Opened(n)[i].n = Kids(n)[i]
           /\ Opened(n)[Len(Kids(n)) + 1].do = "post" /\ Opened(n)[Len(Kids(n)) + 1].n = n
<1>1. Kids(n) \in Seq(Nat) /\ Len(Kids(n)) \in Nat
  BY Shape
<1>2. \A i \in 1 .. Len(Kids(n)) : Kids(n)[i] \in KidSet(n) /\ Kids(n)[i] \in Nodes
  BY KidsInOrder, KidIsLater
<1>3. PICK a : a = Each(Visit, Kids(n))
  OBVIOUS
<1>4. a = [i \in 1 .. Len(Kids(n)) |-> Visit(Kids(n)[i])]
  BY <1>3 DEF Each
<1>5. \A i \in 1 .. Len(Kids(n)) : Visit(Kids(n)[i]) \in ItemType
  BY <1>2, VisitFields
<1>6. a \in Seq(ItemType) /\ Len(a) = Len(Kids(n))
      /\ \A i \in 1 .. Len(Kids(n)) : a[i] = Visit(Kids(n)[i])
  BY <1>1, <1>4, <1>5
<1>7. PICK p : p = Item("post", n, <<>>)
  OBVIOUS
<1>8. p \in ItemType /\ p.do = "post" /\ p.n = n
  <2>1. PICK e : e = << >>
    OBVIOUS
  <2>2. e \in Seq(Nodes) /\ "post" \in Dos
    BY <2>1 DEF Dos
  <2>3. p = Item("post", n, e)
    BY <1>7, <2>1
  <2> QED
    BY <2>2, <2>3, ItemFields
<1>9. PICK o : o = a \o <<p>>
  OBVIOUS
<1>10. /\ o \in Seq(ItemType) /\ Len(o) = Len(Kids(n)) + 1
       /\ \A i \in 1 .. Len(Kids(n)) : o[i] = a[i]
       /\ o[Len(Kids(n)) + 1] = p
  <2>1. /\ o \in Seq(ItemType) /\ Len(o) = Len(a) + 1
        /\ \A i \in 1 .. Len(a) : o[i] = a[i]
        /\ o[Len(a) + 1] = p
    <3>1. a \in Seq(ItemType) /\ p \in ItemType
      BY <1>6, <1>8
    <3>2. /\ a \o <<p>> \in Seq(ItemType) /\ Len(a \o <<p>>) = Len(a) + 1
          /\ \A i \in 1 .. Len(a) : (a \o <<p>>)[i] = a[i]
          /\ (a \o <<p>>)[Len(a) + 1] = p
      BY <3>1, ConcatOne
    <3> QED
      BY <1>9, <3>2
  <2>2. Len(a) = Len(Kids(n))
    BY <1>6
  <2> QED
    BY <2>1, <2>2, Zenon
<1>11. Opened(n) = o
  BY <1>3, <1>7, <1>9 DEF Opened
<1>12. \A i \in 1 .. Len(Kids(n)) : o[i].do = "pre" /\ o[i].n = Kids(n)[i]
  BY <1>2, <1>6, <1>10, VisitFields
<1> QED
  BY <1>1, <1>2, <1>6, <1>8, <1>10, <1>11, <1>12

\* A pre-visit keeps the nesting: each node below is still on the stack once.
LEMMA Descending ==
    ASSUME tree \in Trees, NEW t, Passing(t), t # <<>>, t[1].do = "pre"
    PROVE  /\ Passing(Pushed(Opened(t[1].n), t))
           /\ Unposted(Pushed(Opened(t[1].n), t)) = Unposted(t)
           /\ Unvisited(Pushed(Opened(t[1].n), t)) = Unvisited(t) \ {t[1].n}
<1>1. t \in Seq(ItemType) /\ (\A i \in 1 .. Len(t) : t[i] \in ItemType) /\ 1 \in 1 .. Len(t)
  BY DEF Passing
<1>2. PICK n \in Nodes : n = t[1].n
  BY <1>1 DEF ItemType
<1>3. PICK o : o = Opened(n)
  OBVIOUS
<1>4. PICK a \in Nat : a = Len(Kids(n))
  BY Shape
<1>5. /\ o \in Seq(ItemType) /\ Len(o) = a + 1
      /\ \A i \in 1 .. a : /\ Kids(n)[i] \in KidSet(n) /\ Kids(n)[i] \in Nodes
                           /\ o[i].do = "pre" /\ o[i].n = Kids(n)[i]
      /\ o[a + 1].do = "post" /\ o[a + 1].n = n
  BY <1>3, <1>4, OpenedShape
<1>6. PICK u : u = Pushed(o, t)
  OBVIOUS
<1>7. PICK l \in Nat : l = Len(t)
  BY <1>1
<1>8. /\ u \in Seq(ItemType) /\ Len(u) = (a + 1) + (l - 1) /\ l >= 1
      /\ \A i \in 1 .. (a + 1) : i \in 1 .. Len(u) /\ u[i] = o[i]
      /\ \A i \in 2 .. l : /\ (a + 1) + (i - 1) \in 1 .. Len(u)
                           /\ u[(a + 1) + (i - 1)] = t[i]
      /\ \A i \in 1 .. Len(u) :
           \/ i \in 1 .. (a + 1)
           \/ \E j \in 2 .. l : i = (a + 1) + (j - 1)
  <2>1. t \in Seq(ItemType) /\ o \in Seq(ItemType)
    BY <1>1, <1>5
  <2>2. PushFact(ItemType, o, t, u)
    BY <1>6, <2>1, PushShape
  <2>3. Len(o) = a + 1 /\ Len(t) = l
    BY <1>5, <1>7
  <2> QED
    BY <2>2, <2>3 DEF PushFact
\* The new items cover what the old one did.
<1>9. \A i \in 1 .. (a + 1) : Cover(o[i]) \subseteq Below(n) /\ Below(o[i].n) \subseteq Below(n)
  <2>1. TAKE i \in 1 .. (a + 1)
  <2>2. CASE i = a + 1
    BY <1>5, <2>2, BelowSelf DEF Cover
  <2>3. CASE i # a + 1
    <3>1. i \in 1 .. a
      BY <2>3
    <3> QED
      BY <1>5, <3>1, BelowKid DEF Cover
  <2> QED
    BY <2>2, <2>3
<1>10. \A x \in Below(n) : x # n => \E i \in 1 .. a : x \in Below(o[i].n)
  <2>1. TAKE x \in Below(n)
  <2>2. HAVE x # n
  <2>3. PICK k \in KidSet(n) : x \in Below(k)
    BY <2>2, BelowSplit
  <2>4. PICK i \in 1 .. a : k = Kids(n)[i]
    BY <1>4, Shape
  <2> QED
    BY <1>5, <2>3, <2>4
<1>11. Cover(t[1]) = Below(n)
  BY <1>2 DEF Cover
<1>12. Ordered(u)
  <2>1. SUFFICES ASSUME NEW i \in 1 .. Len(u), NEW j \in 1 .. Len(u), i < j
                 PROVE  Before(u[i], u[j])
    BY DEF Ordered
  <2>2. CASE i \in 1 .. a /\ j \in 1 .. a
    <3>1. u[i] = o[i] /\ u[j] = o[j]
      BY <1>8, <2>2
    <3>2. Kids(n)[i] < Kids(n)[j]
      BY <1>4, <2>1, <2>2, KidsInOrder
    <3>3. \A x \in Below(Kids(n)[i]), y \in Below(Kids(n)[j]) : x < y
      BY <1>5, <2>2, <3>2, KidsApart
    <3> QED
      BY <1>5, <2>2, <3>1, <3>3 DEF Before, Cover
  <2>3. CASE i \in 1 .. a /\ j = a + 1
    <3>0. i \in 1 .. (a + 1) /\ j \in 1 .. (a + 1)
      BY <2>3
    <3>1. u[i] = o[i] /\ u[j] = o[j]
      BY <1>8, <3>0
    <3>2. Below(Kids(n)[i]) \subseteq Below(n) /\ n \notin Below(Kids(n)[i])
      BY <1>5, <2>3, BelowKid
    <3> QED
      BY <1>5, <2>3, <3>1, <3>2 DEF Before, Cover
  <2>4. CASE i \in 1 .. (a + 1) /\ j \notin 1 .. (a + 1)
    <3>1. PICK k \in 2 .. l : j = (a + 1) + (k - 1)
      BY <1>8, <2>4
    <3>2. u[j] = t[k] /\ u[i] = o[i]
      BY <1>8, <2>4, <3>1
    <3>3. Before(t[1], t[k])
      BY <1>7, <1>8, <3>1 DEF Passing, Ordered
    <3>4. Cover(o[i]) \subseteq Cover(t[1])
      BY <1>9, <1>11, <2>4
    <3> QED
      BY <3>2, <3>3, <3>4 DEF Before
  <2>5. CASE i \notin 1 .. (a + 1)
    <3>1. PICK k \in 2 .. l : i = (a + 1) + (k - 1)
      BY <1>8, <2>5
    <3>2. j \notin 1 .. (a + 1)
      BY <2>1, <2>5
    <3>3. PICK h \in 2 .. l : j = (a + 1) + (h - 1)
      BY <1>8, <3>2
    <3>4. u[i] = t[k] /\ u[j] = t[h] /\ k < h
      BY <1>8, <2>1, <3>1, <3>3
    <3>5. k \in 1 .. Len(t) /\ h \in 1 .. Len(t)
      BY <1>7, <3>1, <3>3
    <3> QED
      BY <3>4, <3>5 DEF Passing, Ordered
  <2> QED
    BY <2>1, <2>2, <2>3, <2>4, <2>5
<1>13. Complete(u)
  <2>1. SUFFICES ASSUME NEW i \in 1 .. Len(u), NEW m \in Nodes,
                        m > u[i].n, m \notin Below(u[i].n)
                 PROVE  \E j \in 1 .. Len(u) : j > i /\ u[j].do = "pre" /\ m \in Below(u[j].n)
    BY DEF Complete
  <2>2. ASSUME NEW k \in 1 .. l, m > t[k].n, m \notin Below(t[k].n),
               i <= (a + 1) + (k - 1)
        PROVE  \E j \in 1 .. Len(u) : j > i /\ u[j].do = "pre" /\ m \in Below(u[j].n)
    <3>1. PICK h \in 1 .. l : h > k /\ t[h].do = "pre" /\ m \in Below(t[h].n)
      BY <1>7, <2>2 DEF Passing, Complete
    <3>2. h \in 2 .. l /\ (a + 1) + (h - 1) > i
      BY <2>2, <3>1
    <3> QED
      BY <1>8, <3>1, <3>2
  <2>3. CASE i \in 1 .. a
    <3>1. u[i] = o[i] /\ u[i].n = Kids(n)[i] /\ Kids(n)[i] \in KidSet(n)
      BY <1>5, <1>8, <2>3
    <3>2. n < m /\ n \in Nat /\ m \in Nat
      BY <2>1, <3>1, KidIsLater, NodeNat
    <3>3. CASE m \notin Below(n)
      BY <1>2, <1>7, <1>8, <2>2, <2>3, <3>2, <3>3
    <3>4. CASE m \in Below(n)
      <4>1. PICK j \in 1 .. a : m \in Below(o[j].n)
        BY <1>10, <3>2, <3>4
      <4>2. ~(j < i)
        <5>1. ASSUME j < i PROVE FALSE
          <6>1. Kids(n)[j] < Kids(n)[i]
            BY <1>4, <2>3, <4>1, <5>1, KidsInOrder
          <6>2. Kids(n)[i] \in Below(Kids(n)[i]) /\ o[j].n = Kids(n)[j]
            BY <1>5, <2>3, <4>1, BelowSelf
          <6>3. m < Kids(n)[i]
            BY <1>5, <2>3, <4>1, <6>1, <6>2, KidsApart
          <6> QED
            BY <2>1, <3>1, <6>3, NodeNat, KidIsLater
        <5> QED
          BY <5>1
      <4>3. j # i
        BY <2>1, <3>1, <4>1
      <4>4. j > i /\ j \in 1 .. (a + 1)
        BY <2>3, <4>2, <4>3
      <4>5. u[j] = o[j] /\ j \in 1 .. Len(u)
        BY <1>8, <4>4
      <4> QED
        BY <1>5, <4>1, <4>4, <4>5
    <3> QED
      BY <3>3, <3>4
  <2>4. CASE i = a + 1
    <3>1. u[i].n = n
      BY <1>5, <1>8, <2>4
    <3> QED
      BY <1>2, <1>7, <1>8, <2>1, <2>2, <2>4, <3>1
  <2>5. CASE i \notin 1 .. (a + 1)
    <3>1. PICK k \in 2 .. l : i = (a + 1) + (k - 1)
      BY <1>8, <2>5
    <3>2. u[i] = t[k]
      BY <1>8, <3>1
    <3>3. k \in 1 .. l /\ i <= (a + 1) + (k - 1)
      BY <3>1
    <3> QED
      BY <2>1, <2>2, <3>2, <3>3
  <2> QED
    BY <2>3, <2>4, <2>5
<1>18. Closed(u)
  <2>1. SUFFICES ASSUME NEW i \in 1 .. Len(u), NEW p \in Nodes,
                        u[i].n \in Below(p), p # u[i].n
                 PROVE  \E j \in 1 .. Len(u) : j > i /\ u[j].do = "post" /\ u[j].n = p
    BY DEF Closed
  <2>2. ASSUME NEW k \in 1 .. l, t[k].n \in Below(p), p # t[k].n,
               i <= (a + 1) + (k - 1)
        PROVE  \E j \in 1 .. Len(u) : j > i /\ u[j].do = "post" /\ u[j].n = p
    <3>1. PICK h \in 1 .. l : h > k /\ t[h].do = "post" /\ t[h].n = p
      BY <1>7, <2>2 DEF Passing, Closed
    <3>2. h \in 2 .. l /\ (a + 1) + (h - 1) > i
      BY <2>2, <3>1
    <3> QED
      BY <1>8, <3>1, <3>2
  <2>3. CASE i \in 1 .. a
    <3>1. u[i] = o[i] /\ u[i].n = Kids(n)[i] /\ Kids(n)[i] \in KidSet(n)
      BY <1>5, <1>8, <2>3
    <3>2. n \in Below(p)
      BY <2>1, <3>1, ParentBelow
    <3>3. CASE p = n
      <4>1. a + 1 \in 1 .. (a + 1) /\ a + 1 > i
        BY <2>3
      <4>2. a + 1 \in 1 .. Len(u) /\ u[a + 1] = o[a + 1]
        BY <1>8, <4>1
      <4> QED
        BY <1>5, <3>3, <4>1, <4>2
    <3>4. CASE p # n
      <4>1. 1 \in 1 .. l /\ i <= (a + 1) + (1 - 1)
        BY <1>8, <2>3
      <4> QED
        BY <1>2, <2>2, <3>2, <3>4, <4>1
    <3> QED
      BY <3>3, <3>4
  <2>4. CASE i = a + 1
    <3>1. u[i].n = n
      BY <1>5, <1>8, <2>4
    <3>2. 1 \in 1 .. l /\ i <= (a + 1) + (1 - 1)
      BY <1>8, <2>4
    <3> QED
      BY <1>2, <2>1, <2>2, <3>1, <3>2
  <2>5. CASE i \notin 1 .. (a + 1)
    <3>1. PICK k \in 2 .. l : i = (a + 1) + (k - 1)
      BY <1>8, <2>5
    <3>2. u[i] = t[k]
      BY <1>8, <3>1
    <3>3. k \in 1 .. l /\ i <= (a + 1) + (k - 1)
      BY <3>1
    <3> QED
      BY <2>1, <2>2, <3>2, <3>3
  <2> QED
    BY <2>3, <2>4, <2>5
<1>14. \A i \in 1 .. Len(u) : u[i].do \in {"pre", "post"}
  <2>1. TAKE i \in 1 .. Len(u)
  <2>2. CASE i \in 1 .. (a + 1)
    <3>1. i \in 1 .. a \/ i = a + 1
      BY <2>2
    <3>2. u[i] = o[i]
      BY <1>8, <2>2
    <3> QED
      BY <1>5, <3>1, <3>2
  <2>3. CASE i \notin 1 .. (a + 1)
    <3>1. PICK k \in 2 .. l : i = (a + 1) + (k - 1)
      BY <1>8, <2>3
    <3>2. u[i] = t[k] /\ k \in 1 .. Len(t)
      BY <1>7, <1>8, <3>1
    <3> QED
      BY <3>2 DEF Passing
  <2> QED
    BY <2>2, <2>3
<1>15. Passing(u)
  BY <1>8, <1>12, <1>13, <1>14, <1>18 DEF Passing
<1>16. Unposted(u) = Unposted(t)
  <2>1. ASSUME NEW i \in 1 .. Len(u), NEW x \in Cover(u[i]) PROVE x \in Unposted(t)
    <3>1. CASE i \in 1 .. (a + 1)
      <4>1. x \in Cover(t[1])
        BY <1>8, <1>9, <1>11, <2>1, <3>1
      <4> QED
        BY <1>1, <4>1 DEF Unposted
    <3>2. CASE i \notin 1 .. (a + 1)
      <4>1. PICK k \in 2 .. l : i = (a + 1) + (k - 1)
        BY <1>8, <3>2
      <4>2. u[i] = t[k] /\ k \in 1 .. Len(t)
        BY <1>7, <1>8, <4>1
      <4> QED
        BY <2>1, <4>2 DEF Unposted
    <3> QED
      BY <3>1, <3>2
  <2>2. ASSUME NEW i \in 1 .. Len(t), NEW x \in Cover(t[i]) PROVE x \in Unposted(u)
    <3>1. CASE i = 1 /\ x = n
      <4>1. x \in Cover(o[a + 1]) /\ a + 1 \in 1 .. (a + 1)
        BY <1>5, <3>1 DEF Cover
      <4> QED
        BY <1>8, <4>1 DEF Unposted
    <3>2. CASE i = 1 /\ x # n
      <4>1. PICK k \in 1 .. a : x \in Below(o[k].n)
        BY <1>10, <1>11, <2>2, <3>2
      <4>2. x \in Cover(o[k]) /\ k \in 1 .. (a + 1)
        BY <1>5, <4>1 DEF Cover
      <4> QED
        BY <1>8, <4>2 DEF Unposted
    <3>3. CASE i # 1
      <4>1. i \in 2 .. l
        BY <1>7, <3>3
      <4> QED
        BY <1>8, <2>2, <4>1 DEF Unposted
    <3> QED
      BY <3>1, <3>2, <3>3
  <2> QED
    BY <2>1, <2>2 DEF Unposted
<1>17. Unvisited(u) = Unvisited(t) \ {n}
  <2>1. ASSUME NEW i \in 1 .. Len(u), u[i].do = "pre", NEW x \in Below(u[i].n)
        PROVE  x \in Unvisited(t) /\ x # n
    <3>1. CASE i \in 1 .. (a + 1)
      <4>0. i \in 1 .. a /\ u[i] = o[i]
        BY <1>5, <1>8, <2>1, <3>1
      <4>1. x \in Below(n) /\ x # n
        BY <1>5, <2>1, <4>0, BelowKid
      <4> QED
        BY <1>1, <1>2, <4>1 DEF Unvisited
    <3>2. CASE i \notin 1 .. (a + 1)
      <4>1. PICK k \in 2 .. l : i = (a + 1) + (k - 1)
        BY <1>8, <3>2
      <4>2. u[i] = t[k] /\ k \in 1 .. Len(t) /\ 1 < k
        BY <1>7, <1>8, <4>1
      <4>3. Before(t[1], t[k])
        BY <1>1, <4>2 DEF Passing, Ordered
      <4>4. n \in Cover(t[1]) /\ n \in Nat
        BY <1>11, BelowSelf, NodeNat
      <4>5. n < x
        BY <2>1, <4>2, <4>3, <4>4 DEF Before
      <4> QED
        BY <2>1, <4>2, <4>4, <4>5 DEF Unvisited
    <3> QED
      BY <3>1, <3>2
  <2>2. ASSUME NEW i \in 1 .. Len(t), t[i].do = "pre", NEW x \in Below(t[i].n), x # n
        PROVE  x \in Unvisited(u)
    <3>1. CASE i = 1
      <4>1. PICK k \in 1 .. a : x \in Below(o[k].n)
        BY <1>2, <1>10, <2>2, <3>1
      <4>2. u[k] = o[k] /\ k \in 1 .. Len(u) /\ o[k].do = "pre"
        BY <1>5, <1>8, <4>1
      <4> QED
        BY <4>1, <4>2 DEF Unvisited
    <3>2. CASE i # 1
      <4>1. i \in 2 .. l
        BY <1>7, <3>2
      <4> QED
        BY <1>8, <2>2, <4>1 DEF Unvisited
    <3> QED
      BY <3>1, <3>2
  <2>3. Unvisited(u) \subseteq Unvisited(t) \ {n}
    BY <2>1 DEF Unvisited
  <2>4. Unvisited(t) \ {n} \subseteq Unvisited(u)
    <3>1. SUFFICES ASSUME NEW x \in Unvisited(t), x # n PROVE x \in Unvisited(u)
      OBVIOUS
    <3>2. PICK i \in 1 .. Len(t) : t[i].do = "pre" /\ x \in Below(t[i].n)
      BY DEF Unvisited
    <3> QED
      BY <2>2, <3>1, <3>2
  <2> QED
    BY <2>3, <2>4
<1> QED
  BY <1>2, <1>3, <1>6, <1>15, <1>16, <1>17

\* A node is posted after everything below it.
LEMMA AncestorsUnposted ==
    ASSUME tree \in Trees, NEW t, Passing(t), NEW m \in Unposted(t), NEW p \in Nodes, m \in Below(p)
    PROVE  p \in Unposted(t)
<1>1. PICK i \in 1 .. Len(t) : m \in Cover(t[i])
  BY DEF Unposted
<1>2. t[i] \in ItemType /\ t[i].n \in Nodes
  <2>1. t[i] \in ItemType
    BY DEF Passing
  <2> QED
    BY <2>1 DEF ItemType
<1>3. ASSUME t[i].n \in Below(p), p # t[i].n PROVE p \in Unposted(t)
  <2>1. PICK j \in 1 .. Len(t) : t[j].do = "post" /\ t[j].n = p
    BY <1>3 DEF Passing, Closed
  <2> QED
    BY <2>1 DEF Unposted, Cover
<1>4. CASE t[i].do # "pre"
  <2>1. m = t[i].n
    BY <1>1, <1>4 DEF Cover
  <2> QED
    BY <1>1, <1>3, <2>1 DEF Unposted
<1>5. CASE t[i].do = "pre"
  <2>1. Cover(t[i]) = Below(t[i].n)
    BY <1>5 DEF Cover
  <2>2. m \in Nodes /\ m \in Nat /\ p \in Nat /\ t[i].n \in Nat /\ p <= m /\ t[i].n <= m
    BY <1>1, <1>2, <2>1, BelowSelf, NodeNat
  <2>3. CASE t[i].n <= p
    <3>1. p \in Below(t[i].n)
      BY <1>1, <1>2, <2>1, <2>2, <2>3, BelowInterval
    <3> QED
      BY <2>1, <3>1 DEF Unposted
  <2>4. CASE p < t[i].n
    BY <1>2, <1>3, <2>2, <2>4, BelowInterval
  <2> QED
    BY <2>2, <2>3, <2>4
<1> QED
  BY <1>4, <1>5

\* What the nesting says of the node on top: all below and all later is unvisited.
LEMMA TopFacts ==
    ASSUME tree \in Trees, NEW t, Passing(t), t # <<>>
    PROVE  /\ t[1] \in ItemType /\ t[1].n \in Nodes /\ t[1].n \in Unposted(t)
           /\ t[1].do = "pre" => Below(t[1].n) \subseteq Unvisited(t)
           /\ Unvisited(t) \subseteq Unposted(t) /\ Unposted(t) \subseteq Nodes
           /\ \A m \in Nodes : m > t[1].n /\ m \notin Below(t[1].n) => m \in Unvisited(t)
<1>1. t \in Seq(ItemType) /\ 1 \in 1 .. Len(t) /\ \A i \in 1 .. Len(t) : t[i] \in ItemType
  BY DEF Passing
<1>2. \A i \in 1 .. Len(t) : t[i].n \in Nodes
  BY <1>1 DEF ItemType
<1>3. t[1].n \in Unposted(t)
  BY <1>1, <1>2, BelowSelf DEF Unposted, Cover
<1>4. t[1].do = "pre" => Below(t[1].n) \subseteq Unvisited(t)
  BY <1>1 DEF Unvisited
<1>5. Unvisited(t) \subseteq Unposted(t)
  BY DEF Unvisited, Unposted, Cover
<1>6. Unposted(t) \subseteq Nodes
  BY <1>2, BelowSelf DEF Unposted, Cover
<1>7. \A m \in Nodes : m > t[1].n /\ m \notin Below(t[1].n) => m \in Unvisited(t)
  BY <1>1 DEF Passing, Complete, Unvisited
<1> QED
  BY <1>1, <1>2, <1>3, <1>4, <1>5, <1>6, <1>7

-----------------------------------------------------------------------------
(* SlotAllocator.  A cell is handed out or free, never both, and never     *)
(* twice on the free list; so the list is no longer than the cells made.   *)

Cells(s) == {s.free[i] : i \in 1 .. Len(s.free)}

Sound(s) ==
    /\ s.free \in Seq(Nat) /\ s.bump \in Nat /\ s.live \in Int /\ s.peak = s.bump
    /\ s.live + Len(s.free) = s.bump
    /\ s = [free |-> s.free, bump |-> s.bump, live |-> s.live, peak |-> s.peak, got |-> s.got]
    /\ \A i, j \in 1 .. Len(s.free) : s.free[i] = s.free[j] => i = j
    /\ \A i \in 1 .. Len(s.free) : s.free[i] >= SlotsBase /\ s.free[i] < SlotsBase + s.bump

\* The count of live cells of a sound allocator is not negative.
LEMMA FreeFits ==
    ASSUME NEW s, Sound(s), SlotsBase \in Nat
    PROVE  s.live >= 0
<1>1. PICK l \in Nat : l = Len(s.free)
  BY DEF Sound
<1>2. PICK b \in Nat : b = s.bump
  BY DEF Sound
<1>3. \A i \in 1 .. l : s.free[i] \in SlotsBase .. (SlotsBase + b - 1)
  <2>1. TAKE i \in 1 .. l
  <2>2. PICK q \in Seq(Nat) : q = s.free
    BY DEF Sound
  <2>3. PICK x \in Nat : x = q[i]
    BY <1>1, <2>2
  <2>4. x >= SlotsBase /\ x < SlotsBase + b
    BY <1>1, <1>2, <2>2, <2>3 DEF Sound
  <2>5. x \in SlotsBase .. (SlotsBase + b - 1)
    BY <2>4
  <2> QED
    BY <2>2, <2>3, <2>5
<1>4. IsFiniteSet(1 .. l) /\ Cardinality(1 .. l) = l
  BY FS_Interval
<1>5. IsFiniteSet(1 .. b) /\ Cardinality(1 .. b) = b
  BY FS_Interval
<1>6. PICK f : f = [i \in 1 .. l |-> s.free[i] - SlotsBase + 1]
  OBVIOUS
<1>7. f \in Injection(1 .. l, 1 .. b)
  <2>1. f \in [1 .. l -> 1 .. b]
    BY <1>3, <1>6
  <2>2. \A i, j \in 1 .. l : f[i] = f[j] => i = j
    <3>1. TAKE i, j \in 1 .. l
    <3>2. HAVE f[i] = f[j]
    <3>3. s.free[i] = s.free[j]
      <4>1. PICK x \in Int : x = s.free[i]
        BY <1>3
      <4>2. PICK y \in Int : y = s.free[j]
        BY <1>3
      <4>3. PICK c \in Nat : c = SlotsBase
        OBVIOUS
      <4>4. f[i] = x - c + 1 /\ f[j] = y - c + 1
        BY <1>6, <4>1, <4>2, <4>3
      <4>5. x - c + 1 = y - c + 1
        BY <3>2, <4>4
      <4>6. x = y
        BY <4>5
      <4> QED
        BY <4>1, <4>2, <4>6
    <3> QED
      BY <1>1, <3>3 DEF Sound
  <2> QED
    BY <2>1, <2>2 DEF Injection, IsInjective
<1>8. l <= b
  BY <1>4, <1>5, <1>7, FS_Injection
<1> QED
  BY <1>1, <1>2, <1>8 DEF Sound

\* Acquire hands out a cell that is not on the list it leaves.
LEMMA Acquiring ==
    ASSUME NEW s, Sound(s), SlotsBase \in Nat
    PROVE  /\ Sound(Acquire(s)) /\ Cells(Acquire(s)) \subseteq Cells(s)
           /\ Acquire(s).bump >= s.bump
           /\ Acquire(s).got \notin Cells(Acquire(s))
           /\ Acquire(s).got \in Cells(s) \/ Acquire(s).got = SlotsBase + s.bump
           /\ Acquire(s).got \in Nat /\ Acquire(s).got >= SlotsBase
           /\ Acquire(s).got < SlotsBase + Acquire(s).bump
           /\ s.free = <<>> => Acquire(s).free = <<>>
<1>1. PICK r : r = Acquire(s)
  OBVIOUS
<1>2. PICK l \in Nat : l = Len(s.free)
  BY DEF Sound
<1>3. PICK b \in Nat : b = s.bump
  BY DEF Sound
<1>4. PICK v \in Int : v = s.live
  BY DEF Sound
<1>5. v + l = b
  BY <1>2, <1>3, <1>4 DEF Sound
<1>6. CASE s.free # <<>>
  <2>1. l >= 1
    BY <1>2, <1>6 DEF Sound
  <2>2. PICK f : f = SubSeq(s.free, 1, l - 1)
    OBVIOUS
  <2>3. f \in Seq(Nat) /\ Len(f) = l - 1 /\ \A i \in 1 .. (l - 1) : f[i] = s.free[i]
    <3>1. PICK q : q = s.free
      OBVIOUS
    <3>2. q \in Seq(Nat) /\ Len(q) = l /\ f = SubSeq(q, 1, l - 1)
      BY <1>2, <2>2, <3>1 DEF Sound
    <3>3. SubSeq(q, 1, l - 1) \in Seq(Nat) /\ Len(SubSeq(q, 1, l - 1)) = l - 1
          /\ \A i \in 1 .. (l - 1) : SubSeq(q, 1, l - 1)[i] = q[i]
      BY <2>1, <3>2
    <3> QED
      BY <3>1, <3>2, <3>3
  <2>4. r = [s EXCEPT !.free = f, !.live = v + 1, !.got = s.free[l]]
    BY <1>1, <1>2, <1>4, <1>6, <2>2 DEF Acquire
  <2>5. r = [free |-> f, bump |-> b, live |-> v + 1, peak |-> b, got |-> s.free[l]]
    BY <1>3, <2>4 DEF Sound
  <2>6. /\ r.free = f /\ r.bump = b /\ r.live = v + 1 /\ r.peak = b /\ r.got = s.free[l]
    BY <2>5
  <2>7. l \in 1 .. l /\ \A i \in 1 .. (l - 1) : i \in 1 .. l /\ i # l
    BY <2>1
  <2>8. \A i \in 1 .. l : /\ s.free[i] \in Nat /\ s.free[i] >= SlotsBase
                          /\ s.free[i] < SlotsBase + b
    BY <1>2, <1>3 DEF Sound
  <2>9. \A i, j \in 1 .. l : s.free[i] = s.free[j] => i = j
    BY <1>2 DEF Sound
  <2>10. Sound(r)
    <3>1. r.live + Len(r.free) = r.bump
      BY <1>5, <2>3, <2>6
    <3>2. \A i, j \in 1 .. Len(r.free) : r.free[i] = r.free[j] => i = j
      BY <2>3, <2>6, <2>7, <2>9
    <3>3. \A i \in 1 .. Len(r.free) : r.free[i] >= SlotsBase /\ r.free[i] < SlotsBase + r.bump
      BY <2>3, <2>6, <2>7, <2>8
    <3> QED
      BY <2>3, <2>5, <2>6, <3>1, <3>2, <3>3 DEF Sound
  <2>11. Cells(r) \subseteq Cells(s)
    BY <1>2, <2>3, <2>6, <2>7, Zenon DEF Cells
  <2>12. r.got \notin Cells(r)
    BY <2>3, <2>6, <2>7, <2>9 DEF Cells
  <2>13. r.got \in Cells(s)
    BY <1>2, <2>6, <2>7 DEF Cells
  <2>14. r.bump >= s.bump /\ r.got \in Nat /\ r.got >= SlotsBase /\ r.got < SlotsBase + r.bump
    BY <1>3, <2>6, <2>7, <2>8
  <2> QED
    BY <1>1, <1>6, <2>10, <2>11, <2>12, <2>13, <2>14
<1>7. CASE s.free = <<>>
  <2>1. l = 0 /\ v = b
    BY <1>2, <1>5, <1>7
  <2>2. Max({b, v + 1}) = b + 1
    <3>1. {b, v + 1} = {b, b + 1}
      BY <2>1
    <3>2. \A x \in {b, b + 1} : (\A y \in {b, b + 1} : x >= y) => x = b + 1
      OBVIOUS
    <3>3. b + 1 \in {b, b + 1} /\ \A y \in {b, b + 1} : b + 1 >= y
      OBVIOUS
    <3> QED
      BY <3>1, <3>2, <3>3 DEF Max
  <2>3. r = [s EXCEPT !.bump = b + 1, !.live = v + 1, !.peak = Max({b, v + 1}),
                      !.got = SlotsBase + b]
    BY <1>1, <1>3, <1>4, <1>7 DEF Acquire, Sound
  <2>4. r = [free |-> s.free, bump |-> b + 1, live |-> v + 1, peak |-> b + 1, got |-> SlotsBase + b]
    BY <2>2, <2>3 DEF Sound
  <2>5. r.free = s.free /\ r.bump = b + 1 /\ r.live = v + 1 /\ r.peak = b + 1 /\ r.got = SlotsBase + b
    BY <2>4
  <2>6. Sound(r)
    <3>1. Len(r.free) = 0 /\ r.free \in Seq(Nat)
      BY <1>2, <2>1, <2>5 DEF Sound
    <3>2. r.live + Len(r.free) = r.bump
      BY <2>1, <2>5, <3>1
    <3>3. 1 .. Len(r.free) = {}
      BY <3>1
    <3>4. r = [free |-> r.free, bump |-> r.bump, live |-> r.live, peak |-> r.peak, got |-> r.got]
      BY <2>4, <2>5
    <3>5. r.bump \in Nat /\ r.live \in Int /\ r.peak = r.bump
      BY <2>5
    <3> QED
      BY <3>1, <3>2, <3>3, <3>4, <3>5 DEF Sound
  <2>7. Cells(r) = {} /\ Cells(s) = {}
    <3>1. 1 .. Len(s.free) = {} /\ r.free = s.free
      BY <1>2, <2>1, <2>5
    <3> QED
      BY <3>1 DEF Cells
  <2>8. r.bump >= s.bump /\ r.got \in Nat /\ r.got >= SlotsBase /\ r.got < SlotsBase + r.bump
    BY <1>3, <2>5
  <2> QED
    BY <1>1, <1>3, <1>7, <2>5, <2>6, <2>7, <2>8
<1> QED
  BY <1>6, <1>7

\* One call of ReleaseIfWorkspaceSlot.
Giving(s, k) ==
    IF storage[k].kind # "slot" THEN s
    ELSE [s EXCEPT !.free = Append(@, storage[k].at), !.live = @ - 1]

Releasing(f, s, ks, n) ==
    f = [i \in 0 .. n |-> IF i = 0 THEN s ELSE Giving(f[i - 1], ks[i])]

\* The recursive function behind Release exists.
LEMMA ReleasingExists ==
    ASSUME NEW s, NEW ks, Len(ks) \in Nat
    PROVE  \E f : Releasing(f, s, ks, Len(ks))
<1> DEFINE Missing == {n \in Nat : ~ \E f : Releasing(f, s, ks, n)}
<1>1. SUFFICES ASSUME Missing # {} PROVE FALSE
  OBVIOUS
<1>2. PICK n \in Missing : \A j \in Missing : n <= j
  BY <1>1, LeastIndex
<1>3. n # 0
  <2>1. PICK f : f = [i \in 0 .. 0 |-> s]
    OBVIOUS
  <2>2. Releasing(f, s, ks, 0)
    BY <2>1 DEF Releasing
  <2> QED
    BY <2>2, <1>2
<1>4. n \in Nat /\ n - 1 \in Nat /\ n - 1 \notin Missing
  BY <1>2, <1>3
<1>5. PICK f : Releasing(f, s, ks, n - 1)
  BY <1>4
<1>6. PICK x : x = Giving(f[n - 1], ks[n])
  OBVIOUS
<1>7. PICK g : g = [i \in 0 .. n |-> IF i = n THEN x ELSE f[i]]
  OBVIOUS
<1>8. PICK h : h = [i \in 0 .. n |-> IF i = 0 THEN s ELSE Giving(g[i - 1], ks[i])]
  OBVIOUS
<1>9. ASSUME NEW i \in 0 .. n PROVE g[i] = h[i]
  <2>1. CASE i = n
    <3>1. g[n - 1] = f[n - 1]
      BY <1>4, <1>7
    <3>2. h[n] = Giving(g[n - 1], ks[n])
      BY <1>3, <1>4, <1>8
    <3> QED
      BY <2>1, <3>1, <3>2, <1>4, <1>6, <1>7
  <2>2. CASE i # n /\ i = 0
    <3>1. f[0] = s
      BY <1>4, <1>5 DEF Releasing
    <3> QED
      BY <2>2, <3>1, <1>4, <1>7, <1>8
  <2>3. CASE i # n /\ i # 0
    <3>1. i \in 0 .. n - 1 /\ i - 1 \in 0 .. n /\ i - 1 # n
      BY <2>3, <1>4
    <3>2. f[i] = Giving(f[i - 1], ks[i])
      BY <2>3, <3>1, <1>5 DEF Releasing
    <3>3. g[i] = f[i] /\ g[i - 1] = f[i - 1]
      BY <2>3, <3>1, <1>7
    <3>4. h[i] = Giving(g[i - 1], ks[i])
      BY <2>3, <1>8
    <3> QED
      BY <3>2, <3>3, <3>4
  <2> QED
    BY <2>1, <2>2, <2>3
<1>10. g = h
  BY <1>7, <1>8, <1>9
<1>11. Releasing(g, s, ks, n)
  BY <1>8, <1>10 DEF Releasing
<1> QED
  BY <1>2, <1>11

\* Giving back a cell that is not on the list.
LEMMA GivingOne ==
    ASSUME NEW s, Sound(s), SlotsBase \in Nat, NEW k, storage[k].kind = "slot",
           storage[k].at \in Nat, storage[k].at >= SlotsBase,
           storage[k].at < SlotsBase + s.bump, storage[k].at \notin Cells(s)
    PROVE  /\ Sound(Giving(s, k)) /\ Cells(Giving(s, k)) = Cells(s) \cup {storage[k].at}
           /\ Giving(s, k).bump = s.bump
<1>1. PICK a \in Nat : a = storage[k].at
  OBVIOUS
<1>2. PICK q : q = s.free
  OBVIOUS
<1>5. q \in Seq(Nat)
  BY <1>2 DEF Sound
<1>3. PICK l \in Nat : l = Len(q)
  BY <1>5
<1>4. PICK f : f = Append(q, a)
  OBVIOUS
<1>6. f \in Seq(Nat) /\ Len(f) = l + 1 /\ (\A i \in 1 .. l : f[i] = q[i]) /\ f[l + 1] = a
  BY <1>1, <1>3, <1>4, <1>5
<1>7. PICK r : r = Giving(s, k)
  OBVIOUS
<1>8. PICK v \in Int : v = s.live
  BY DEF Sound
<1>9. PICK b \in Nat : b = s.bump
  BY DEF Sound
<1>10. s = [free |-> q, bump |-> b, live |-> v, peak |-> b, got |-> s.got]
  BY <1>2, <1>8, <1>9 DEF Sound
<1>11. r = [s EXCEPT !.free = f, !.live = v - 1]
  BY <1>1, <1>2, <1>4, <1>7, <1>8 DEF Giving
<1>12. r = [free |-> f, bump |-> b, live |-> v - 1, peak |-> b, got |-> s.got]
  <2>1. PICK g : g = s.got
    OBVIOUS
  <2>2. s = [free |-> q, bump |-> b, live |-> v, peak |-> b, got |-> g]
    BY <1>10, <2>1
  <2>3. [s EXCEPT !.free = f] = [free |-> f, bump |-> b, live |-> v, peak |-> b, got |-> g]
    BY <2>2
  <2>4. r = [[s EXCEPT !.free = f] EXCEPT !.live = v - 1]
    BY <1>11, <2>2
  <2> QED
    BY <2>1, <2>3, <2>4
<1>13. r.free = f /\ r.bump = b /\ r.live = v - 1 /\ r.peak = b /\ r.got = s.got
  BY <1>12
<1>14. \A i \in 1 .. l : q[i] # a
  BY <1>1, <1>2, <1>3 DEF Cells
<1>15. v + l = b
  BY <1>2, <1>3, <1>8, <1>9 DEF Sound
<1>16. \A i, j \in 1 .. l : q[i] = q[j] => i = j
  BY <1>2, <1>3 DEF Sound
<1>17. \A i \in 1 .. l : q[i] >= SlotsBase /\ q[i] < SlotsBase + b
  BY <1>2, <1>3, <1>9 DEF Sound
<1>18. \A i \in 1 .. (l + 1) : i \in 1 .. l \/ i = l + 1
  OBVIOUS
<1>19. \A i, j \in 1 .. (l + 1) : f[i] = f[j] => i = j
  BY <1>6, <1>14, <1>16, <1>18
<1>20. \A i \in 1 .. (l + 1) : f[i] >= SlotsBase /\ f[i] < SlotsBase + b
  BY <1>1, <1>6, <1>9, <1>17, <1>18
<1>21. Sound(r)
  <2>1. r.live + Len(r.free) = r.bump
    BY <1>6, <1>13, <1>15
  <2>2. r = [free |-> r.free, bump |-> r.bump, live |-> r.live, peak |-> r.peak, got |-> r.got]
    BY <1>12, <1>13
  <2>3. r.free \in Seq(Nat) /\ r.bump \in Nat /\ r.live \in Int /\ r.peak = r.bump
    BY <1>6, <1>13
  <2>4. 1 .. Len(r.free) = 1 .. (l + 1)
    BY <1>6, <1>13
  <2> QED
    BY <1>13, <1>19, <1>20, <2>1, <2>2, <2>3, <2>4 DEF Sound
<1>22. Cells(r) = Cells(s) \cup {a}
  <2>1. Cells(r) = {f[i] : i \in 1 .. (l + 1)}
    BY <1>6, <1>13 DEF Cells
  <2>2. Cells(s) = {q[i] : i \in 1 .. l}
    BY <1>2, <1>3 DEF Cells
  <2>3. {f[i] : i \in 1 .. (l + 1)} \subseteq {q[i] : i \in 1 .. l} \cup {a}
    BY <1>6, <1>18
  <2>4. {q[i] : i \in 1 .. l} \cup {a} \subseteq {f[i] : i \in 1 .. (l + 1)}
    BY <1>6
  <2> QED
    BY <2>1, <2>2, <2>3, <2>4
<1> QED
  BY <1>1, <1>7, <1>9, <1>13, <1>21, <1>22

\* The cells of ks are out and all different.
InCells(ks) == {j \in 1 .. Len(ks) : storage[ks[j]].kind = "slot"}
Returnable(s, ks) ==
    /\ \A j \in InCells(ks) : /\ storage[ks[j]].at \in Nat /\ storage[ks[j]].at >= SlotsBase
                              /\ storage[ks[j]].at < SlotsBase + s.bump
                              /\ storage[ks[j]].at \notin Cells(s)
    /\ \A i, j \in InCells(ks) : storage[ks[i]].at = storage[ks[j]].at => i = j

\* Releasing cells that are out and distinct frees exactly these.
LEMMA ReleasingAll ==
    ASSUME NEW s, Sound(s), SlotsBase \in Nat, NEW ks, Len(ks) \in Nat, Returnable(s, ks)
    PROVE  /\ Sound(Release(s, ks)) /\ Release(s, ks).bump = s.bump
           /\ Cells(Release(s, ks)) = Cells(s) \cup {storage[ks[j]].at : j \in InCells(ks)}
<1>0. PICK J : /\ J = InCells(ks) /\ J = {j \in 1 .. Len(ks) : storage[ks[j]].kind = "slot"}
               /\ \A j \in J : /\ storage[ks[j]].at \in Nat /\ storage[ks[j]].at >= SlotsBase
                               /\ storage[ks[j]].at < SlotsBase + s.bump
                               /\ storage[ks[j]].at \notin Cells(s)
               /\ \A i, j \in J : storage[ks[i]].at = storage[ks[j]].at => i = j
  BY DEF Returnable, InCells
<1>1. PICK f : f = CHOOSE g : Releasing(g, s, ks, Len(ks))
  OBVIOUS
<1>2. Releasing(f, s, ks, Len(ks))
  BY <1>1, ReleasingExists
<1>3. Release(s, ks) = f[Len(ks)]
  BY <1>1, Zenon DEF Release, Releasing, Giving
<1> DEFINE Given(n) == {storage[ks[j]].at : j \in {i \in J : i <= n}}
           Fine(n)  == /\ Sound(f[n]) /\ f[n].bump = s.bump
                       /\ Cells(f[n]) = Cells(s) \cup Given(n)
           Bad == {n \in 0 .. Len(ks) : ~Fine(n)}
<1>4. ASSUME Bad # {} PROVE FALSE
  <2>0. Bad \subseteq Nat
    BY DEF Bad
  <2>1. PICK n \in Bad : \A m \in Bad : n <= m
    BY <1>4, <2>0, LeastIndex
  <2>2. n # 0
    <3>1. f[0] = s
      BY <1>2 DEF Releasing
    <3>2. Given(0) = {}
      BY <1>0
    <3> QED
      BY <2>1, <3>1, <3>2
  <2>3. n \in 0 .. Len(ks) /\ n - 1 \in 0 .. Len(ks) /\ n \in 1 .. Len(ks) /\ n - 1 \notin Bad
    BY <2>1, <2>2
  <2>4. Fine(n - 1)
    BY <2>3
  <2>5. f[n] = Giving(f[n - 1], ks[n])
    BY <1>2, <2>2, <2>3 DEF Releasing
  <2>6. PICK r : r = f[n - 1]
    OBVIOUS
  <2>7. Sound(r) /\ r.bump = s.bump /\ Cells(r) = Cells(s) \cup Given(n - 1)
    BY <2>4, <2>6
  <2>8. CASE n \notin J
    <3>1. f[n] = r
      BY <1>0, <2>3, <2>5, <2>6, <2>8 DEF Giving
    <3>2. {i \in J : i <= n} = {i \in J : i <= n - 1}
      BY <1>0, <2>3, <2>8
    <3>3. Given(n) = Given(n - 1)
      BY <3>2
    <3> QED
      BY <2>1, <2>7, <3>1, <3>3
  <2>9. CASE n \in J
    <3>1. {i \in J : i <= n} = {i \in J : i <= n - 1} \cup {n}
      BY <1>0, <2>3, <2>9
    <3>2. Given(n) = Given(n - 1) \cup {storage[ks[n]].at}
      BY <3>1
    <3>3. storage[ks[n]].at \notin Given(n - 1)
      <4>1. \A i \in J : i <= n - 1 => i # n
        BY <2>3
      <4> QED
        BY <1>0, <2>9, <4>1
    <3>4. storage[ks[n]].at \notin Cells(r)
      BY <1>0, <2>7, <2>9, <3>3
    <3>5. /\ storage[ks[n]].kind = "slot" /\ storage[ks[n]].at \in Nat
          /\ storage[ks[n]].at >= SlotsBase /\ storage[ks[n]].at < SlotsBase + r.bump
      BY <1>0, <2>7, <2>9
    <3>6. /\ Sound(Giving(r, ks[n])) /\ Cells(Giving(r, ks[n])) = Cells(r) \cup {storage[ks[n]].at}
          /\ Giving(r, ks[n]).bump = r.bump
      BY <2>7, <3>4, <3>5, GivingOne
    <3>7. Cells(f[n]) = Cells(s) \cup Given(n)
      BY <2>5, <2>6, <2>7, <3>2, <3>6
    <3> QED
      BY <2>1, <2>5, <2>6, <2>7, <3>6, <3>7
  <2> QED
    BY <2>8, <2>9
<1>5. Fine(Len(ks))
  BY <1>4
<1>6. {i \in J : i <= Len(ks)} = J
  BY <1>0
<1>7. Given(Len(ks)) = {storage[ks[j]].at : j \in InCells(ks)}
  BY <1>0, <1>6
<1> QED
  BY <1>3, <1>5, <1>7

-----------------------------------------------------------------------------
(* What the layout passes keep.  A cell is held from the visit that hands  *)
(* it out to the visit that releases it; cells held by two nodes differ,   *)
(* and none of them is on the free list.                                   *)

VarType == [name : STRING, role : {"iter", "iter2", "accu", "free"}, of : Nat, moves : BOOLEAN]
Passes  == {"select", "aggregate", "locals"}
Later   == {"emit", "run", "done", "crash"}

Slotted == {n \in Nodes : storage[n].kind = "slot"}

\* The nodes whose consumer has been laid out and has given their cell back.
Spends(p) ==
    \/ Op(p) = "select" /\ (stage = "select" => p \notin Unposted(todo))
    \/ /\ Op(p) \in Calls \cup Aggregates \cup {"dyn"}
       /\ stage = "aggregate" /\ p \notin Unposted(todo)
Spent == {n \in Nodes : \E p \in Nodes : /\ n \in KidSet(p) /\ Spends(p)
                                         /\ Op(p) = "select" => Op(n) = "select"}
Held == Slotted \ Spent

Apart(X) ==
    /\ \A n \in X : storage[n].at \notin Cells(Slots)
    /\ \A m, n \in X : storage[m].at = storage[n].at => m = n

Fitting == \A n \in Slotted : /\ storage[n].at \in Nat /\ storage[n].at >= SlotsBase
                              /\ storage[n].at < SlotsBase + bump

Typed ==
    /\ tree \in Trees /\ variables \in Seq(VarType)
    /\ storage = [n \in Nodes |-> storage[n]]
    /\ stage \in {"resolve"} \cup Passes \cup Later

SelectsPlaced == \A n \in Slotted : Op(n) = "select" /\ n \notin Unposted(todo)
NodesPlaced ==
    \A n \in Slotted :
        \/ Op(n) = "select"
        \/ Op(n) \in Aggregates /\ n \notin Unvisited(todo)
        \/ Op(n) \in Calls \cup {"dyn"} /\ n \notin Unposted(todo)

LayoutInv ==
    /\ Typed /\ Sound(Slots) /\ Fitting
    /\ stage = "resolve" => /\ todo \in Seq(ItemType) /\ free = <<>> /\ bump = 0
                            /\ live = 0 /\ Slotted = {}
    /\ stage \in Passes => Passing(todo)
    /\ stage = "select" => SelectsPlaced
    /\ stage = "aggregate" => NodesPlaced
    /\ stage \in {"select", "aggregate"} => Apart(Held)

\* The first cell of the workspace is an address.
LEMMA BaseNat ==
    ASSUME variables \in Seq(VarType)
    PROVE  SlotsBase \in Nat
<1>1. PICK l \in Nat : l = Len(variables) /\ DOMAIN variables = 1 .. l
  OBVIOUS
<1>2. IsFiniteSet(1 .. l)
  BY <1>1, FS_Interval
<1>3. {i \in DOMAIN variables : ~variables[i].moves} \subseteq 1 .. l
  BY <1>1
<1>4. IsFiniteSet({i \in DOMAIN variables : ~variables[i].moves})
  BY <1>2, <1>3, FS_Subset
<1>5. Cardinality({i \in DOMAIN variables : ~variables[i].moves}) \in Nat
  BY <1>4, FS_CardinalityType
<1> QED
  BY <1>5 DEF SlotsBase

\* It depends on the variables only.
LEMMA SameBase ==
    ASSUME variables' = variables
    PROVE  SlotsBase' = SlotsBase /\ \A s : Sound(s)' <=> Sound(s)
<1>1. SlotsBase' = SlotsBase
  BY DEF SlotsBase
<1> QED
  BY <1>1 DEF Sound

\* The allocator's fields, whatever was handed out last.
LEMMA SoundFields ==
    ASSUME NEW s, Sound(s), NEW t,
           t = [free |-> s.free, bump |-> s.bump, live |-> s.live, peak |-> s.peak, got |-> 0]
    PROVE  Sound(t) /\ Cells(t) = Cells(s)
<1>1. /\ t.free = s.free /\ t.bump = s.bump /\ t.live = s.live /\ t.peak = s.peak /\ t.got = 0
  OBVIOUS
<1>2. t = [free |-> t.free, bump |-> t.bump, live |-> t.live, peak |-> t.peak, got |-> t.got]
  BY <1>1
<1> QED
  BY <1>1, <1>2 DEF Sound, Cells

\* An allocator that is sound after an operation is sound as the next state's.
LEMMA AllocatorSound ==
    ASSUME NEW s, Sound(s), Allocator(s), variables' = variables
    PROVE  /\ Sound(Slots)' /\ Cells(Slots)' = Cells(s) /\ bump' = s.bump
<1>1. PICK t : t = Slots'
  OBVIOUS
<1>2. t = [free |-> s.free, bump |-> s.bump, live |-> s.live, peak |-> s.peak, got |-> 0]
  BY <1>1 DEF Slots, Allocator
<1>3. Sound(t) /\ Cells(t) = Cells(s)
  BY <1>2, SoundFields
<1>4. Sound(Slots)'
  BY <1>1, <1>3, SameBase DEF Sound
<1>5. Cells(Slots)' = Cells(t)
  BY <1>1 DEF Cells
<1> QED
  BY <1>3, <1>4, <1>5 DEF Allocator

\* The fields of the allocator's state.
LEMMA Slots0 == Slots.bump = bump /\ Slots.free = free /\ Slots.live = live /\ Slots.peak = peak
  BY DEF Slots

\* Storing a cell from s on p, next to cells that are not on the list of s.
LEMMA Stamping ==
    ASSUME Typed, Fitting, tree' = tree, variables' = variables,
           NEW p \in Nodes, NEW s, Sound(s), s.bump = bump, Stamp(p, Acquire(s)),
           NEW X \in SUBSET Slotted, p \notin X, \A n \in X : storage[n].at \notin Cells(s),
           \A m, n \in X : storage[m].at = storage[n].at => m = n
    PROVE  /\ Sound(Slots)' /\ Fitting' /\ Slotted' = Slotted \cup {p}
           /\ storage' = [n \in Nodes |-> storage'[n]]
           /\ \A n \in Nodes : n # p => storage'[n] = storage[n]
           /\ storage'[p].kind = "slot" /\ Apart(X \cup {p})'
<1>1. PICK g : g = Acquire(s)
  OBVIOUS
<1>2. SlotsBase \in Nat /\ SlotsBase' = SlotsBase
  BY BaseNat, SameBase DEF Typed
<1>3. /\ Sound(g) /\ Cells(g) \subseteq Cells(s) /\ g.bump >= s.bump /\ g.got \notin Cells(g)
      /\ g.got \in Cells(s) \/ g.got = SlotsBase + s.bump
      /\ g.got \in Nat /\ g.got >= SlotsBase /\ g.got < SlotsBase + g.bump
  BY <1>1, <1>2, Acquiring
<1>4. Allocator(g) /\ storage' = [storage EXCEPT ![p] = Slot(g.got)]
  BY <1>1 DEF Stamp
<1>5. Sound(Slots)' /\ Cells(Slots)' = Cells(g) /\ bump' = g.bump
  BY <1>3, <1>4, AllocatorSound
<1>6. Nodes' = Nodes
  BY SameTree
<1>7. /\ storage' = [n \in Nodes |-> storage'[n]]
      /\ \A n \in Nodes : n # p => storage'[n] = storage[n]
      /\ storage'[p].kind = "slot" /\ storage'[p].at = g.got
  <2>1. DOMAIN storage = Nodes
    BY DEF Typed
  <2>2. storage' = [n \in Nodes |-> IF n = p THEN Slot(g.got) ELSE storage[n]]
    BY <1>4, <2>1
  <2>3. Slot(g.got).kind = "slot" /\ Slot(g.got).at = g.got
    BY DEF Slot
  <2> QED
    BY <2>2, <2>3
<1>8. Slotted' = Slotted \cup {p}
  BY <1>6, <1>7 DEF Slotted
<1>9. Fitting'
  <2>1. ASSUME NEW n \in Slotted \cup {p}
        PROVE  storage'[n].at \in Nat /\ storage'[n].at >= SlotsBase /\ storage'[n].at < SlotsBase + bump'
    <3>1. CASE n = p
      BY <1>3, <1>5, <1>7, <3>1
    <3>2. CASE n # p
      <4>1. n \in Slotted /\ n \in Nodes
        BY <2>1, <3>2 DEF Slotted
      <4>2. storage[n].at \in Nat /\ storage[n].at >= SlotsBase /\ storage[n].at < SlotsBase + bump
        BY <4>1 DEF Fitting
      <4>3. storage'[n] = storage[n]
        BY <1>7, <3>2, <4>1
      <4>4. bump \in Nat /\ bump' \in Nat /\ bump' >= bump
        BY <1>3, <1>5 DEF Sound
      <4> QED
        BY <1>2, <4>2, <4>3, <4>4
    <3> QED
      BY <3>1, <3>2
  <2> QED
    BY <1>2, <1>8, <2>1 DEF Fitting
<1>10. \A n \in X : n \in Nodes /\ n # p /\ storage'[n].at = storage[n].at
  BY <1>7 DEF Slotted
<1>11. \A n \in X : storage[n].at # g.got
  <2>1. TAKE n \in X
  <2>2. storage[n].at \notin Cells(s) /\ storage[n].at \in Nat /\ storage[n].at < SlotsBase + bump
    BY DEF Fitting
  <2>3. bump \in Nat
    BY DEF Sound
  <2> QED
    BY <1>2, <1>3, <2>2, <2>3
<1>12. \A n \in X : storage'[n].at \notin Cells(g)
  BY <1>3, <1>10
<1>13. \A n \in X \cup {p} : storage'[n].at \notin Cells(Slots)'
  BY <1>3, <1>5, <1>7, <1>12
<1>14. \A m, n \in X \cup {p} : storage'[m].at = storage'[n].at => m = n
  BY <1>7, <1>10, <1>11
<1> QED
  BY <1>5, <1>7, <1>8, <1>9, <1>13, <1>14 DEF Apart

\* Giving the cells of a node's kids back, all of them held.
LEMMA Handing ==
    ASSUME Typed, Sound(Slots), Fitting, NEW H \in SUBSET Slotted, Apart(H), NEW p \in Nodes,
           KidSet(p) \cap Slotted \subseteq H
    PROVE  /\ Sound(Release(Slots, Kids(p))) /\ Release(Slots, Kids(p)).bump = bump
           /\ \A n \in H \ KidSet(p) : storage[n].at \notin Cells(Release(Slots, Kids(p)))
<1>1. PICK ks : ks = Kids(p)
  OBVIOUS
<1>2. tree \in Trees /\ SlotsBase \in Nat
  BY BaseNat DEF Typed
<1>3. ks \in Seq(Nat) /\ Len(ks) \in Nat /\ KidSet(p) = {ks[i] : i \in 1 .. Len(ks)}
  BY <1>1, <1>2, Shape
<1>4. KidSet(p) \subseteq Nodes
  BY <1>2, KidIsLater
<1>5. PICK J : J = {j \in 1 .. Len(ks) : storage[ks[j]].kind = "slot"} /\ J = InCells(ks)
  BY DEF InCells
<1>6. \A j \in J : ks[j] \in KidSet(p) /\ ks[j] \in Slotted /\ ks[j] \in H
  BY <1>3, <1>4, <1>5 DEF Slotted
<1>7. \A j \in J : /\ storage[ks[j]].at \in Nat /\ storage[ks[j]].at >= SlotsBase
                   /\ storage[ks[j]].at < SlotsBase + Slots.bump
                   /\ storage[ks[j]].at \notin Cells(Slots)
  BY <1>6, Slots0 DEF Fitting, Apart
<1>8. \A i, j \in J : storage[ks[i]].at = storage[ks[j]].at => i = j
  <2>1. TAKE i, j \in J
  <2>2. HAVE storage[ks[i]].at = storage[ks[j]].at
  <2>3. ks[i] = ks[j]
    BY <1>6, <2>2 DEF Apart
  <2>4. i \in 1 .. Len(ks) /\ j \in 1 .. Len(ks)
    BY <1>5
  <2> QED
    BY <1>1, <1>2, <2>3, <2>4, KidsInOrder
<1>9. /\ Sound(Release(Slots, ks)) /\ Release(Slots, ks).bump = Slots.bump
      /\ Cells(Release(Slots, ks)) = Cells(Slots) \cup {storage[ks[j]].at : j \in J}
  <2>1. PICK s : s = Slots
    OBVIOUS
  <2>2. \A j \in J : /\ storage[ks[j]].at \in Nat /\ storage[ks[j]].at >= SlotsBase
                     /\ storage[ks[j]].at < SlotsBase + s.bump
                     /\ storage[ks[j]].at \notin Cells(s)
    BY <1>7, <2>1
  <2>3. Sound(s)
    BY <2>1
  <2>4. Returnable(s, ks)
    BY <1>5, <1>8, <2>2 DEF Returnable
  <2>5. /\ Sound(Release(s, ks)) /\ Release(s, ks).bump = s.bump
        /\ Cells(Release(s, ks)) = Cells(s) \cup {storage[ks[j]].at : j \in InCells(ks)}
    BY <1>2, <1>3, <2>3, <2>4, ReleasingAll
  <2> QED
    BY <1>5, <2>1, <2>5
<1>10. ASSUME NEW n \in H \ KidSet(p) PROVE storage[n].at \notin Cells(Release(Slots, ks))
  <2>1. storage[n].at \notin Cells(Slots)
    BY DEF Apart
  <2>2. \A j \in J : storage[ks[j]].at # storage[n].at
    BY <1>6 DEF Apart
  <2> QED
    BY <1>9, <2>1, <2>2
<1> QED
  BY <1>1, <1>9, <1>10, Slots0

-----------------------------------------------------------------------------
(* LayoutInv, action by action *)

\* What a visit of p gives back: exactly the cells of its kids.
LEMMA SpentGrows ==
    ASSUME Typed, tree' = tree, stage' = stage, NEW p \in Nodes,
           Unposted(todo)' = Unposted(todo) \ {p}
    PROVE  /\ Spent \subseteq Spent' /\ Nodes' = Nodes
           /\ \A n \in KidSet(p) : Spends(p)' /\ (Op(p) = "select" => Op(n) = "select") => n \in Spent'
<1>1. /\ Nodes' = Nodes
      /\ \A n : Op(n)' = Op(n) /\ KidSet(n)' = KidSet(n)
  BY SameTree
<1>2. \A q \in Nodes : Spends(q) => Spends(q)'
  BY <1>1 DEF Spends
<1>3. KidSet(p) \subseteq Nodes
  BY KidIsLater DEF Typed
<1>4. Spent \subseteq Spent'
  BY <1>1, <1>2 DEF Spent
<1>5. ASSUME NEW n \in KidSet(p), Spends(p)', Op(p) = "select" => Op(n) = "select" PROVE n \in Spent'
  BY <1>1, <1>3, <1>5 DEF Spent
<1> QED
  BY <1>1, <1>4, <1>5

\* Fewer nodes are apart if more are.
LEMMA FewerApart ==
    ASSUME NEW X, NEW Y, Y \subseteq X, Apart(X)
    PROVE  Apart(Y)
  BY DEF Apart

\* A kid whose parent has not been laid out is not spent.
LEMMA KidUnspent ==
    ASSUME tree \in Trees, NEW p \in Nodes, NEW n \in KidSet(p), ~Spends(p)
    PROVE  n \notin Spent
  BY OneParent DEF Spent

\* A pass over the tree begins.
LEMMA PassStarts ==
    ASSUME tree \in Trees, tree' = tree, todo' = <<Visit(1)>>
    PROVE  Passing(todo)' /\ Unposted(todo)' = Nodes /\ Unvisited(todo)' = Nodes
<1>1. Passing(todo') /\ Unposted(todo') = Nodes /\ Unvisited(todo') = Nodes
  BY Starting
<1> QED
  BY <1>1, SamePassing

\* Descend and Push(<<>>) on the stack of a pass.
LEMMA PassDescends ==
    ASSUME tree \in Trees, tree' = tree, Passing(todo), todo # <<>>, Top.do = "pre", Descend(Top.n)
    PROVE  /\ Passing(todo)' /\ Unposted(todo)' = Unposted(todo)
           /\ Unvisited(todo)' = Unvisited(todo) \ {Top.n}
           /\ Top.n \in Nodes /\ Top.n \in Unvisited(todo)
<1>1. todo' = Pushed(Opened(Top.n), todo)
  BY DEF Descend, Push, Pushed, Opened
<1>2. /\ Passing(todo') /\ Unposted(todo') = Unposted(todo)
      /\ Unvisited(todo') = Unvisited(todo) \ {Top.n}
  BY <1>1, Descending DEF Top
<1>3. Top.n \in Nodes /\ Top.n \in Unvisited(todo)
  BY TopFacts, BelowSelf DEF Top
<1> QED
  BY <1>2, <1>3, SamePassing

\* A post-visit takes its node off the unposted ones, and no other.
LEMMA PassPosts ==
    ASSUME tree \in Trees, tree' = tree, Passing(todo), todo # <<>>, Top.do = "post", Push(<<>>)
    PROVE  /\ Passing(todo)' /\ Unposted(todo)' = Unposted(todo) \ {Top.n}
           /\ Unvisited(todo)' = Unvisited(todo)
           /\ Top.n \in Nodes /\ Top.n \in Unposted(todo)
<1>1. todo' = Tail(todo)
  BY DEF Push, Passing
<1>2. /\ Passing(todo') /\ Unposted(todo') = Unposted(todo) \ {Top.n}
      /\ Unvisited(todo') = Unvisited(todo)
  BY <1>1, Popping DEF Top
<1>3. Top.n \in Nodes /\ Top.n \in Unposted(todo)
  BY TopFacts DEF Top
<1> QED
  BY <1>2, <1>3, SamePassing

\* What holds of the layout does not depend on the stack.
LEMMA SameLayout ==
    ASSUME Typed, UNCHANGED layoutVars
    PROVE  /\ tree' = tree /\ variables' = variables /\ Slotted' = Slotted /\ storage' = storage
           /\ Slots' = Slots /\ SlotsBase' = SlotsBase
           /\ stage' \in {"resolve"} \cup Passes \cup Later => Typed'
           /\ (Sound(Slots) => Sound(Slots)') /\ (Fitting => Fitting')
           /\ \A X : Apart(X)' <=> Apart(X)
<1>1. tree' = tree /\ variables' = variables /\ storage' = storage /\ Slots' = Slots /\ bump' = bump
  BY DEF layoutVars, nameVars, Slots
<1>2. Nodes' = Nodes
  BY <1>1, SameTree
<1>3. Slotted' = Slotted
  BY <1>1, <1>2 DEF Slotted
<1>4. SlotsBase' = SlotsBase
  BY <1>1, SameBase
<1>5. Cells(Slots)' = Cells(Slots)
  BY <1>1 DEF Cells
<1>6. Sound(Slots) => Sound(Slots)'
  BY <1>1, <1>4 DEF Sound
<1>7. Fitting => Fitting'
  BY <1>1, <1>3, <1>4 DEF Fitting
<1>8. \A X : Apart(X)' <=> Apart(X)
  BY <1>1, <1>5 DEF Apart
<1>9. stage' \in {"resolve"} \cup Passes \cup Later => Typed'
  BY <1>1, <1>2 DEF Typed
<1> QED
  BY <1>1, <1>3, <1>4, <1>6, <1>7, <1>8, <1>9

\* Once the layout is made, code runs and changes none of it.
LEMMA LayoutStays ==
    ASSUME LayoutInv, UNCHANGED layoutVars, stage' \in Later
    PROVE  LayoutInv'
<1>1. Typed' /\ Sound(Slots)' /\ Fitting'
  BY SameLayout DEF LayoutInv
<1>2. stage' \notin {"resolve", "select", "aggregate", "locals"}
  BY DEF Later
<1> QED
  BY <1>1, <1>2 DEF LayoutInv, Passes

\* The select pass on the way down.
LEMMA SelectPreKeeps ==
    ASSUME LayoutInv, SelectPre
    PROVE  LayoutInv'
<1>1. /\ stage = "select" /\ stage' = "select" /\ todo # <<>> /\ Top.do = "pre" /\ Descend(Top.n)
      /\ UNCHANGED layoutVars
  BY DEF SelectPre, Doing
<1>2. tree \in Trees /\ tree' = tree /\ Passing(todo) /\ SelectsPlaced /\ Apart(Held)
  BY <1>1 DEF LayoutInv, Passes, Typed, layoutVars, nameVars
<1>3. Passing(todo)' /\ Unposted(todo)' = Unposted(todo)
  BY <1>1, <1>2, PassDescends
<1>4. Typed' /\ Sound(Slots)' /\ Fitting' /\ Slotted' = Slotted /\ \A X : Apart(X)' <=> Apart(X)
  BY <1>1, SameLayout DEF LayoutInv, Passes
<1>5. \A n : Op(n)' = Op(n) /\ KidSet(n)' = KidSet(n)
  BY <1>2, SameTree
<1>6. Nodes' = Nodes
  BY <1>2, SameTree
<1>7. SelectsPlaced'
  BY <1>2, <1>3, <1>4, <1>5 DEF SelectsPlaced
<1>8. \A p : Spends(p)' <=> Spends(p)
  BY <1>1, <1>3, <1>5 DEF Spends
<1>9. Held' = Held
  BY <1>4, <1>5, <1>6, <1>8 DEF Held, Spent
<1>10. Apart(Held)'
  BY <1>2, <1>4, <1>9 DEF Apart
<1> QED
  BY <1>1, <1>3, <1>4, <1>7, <1>10 DEF LayoutInv, Passes

\* The select pass on the way up: the operand's cell goes back, one is taken.
LEMMA SelectPostKeeps ==
    ASSUME LayoutInv, SelectPost
    PROVE  LayoutInv'
<1>1. /\ stage = "select" /\ stage' = "select" /\ todo # <<>> /\ Top.do = "post" /\ Push(<<>>)
      /\ UNCHANGED nameVars
      /\ IF Op(Top.n) = "select" THEN Stamp(Top.n, Acquire(Release(Slots, Kids(Top.n))))
         ELSE UNCHANGED <<storage, allocVars>>
  BY DEF SelectPost, Doing
<1>2. /\ Typed /\ Sound(Slots) /\ Fitting /\ tree \in Trees /\ tree' = tree
      /\ variables' = variables /\ Passing(todo) /\ SelectsPlaced /\ Apart(Held)
  BY <1>1 DEF LayoutInv, Passes, Typed, nameVars
<1>3. PICK p : p = Top.n
  OBVIOUS
<1>4. /\ Passing(todo)' /\ Unposted(todo)' = Unposted(todo) \ {p} /\ p \in Nodes
      /\ p \in Unposted(todo)
  BY <1>1, <1>2, <1>3, PassPosts
<1>5. Spent \subseteq Spent' /\ Nodes' = Nodes
      /\ \A n \in KidSet(p) : Spends(p)' /\ (Op(p) = "select" => Op(n) = "select") => n \in Spent'
  BY <1>1, <1>2, <1>4, SpentGrows
<1>6. \A n : Op(n)' = Op(n)
  BY <1>2, SameTree
<1>7. CASE Op(p) # "select"
  <2>1. UNCHANGED layoutVars
    BY <1>1, <1>3, <1>7 DEF layoutVars, nameVars, allocVars
  <2>2. Typed' /\ Sound(Slots)' /\ Fitting' /\ Slotted' = Slotted /\ \A X : Apart(X)' <=> Apart(X)
    BY <1>1, <1>2, <2>1, SameLayout DEF Passes
  <2>3. SelectsPlaced'
    BY <1>2, <1>4, <1>6, <2>2 DEF SelectsPlaced
  <2>4. Held' \subseteq Held
    BY <1>5, <2>2 DEF Held
  <2>5. Apart(Held)'
    BY <1>2, <2>2, <2>4, FewerApart DEF Apart
  <2> QED
    BY <1>1, <1>4, <2>2, <2>3, <2>5 DEF LayoutInv, Passes
<1>8. CASE Op(p) = "select"
  <2>1. PICK H : H = Held
    OBVIOUS
  <2>2. H \in SUBSET Slotted /\ Apart(H)
    BY <1>2, <2>1 DEF Held
  <2>3. ~Spends(p)
    BY <1>1, <1>4, <1>8 DEF Spends, Calls, Aggregates
  <2>4. KidSet(p) \cap Slotted \subseteq H
    BY <1>2, <1>4, <2>1, <2>3, KidUnspent DEF Held
  <2>5. PICK s : s = Release(Slots, Kids(p))
    OBVIOUS
  <2>6. Sound(s) /\ s.bump = bump /\ \A n \in H \ KidSet(p) : storage[n].at \notin Cells(s)
    BY <1>2, <1>4, <2>2, <2>4, <2>5, Handing
  <2>7. PICK X : X = H \ KidSet(p)
    OBVIOUS
  <2>8. X \in SUBSET Slotted /\ p \notin X /\ \A n \in X : storage[n].at \notin Cells(s)
    BY <1>2, <1>4, <2>2, <2>6, <2>7 DEF SelectsPlaced
  <2>9. \A m, n \in X : storage[m].at = storage[n].at => m = n
    BY <2>2, <2>7 DEF Apart
  <2>10. Stamp(p, Acquire(s))
    BY <1>1, <1>3, <1>8, <2>5
  <2>11. /\ Sound(Slots)' /\ Fitting' /\ Slotted' = Slotted \cup {p}
         /\ storage' = [n \in Nodes |-> storage'[n]] /\ Apart(X \cup {p})'
    BY <1>2, <1>4, <2>6, <2>8, <2>9, <2>10, Stamping
  <2>12. SelectsPlaced'
    BY <1>2, <1>4, <1>6, <1>8, <2>11 DEF SelectsPlaced
  <2>13. Typed'
    BY <1>1, <1>2, <1>5, <2>11 DEF Typed
  <2>14. Spends(p)'
    BY <1>4, <1>6, <1>8 DEF Spends
  <2>15. Held' \subseteq X \cup {p}
    <3>1. SUFFICES ASSUME NEW n, n \in Held', n # p PROVE n \in X
      OBVIOUS
    <3>2. n \in Slotted' /\ n \notin Spent'
      BY <3>1 DEF Held
    <3>3. n \in Slotted /\ n \notin Spent
      BY <1>5, <2>11, <3>1, <3>2
    <3>4. Op(n) = "select"
      BY <1>2, <3>3 DEF SelectsPlaced
    <3>5. n \notin KidSet(p)
      BY <1>5, <2>14, <3>2, <3>4
    <3> QED
      BY <2>1, <2>7, <3>3, <3>5 DEF Held
  <2>16. Apart(Held)'
    BY <2>11, <2>15 DEF Apart
  <2> QED
    BY <1>1, <1>4, <2>11, <2>12, <2>13, <2>16 DEF LayoutInv, Passes
<1> QED
  BY <1>7, <1>8

\* The aggregate pass on the way down: a list, map or message takes its cell.
LEMMA AggregatePreKeeps ==
    ASSUME LayoutInv, AggregatePre
    PROVE  LayoutInv'
<1>1. /\ stage = "aggregate" /\ stage' = "aggregate" /\ todo # <<>> /\ Top.do = "pre"
      /\ Descend(Top.n) /\ UNCHANGED nameVars /\ PreVisitExpr(Top.n)
  BY DEF AggregatePre, Doing
<1>2. /\ Typed /\ Sound(Slots) /\ Fitting /\ tree \in Trees /\ tree' = tree
      /\ variables' = variables /\ Passing(todo) /\ NodesPlaced /\ Apart(Held)
  BY <1>1 DEF LayoutInv, Passes, Typed, nameVars
<1>3. PICK p : p = Top.n
  OBVIOUS
<1>4. /\ Passing(todo)' /\ Unposted(todo)' = Unposted(todo)
      /\ Unvisited(todo)' = Unvisited(todo) \ {p} /\ p \in Nodes /\ p \in Unvisited(todo)
  BY <1>1, <1>2, <1>3, PassDescends
<1>5. \A n : Op(n)' = Op(n) /\ KidSet(n)' = KidSet(n)
  BY <1>2, SameTree
<1>6. Nodes' = Nodes
  BY <1>2, SameTree
<1>7. \A q : Spends(q)' <=> Spends(q)
  BY <1>1, <1>4, <1>5 DEF Spends
<1>8. Spent' = Spent
  BY <1>5, <1>6, <1>7 DEF Spent
<1>9. CASE ~ (Op(p) \in Aggregates /\ storage[p].kind # "rodata")
  <2>1. UNCHANGED layoutVars
    BY <1>1, <1>3, <1>9 DEF PreVisitExpr, layoutVars, nameVars, allocVars
  <2>2. Typed' /\ Sound(Slots)' /\ Fitting' /\ Slotted' = Slotted /\ \A X : Apart(X)' <=> Apart(X)
    BY <1>1, <1>2, <2>1, SameLayout DEF Passes
  <2>3. NodesPlaced'
    BY <1>2, <1>4, <1>5, <2>2 DEF NodesPlaced
  <2>4. Held' = Held
    BY <1>8, <2>2 DEF Held
  <2>5. Apart(Held)'
    BY <1>2, <2>2, <2>4 DEF Apart
  <2> QED
    BY <1>1, <1>4, <2>2, <2>3, <2>5 DEF LayoutInv, Passes
<1>10. CASE Op(p) \in Aggregates /\ storage[p].kind # "rodata"
  <2>1. Stamp(p, Acquire(Slots))
    BY <1>1, <1>3, <1>10 DEF PreVisitExpr
  <2>2. p \in Unposted(todo) /\ Op(p) # "select" /\ Op(p) \notin Calls \cup {"dyn"}
    BY <1>1, <1>2, <1>3, <1>10, TopFacts DEF Top, Aggregates, Calls
  <2>3. p \notin Slotted
    BY <1>2, <1>4, <2>2 DEF NodesPlaced
  <2>4. PICK X : X = Held
    OBVIOUS
  <2>5. X \in SUBSET Slotted /\ p \notin X
    BY <2>3, <2>4 DEF Held
  <2>6. PICK s : s = Slots
    OBVIOUS
  <2>7. /\ \A n \in X : storage[n].at \notin Cells(s)
        /\ \A m, n \in X : storage[m].at = storage[n].at => m = n
    BY <1>2, <2>4, <2>6 DEF Apart
  <2>8. Sound(s) /\ s.bump = bump /\ Stamp(p, Acquire(s))
    BY <1>2, <2>1, <2>6, Slots0
  <2>9. /\ Sound(Slots)' /\ Fitting' /\ Slotted' = Slotted \cup {p}
        /\ storage' = [n \in Nodes |-> storage'[n]] /\ Apart(X \cup {p})'
    BY <1>2, <1>4, <2>5, <2>7, <2>8, Stamping
  <2>10. NodesPlaced'
    BY <1>2, <1>4, <1>5, <1>10, <2>9 DEF NodesPlaced
  <2>11. Typed'
    BY <1>1, <1>2, <1>6, <2>9 DEF Typed
  <2>12. Held' \subseteq X \cup {p}
    BY <1>8, <2>4, <2>9 DEF Held
  <2>13. Apart(Held)'
    BY <2>9, <2>12 DEF Apart
  <2> QED
    BY <1>1, <1>4, <2>9, <2>10, <2>11, <2>13 DEF LayoutInv, Passes
<1> QED
  BY <1>9, <1>10

\* The aggregate pass on the way up.
LEMMA AggregatePostKeeps ==
    ASSUME LayoutInv, AggregatePost
    PROVE  LayoutInv'
<1>1. /\ stage = "aggregate" /\ stage' = "aggregate" /\ todo # <<>> /\ Top.do = "post"
      /\ Push(<<>>) /\ UNCHANGED nameVars /\ PostVisit(Top.n)
  BY DEF AggregatePost, Doing
<1>2. /\ Typed /\ Sound(Slots) /\ Fitting /\ tree \in Trees /\ tree' = tree
      /\ variables' = variables /\ Passing(todo) /\ NodesPlaced /\ Apart(Held)
  BY <1>1 DEF LayoutInv, Passes, Typed, nameVars
<1>3. PICK p : p = Top.n
  OBVIOUS
<1>4. /\ Passing(todo)' /\ Unposted(todo)' = Unposted(todo) \ {p}
      /\ Unvisited(todo)' = Unvisited(todo) /\ p \in Nodes /\ p \in Unposted(todo)
  BY <1>1, <1>2, <1>3, PassPosts
<1>5. Spent \subseteq Spent' /\ Nodes' = Nodes
      /\ \A n \in KidSet(p) : Spends(p)' /\ (Op(p) = "select" => Op(n) = "select") => n \in Spent'
  BY <1>1, <1>2, <1>4, SpentGrows
<1>6. \A n : Op(n)' = Op(n)
  BY <1>2, SameTree
<1>7. PICK H : H = Held
  OBVIOUS
<1>8. H \in SUBSET Slotted /\ Apart(H)
  BY <1>2, <1>7 DEF Held
<1>9. ASSUME Op(p) \in Calls \cup Aggregates \cup {"dyn"}
      PROVE  /\ Spends(p)' /\ KidSet(p) \cap Slotted \subseteq H
             /\ \A n \in KidSet(p) : n \in Spent'
  <2>1. ~Spends(p) /\ Op(p) # "select"
    BY <1>4, <1>9 DEF Spends, Calls, Aggregates
  <2>2. Spends(p)'
    BY <1>1, <1>4, <1>6, <1>9 DEF Spends
  <2>3. KidSet(p) \cap Slotted \subseteq H
    BY <1>2, <1>4, <1>7, <2>1, KidUnspent DEF Held
  <2> QED
    BY <1>5, <2>1, <2>2, <2>3
<1>10. CASE Op(p) \notin Calls \cup Aggregates \cup {"dyn"}
  <2>1. UNCHANGED layoutVars
    BY <1>1, <1>3, <1>10 DEF PostVisit, layoutVars, nameVars, allocVars
  <2>2. Typed' /\ Sound(Slots)' /\ Fitting' /\ Slotted' = Slotted /\ \A X : Apart(X)' <=> Apart(X)
    BY <1>1, <1>2, <2>1, SameLayout DEF Passes
  <2>3. NodesPlaced'
    BY <1>2, <1>4, <1>6, <2>2 DEF NodesPlaced
  <2>4. Held' \subseteq Held
    BY <1>5, <2>2 DEF Held
  <2>5. Apart(Held)'
    BY <1>2, <2>2, <2>4, FewerApart DEF Apart
  <2> QED
    BY <1>1, <1>4, <2>2, <2>3, <2>5 DEF LayoutInv, Passes
<1>11. CASE Op(p) \in Calls \cup Aggregates
  <2>1. PICK s : s = Release(Slots, Kids(p))
    OBVIOUS
  <2>2. Sound(s) /\ s.bump = bump /\ \A n \in H \ KidSet(p) : storage[n].at \notin Cells(s)
    BY <1>2, <1>4, <1>8, <1>9, <1>11, <2>1, Handing
  <2>3. PICK X : X = H \ KidSet(p)
    OBVIOUS
  <2>4. \A m, n \in X : storage[m].at = storage[n].at => m = n
    BY <1>8, <2>3 DEF Apart
  <2>5. CASE Op(p) \in Aggregates
    <3>1. Allocator(s) /\ storage' = storage
      <4>1. Op(p) \notin Calls /\ Op(p) # "dyn"
        BY <2>5 DEF Calls, Aggregates
      <4>2. PostVisit(p)
        BY <1>1, <1>3
      <4> QED
        BY <2>1, <2>5, <4>1, <4>2 DEF PostVisit
    <3>2. Sound(Slots)' /\ Cells(Slots)' = Cells(s) /\ bump' = bump
      BY <1>2, <2>2, <3>1, AllocatorSound
    <3>3. Slotted' = Slotted /\ SlotsBase' = SlotsBase
      BY <1>2, <1>5, <3>1, SameBase DEF Slotted
    <3>4. Fitting'
      BY <1>2, <3>1, <3>2, <3>3 DEF Fitting
    <3>5. NodesPlaced'
      BY <1>2, <1>4, <1>6, <3>3 DEF NodesPlaced
    <3>6. Typed'
      BY <1>1, <1>2, <1>5, <3>1 DEF Typed
    <3>7. Held' \subseteq X
      <4>1. SUFFICES ASSUME NEW n, n \in Held' PROVE n \in X
        OBVIOUS
      <4>2. n \in Slotted /\ n \notin Spent' /\ n \notin Spent
        BY <1>5, <3>3, <4>1 DEF Held
      <4>3. n \notin KidSet(p)
        BY <1>9, <1>11, <4>2
      <4> QED
        BY <1>7, <2>3, <4>2, <4>3 DEF Held
    <3>8. Apart(Held)'
      BY <2>2, <2>3, <2>4, <3>1, <3>2, <3>7 DEF Apart
    <3> QED
      BY <1>1, <1>4, <3>2, <3>4, <3>5, <3>6, <3>8 DEF LayoutInv, Passes
  <2>6. CASE Op(p) \notin Aggregates
    <3>1. Op(p) \in Calls
      BY <1>11, <2>6
    <3>2. Stamp(p, Acquire(s))
      <4>1. Op(p) # "dyn"
        BY <3>1 DEF Calls
      <4>2. PostVisit(p)
        BY <1>1, <1>3
      <4> QED
        BY <2>1, <2>6, <3>1, <4>1, <4>2 DEF PostVisit
    <3>3. p \notin Slotted
      BY <1>2, <1>4, <2>6, <3>1 DEF NodesPlaced, Calls
    <3>4. X \in SUBSET Slotted /\ p \notin X /\ \A n \in X : storage[n].at \notin Cells(s)
      BY <1>8, <2>2, <2>3, <3>3
    <3>5. /\ Sound(Slots)' /\ Fitting' /\ Slotted' = Slotted \cup {p}
          /\ storage' = [n \in Nodes |-> storage'[n]] /\ Apart(X \cup {p})'
      BY <1>2, <1>4, <2>2, <2>4, <3>2, <3>4, Stamping
    <3>6. NodesPlaced'
      BY <1>2, <1>4, <1>6, <3>1, <3>5 DEF NodesPlaced
    <3>7. Typed'
      BY <1>1, <1>2, <1>5, <3>5 DEF Typed
    <3>8. Held' \subseteq X \cup {p}
      <4>1. SUFFICES ASSUME NEW n, n \in Held', n # p PROVE n \in X
        OBVIOUS
      <4>2. n \in Slotted /\ n \notin Spent' /\ n \notin Spent
        BY <1>5, <3>5, <4>1 DEF Held
      <4>3. n \notin KidSet(p)
        BY <1>9, <1>11, <4>2
      <4> QED
        BY <1>7, <2>3, <4>2, <4>3 DEF Held
    <3>9. Apart(Held)'
      BY <3>5, <3>8 DEF Apart
    <3> QED
      BY <1>1, <1>4, <3>5, <3>6, <3>7, <3>9 DEF LayoutInv, Passes
  <2> QED
    BY <2>5, <2>6
<1>12. CASE Op(p) = "dyn"
  <2>1. Kids(p) \in Seq(Nat) /\ Len(Kids(p)) = 1
    BY <1>2, <1>4, <1>12, Shape DEF Arity
  <2>2. PICK k : k = Kid(p, 1)
    OBVIOUS
  <2>3. k \in KidSet(p)
    <3>1. k = Kids(p)[1] /\ 1 \in 1 .. Len(Kids(p))
      BY <2>1, <2>2 DEF Kid, Kids
    <3> QED
      BY <1>2, <1>4, <3>1, KidsInOrder
  <2>4. k \in Nodes /\ k # p
    BY <1>2, <1>4, <2>3, KidIsLater
  <2>5. storage' = [storage EXCEPT ![p] = storage[k]] /\ UNCHANGED allocVars
    BY <1>1, <1>3, <1>12, <2>2 DEF PostVisit, Aggregates, Calls
  <2>6. DOMAIN storage = Nodes
    BY <1>2 DEF Typed
  <2>7. storage' = [n \in Nodes |-> IF n = p THEN storage[k] ELSE storage[n]]
    BY <2>5, <2>6
  <2>8. p \notin Slotted
    BY <1>2, <1>4, <1>12 DEF NodesPlaced, Aggregates
  <2>9. /\ storage' = [n \in Nodes |-> storage'[n]] /\ storage'[p] = storage[k]
        /\ \A n \in Nodes : n # p => storage'[n] = storage[n]
    BY <1>4, <2>7
  <2>10. Slots' = Slots /\ Cells(Slots)' = Cells(Slots) /\ bump' = bump /\ SlotsBase' = SlotsBase
    BY <1>2, <2>5, SameBase DEF allocVars, Slots, Cells
  <2>11. Sound(Slots)'
    BY <1>2, <2>10 DEF Sound
  <2>12. \A n \in Slotted' : n \in Nodes /\ (n # p => n \in Slotted) /\ (n = p => k \in Slotted)
    BY <1>5, <2>4, <2>9 DEF Slotted
  <2>13. Fitting'
    BY <1>2, <2>4, <2>9, <2>10, <2>12 DEF Fitting
  <2>14. NodesPlaced'
    BY <1>2, <1>4, <1>6, <1>12, <2>12 DEF NodesPlaced
  <2>15. Typed'
    BY <1>1, <1>2, <1>5, <2>9 DEF Typed
  <2>16. \A n \in Held' : n \in Nodes /\ (n # p => n \in H \ {k}) /\ (n = p => k \in H)
    <3>1. SUFFICES ASSUME NEW n, n \in Held'
                   PROVE  n \in Nodes /\ (n # p => n \in H \ {k}) /\ (n = p => k \in H)
      OBVIOUS
    <3>2. n \in Slotted' /\ n \notin Spent' /\ n \notin Spent
      BY <1>5, <3>1 DEF Held
    <3>3. n \notin KidSet(p)
      BY <1>9, <1>12, <3>2
    <3>4. n # p => n \in H \ {k}
      BY <1>7, <2>3, <2>12, <3>2, <3>3 DEF Held
    <3>5. n = p => k \in H
      BY <1>9, <1>12, <2>3, <2>12, <3>2
    <3> QED
      BY <2>12, <3>2, <3>4, <3>5
  <2>17. \A n \in Held' : storage'[n].at \notin Cells(Slots)'
    BY <1>8, <2>9, <2>10, <2>16 DEF Apart
  <2>18. \A m, n \in Held' : storage'[m].at = storage'[n].at => m = n
    BY <1>8, <2>9, <2>16 DEF Apart
  <2>19. Apart(Held)'
    BY <2>17, <2>18 DEF Apart
  <2> QED
    BY <1>1, <1>4, <2>11, <2>13, <2>14, <2>15, <2>19 DEF LayoutInv, Passes
<1> QED
  BY <1>10, <1>11, <1>12

\* The five parts of a comprehension are kids of it.
LEMMA CompKids ==
    ASSUME tree \in Trees, NEW c \in Nodes, Op(c) = "comp"
    PROVE  /\ {IterRange(c), AccuInit(c), Kid(c, 3), LoopBody(c), Result(c)} \subseteq KidSet(c)
           /\ {IterRange(c), AccuInit(c), Kid(c, 3), LoopBody(c), Result(c)} \subseteq Nodes
<1>1. Kids(c) \in Seq(Nat) /\ Len(Kids(c)) = 5
  BY Shape DEF Arity
<1>2. \A i \in 1 .. 5 : Kids(c)[i] \in KidSet(c)
  BY <1>1, KidsInOrder
<1>3. \A i \in 1 .. 5 : Kid(c, i) \in KidSet(c)
  BY <1>2 DEF Kid, Kids
<1>4. {IterRange(c), AccuInit(c), Kid(c, 3), LoopBody(c), Result(c)} \subseteq KidSet(c)
  BY <1>3 DEF IterRange, AccuInit, LoopBody, Result
<1> QED
  BY <1>4, KidIsLater

\* The pass over comprehensions on the way down.
LEMMA LocalsPreKeeps ==
    ASSUME LayoutInv, LocalsPre
    PROVE  LayoutInv'
<1>1. /\ stage = "locals" /\ stage' = "locals" /\ todo # <<>> /\ Top.do = "pre" /\ Descend(Top.n)
      /\ UNCHANGED layoutVars
  BY DEF LocalsPre, Doing
<1>2. tree \in Trees /\ tree' = tree /\ Passing(todo)
  BY <1>1 DEF LayoutInv, Passes, Typed, layoutVars, nameVars
<1>3. Passing(todo)'
  BY <1>1, <1>2, PassDescends
<1>4. Typed' /\ Sound(Slots)' /\ Fitting'
  BY <1>1, SameLayout DEF LayoutInv, Passes
<1> QED
  BY <1>1, <1>3, <1>4 DEF LayoutInv, Passes

\* The pass over comprehensions on the way up.
LEMMA LocalsPostKeeps ==
    ASSUME LayoutInv, LocalsPost
    PROVE  LayoutInv'
<1>1. /\ stage = "locals" /\ todo # <<>> /\ Top.do = "post" /\ Push(<<>>)
      /\ UNCHANGED <<nameVars, allocVars>>
      /\ stage' \in {"locals", "crash"}
      /\ IF Op(Top.n) = "comp" THEN storage' = [storage EXCEPT ![Top.n] = storage[Result(Top.n)]]
         ELSE storage' = storage
  BY DEF LocalsPost, Doing, CompStorage
<1>2. /\ Typed /\ Sound(Slots) /\ Fitting /\ tree \in Trees /\ tree' = tree
      /\ variables' = variables /\ Passing(todo)
  BY <1>1 DEF LayoutInv, Passes, Typed, nameVars
<1>3. PICK p : p = Top.n
  OBVIOUS
<1>4. Passing(todo)' /\ p \in Nodes
  BY <1>1, <1>2, <1>3, PassPosts
<1>5. Nodes' = Nodes
  BY <1>2, SameTree
<1>6. Slots' = Slots /\ bump' = bump /\ SlotsBase' = SlotsBase
  BY <1>1, <1>2, SameBase DEF allocVars, Slots
<1>7. Sound(Slots)'
  BY <1>2, <1>6 DEF Sound
<1>8. DOMAIN storage = Nodes
  BY <1>2 DEF Typed
<1>9. CASE Op(p) = "comp"
  <2>1. PICK k \in Nodes : k = Result(p)
    BY <1>2, <1>4, <1>9, CompKids
  <2>2. storage' = [n \in Nodes |-> IF n = p THEN storage[k] ELSE storage[n]]
    BY <1>1, <1>3, <1>8, <1>9, <2>1
  <2>3. /\ storage' = [n \in Nodes |-> storage'[n]] /\ storage'[p] = storage[k]
        /\ \A n \in Nodes : n # p => storage'[n] = storage[n]
    BY <1>4, <2>2
  <2>4. Fitting'
    <3>1. \A n \in Slotted' : n \in Nodes /\ (n # p => n \in Slotted) /\ (n = p => k \in Slotted)
      BY <1>5, <2>1, <2>3 DEF Slotted
    <3> QED
      BY <1>2, <1>6, <2>3, <3>1 DEF Fitting
  <2>5. Typed'
    BY <1>1, <1>2, <1>5, <2>3 DEF Typed, Passes, Later
  <2> QED
    BY <1>1, <1>4, <1>7, <2>4, <2>5 DEF LayoutInv, Passes
<1>10. CASE Op(p) # "comp"
  <2>1. storage' = storage
    BY <1>1, <1>3, <1>10
  <2>2. Fitting'
    BY <1>2, <1>5, <1>6, <2>1 DEF Fitting, Slotted
  <2>3. Typed'
    BY <1>1, <1>2, <1>5, <2>1 DEF Typed, Passes, Later
  <2> QED
    BY <1>1, <1>4, <1>7, <2>2, <2>3 DEF LayoutInv, Passes
<1> QED
  BY <1>9, <1>10

\* From one pass to the next.
LEMMA NextPassKeeps ==
    ASSUME LayoutInv, NextPass
    PROVE  LayoutInv'
<1>1. /\ stage \in Passes /\ todo = <<>> /\ todo' = <<Visit(1)>> /\ UNCHANGED layoutVars
      /\ stage' = CASE stage = "select" -> "aggregate"
                    [] stage = "aggregate" -> "locals"
                    [] OTHER -> "emit"
  BY DEF NextPass, Passes
<1>2. (stage = "select" /\ stage' = "aggregate") \/ stage' = "locals" \/ stage' = "emit"
  BY <1>1
<1>3. Typed /\ tree \in Trees /\ tree' = tree
  BY <1>1 DEF LayoutInv, Typed, layoutVars, nameVars
<1>4. Passing(todo)' /\ Unposted(todo)' = Nodes /\ Unvisited(todo)' = Nodes
  BY <1>1, <1>3, PassStarts
<1>5. /\ Typed' /\ Sound(Slots)' /\ Fitting' /\ Slotted' = Slotted
      /\ \A X : Apart(X)' <=> Apart(X)
  BY <1>1, <1>2, SameLayout DEF LayoutInv, Passes, Later
<1>6. CASE stage = "select" /\ stage' = "aggregate"
  <2>1. SelectsPlaced /\ Apart(Held)
    BY <1>6 DEF LayoutInv
  <2>2. /\ Nodes' = Nodes
        /\ \A n : Op(n)' = Op(n) /\ KidSet(n)' = KidSet(n)
    BY <1>3, SameTree
  <2>3. NodesPlaced'
    BY <1>5, <2>1, <2>2 DEF NodesPlaced, SelectsPlaced
  <2>4. Unposted(todo) = {}
    BY <1>1 DEF Unposted
  <2>5. \A p \in Nodes : Spends(p)' <=> Spends(p)
    BY <1>4, <1>6, <2>2, <2>4 DEF Spends
  <2>6. Held' = Held
    BY <1>5, <2>2, <2>5 DEF Held, Spent
  <2>7. Apart(Held)'
    BY <1>5, <2>1, <2>6 DEF Apart
  <2> QED
    BY <1>4, <1>5, <1>6, <2>3, <2>7 DEF LayoutInv, Passes
<1> QED
  BY <1>2, <1>4, <1>5, <1>6 DEF LayoutInv, Passes

\* No cell is handed out before the names are resolved.
LEMMA ResolveStays ==
    ASSUME LayoutInv, stage = "resolve", stage' \in {"resolve", "select"}, tree' = tree,
           variables' \in Seq(VarType), UNCHANGED allocVars,
           storage' = [n \in Nodes |-> storage'[n]], Slotted' = {}
    PROVE  Typed' /\ Sound(Slots)' /\ Fitting' /\ free' = <<>> /\ bump' = 0 /\ live' = 0
<1>1. /\ tree \in Trees /\ free' = <<>> /\ bump' = 0 /\ live' = 0 /\ Sound(Slots)
  BY DEF LayoutInv, Typed, allocVars
<1>2. peak' = 0
  BY <1>1, Slots0 DEF Sound, allocVars
<1>3. PICK t : t = Slots'
  OBVIOUS
<1>4. t = [free |-> <<>>, bump |-> 0, live |-> 0, peak |-> 0, got |-> 0]
  BY <1>1, <1>2, <1>3 DEF Slots
<1>5. t.free = <<>> /\ t.bump = 0 /\ t.live = 0 /\ t.peak = 0 /\ t.got = 0
  BY <1>4
<1>6. t.free \in Seq(Nat) /\ Len(t.free) = 0 /\ 1 .. Len(t.free) = {}
  BY <1>5
<1>7. t = [free |-> t.free, bump |-> t.bump, live |-> t.live, peak |-> t.peak, got |-> t.got]
  BY <1>4, <1>5
<1>8. t.live + Len(t.free) = t.bump /\ t.bump \in Nat /\ t.live \in Int /\ t.peak = t.bump
  BY <1>5, <1>6
<1>9. Sound(Slots)'
  BY <1>3, <1>6, <1>7, <1>8 DEF Sound
<1>10. Fitting'
  BY DEF Fitting
<1>11. Nodes' = Nodes
  BY SameTree
<1>12. Typed'
  BY <1>1, <1>11 DEF Typed, Passes
<1> QED
  BY <1>1, <1>9, <1>10, <1>12

\* The variables a comprehension declares are entries of the table.
LEMMA DeclaredTyped ==
    ASSUME tree \in Trees, NEW c \in Nodes, Op(c) = "comp"
    PROVE  Declared(c) \in Seq(VarType)
<1>1. PICK d : d = tree.name[c]
  OBVIOUS
<1>2. d \in [iter : STRING, iter2 : STRING, accu : STRING, source : STRING]
  BY <1>1, Shape DEF NameShape
<1>3. d.iter \in STRING /\ d.iter2 \in STRING /\ d.accu \in STRING
  BY <1>2
<1>4. c \in Nat
  BY NodeNat
<1>5. ASSUME NEW m \in BOOLEAN
      PROVE  /\ Variable(d.iter, "iter", c, m) \in VarType
             /\ Variable(d.iter2, "iter2", c, m) \in VarType
             /\ Variable(d.accu, "accu", c, m) \in VarType
  BY <1>3, <1>4 DEF Variable, VarType
<1>6. PICK two : two = (d.iter2 # "")
  OBVIOUS
<1>7. PICK m1 : m1 = (d.source = "list" /\ ~two)
  OBVIOUS
<1>8. PICK m2 : m2 = (d.source = "list")
  OBVIOUS
<1>9. m1 \in BOOLEAN /\ m2 \in BOOLEAN /\ FALSE \in BOOLEAN
  BY <1>7, <1>8
<1>10. /\ <<Variable(d.iter, "iter", c, m1)>> \in Seq(VarType)
       /\ <<Variable(d.iter2, "iter2", c, m2)>> \in Seq(VarType)
       /\ <<Variable(d.accu, "accu", c, FALSE)>> \in Seq(VarType)
       /\ <<>> \in Seq(VarType)
  <2>1. /\ Variable(d.iter, "iter", c, m1) \in VarType
        /\ Variable(d.iter2, "iter2", c, m2) \in VarType
        /\ Variable(d.accu, "accu", c, FALSE) \in VarType
    BY <1>5, <1>9
  <2>2. PICK a, b, e : /\ a = Variable(d.iter, "iter", c, m1) /\ b = Variable(d.iter2, "iter2", c, m2)
                       /\ e = Variable(d.accu, "accu", c, FALSE)
    OBVIOUS
  <2>3. a \in VarType /\ b \in VarType /\ e \in VarType
    BY <2>1, <2>2
  <2>4. <<a>> \in Seq(VarType) /\ <<b>> \in Seq(VarType) /\ <<e>> \in Seq(VarType)
        /\ <<>> \in Seq(VarType)
    BY <2>3
  <2> QED
    BY <2>2, <2>4
<1>11. Declared(c) = <<Variable(d.iter, "iter", c, m1)>> \o
                     (IF two THEN <<Variable(d.iter2, "iter2", c, m2)>> ELSE <<>>) \o
                     <<Variable(d.accu, "accu", c, FALSE)>>
  BY <1>1, <1>6, <1>7, <1>8, Zenon DEF Declared
<1>12. (IF two THEN <<Variable(d.iter2, "iter2", c, m2)>> ELSE <<>>) \in Seq(VarType)
  BY <1>10
<1>13. \A T : \A a, b, e \in Seq(T) : a \o b \o e \in Seq(T)
  OBVIOUS
<1> QED
  <2>1. PICK a : a = <<Variable(d.iter, "iter", c, m1)>>
    OBVIOUS
  <2>2. PICK b : b = IF two THEN <<Variable(d.iter2, "iter2", c, m2)>> ELSE <<>>
    OBVIOUS
  <2>3. PICK e : e = <<Variable(d.accu, "accu", c, FALSE)>>
    OBVIOUS
  <2>4. Declared(c) = a \o b \o e
    BY <1>11, <2>1, <2>2, <2>3
  <2>5. a \in Seq(VarType) /\ b \in Seq(VarType) /\ e \in Seq(VarType)
    BY <1>10, <1>12, <2>1, <2>2, <2>3
  <2> QED
    BY <1>13, <2>4, <2>5

\* Pushing items gives a stack of items.
LEMMA PushTyped ==
    ASSUME todo \in Seq(ItemType), todo # <<>>, NEW s \in Seq(ItemType), Push(s)
    PROVE  todo' \in Seq(ItemType)
<1>1. Tail(todo) \in Seq(ItemType)
  OBVIOUS
<1> QED
  BY <1>1 DEF Push

\* The top of the work stack of ResolvePass is an item.
LEMMA ResolveTop ==
    ASSUME LayoutInv, stage = "resolve", todo # <<>>
    PROVE  Top \in ItemType /\ Top.n \in Nodes /\ todo \in Seq(ItemType)
<1>1. todo \in Seq(ItemType)
  BY DEF LayoutInv
<1>2. Top \in ItemType
  BY <1>1 DEF Top
<1> QED
  BY <1>1, <1>2 DEF ItemType

\* Name resolution touches neither cells nor the allocator.
LEMMA ResolveGoesOn ==
    ASSUME LayoutInv, stage = "resolve", stage' = "resolve", tree' = tree, storage' = storage,
           variables' \in Seq(VarType), UNCHANGED allocVars, todo' \in Seq(ItemType)
    PROVE  LayoutInv'
<1>1. Nodes' = Nodes /\ ItemType' = ItemType
  BY SameTree DEF ItemType
<1>2. storage' = [n \in Nodes |-> storage'[n]] /\ Slotted' = {}
  BY <1>1 DEF LayoutInv, Typed, Slotted
<1>3. Typed' /\ Sound(Slots)' /\ Fitting' /\ free' = <<>> /\ bump' = 0 /\ live' = 0
  BY <1>2, ResolveStays
<1>4. todo' \in Seq(ItemType')
  BY <1>1
<1> QED
  BY <1>2, <1>3, <1>4 DEF LayoutInv, Passes

\* Its steps: going down,
LEMMA ResolvePreKeeps ==
    ASSUME LayoutInv, ResolvePre
    PROVE  LayoutInv'
<1>1. /\ stage = "resolve" /\ stage' = "resolve" /\ todo # <<>> /\ tree' = tree
      /\ storage' = storage /\ UNCHANGED allocVars
  BY DEF ResolvePre, Doing
<1>2. PICK c \in Nodes : c = Top.n
  BY <1>1, ResolveTop
<1>3. todo \in Seq(ItemType) /\ tree \in Trees /\ variables \in Seq(VarType)
  BY <1>1, ResolveTop DEF LayoutInv, Typed
<1>4. CASE Op(c) = "comp"
  <2>1. variables' = variables \o Declared(c)
    BY <1>2, <1>4 DEF ResolvePre
  <2>2. variables' \in Seq(VarType)
    <3>1. PICK d : d = Declared(c)
      OBVIOUS
    <3>2. d \in Seq(VarType)
      BY <1>3, <1>4, <3>1, DeclaredTyped
    <3> QED
      BY <1>3, <2>1, <3>1, <3>2
  <2>3. /\ IterRange(c) \in Nodes /\ AccuInit(c) \in Nodes /\ Kid(c, 3) \in Nodes
        /\ LoopBody(c) \in Nodes /\ Result(c) \in Nodes
    BY <1>3, <1>4, CompKids
  <2>4. \A n \in Nodes : Visit(n) \in ItemType
    BY VisitFields
  <2>5. <<>> \in Seq(Nodes)
    OBVIOUS
  <2>6. \A do \in {"loop", "pop", "result"} : Item(do, c, <<>>) \in ItemType
    BY <2>5 DEF Item, ItemType, Dos
  <2>7. PICK s : s = <<Visit(IterRange(c)), Visit(AccuInit(c)), Item("loop", c, <<>>),
                       Visit(Kid(c, 3)), Visit(LoopBody(c)), Item("pop", c, <<>>),
                       Item("result", c, <<>>), Visit(Result(c)), Item("pop", c, <<>>)>>
    OBVIOUS
  <2>8. s \in Seq(ItemType)
    <3>1. PICK a1, a2, a3, a4, a5, b1, b2, b3 :
             /\ a1 = Visit(IterRange(c)) /\ a2 = Visit(AccuInit(c)) /\ a3 = Visit(Kid(c, 3))
             /\ a4 = Visit(LoopBody(c)) /\ a5 = Visit(Result(c)) /\ b1 = Item("loop", c, <<>>)
             /\ b2 = Item("pop", c, <<>>) /\ b3 = Item("result", c, <<>>)
      OBVIOUS
    <3>2. /\ a1 \in ItemType /\ a2 \in ItemType /\ a3 \in ItemType /\ a4 \in ItemType
          /\ a5 \in ItemType
      BY <2>3, <2>4, <3>1
    <3>3. b1 \in ItemType /\ b2 \in ItemType /\ b3 \in ItemType
      BY <2>6, <3>1
    <3>4. s = <<a1, a2, b1, a3, a4, b2, b3, a5, b2>>
      BY <2>7, <3>1
    <3> QED
      BY <3>2, <3>3, <3>4
  <2>9. Push(s)
    BY <1>2, <1>4, <2>7 DEF ResolvePre
  <2>10. todo' \in Seq(ItemType)
    BY <1>1, <1>3, <2>8, <2>9, PushTyped
  <2> QED
    BY <1>1, <2>2, <2>10, ResolveGoesOn
<1>5. CASE Op(c) # "comp"
  <2>1. Descend(c) /\ variables' = variables
    BY <1>2, <1>5 DEF ResolvePre
  <2>2. Opened(c) \in Seq(ItemType)
    BY <1>3, OpenedShape
  <2>3. Push(Opened(c))
    BY <2>1 DEF Descend, Opened
  <2>4. todo' \in Seq(ItemType)
    BY <1>1, <1>3, <2>2, <2>3, PushTyped
  <2> QED
    BY <1>1, <1>3, <2>1, <2>4, ResolveGoesOn
<1> QED
  BY <1>4, <1>5

\* entering and leaving a scope,
LEMMA ScopesKeep ==
    ASSUME LayoutInv, EnterScope \/ LeaveScope
    PROVE  LayoutInv'
<1>1. /\ stage = "resolve" /\ stage' = "resolve" /\ todo # <<>> /\ tree' = tree
      /\ storage' = storage /\ UNCHANGED allocVars /\ Push(<<>>) /\ variables' = variables
  BY DEF EnterScope, LeaveScope, Doing
<1>2. todo \in Seq(ItemType) /\ variables \in Seq(VarType)
  BY <1>1, ResolveTop DEF LayoutInv, Typed
<1>3. <<>> \in Seq(ItemType)
  OBVIOUS
<1>4. todo' \in Seq(ItemType)
  BY <1>1, <1>2, <1>3, PushTyped
<1> QED
  BY <1>1, <1>2, <1>4, ResolveGoesOn

\* and binding a name.
LEMMA ResolvePostKeeps ==
    ASSUME LayoutInv, ResolvePost
    PROVE  LayoutInv'
<1>1. /\ stage = "resolve" /\ stage' = "resolve" /\ todo # <<>> /\ tree' = tree
      /\ storage' = storage /\ UNCHANGED allocVars /\ Push(<<>>)
  BY DEF ResolvePost, Doing
<1>2. todo \in Seq(ItemType) /\ tree \in Trees /\ variables \in Seq(VarType)
  BY <1>1, ResolveTop DEF LayoutInv, Typed
<1>3. PICK n \in Nodes : n = Top.n
  BY <1>1, ResolveTop
<1>4. variables' \in Seq(VarType)
  <2>1. CASE variables' = variables
    BY <1>2, <2>1
  <2>2. CASE variables' # variables
    <3>1. Op(n) = "ident" /\ variables' = Append(variables, Variable(Last(tree.name[n]), "free", 0, FALSE))
      BY <1>3, <2>2 DEF ResolvePost, PostVisitIdent
    <3>2. PICK nm : nm = tree.name[n]
      OBVIOUS
    <3>3. nm \in Seq(STRING) /\ Len(nm) \in {1, 2}
      BY <1>2, <3>1, <3>2, Shape DEF NameShape
    <3>4. PICK x \in STRING : x = Last(nm)
      <4>1. Last(nm) = nm[Len(nm)] /\ Len(nm) \in 1 .. Len(nm)
        BY <3>3 DEF Last
      <4>2. Last(nm) \in STRING
        BY <3>3, <4>1
      <4> QED
        BY <4>2
    <3>5. PICK v : v = Variable(x, "free", 0, FALSE)
      OBVIOUS
    <3>6. v \in VarType
      BY <3>5 DEF Variable, VarType
    <3>7. variables' = Append(variables, v)
      BY <3>1, <3>2, <3>4, <3>5
    <3> QED
      BY <1>2, <3>6, <3>7
  <2> QED
    BY <2>1, <2>2
<1>5. <<>> \in Seq(ItemType)
  OBVIOUS
<1>6. todo' \in Seq(ItemType)
  BY <1>1, <1>2, <1>5, PushTyped
<1> QED
  BY <1>1, <1>4, <1>6, ResolveGoesOn

\* The layout starts with an empty workspace.
LEMMA StartLayoutKeeps ==
    ASSUME LayoutInv, StartLayout
    PROVE  LayoutInv'
<1>1. /\ stage = "resolve" /\ stage' = "select" /\ tree' = tree /\ variables' = variables
      /\ storage' = [n \in Nodes |-> LeafStorage(n)] /\ UNCHANGED allocVars
      /\ todo' = <<Visit(1)>>
  BY DEF StartLayout, nameVars
<1>2. tree \in Trees /\ variables \in Seq(VarType)
  BY DEF LayoutInv, Typed
<1>3. Nodes' = Nodes
  BY <1>1, SameTree
<1>4. \A n \in Nodes : LeafStorage(n).kind # "slot"
  BY DEF LeafStorage, Rodata, Local, None
<1>5. storage' = [n \in Nodes |-> storage'[n]] /\ Slotted' = {}
  BY <1>1, <1>3, <1>4 DEF Slotted
<1>6. Typed' /\ Sound(Slots)' /\ Fitting' /\ free' = <<>>
  BY <1>1, <1>2, <1>5, ResolveStays
<1>7. Passing(todo)'
  BY <1>1, <1>2, PassStarts
<1>8. SelectsPlaced' /\ Apart(Held)'
  BY <1>5 DEF SelectsPlaced, Apart, Held
<1> QED
  BY <1>1, <1>6, <1>7, <1>8 DEF LayoutInv, Passes

\* The initial states.
LEMMA LayoutInit ==
    ASSUME Init
    PROVE  LayoutInv
<1>1. tree \in Trees /\ stage = "resolve" /\ variables = <<>>
  BY DEF Init
<1>2. storage = [n \in Nodes |-> storage[n]] /\ Slotted = {}
  BY DEF Init, Slotted, None
<1>3. 1 \in Nodes
  BY <1>1, NodeNat
<1>4. todo \in Seq(ItemType)
  <2>1. PICK a : a = Visit(1)
    OBVIOUS
  <2>2. a \in ItemType
    BY <1>3, <2>1, VisitFields
  <2>3. todo = <<a>>
    BY <2>1 DEF Init
  <2> QED
    BY <2>2, <2>3
<1>5. Slots = [free |-> <<>>, bump |-> 0, live |-> 0, peak |-> 0, got |-> 0]
  BY DEF Init, Slots
<1>6. Sound(Slots)
  <2>1. PICK t : t = Slots
    OBVIOUS
  <2>2. t.free = <<>> /\ t.bump = 0 /\ t.live = 0 /\ t.peak = 0 /\ t.got = 0
    BY <1>5, <2>1
  <2>3. t.free \in Seq(Nat) /\ Len(t.free) = 0 /\ 1 .. Len(t.free) = {}
    BY <2>2
  <2>4. t = [free |-> t.free, bump |-> t.bump, live |-> t.live, peak |-> t.peak, got |-> t.got]
    BY <1>5, <2>1, <2>2
  <2>5. t.live + Len(t.free) = t.bump /\ t.bump \in Nat /\ t.live \in Int /\ t.peak = t.bump
    BY <2>2, <2>3
  <2> QED
    BY <2>1, <2>3, <2>4, <2>5 DEF Sound
<1>7. Typed /\ Fitting
  BY <1>1, <1>2 DEF Typed, Fitting
<1> QED
  BY <1>1, <1>2, <1>4, <1>6, <1>7 DEF LayoutInv, Passes, Init

RunStep ==
    \/ EvalLeaf \/ EvalCall \/ Kernel \/ EvalAggregate \/ Fill \/ PutOperands
    \/ EvalDyn \/ Same \/ EvalCond \/ BranchArm \/ BranchPoison
    \/ EvalComp \/ PrologueAbsorbs \/ PrologueStarts \/ LoopStep \/ IntoAccu
    \/ CopyStep \/ LoopExit \/ Leave

\* The running code changes nothing the layout has decided.
LEMMA RunFrame ==
    ASSUME RunStep
    PROVE  stage = "run" /\ stage' = "run" /\ UNCHANGED layoutVars /\ todo # <<>>
<1> USE DEF Running, Doing
<1>1. CASE EvalLeaf \/ EvalCall \/ Kernel \/ EvalAggregate \/ Fill
  BY <1>1 DEF EvalLeaf, EvalCall, Kernel, EvalAggregate, Fill
<1>2. CASE PutOperands \/ EvalDyn \/ Same \/ EvalCond \/ BranchArm \/ BranchPoison
  BY <1>2 DEF PutOperands, EvalDyn, Same, EvalCond, BranchArm, BranchPoison
<1>3. CASE EvalComp \/ PrologueAbsorbs \/ PrologueStarts \/ LoopStep
  BY <1>3 DEF EvalComp, PrologueAbsorbs, PrologueStarts, LoopStep
<1>4. CASE IntoAccu \/ CopyStep \/ LoopExit \/ Leave
  BY <1>4 DEF IntoAccu, CopyStep, LoopExit, Leave
<1> QED
  BY <1>1, <1>2, <1>3, <1>4 DEF RunStep

\* LayoutInv is inductive.
LEMMA LayoutStep ==
    ASSUME LayoutInv, [Next]_vars
    PROVE  LayoutInv'
<1>1. CASE UNCHANGED vars
  <2>1. UNCHANGED layoutVars /\ stage' = stage /\ todo' = todo
    BY <1>1 DEF vars, layoutVars, nameVars
  <2>2. tree' = tree
    BY <2>1 DEF layoutVars, nameVars
  <2>3. /\ Typed' /\ Sound(Slots)' /\ Fitting' /\ Slotted' = Slotted
        /\ \A X : Apart(X)' <=> Apart(X)
    BY <2>1, SameLayout DEF LayoutInv, Typed
  <2>4. /\ Nodes' = Nodes /\ ItemType' = ItemType
        /\ \A n : Op(n)' = Op(n) /\ KidSet(n)' = KidSet(n)
    BY <2>2, SameTree DEF ItemType
  <2>5. /\ Passing(todo) => Passing(todo)'
        /\ Unposted(todo)' = Unposted(todo) /\ Unvisited(todo)' = Unvisited(todo)
    <3>1. PICK t : t = todo /\ t = todo'
      BY <2>1
    <3>2. Passing(t) => Passing(t')
      BY <3>1
    <3>3. /\ Passing(t)' <=> Passing(t)
          /\ Unposted(t)' = Unposted(t) /\ Unvisited(t)' = Unvisited(t)
      BY <2>2, SamePassing
    <3>4. Passing(todo)' <=> Passing(t)'
      BY <2>1, <3>1
    <3>5. Unposted(todo)' = Unposted(t)' /\ Unvisited(todo)' = Unvisited(t)'
      BY <2>1, <3>1
    <3> QED
      BY <3>1, <3>3, <3>4, <3>5
  <2>6. Held' = Held
    BY <2>1, <2>3, <2>4, <2>5 DEF Held, Spent, Spends
  <2>7. stage = "resolve" => todo \in Seq(ItemType) /\ free = <<>> /\ bump = 0 /\ live = 0 /\ Slotted = {}
    BY DEF LayoutInv
  <2>8. stage \in Passes => Passing(todo)'
    BY <2>5 DEF LayoutInv
  <2>9. (stage = "select" => SelectsPlaced') /\ (stage = "aggregate" => NodesPlaced')
    BY <2>3, <2>4, <2>5 DEF LayoutInv, SelectsPlaced, NodesPlaced
  <2>10. stage \in {"select", "aggregate"} => Apart(Held)'
    BY <2>3, <2>6 DEF LayoutInv, Apart
  <2>11. free' = free /\ bump' = bump /\ live' = live
    BY <2>1 DEF layoutVars
  <2>12. stage' = "resolve" => /\ todo' \in Seq(ItemType') /\ free' = <<>> /\ bump' = 0
                               /\ live' = 0 /\ Slotted' = {}
    BY <2>1, <2>3, <2>4, <2>7, <2>11
  <2> QED
    BY <2>1, <2>3, <2>8, <2>9, <2>10, <2>12 DEF LayoutInv, Passes
<1>2. CASE ResolvePre \/ EnterScope \/ LeaveScope \/ ResolvePost \/ StartLayout
  BY <1>2, ResolvePreKeeps, ScopesKeep, ResolvePostKeeps, StartLayoutKeeps
<1>3. CASE SelectPre \/ SelectPost \/ AggregatePre \/ AggregatePost
  BY <1>3, SelectPreKeeps, SelectPostKeeps, AggregatePreKeeps, AggregatePostKeeps
<1>4. CASE LocalsPre \/ LocalsPost \/ NextPass
  BY <1>4, LocalsPreKeeps, LocalsPostKeeps, NextPassKeeps
<1>5. CASE Emit
  <2>1. UNCHANGED layoutVars /\ stage' \in Later
    BY <1>5 DEF Emit, Later
  <2> QED
    BY <2>1, LayoutStays
<1>6. CASE RunStep
  BY <1>6, RunFrame, LayoutStays DEF Later
<1>7. CASE Return
  <2>1. UNCHANGED layoutVars /\ stage' = "done"
    BY <1>7 DEF Return
  <2> QED
    BY <2>1, LayoutStays DEF Later
<1> QED
  BY <1>1, <1>2, <1>3, <1>4, <1>5, <1>6, <1>7 DEF Next, RunStep

\* What the allocator and the passes keep up.
LEMMA LayoutInvariant == Spec => []LayoutInv
<1>1. Init => LayoutInv
  BY LayoutInit
<1>2. LayoutInv /\ [Next]_vars => LayoutInv'
  BY LayoutStep
<1> QED
  BY <1>1, <1>2, PTL DEF Spec

-----------------------------------------------------------------------------
(* The workspace is large enough: the peak is what was ever handed out,    *)
(* because a cell on the free list is never held and never listed twice.   *)

\* For every expression, names and nesting included, peak_slots() covers every
\* cell that the passes stamp on a node, and the count of cells in use never
\* runs below zero (SlotAllocator::Acquire, Release and peak).
THEOREM WorkspaceIsCovered == Spec => []WorkspaceCovers
<1>1. LayoutInv => WorkspaceCovers
  <2>1. SUFFICES ASSUME LayoutInv PROVE WorkspaceCovers
    OBVIOUS
  <2>2. Sound(Slots) /\ SlotsBase \in Nat /\ Fitting
    BY <2>1, BaseNat DEF LayoutInv, Typed
  <2>3. live >= 0
    BY <2>2, FreeFits, Slots0
  <2>4. peak = bump
    BY <2>2, Slots0 DEF Sound
  <2>5. \A n \in Nodes : storage[n].kind = "slot" => storage[n].at < SlotsBase + peak
    BY <2>2, <2>4 DEF Fitting, Slotted
  <2> QED
    BY <2>3, <2>5 DEF WorkspaceCovers
<1> QED
  BY <1>1, LayoutInvariant, PTL

-----------------------------------------------------------------------------
(* Which cells never coincide.  Between the code of x and the code that    *)
(* consumes it, only nodes m with Clash(x, m) write: what follows x below  *)
(* its parent, the operands of x when x is an aggregate, and, because the  *)
(* cell of a comprehension's result is never given back, everything after  *)
(* the comprehension.                                                      *)

Writing == Calls \cup Aggregates \cup {"select"}

After(w, n) == /\ w \in Nodes /\ w > n /\ w \notin Below(n)
               /\ \E q \in Nodes : n \in KidSet(q) /\ w \in Below(q)

Clash(x, m) ==
    \/ After(m, x)
    \/ Op(x) \in Aggregates /\ m \in Below(x) /\ m # x
    \/ \E c \in Comps : x = Result(c) /\ m > c /\ m \notin Below(c)

CellsApart ==
    \A x, m \in Slotted : Op(x) # "comp" /\ Op(m) \in Writing /\ Clash(x, m) =>
        storage[x].at # storage[m].at

\* A select passes its cell on to the select around it, the outermost of which
\* holds it.
Outermost(h) ==
    \A p \in Nodes : h \in KidSet(p) /\ Op(p) = "select" =>
        stage = "select" /\ p \in Unposted(todo)
PassedOn ==
    \A m \in Slotted : Op(m) = "select" =>
        \E h \in Slotted : /\ Op(h) = "select" /\ m \in Below(h) /\ Outermost(h)
                           /\ storage[h].at = storage[m].at

PairInv ==
    /\ stage \in Passes \cup {"emit", "run"} => CellsApart
    /\ stage \in {"select", "aggregate"} => PassedOn

\* A node is not its own clash, and clashes come later.
LEMMA ClashLater ==
    ASSUME tree \in Trees, NEW x \in Nodes, NEW m \in Nodes, Clash(x, m)
    PROVE  m > x \/ \E c \in Comps : x = Result(c) /\ m > c /\ m \notin Below(c) /\ m # x
<1>1. CASE After(m, x)
  BY <1>1 DEF After
<1>2. CASE Op(x) \in Aggregates /\ m \in Below(x) /\ m # x
  <2>1. m >= x /\ m \in Nat /\ x \in Nat
    BY <1>2, BelowSelf, NodeNat
  <2> QED
    BY <1>2, <2>1
<1>3. CASE \E c \in Comps : x = Result(c) /\ m > c /\ m \notin Below(c)
  <2>1. PICK c \in Comps : x = Result(c) /\ m > c /\ m \notin Below(c)
    BY <1>3
  <2>2. c \in Nodes /\ x \in KidSet(c)
    BY <2>1, CompKids DEF Comps
  <2>3. x \in Below(c)
    BY <2>2, BelowKid
  <2> QED
    BY <2>1, <2>3
<1> QED
  BY <1>1, <1>2, <1>3 DEF Clash

\* A result's clash follows the whole comprehension.
LEMMA PastResult ==
    ASSUME tree \in Trees, NEW c \in Comps, NEW m \in Nodes, m > c, m \notin Below(c)
    PROVE  m \notin Below(Result(c)) /\ m > Result(c)
<1>1. c \in Nodes /\ Result(c) \in KidSet(c)
  BY CompKids DEF Comps
<1>2. Below(Result(c)) \subseteq Below(c) /\ Result(c) \in Below(c)
  BY <1>1, BelowKid
<1>3. Result(c) \in Nodes /\ Result(c) \in Nat /\ m \in Nat /\ c \in Nat
  BY <1>1, KidIsLater, NodeNat
<1>4. ASSUME m <= Result(c) PROVE FALSE
  BY <1>1, <1>2, <1>3, <1>4, BelowInterval
<1> QED
  BY <1>2, <1>3, <1>4

\* Of two nodes that clash, the one that is written comes later.
LEMMA ClashPast ==
    ASSUME tree \in Trees, NEW x \in Nodes, NEW m \in Nodes, Clash(x, m)
    PROVE  m > x /\ (m \in Below(x) => Op(x) \in Aggregates)
<1>1. CASE After(m, x)
  BY <1>1 DEF After
<1>2. CASE Op(x) \in Aggregates /\ m \in Below(x) /\ m # x
  <2>1. m >= x /\ m \in Nat /\ x \in Nat
    BY <1>2, BelowSelf, NodeNat
  <2> QED
    BY <1>2, <2>1
<1>3. CASE \E c \in Comps : x = Result(c) /\ m > c /\ m \notin Below(c)
  BY <1>3, PastResult
<1> QED
  BY <1>1, <1>2, <1>3 DEF Clash

\* A node's parent is not a select when another node follows it below the parent.
LEMMA NotSelect ==
    ASSUME tree \in Trees, NEW q \in Nodes, NEW x \in KidSet(q), NEW m \in Below(q),
           m > x, m \notin Below(x)
    PROVE  Op(q) \notin {"select", "dyn"}
<1>1. SUFFICES ASSUME Op(q) \in {"select", "dyn"} PROVE FALSE
  OBVIOUS
<1>2. Kids(q) \in Seq(Nat) /\ Len(Kids(q)) = 1 /\ KidSet(q) = {Kids(q)[i] : i \in 1 .. Len(Kids(q))}
  BY <1>1, Shape DEF Arity
<1>3. \A k \in KidSet(q) : k = x
  BY <1>2
<1>4. m # q
  BY KidIsLater
<1>5. PICK k \in KidSet(q) : m \in Below(k)
  BY <1>4, BelowSplit
<1> QED
  BY <1>3, <1>5

\* Clash depends on the tree only.
LEMMA ClashSame ==
    ASSUME tree' = tree
    PROVE  /\ Comps' = Comps /\ \A x, m : Clash(x, m)' <=> Clash(x, m)
<1>1. /\ Nodes' = Nodes /\ Comps' = Comps
      /\ \A n : Op(n)' = Op(n) /\ KidSet(n)' = KidSet(n) /\ Below(n)' = Below(n)
  BY SameTree
<1>2. \A w, n : After(w, n)' <=> After(w, n)
  BY <1>1 DEF After
<1>3. \A c : Result(c)' = Result(c)
  BY DEF Result, Kid
<1> QED
  BY <1>1, <1>2, <1>3 DEF Clash

\* A visit that hands out no cell leaves the pairs as they are.
LEMMA PairsStay ==
    ASSUME CellsApart, tree' = tree, Slotted' \subseteq Slotted,
           \A n \in Slotted' : storage'[n] = storage[n]
    PROVE  CellsApart'
<1>1. \A n : Op(n)' = Op(n)
  BY SameTree
<1> QED
  BY <1>1, ClashSame DEF CellsApart

\* A visit that hands a cell to p, which is held from then on.
LEMMA StampedPairs ==
    ASSUME LayoutInv, LayoutInv', stage \in {"select", "aggregate"}, stage' = stage,
           tree' = tree, CellsApart, PassedOn, todo # <<>>, NEW p \in Nodes, p = Top.n,
           Unposted(todo) \ {p} \subseteq Unposted(todo)',
           \A n \in Nodes : n # p => storage'[n] = storage[n], p \in Slotted', Op(p) # "comp",
           stage = "select" <=> Op(p) = "select", Op(p) \in Aggregates => Top.do = "pre" /\ p \in Unposted(todo)'
    PROVE  CellsApart'
<1>1. tree \in Trees /\ Passing(todo) /\ Apart(Held)'
  BY DEF LayoutInv, Typed, Passes
<1>2. /\ Nodes' = Nodes /\ Comps' = Comps
      /\ \A n : Op(n)' = Op(n) /\ KidSet(n)' = KidSet(n) /\ Below(n)' = Below(n)
  BY SameTree
<1>3. p \in Unposted(todo)
  BY <1>1, TopFacts DEF Top
<1>4. \A q \in Nodes : p \in Below(q) /\ q # p => q \in Unposted(todo)'
  BY <1>1, <1>3, AncestorsUnposted
<1>5. \A q \in Nodes : p \in Below(q) /\ q # p => q \in Unposted(todo)
  BY <1>1, <1>3, AncestorsUnposted
<1>6. p \in Held'
  <2>1. SUFFICES ASSUME NEW y \in Nodes, p \in KidSet(y), Spends(y)', Op(y) = "select" => Op(p) = "select"
                 PROVE  FALSE
    BY <1>2 DEF Held, Spent
  <2>2. p \in Below(y) /\ y # p
    BY <1>1, <2>1, BelowKid, KidIsLater
  <2>3. y \in Unposted(todo)'
    BY <1>4, <2>2
  <2>4. stage = "select" \/ Op(y) # "select"
    BY <2>1
  <2> QED
    BY <1>2, <2>1, <2>3, <2>4 DEF Spends
<1>7. \A n \in Slotted' : n \in Nodes /\ (n # p => n \in Slotted)
  BY <1>2 DEF Slotted
<1>8. ASSUME NEW x \in Slotted, x # p, Op(x) # "comp", Clash(x, p)
      PROVE  storage'[x].at # storage'[p].at
  <2>1. x \in Nodes
    BY DEF Slotted
  <2>2. Clash(x, p)' /\ Op(x)' # "comp"
    BY <1>2, <1>8, ClashSame
  <2>3. x \notin Spent'
    <3>1. SUFFICES ASSUME NEW y \in Nodes, x \in KidSet(y), Spends(y)',
                          Op(y) = "select" => Op(x) = "select"
                   PROVE  FALSE
      BY <1>2 DEF Spent
    <3>2. Clash(x, p) /\ tree \in Trees
      BY <1>1, <1>8
    <3>3. CASE After(p, x)
      <4>1. PICK q \in Nodes : x \in KidSet(q) /\ p \in Below(q)
        BY <3>3 DEF After
      <4>2. q = y
        BY <1>1, <3>1, <4>1, OneParent
      <4>3. p > x /\ p \notin Below(x)
        BY <3>3 DEF After
      <4>4. Op(q) # "select"
        BY <1>1, <4>1, <4>3, NotSelect
      <4>5. q # p
        BY <1>1, <4>1, <4>3, KidIsLater
      <4>6. q \in Unposted(todo)'
        BY <1>4, <4>1, <4>5
      <4> QED
        BY <1>2, <3>1, <4>2, <4>4, <4>6 DEF Spends
    <3>4. CASE Op(x) \in Aggregates /\ p \in Below(x) /\ p # x
      <4>1. Below(x) \subseteq Below(y) /\ y < x
        BY <1>1, <3>1, BelowKid, KidIsLater
      <4>2. p >= x /\ p \in Nat /\ x \in Nat /\ y \in Nat
        BY <1>1, <3>4, <2>1, BelowSelf, NodeNat
      <4>3. p \in Below(y) /\ y # p
        BY <3>4, <4>1, <4>2
      <4>4. y \in Unposted(todo)' /\ Op(y) # "select"
        BY <1>4, <3>1, <3>4, <4>3 DEF Aggregates
      <4> QED
        BY <1>2, <3>1, <4>4 DEF Spends
    <3>5. CASE \E c \in Comps : x = Result(c) /\ p > c /\ p \notin Below(c)
      <4>1. PICK c \in Comps : x = Result(c)
        BY <3>5
      <4>2. c \in Nodes /\ x \in KidSet(c) /\ Op(c) = "comp"
        BY <1>1, <4>1, CompKids DEF Comps
      <4>3. y = c
        BY <1>1, <3>1, <4>2, OneParent
      <4> QED
        BY <1>2, <3>1, <4>2, <4>3 DEF Spends, Calls, Aggregates
    <3> QED
      BY <3>2, <3>3, <3>4, <3>5 DEF Clash
  <2>4. x \in Slotted'
    BY <1>2, <1>8, <2>1 DEF Slotted
  <2>5. x \in Held'
    BY <2>3, <2>4 DEF Held
  <2> QED
    BY <1>1, <1>6, <1>8, <2>5 DEF Apart
<1>9. ASSUME NEW m \in Slotted, m # p, Op(m) \in Writing, Clash(p, m)
      PROVE  storage'[m].at # storage'[p].at
  <2>1. m \in Nodes /\ m > p /\ (m \in Below(p) => Op(p) \in Aggregates)
    BY <1>1, <1>9, ClashPast DEF Slotted
  <2>2. m \in Unvisited(todo)
    <3>1. CASE m \notin Below(p)
      BY <1>1, <2>1, <3>1, TopFacts DEF Top
    <3>2. CASE m \in Below(p)
      BY <1>1, <2>1, <3>2, TopFacts DEF Top
    <3> QED
      BY <3>1, <3>2
  <2>3. m \in Unposted(todo)
    BY <1>1, <2>2, TopFacts
  <2>4. stage = "aggregate" /\ Op(m) = "select"
    <3>1. stage = "select" => SelectsPlaced
      BY DEF LayoutInv
    <3>2. stage = "aggregate" => NodesPlaced
      BY DEF LayoutInv
    <3> QED
      BY <2>2, <2>3, <3>1, <3>2 DEF SelectsPlaced, NodesPlaced
  <2>5. PICK h \in Slotted : /\ Op(h) = "select" /\ m \in Below(h) /\ Outermost(h)
                             /\ storage[h].at = storage[m].at
    BY <2>4 DEF PassedOn
  <2>6. h \in Nodes /\ h # p
    BY <2>4, <2>5 DEF Slotted
  <2>7. h \notin Spent'
    <3>1. SUFFICES ASSUME NEW y \in Nodes, h \in KidSet(y), Spends(y)' PROVE FALSE
      BY <1>2 DEF Spent
    <3>2. Op(y) # "select"
      BY <2>4, <2>5, <3>1 DEF Outermost
    <3>3. m \in Below(y)
      BY <1>1, <2>5, <3>1, BelowKid
    <3>4. y \in Unposted(todo)
      BY <1>1, <2>3, <3>3, AncestorsUnposted
    <3>5. y \in Unposted(todo)'
      <4>1. CASE y # p
        BY <3>4, <4>1
      <4>2. CASE y = p
        <5>1. Op(p) \in Aggregates
          BY <2>1, <3>3, <4>2
        <5> QED
          BY <4>2, <5>1
      <4> QED
        BY <4>1, <4>2
    <3> QED
      BY <1>2, <3>1, <3>2, <3>5 DEF Spends
  <2>8. h \in Slotted' /\ storage'[h].at = storage[m].at
    BY <1>2, <2>5, <2>6 DEF Slotted
  <2>9. h \in Held'
    BY <2>7, <2>8 DEF Held
  <2>10. storage'[h].at # storage'[p].at
    BY <1>1, <1>6, <2>6, <2>9 DEF Apart
  <2>11. storage'[m] = storage[m]
    BY <1>9, <2>1
  <2> QED
    BY <2>8, <2>10, <2>11
<1>10. ~Clash(p, p)
  <2>1. p \in Nodes /\ p \in Nat
    BY <1>1, NodeNat
  <2> QED
    BY <1>1, <2>1, ClashPast
<1>11. SUFFICES ASSUME NEW x \in Slotted', NEW m \in Slotted', Op(x) # "comp", Op(m) \in Writing,
                       Clash(x, m)
                PROVE  storage'[x].at # storage'[m].at
  BY <1>2, ClashSame DEF CellsApart
<1>12. CASE x = p
  <2>1. m # p /\ m \in Slotted
    BY <1>7, <1>10, <1>11, <1>12
  <2> QED
    BY <1>9, <1>11, <1>12, <2>1
<1>13. CASE x # p /\ m = p
  <2>1. x \in Slotted
    BY <1>7, <1>13
  <2> QED
    BY <1>8, <1>11, <1>13, <2>1
<1>14. CASE x # p /\ m # p
  <2>1. x \in Slotted /\ m \in Slotted /\ x \in Nodes /\ m \in Nodes
    BY <1>7, <1>14
  <2>2. storage'[x] = storage[x] /\ storage'[m] = storage[m]
    BY <1>14, <2>1
  <2> QED
    BY <1>11, <2>1, <2>2 DEF CellsApart
<1> QED
  BY <1>12, <1>13, <1>14

\* Release is the last value of its recursive function.
LEMMA ReleaseLast ==
    ASSUME NEW s, NEW ks, NEW f, f = CHOOSE g : Releasing(g, s, ks, Len(ks))
    PROVE  Release(s, ks) = f[Len(ks)]
BY Zenon DEF Release, Releasing, Giving

\* A select takes over the cell of the select below it.
LEMMA SelectReuses ==
    ASSUME NEW s, Sound(s), NEW ks \in Seq(Nat), Len(ks) = 1, storage[ks[1]].kind = "slot",
           storage[ks[1]].at \in Nat
    PROVE  Acquire(Release(s, ks)).got = storage[ks[1]].at
<1>1. PICK f : f = CHOOSE g : Releasing(g, s, ks, Len(ks))
  OBVIOUS
<1>2. Releasing(f, s, ks, Len(ks))
  <2>1. Len(ks) \in Nat
    OBVIOUS
  <2> QED
    BY <1>1, <2>1, ReleasingExists
<1>3. Release(s, ks) = f[1]
  <2>1. Release(s, ks) = f[Len(ks)]
    BY <1>1, ReleaseLast
  <2> QED
    BY <2>1
<1>4. f[0] = s /\ f[1] = Giving(f[0], ks[1])
  <2>1. 0 \in 0 .. Len(ks) /\ 1 \in 0 .. Len(ks) /\ 1 - 1 = 0
    OBVIOUS
  <2> QED
    BY <1>2, <2>1 DEF Releasing
<1>5. PICK a \in Nat : a = storage[ks[1]].at
  OBVIOUS
<1>6. PICK q \in Seq(Nat) : q = s.free
  BY DEF Sound
<1>7. PICK r : r = Release(s, ks)
  OBVIOUS
<1>8. r = [s EXCEPT !.free = Append(@, a), !.live = @ - 1]
  BY <1>3, <1>4, <1>5, <1>7 DEF Giving
<1>9. s = [free |-> s.free, bump |-> s.bump, live |-> s.live, peak |-> s.peak, got |-> s.got]
  BY DEF Sound
<1>10. r.free = Append(q, a)
  BY <1>6, <1>8, <1>9
<1>11. r.free # <<>> /\ r.free[Len(r.free)] = a
  <2>1. PICK t : t = Append(q, a)
    OBVIOUS
  <2>2. t \in Seq(Nat) /\ Len(t) = Len(q) + 1 /\ Len(q) \in Nat /\ t[Len(q) + 1] = a
    BY <2>1, AppendProperties
  <2>3. Len(t) # 0
    BY <2>2
  <2>4. t # <<>>
    BY <2>2, <2>3
  <2> QED
    BY <1>10, <2>1, <2>2, <2>4
<1>12. r = [free |-> r.free, bump |-> r.bump, live |-> r.live, peak |-> r.peak, got |-> r.got]
  BY <1>8, <1>9
<1>13. Acquire(r) = [r EXCEPT !.free = SubSeq(@, 1, Len(@) - 1), !.live = @ + 1, !.got = r.free[Len(r.free)]]
  BY <1>11 DEF Acquire
<1>14. Acquire(r).got = r.free[Len(r.free)]
  BY <1>12, <1>13
<1> QED
  BY <1>5, <1>7, <1>11, <1>14

\* PassedOn survives a step that adds no select and keeps the outermost ones.
LEMMA PassedOnStays ==
    ASSUME PassedOn, tree' = tree, Slotted \subseteq Slotted',
           \A n \in Slotted : storage'[n] = storage[n],
           \A n \in Slotted' : n \notin Slotted => Op(n) # "select",
           \A h \in Slotted : Outermost(h) => Outermost(h)'
    PROVE  PassedOn'
<1>1. \A n : Op(n)' = Op(n) /\ Below(n)' = Below(n)
  BY SameTree
<1>2. SUFFICES ASSUME NEW m \in Slotted', Op(m) = "select"
               PROVE  \E h \in Slotted' : /\ Op(h) = "select" /\ m \in Below(h) /\ Outermost(h)'
                                          /\ storage'[h].at = storage'[m].at
  BY <1>1 DEF PassedOn
<1>3. m \in Slotted
  BY <1>2
<1>4. PICK h \in Slotted : /\ Op(h) = "select" /\ m \in Below(h) /\ Outermost(h)
                           /\ storage[h].at = storage[m].at
  BY <1>2, <1>3 DEF PassedOn
<1> QED
  BY <1>3, <1>4

\* A select stays outermost while the selects above it are unposted.
LEMMA OutermostStays ==
    ASSUME tree' = tree, stage' = stage, NEW h, Outermost(h),
           \A y \in Nodes : Op(y) = "select" /\ stage = "select" /\ h \in KidSet(y) =>
               (y \in Unposted(todo) => y \in Unposted(todo)')
    PROVE  Outermost(h)'
<1>1. Nodes' = Nodes /\ \A n : Op(n)' = Op(n) /\ KidSet(n)' = KidSet(n)
  BY SameTree
<1> QED
  BY <1>1 DEF Outermost

\* A select takes a cell that no node it clashes with has.
LEMMA SelectPostPairs ==
    ASSUME LayoutInv, LayoutInv', PairInv, SelectPost
    PROVE  PairInv'
<1>1. /\ stage = "select" /\ stage' = "select" /\ todo # <<>> /\ Top.do = "post" /\ Push(<<>>)
      /\ UNCHANGED nameVars
      /\ IF Op(Top.n) = "select" THEN Stamp(Top.n, Acquire(Release(Slots, Kids(Top.n))))
         ELSE UNCHANGED <<storage, allocVars>>
  BY DEF SelectPost, Doing
<1>2. /\ Typed /\ Sound(Slots) /\ Fitting /\ tree \in Trees /\ tree' = tree
      /\ Passing(todo) /\ SelectsPlaced /\ CellsApart /\ PassedOn
  BY <1>1 DEF LayoutInv, Passes, Typed, nameVars, PairInv
<1>3. PICK p : p = Top.n
  OBVIOUS
<1>4. Unposted(todo)' = Unposted(todo) \ {p} /\ p \in Nodes /\ p \in Unposted(todo)
  BY <1>1, <1>2, <1>3, PassPosts
<1>5. /\ Nodes' = Nodes
      /\ \A n : Op(n)' = Op(n) /\ KidSet(n)' = KidSet(n) /\ Below(n)' = Below(n)
  BY <1>2, SameTree
<1>6. ASSUME NEW h \in Slotted, Outermost(h), h \notin KidSet(p) PROVE Outermost(h)'
  <2>1. \A y \in Nodes : h \in KidSet(y) => y # p
    BY <1>6
  <2> QED
    BY <1>1, <1>2, <1>4, <1>6, <2>1, OutermostStays
<1>7. CASE Op(p) # "select"
  <2>1. storage' = storage
    BY <1>1, <1>3, <1>7
  <2>2. Slotted' = Slotted
    BY <1>5, <2>1 DEF Slotted
  <2>3. CellsApart'
    BY <1>2, <2>1, <2>2, PairsStay
  <2>4. \A h \in Slotted : Outermost(h) => Outermost(h)'
    <3>1. SUFFICES ASSUME NEW h \in Slotted, Outermost(h) PROVE Outermost(h)'
      OBVIOUS
    <3>2. \A y \in Nodes : Op(y) = "select" => y # p
      BY <1>7
    <3> QED
      BY <1>1, <1>2, <1>4, <3>1, <3>2, OutermostStays
  <2>5. PassedOn'
    BY <1>2, <2>1, <2>2, <2>4, PassedOnStays
  <2> QED
    BY <2>3, <2>5 DEF PairInv
<1>8. CASE Op(p) = "select"
  <2>1. PICK g : g = Acquire(Release(Slots, Kids(p))).got
    OBVIOUS
  <2>2. storage' = [storage EXCEPT ![p] = Slot(g)]
    BY <1>1, <1>3, <1>8, <2>1 DEF Stamp
  <2>3. DOMAIN storage = Nodes
    BY <1>2 DEF Typed
  <2>4. /\ \A n \in Nodes : n # p => storage'[n] = storage[n]
        /\ storage'[p].kind = "slot" /\ storage'[p].at = g
    BY <1>4, <2>2, <2>3 DEF Slot
  <2>5. Slotted' = Slotted \cup {p} /\ p \notin Slotted
    BY <1>2, <1>4, <1>5, <2>4 DEF Slotted, SelectsPlaced
  <2>6. CellsApart'
    <3>1. Unposted(todo) \ {p} \subseteq Unposted(todo)' /\ p \in Slotted' /\ Op(p) # "comp"
          /\ (stage = "select" <=> Op(p) = "select") /\ Op(p) \notin Aggregates
      BY <1>1, <1>4, <1>8, <2>5 DEF Aggregates
    <3> QED
      BY <1>1, <1>2, <1>3, <1>4, <2>4, <3>1, StampedPairs
  <2>7. PassedOn'
    <3>1. SUFFICES ASSUME NEW m \in Slotted', Op(m) = "select"
                   PROVE  \E h \in Slotted' : /\ Op(h) = "select" /\ m \in Below(h) /\ Outermost(h)'
                                              /\ storage'[h].at = storage'[m].at
      BY <1>5 DEF PassedOn
    <3>2. Outermost(p)'
      <4>1. SUFFICES ASSUME NEW y \in Nodes, p \in KidSet(y), Op(y) = "select"
                     PROVE  y \in Unposted(todo)'
        BY <1>1, <1>5 DEF Outermost
      <4>2. p \in Below(y) /\ y # p
        BY <1>2, <4>1, BelowKid, KidIsLater
      <4>3. y \in Unposted(todo)
        BY <1>2, <1>4, <4>2, AncestorsUnposted
      <4> QED
        BY <1>4, <4>2, <4>3
    <3>3. p \in Slotted' /\ p \in Below(p)
      BY <1>2, <1>4, <2>5, BelowSelf
    <3>4. CASE m = p
      BY <1>8, <3>2, <3>3, <3>4
    <3>5. CASE m # p
      <4>1. m \in Slotted /\ m \in Nodes /\ storage'[m] = storage[m]
        BY <2>4, <2>5, <3>5 DEF Slotted
      <4>2. PICK h \in Slotted : /\ Op(h) = "select" /\ m \in Below(h) /\ Outermost(h)
                                 /\ storage[h].at = storage[m].at
        BY <1>2, <3>1, <4>1 DEF PassedOn
      <4>3. h \in Nodes /\ h # p /\ storage'[h] = storage[h] /\ h \in Slotted'
        BY <2>4, <2>5, <4>2 DEF Slotted
      <4>4. CASE h \notin KidSet(p)
        BY <1>6, <4>1, <4>2, <4>3, <4>4
      <4>5. CASE h \in KidSet(p)
        <5>1. Kids(p) \in Seq(Nat) /\ Len(Kids(p)) = 1
              /\ KidSet(p) = {Kids(p)[i] : i \in 1 .. Len(Kids(p))}
          BY <1>2, <1>4, <1>8, Shape DEF Arity
        <5>2. h = Kids(p)[1]
          BY <4>5, <5>1
        <5>3. storage[h].kind = "slot" /\ storage[h].at \in Nat
          BY <1>2, <4>2 DEF Fitting, Slotted
        <5>4. g = storage[h].at
          <6>1. PICK s : s = Slots
            OBVIOUS
          <6>2. PICK ks : ks = Kids(p)
            OBVIOUS
          <6>3. Sound(s) /\ ks \in Seq(Nat) /\ Len(ks) = 1 /\ storage[ks[1]].kind = "slot" /\ storage[ks[1]].at \in Nat
            BY <1>2, <5>1, <5>2, <5>3, <6>1, <6>2
          <6>4. Acquire(Release(s, ks)).got = storage[ks[1]].at
            BY <6>3, SelectReuses
          <6> QED
            BY <2>1, <5>2, <6>1, <6>2, <6>4
        <5>5. m \in Below(p)
          BY <1>2, <1>4, <4>2, <4>5, BelowKid
        <5> QED
          BY <1>8, <2>4, <3>2, <3>3, <4>1, <4>2, <5>4, <5>5
      <4> QED
        BY <4>4, <4>5
    <3> QED
      BY <3>4, <3>5
  <2> QED
    BY <2>6, <2>7 DEF PairInv
<1> QED
  BY <1>7, <1>8

\* A step that stamps no cell keeps PairInv.
LEMMA SameStoragePairs ==
    ASSUME PairInv, tree' = tree, storage' = storage, stage' = stage \/ stage' \notin Passes,
           stage \in Passes \cup {"emit", "run"},
           stage' \in {"select", "aggregate"} => \A h \in Slotted : Outermost(h) => Outermost(h)'
    PROVE  PairInv'
<1>1. Nodes' = Nodes
  BY SameTree
<1>2. Slotted' = Slotted
  BY <1>1 DEF Slotted
<1>3. CellsApart'
  BY <1>2, PairsStay DEF PairInv
<1>4. ASSUME stage' \in {"select", "aggregate"} PROVE PassedOn'
  <2>1. PassedOn
    BY <1>4 DEF PairInv, Passes
  <2> QED
    BY <1>2, <1>4, <2>1, PassedOnStays
<1> QED
  BY <1>3, <1>4 DEF PairInv

\* The select pass on the way down.
LEMMA SelectPrePairs ==
    ASSUME LayoutInv, PairInv, SelectPre
    PROVE  PairInv'
<1>1. /\ stage = "select" /\ stage' = "select" /\ todo # <<>> /\ Top.do = "pre" /\ Descend(Top.n)
      /\ tree' = tree /\ storage' = storage
  BY DEF SelectPre, Doing, layoutVars, nameVars
<1>2. tree \in Trees /\ Passing(todo)
  BY <1>1 DEF LayoutInv, Passes, Typed
<1>3. Unposted(todo)' = Unposted(todo)
  BY <1>1, <1>2, PassDescends
<1>4. ASSUME NEW h \in Slotted, Outermost(h) PROVE Outermost(h)'
  BY <1>1, <1>3, <1>4, OutermostStays
<1> QED
  BY <1>1, <1>4, SameStoragePairs DEF Passes

\* In the second pass no select holds its operand's cell back any more.
LEMMA AggregateOutermost ==
    ASSUME tree' = tree, stage = "aggregate", stage' = stage, NEW h, Outermost(h)
    PROVE  Outermost(h)'
  BY OutermostStays

\* An aggregate's cell is taken before those of its operands.
LEMMA AggregatePrePairs ==
    ASSUME LayoutInv, LayoutInv', PairInv, AggregatePre
    PROVE  PairInv'
<1>1. /\ stage = "aggregate" /\ stage' = "aggregate" /\ todo # <<>> /\ Top.do = "pre"
      /\ Descend(Top.n) /\ UNCHANGED nameVars /\ PreVisitExpr(Top.n)
  BY DEF AggregatePre, Doing
<1>2. /\ tree \in Trees /\ tree' = tree /\ Passing(todo) /\ NodesPlaced /\ CellsApart /\ PassedOn
      /\ Typed /\ DOMAIN storage = Nodes
  BY <1>1 DEF LayoutInv, Passes, Typed, nameVars, PairInv
<1>3. PICK p : p = Top.n
  OBVIOUS
<1>4. Unposted(todo)' = Unposted(todo) /\ p \in Nodes /\ p \in Unvisited(todo)
  BY <1>1, <1>2, <1>3, PassDescends
<1>5. ASSUME NEW h \in Slotted, Outermost(h) PROVE Outermost(h)'
  BY <1>1, <1>2, <1>5, AggregateOutermost
<1>6. CASE ~ (Op(p) \in Aggregates /\ storage[p].kind # "rodata")
  <2>1. storage' = storage
    BY <1>1, <1>3, <1>6 DEF PreVisitExpr
  <2> QED
    BY <1>1, <1>2, <1>5, <2>1, SameStoragePairs DEF Passes
<1>7. CASE Op(p) \in Aggregates /\ storage[p].kind # "rodata"
  <2>1. PICK g : g = Acquire(Slots).got
    OBVIOUS
  <2>2. storage' = [storage EXCEPT ![p] = Slot(g)]
    BY <1>1, <1>3, <1>7, <2>1 DEF PreVisitExpr, Stamp
  <2>3. \A n \in Nodes : n # p => storage'[n] = storage[n]
    BY <1>2, <2>2
  <2>4. storage'[p].kind = "slot"
    BY <1>2, <1>4, <2>2 DEF Slot
  <2>5. Nodes' = Nodes /\ p \in Unposted(todo)
    BY <1>1, <1>2, <1>4, TopFacts, SameTree
  <2>6. p \in Slotted' /\ Slotted \subseteq Slotted' /\ \A n \in Slotted' : n # p => n \in Slotted
    BY <1>4, <2>3, <2>4, <2>5 DEF Slotted
  <2>7. p \notin Slotted /\ Op(p) # "select" /\ Op(p) # "comp"
    BY <1>2, <1>4, <1>7, <2>5 DEF NodesPlaced, Aggregates, Calls
  <2>8. CellsApart'
    BY <1>1, <1>2, <1>3, <1>4, <2>3, <2>5, <2>6, <2>7, StampedPairs
  <2>9. \A n \in Slotted : storage'[n] = storage[n]
    BY <2>3, <2>7 DEF Slotted
  <2>10. PassedOn'
    BY <1>2, <1>5, <2>6, <2>7, <2>9, PassedOnStays
  <2> QED
    BY <2>8, <2>10 DEF PairInv
<1> QED
  BY <1>6, <1>7

\* A call gives the cells of its operands back and takes its own.
LEMMA AggregatePostPairs ==
    ASSUME LayoutInv, LayoutInv', PairInv, AggregatePost
    PROVE  PairInv'
<1>1. /\ stage = "aggregate" /\ stage' = "aggregate" /\ todo # <<>> /\ Top.do = "post"
      /\ Push(<<>>) /\ UNCHANGED nameVars /\ PostVisit(Top.n)
  BY DEF AggregatePost, Doing
<1>2. /\ tree \in Trees /\ tree' = tree /\ Passing(todo) /\ NodesPlaced /\ CellsApart /\ PassedOn
      /\ Typed /\ DOMAIN storage = Nodes
  BY <1>1 DEF LayoutInv, Passes, Typed, nameVars, PairInv
<1>3. PICK p : p = Top.n
  OBVIOUS
<1>4. Unposted(todo)' = Unposted(todo) \ {p} /\ p \in Nodes /\ p \in Unposted(todo)
  BY <1>1, <1>2, <1>3, PassPosts
<1>5. ASSUME NEW h \in Slotted, Outermost(h) PROVE Outermost(h)'
  BY <1>1, <1>2, <1>5, AggregateOutermost
<1>6. Nodes' = Nodes
  BY <1>2, SameTree
<1>7. PostVisit(p)
  BY <1>1, <1>3
<1>8. CASE Op(p) \notin Calls \cup {"dyn"}
  <2>1. storage' = storage
    BY <1>7, <1>8 DEF PostVisit
  <2> QED
    BY <1>1, <1>2, <1>5, <2>1, SameStoragePairs DEF Passes
<1>9. ASSUME Op(p) \in Calls \cup {"dyn"}, \A n \in Nodes : n # p => storage'[n] = storage[n]
      PROVE  PairInv'
  <2>1. p \notin Slotted /\ Op(p) # "select" /\ Op(p) # "comp" /\ Op(p) \notin Aggregates
    BY <1>2, <1>4, <1>9 DEF NodesPlaced, Aggregates, Calls
  <2>2. \A n \in Slotted : n \in Nodes /\ n # p /\ storage'[n] = storage[n]
    BY <1>9, <2>1 DEF Slotted
  <2>3. Slotted \subseteq Slotted' /\ \A n \in Slotted' : n # p => n \in Slotted
    BY <1>6, <1>9, <2>2 DEF Slotted
  <2>4. CellsApart'
    <3>1. CASE p \in Slotted'
      <4>1. Unposted(todo) \ {p} \subseteq Unposted(todo)'
        BY <1>4
      <4> QED
        BY <1>1, <1>2, <1>3, <1>4, <1>9, <2>1, <3>1, <4>1, StampedPairs
    <3>2. CASE p \notin Slotted'
      <4>1. Slotted' \subseteq Slotted /\ \A n \in Slotted' : storage'[n] = storage[n]
        BY <2>2, <2>3, <3>2
      <4> QED
        BY <1>2, <4>1, PairsStay
    <3> QED
      BY <3>1, <3>2
  <2>5. PassedOn'
    BY <1>2, <1>5, <2>1, <2>2, <2>3, PassedOnStays
  <2> QED
    BY <2>4, <2>5 DEF PairInv
<1>10. CASE Op(p) \in Calls
  <2>1. Op(p) \notin Aggregates /\ Op(p) # "dyn"
    BY <1>10 DEF Calls, Aggregates
  <2>2. Stamp(p, Acquire(Release(Slots, Kids(p))))
    BY <1>7, <1>10, <2>1 DEF PostVisit
  <2>3. PICK g : g = Acquire(Release(Slots, Kids(p))).got
    OBVIOUS
  <2>4. storage' = [storage EXCEPT ![p] = Slot(g)]
    BY <2>2, <2>3 DEF Stamp
  <2>5. \A n \in Nodes : n # p => storage'[n] = storage[n]
    BY <1>2, <2>4
  <2> QED
    BY <1>9, <1>10, <2>5
<1>11. CASE Op(p) = "dyn"
  <2>1. storage' = [storage EXCEPT ![p] = storage[Kid(p, 1)]]
    BY <1>7, <1>11 DEF PostVisit, Aggregates, Calls
  <2>2. \A n \in Nodes : n # p => storage'[n] = storage[n]
    BY <1>2, <2>1
  <2> QED
    BY <1>9, <1>11, <2>2
<1> QED
  BY <1>8, <1>10, <1>11

\* The cell of a comprehension is that of its result: none is taken.
LEMMA LocalsPostPairs ==
    ASSUME LayoutInv, PairInv, LocalsPost
    PROVE  PairInv'
<1>1. /\ stage = "locals" /\ todo # <<>> /\ Top.do = "post" /\ tree' = tree
      /\ stage' \in {"locals", "crash"}
      /\ \/ Op(Top.n) = "comp" /\ storage' = [storage EXCEPT ![Top.n] = storage[Result(Top.n)]]
         \/ storage' = storage
  BY DEF LocalsPost, Doing, CompStorage, nameVars
<1>2. CellsApart /\ DOMAIN storage = Nodes
  BY <1>1 DEF LayoutInv, Passes, Typed, PairInv
<1>3. \A n \in Nodes : Op(n) # "comp" => storage'[n] = storage[n]
  BY <1>1, <1>2
<1>4. Nodes' = Nodes /\ \A n : Op(n)' = Op(n)
  BY <1>1, SameTree
<1>5. \A n \in Slotted' : n \in Nodes /\ (Op(n) # "comp" => n \in Slotted)
  BY <1>3, <1>4 DEF Slotted
<1>6. SUFFICES ASSUME NEW x \in Slotted', NEW m \in Slotted', Op(x) # "comp", Op(m) \in Writing,
                      Clash(x, m)
               PROVE  storage'[x].at # storage'[m].at
  BY <1>1, <1>4, ClashSame DEF CellsApart, PairInv
<1>7. Op(m) # "comp"
  BY <1>6 DEF Writing, Calls, Aggregates
<1>8. x \in Slotted /\ m \in Slotted /\ storage'[x] = storage[x] /\ storage'[m] = storage[m]
  BY <1>3, <1>5, <1>6, <1>7
<1> QED
  BY <1>2, <1>6, <1>8 DEF CellsApart

\* From one pass to the next.
LEMMA NextPassPairs ==
    ASSUME LayoutInv, PairInv, NextPass
    PROVE  PairInv'
<1>1. /\ stage \in Passes /\ todo = <<>> /\ tree' = tree /\ storage' = storage
      /\ stage' = CASE stage = "select" -> "aggregate"
                    [] stage = "aggregate" -> "locals"
                    [] OTHER -> "emit"
  BY DEF NextPass, Passes, layoutVars, nameVars
<1>2. Nodes' = Nodes /\ \A n : Op(n)' = Op(n) /\ KidSet(n)' = KidSet(n)
  BY <1>1, SameTree
<1>3. Slotted' = Slotted
  BY <1>1, <1>2 DEF Slotted
<1>4. CellsApart /\ CellsApart'
  BY <1>1, <1>3, PairsStay DEF PairInv
<1>5. CASE stage = "select"
  <2>1. Unposted(todo) = {} /\ PassedOn
    BY <1>1, <1>5 DEF Unposted, PairInv
  <2>2. ASSUME NEW h \in Slotted, Outermost(h) PROVE Outermost(h)'
    BY <1>2, <2>1, <2>2 DEF Outermost
  <2>3. PassedOn'
    BY <1>1, <1>3, <2>1, <2>2, PassedOnStays
  <2> QED
    BY <1>4, <2>3 DEF PairInv
<1>6. CASE stage # "select"
  <2>1. stage' \notin {"select", "aggregate"}
    BY <1>1, <1>6
  <2> QED
    BY <1>4, <2>1 DEF PairInv
<1> QED
  BY <1>5, <1>6

\* PairInv is inductive relative to LayoutInv.
LEMMA PairStep ==
    ASSUME LayoutInv, LayoutInv', PairInv, [Next]_vars
    PROVE  PairInv'
<1>1. CASE UNCHANGED vars
  <2>1. tree' = tree /\ storage' = storage /\ stage' = stage /\ todo' = todo
    BY <1>1 DEF vars
  <2>2. /\ Nodes' = Nodes /\ Slotted' = Slotted
        /\ \A n : Op(n)' = Op(n) /\ KidSet(n)' = KidSet(n) /\ Below(n)' = Below(n)
    BY <2>1, SameTree DEF Slotted
  <2>3. CellsApart => CellsApart'
    BY <2>1, <2>2, PairsStay
  <2>4. Unposted(todo)' = Unposted(todo)
    <3>1. PICK t : t = todo /\ t = todo'
      BY <2>1
    <3>2. Unposted(t)' = Unposted(t)
      BY <2>1, SamePassing
    <3>3. Unposted(todo)' = Unposted(t)'
      BY <2>1, <3>1
    <3> QED
      BY <3>1, <3>2, <3>3
  <2>5. \A h : Outermost(h) => Outermost(h)'
    BY <2>1, <2>2, <2>4 DEF Outermost
  <2>6. PassedOn => PassedOn'
    BY <2>1, <2>2, <2>5, PassedOnStays
  <2> QED
    BY <2>1, <2>3, <2>6 DEF PairInv
<1>2. CASE ResolvePre \/ EnterScope \/ LeaveScope \/ ResolvePost
  <2>1. stage' = "resolve"
    BY <1>2 DEF ResolvePre, EnterScope, LeaveScope, ResolvePost, Doing
  <2> QED
    BY <2>1 DEF PairInv, Passes
<1>3. CASE StartLayout
  <2>1. \A n \in Nodes : LeafStorage(n).kind # "slot"
    BY DEF LeafStorage, Rodata, Local, None
  <2>2. storage' = [n \in Nodes |-> LeafStorage(n)] /\ tree' = tree
    BY <1>3 DEF StartLayout, nameVars
  <2>3. Slotted' = {}
    BY <2>1, <2>2, SameTree DEF Slotted
  <2> QED
    BY <2>3 DEF PairInv, CellsApart, PassedOn
<1>4. CASE SelectPre \/ SelectPost \/ AggregatePre \/ AggregatePost
  BY <1>4, SelectPrePairs, SelectPostPairs, AggregatePrePairs, AggregatePostPairs
<1>5. CASE LocalsPre
  <2>1. stage = "locals" /\ stage' = "locals" /\ tree' = tree /\ storage' = storage
    BY <1>5 DEF LocalsPre, Doing, layoutVars, nameVars
  <2> QED
    BY <2>1, SameStoragePairs DEF Passes
<1>6. CASE LocalsPost \/ NextPass
  BY <1>6, LocalsPostPairs, NextPassPairs
<1>7. CASE Emit
  <2>1. stage = "emit" /\ stage' \in {"run", "done", "crash"} /\ tree' = tree /\ storage' = storage
    BY <1>7 DEF Emit, layoutVars, nameVars
  <2> QED
    BY <2>1, SameStoragePairs DEF Passes
<1>8. CASE RunStep
  <2>1. stage = "run" /\ stage' = "run" /\ tree' = tree /\ storage' = storage
    BY <1>8, RunFrame DEF layoutVars, nameVars
  <2> QED
    BY <2>1, SameStoragePairs DEF Passes
<1>9. CASE Return
  <2>1. stage' = "done"
    BY <1>9 DEF Return
  <2> QED
    BY <2>1 DEF PairInv, Passes
<1> QED
  BY <1>1, <1>2, <1>3, <1>4, <1>5, <1>6, <1>7, <1>8, <1>9 DEF Next, RunStep

\* Nodes that clash never share a cell.
LEMMA PairInvariant == Spec => []PairInv
<1>1. Init => PairInv
  BY DEF Init, PairInv, Passes
<1>2. LayoutInv /\ LayoutInv' /\ PairInv /\ [Next]_vars => PairInv'
  BY PairStep
<1> QED
  BY <1>1, <1>2, LayoutInvariant, PTL DEF Spec

\* For every expression, while the emitted code runs, the cell in which a node
\* leaves its value is not the cell of any node whose code runs before the value
\* is consumed (release and reuse in SelectStorageVisitor and
\* AggregateStorageVisitor).
THEOREM CellsStayApart == Spec => [](stage = "run" => CellsApart)
<1>1. PairInv => (stage = "run" => CellsApart)
  BY DEF PairInv
<1> QED
  BY <1>1, PairInvariant, PTL

-----------------------------------------------------------------------------
(* Where the passes leave each kind of node. *)

\* dyn shares its operand's storage, unless that came only in pass E.
Shares(n) == storage[n] = None \/ storage[n] = storage[Kid(n, 1)]

PlaceOf(n) ==
    /\ Op(n) = "const" => storage[n] = Rodata
    /\ Op(n) = "ident" => storage[n] = Local(SlotOf(binding[n]))
    /\ Op(n) \in Writing => storage[n] = None \/ storage[n] = Rodata \/ n \in Slotted
    /\ Op(n) = "dyn" => Shares(n)

Joined(n) == storage[n] = storage[Kid(n, 1)] \/ Op(Kid(n, 1)) = "comp"

\* What is still to come has no storage.
NotYet(n) ==
    /\ Op(n) = "dyn" /\ stage = "select" => storage[n] = None
    /\ Op(n) = "dyn" /\ stage = "aggregate" /\ n \in Unposted(todo) => storage[n] = None
    /\ /\ Op(n) = "dyn"
       /\ stage \in {"locals", "emit", "run"} \/ (stage = "aggregate" /\ n \notin Unposted(todo))
       => Joined(n)
    /\ Op(n) = "comp" /\ stage \in {"select", "aggregate"} => storage[n] = None
    /\ Op(n) = "comp" /\ stage = "locals" /\ n \in Unposted(todo) => storage[n] = None
    /\ Op(n) = "comp" /\ stage = "locals" /\ n \notin Unposted(todo) => storage[n] = storage[Result(n)]
    /\ Op(n) = "comp" /\ stage \in {"emit", "run"} => storage[n] = storage[Result(n)]

PlaceInv == stage \in Passes \cup {"emit", "run"} => \A n \in Nodes : PlaceOf(n) /\ NotYet(n)

\* A dyn or a select has one operand.
LEMMA OnlyKid ==
    ASSUME tree \in Trees, NEW n \in Nodes, Op(n) \in {"dyn", "select"}
    PROVE  Kid(n, 1) \in KidSet(n) /\ Kid(n, 1) \in Nodes /\ Kid(n, 1) # n
<1>1. Kids(n) \in Seq(Nat) /\ Len(Kids(n)) = 1
  BY Shape DEF Arity
<1>2. Kids(n)[1] \in KidSet(n)
  BY <1>1, KidsInOrder
<1>3. Kid(n, 1) \in KidSet(n)
  BY <1>2 DEF Kid, Kids
<1> QED
  BY <1>3, KidIsLater

\* The result of a comprehension is a kid of it.
LEMMA ResultKid ==
    ASSUME tree \in Trees, NEW n \in Nodes, Op(n) = "comp"
    PROVE  Result(n) \in KidSet(n) /\ Result(n) \in Nodes /\ Result(n) # n
<1>1. Result(n) \in KidSet(n)
  BY CompKids
<1> QED
  BY <1>1, KidIsLater

\* Steps that change no storage.
LEMMA SamePlaces ==
    ASSUME tree' = tree, variables' = variables, binding' = binding, storage' = storage
    PROVE  Nodes' = Nodes /\ Slotted' = Slotted /\ \A n : PlaceOf(n)' <=> PlaceOf(n)
<1>1. Nodes' = Nodes /\ \A n : Op(n)' = Op(n)
  BY SameTree
<1>2. Slotted' = Slotted
  BY <1>1 DEF Slotted
<1>3. \A i : SlotOf(i)' = SlotOf(i)
  BY DEF SlotOf
<1>4. \A n : Kid(n, 1)' = Kid(n, 1)
  BY DEF Kid
<1>5. \A n : Shares(n)' <=> Shares(n)
  BY <1>4 DEF Shares
<1> QED
  BY <1>1, <1>2, <1>3, <1>5 DEF PlaceOf

\* A pass gives p its storage.
LEMMA PlacedOne ==
    ASSUME tree \in Trees, tree' = tree, variables' = variables, binding' = binding,
           stage \in Passes, stage' = stage, PlaceInv, NEW p \in Nodes,
           \A n \in Nodes : n # p => storage'[n] = storage[n],
           Unposted(todo)' = Unposted(todo) \/ Unposted(todo)' = Unposted(todo) \ {p},
           p \in Unposted(todo),
           \A q \in Nodes : p \in Below(q) => q \in Unposted(todo),
           PlaceOf(p)', NotYet(p)', stage = "locals" => Op(p) = "comp", Op(p) # "const", Op(p) # "ident"
    PROVE  PlaceInv'
<1>1. /\ Nodes' = Nodes
      /\ \A n : Op(n)' = Op(n) /\ Kid(n, 1)' = Kid(n, 1) /\ Result(n)' = Result(n)
  BY SameTree DEF Kid, Result
<1>2. \A i : SlotOf(i)' = SlotOf(i)
  BY DEF SlotOf
<1>3. SUFFICES ASSUME NEW n \in Nodes, n # p PROVE PlaceOf(n)' /\ NotYet(n)'
  BY <1>1 DEF PlaceInv
<1>4. storage'[n] = storage[n] /\ PlaceOf(n) /\ NotYet(n)
  BY <1>3 DEF PlaceInv
<1>5. n \in Unposted(todo)' <=> n \in Unposted(todo)
  BY <1>3
<1>6. ASSUME Op(n) = "dyn" PROVE Shares(n)'
  <2>1. Shares(n)
    BY <1>4, <1>6 DEF PlaceOf
  <2>2. Kid(n, 1) \in KidSet(n) /\ Kid(n, 1) \in Nodes
    BY <1>6, OnlyKid
  <2>3. CASE Kid(n, 1) # p
    BY <1>1, <1>4, <2>1, <2>2, <2>3 DEF Shares
  <2>4. CASE Kid(n, 1) = p
    <3>1. p \in Below(n)
      BY <2>2, <2>4, BelowKid
    <3>2. n \in Unposted(todo)
      BY <3>1
    <3>3. stage \in {"select", "aggregate"} => storage[n] = None
      BY <1>4, <1>6, <3>2 DEF NotYet
    <3>4. stage = "locals" => storage[p] = None
      BY DEF PlaceInv, NotYet
    <3>5. storage[n] = None
      BY <2>1, <2>4, <3>3, <3>4 DEF Shares, Passes
    <3> QED
      BY <1>4, <3>5 DEF Shares, None
  <2> QED
    BY <2>3, <2>4
<1>7. PlaceOf(n)'
  BY <1>1, <1>2, <1>4, <1>6 DEF PlaceOf, Slotted, Rodata, Local, None
<1>8. NotYet(n)'
  <2>1. ASSUME Op(n) = "comp", stage = "locals", n \notin Unposted(todo)
        PROVE  storage'[n] = storage'[Result(n)]
    <3>1. storage[n] = storage[Result(n)]
      BY <1>4, <2>1 DEF NotYet
    <3>2. Result(n) \in KidSet(n) /\ Result(n) \in Nodes
      BY <2>1, ResultKid
    <3>3. Result(n) # p
      <4>1. SUFFICES ASSUME Result(n) = p PROVE FALSE
        OBVIOUS
      <4>2. p \in Below(n)
        BY <3>2, <4>1, BelowKid
      <4> QED
        BY <2>1, <4>2
    <3> QED
      BY <1>4, <3>1, <3>2, <3>3
  <2>2. ASSUME Op(n) = "dyn", stage = "locals" \/ (stage = "aggregate" /\ n \notin Unposted(todo))
        PROVE  Joined(n)'
    <3>1. Joined(n)
      BY <1>4, <2>2 DEF NotYet
    <3>2. Kid(n, 1) \in KidSet(n) /\ Kid(n, 1) \in Nodes
      BY <2>2, OnlyKid
    <3>3. Kid(n, 1) = p => Op(p) = "comp"
      <4>1. SUFFICES ASSUME Kid(n, 1) = p PROVE Op(p) = "comp"
        OBVIOUS
      <4>2. p \in Below(n)
        BY <3>2, <4>1, BelowKid
      <4>3. n \in Unposted(todo)
        BY <4>2
      <4> QED
        BY <2>2, <4>3
    <3>4. Kid(n, 1) # p => storage'[Kid(n, 1)] = storage[Kid(n, 1)]
      BY <3>2
    <3> QED
      BY <1>1, <1>4, <3>1, <3>3, <3>4 DEF Joined
  <2> QED
    BY <1>1, <1>4, <1>5, <2>1, <2>2 DEF NotYet, None, Passes
<1> QED
  BY <1>7, <1>8

\* Joined depends on the tree and the annotations only.
LEMMA SameJoined ==
    ASSUME tree' = tree, storage' = storage
    PROVE  \A n : Joined(n)' <=> Joined(n)
  BY DEF Joined, Op, Kid

\* A pass goes on without giving anything a storage; p is done with, if any is.
LEMMA PlacedNone ==
    ASSUME tree \in Trees, tree' = tree, variables' = variables, binding' = binding,
           storage' = storage, stage \in Passes, stage' = stage, PlaceInv, NEW p \in Nodes,
           \/ Unposted(todo)' = Unposted(todo)
           \/ stage = "locals" /\ Op(p) # "comp" /\ Unposted(todo)' = Unposted(todo) \ {p}
    PROVE  PlaceInv'
<1>1. /\ Nodes' = Nodes
      /\ \A n : Op(n)' = Op(n) /\ Kid(n, 1)' = Kid(n, 1) /\ Result(n)' = Result(n)
  BY SameTree DEF Kid, Result
<1>2. SUFFICES ASSUME NEW n \in Nodes PROVE PlaceOf(n)' /\ NotYet(n)'
  BY <1>1 DEF PlaceInv
<1>3. PlaceOf(n) /\ NotYet(n)
  BY DEF PlaceInv
<1>4. PlaceOf(n)'
  BY <1>3, SamePlaces
<1>5. n \in Unposted(todo)' => n \in Unposted(todo)
  OBVIOUS
<1>6. Op(n) = "comp" => (n \in Unposted(todo)' <=> n \in Unposted(todo))
  OBVIOUS
<1>7. NotYet(n)'
  BY <1>1, <1>3, <1>5, <1>6, SameJoined DEF NotYet, None
<1> QED
  BY <1>4, <1>7

\* Stamping a cell on a node that has its own puts it in its place.
LEMMA SlotPlace ==
    ASSUME tree' = tree, NEW p \in Nodes, Op(p) \in Writing, DOMAIN storage = Nodes, NEW a,
           storage' = [storage EXCEPT ![p] = Slot(a)]
    PROVE  /\ \A n \in Nodes : n # p => storage'[n] = storage[n]
           /\ PlaceOf(p)' /\ NotYet(p)'
<1>1. Nodes' = Nodes /\ \A n : Op(n)' = Op(n)
  BY SameTree
<1>2. storage'[p] = Slot(a) /\ \A n \in Nodes : n # p => storage'[n] = storage[n]
  OBVIOUS
<1>3. p \in Slotted'
  BY <1>1, <1>2 DEF Slotted, Slot
<1>4. Op(p) \notin {"const", "ident", "dyn", "comp"}
  BY DEF Writing, Calls, Aggregates
<1> QED
  BY <1>1, <1>2, <1>3, <1>4 DEF PlaceOf, NotYet

\* The select pass puts selects in their place.
LEMMA SelectPlaces ==
    ASSUME LayoutInv, PlaceInv, SelectPre \/ SelectPost
    PROVE  PlaceInv'
<1>1. /\ stage = "select" /\ stage' = "select" /\ todo # <<>>
      /\ tree' = tree /\ variables' = variables /\ binding' = binding
  BY DEF SelectPre, SelectPost, Doing, layoutVars, nameVars
<1>2. tree \in Trees /\ Passing(todo) /\ DOMAIN storage = Nodes
  BY <1>1 DEF LayoutInv, Passes, Typed
<1>3. PICK p : p = Top.n
  OBVIOUS
<1>4. CASE SelectPre
  <2>1. Top.do = "pre" /\ Descend(Top.n) /\ storage' = storage
    BY <1>4 DEF SelectPre, Doing, layoutVars
  <2>2. Unposted(todo)' = Unposted(todo) /\ p \in Nodes
    BY <1>1, <1>2, <1>3, <2>1, PassDescends
  <2> QED
    BY <1>1, <1>2, <2>1, <2>2, PlacedNone DEF Passes
<1>5. CASE SelectPost
  <2>1. /\ Top.do = "post" /\ Push(<<>>)
        /\ IF Op(Top.n) = "select" THEN Stamp(Top.n, Acquire(Release(Slots, Kids(Top.n))))
           ELSE UNCHANGED <<storage, allocVars>>
    BY <1>5 DEF SelectPost, Doing
  <2>2. Unposted(todo)' = Unposted(todo) \ {p} /\ p \in Nodes /\ p \in Unposted(todo)
    BY <1>1, <1>2, <1>3, <2>1, PassPosts
  <2>3. CASE Op(p) # "select"
    <3>1. storage' = storage
      BY <1>3, <2>1, <2>3
    <3>2. /\ Nodes' = Nodes
          /\ \A n : Op(n)' = Op(n) /\ Kid(n, 1)' = Kid(n, 1) /\ Result(n)' = Result(n)
      BY <1>1, SameTree DEF Kid, Result
    <3>3. SUFFICES ASSUME NEW n \in Nodes PROVE PlaceOf(n)' /\ NotYet(n)'
      BY <3>2 DEF PlaceInv
    <3>4. PlaceOf(n) /\ NotYet(n)
      BY <1>1 DEF PlaceInv, Passes
    <3>5. PlaceOf(n)'
      BY <1>1, <3>1, <3>4, SamePlaces
    <3>6. NotYet(n)'
      BY <1>1, <3>1, <3>2, <3>4, SameJoined DEF NotYet, None
    <3> QED
      BY <3>5, <3>6
  <2>4. CASE Op(p) = "select"
    <3>1. PICK g : g = Acquire(Release(Slots, Kids(p))).got
      OBVIOUS
    <3>2. storage' = [storage EXCEPT ![p] = Slot(g)]
      BY <1>3, <2>1, <2>4, <3>1 DEF Stamp
    <3>3. (\A n \in Nodes : n # p => storage'[n] = storage[n]) /\ PlaceOf(p)' /\ NotYet(p)'
      BY <1>1, <1>2, <2>2, <2>4, <3>2, SlotPlace DEF Writing
    <3>4. \A q \in Nodes : p \in Below(q) => q \in Unposted(todo)
      BY <1>2, <2>2, AncestorsUnposted
    <3> QED
      BY <1>1, <1>2, <2>2, <2>4, <3>3, <3>4, PlacedOne DEF Passes
  <2> QED
    BY <2>3, <2>4
<1> QED
  BY <1>4, <1>5

\* The aggregate pass does so on the way down
LEMMA AggregatePrePlaces ==
    ASSUME LayoutInv, PlaceInv, AggregatePre
    PROVE  PlaceInv'
<1>1. /\ stage = "aggregate" /\ stage' = "aggregate" /\ todo # <<>> /\ Top.do = "pre"
      /\ Descend(Top.n) /\ PreVisitExpr(Top.n)
      /\ tree' = tree /\ variables' = variables /\ binding' = binding
  BY DEF AggregatePre, Doing, nameVars
<1>2. tree \in Trees /\ Passing(todo) /\ DOMAIN storage = Nodes
  BY <1>1 DEF LayoutInv, Passes, Typed
<1>3. PICK p : p = Top.n
  OBVIOUS
<1>4. Unposted(todo)' = Unposted(todo) /\ p \in Nodes /\ p \in Unvisited(todo)
  BY <1>1, <1>2, <1>3, PassDescends
<1>5. p \in Unposted(todo)
  BY <1>1, <1>2, <1>4, TopFacts
<1>6. CASE ~ (Op(p) \in Aggregates /\ storage[p].kind # "rodata")
  <2>1. storage' = storage
    BY <1>1, <1>3, <1>6 DEF PreVisitExpr
  <2> QED
    BY <1>1, <1>2, <1>4, <2>1, PlacedNone DEF Passes
<1>7. CASE Op(p) \in Aggregates /\ storage[p].kind # "rodata"
  <2>1. PICK g : g = Acquire(Slots).got
    OBVIOUS
  <2>2. storage' = [storage EXCEPT ![p] = Slot(g)]
    BY <1>1, <1>3, <1>7, <2>1 DEF PreVisitExpr, Stamp
  <2>3. (\A n \in Nodes : n # p => storage'[n] = storage[n]) /\ PlaceOf(p)' /\ NotYet(p)'
    BY <1>1, <1>2, <1>4, <1>7, <2>2, SlotPlace DEF Writing
  <2>4. \A q \in Nodes : p \in Below(q) => q \in Unposted(todo)
    BY <1>2, <1>4, <1>5, AncestorsUnposted
  <2>5. Op(p) # "const" /\ Op(p) # "ident"
    BY <1>7 DEF Aggregates
  <2> QED
    BY <1>1, <1>2, <1>4, <1>5, <2>3, <2>4, <2>5, PlacedOne DEF Passes
<1> QED
  BY <1>6, <1>7

\* and on the way up.
LEMMA AggregatePostPlaces ==
    ASSUME LayoutInv, PlaceInv, AggregatePost
    PROVE  PlaceInv'
<1>1. /\ stage = "aggregate" /\ stage' = "aggregate" /\ todo # <<>> /\ Top.do = "post"
      /\ Push(<<>>) /\ PostVisit(Top.n)
      /\ tree' = tree /\ variables' = variables /\ binding' = binding
  BY DEF AggregatePost, Doing, nameVars
<1>2. tree \in Trees /\ Passing(todo) /\ DOMAIN storage = Nodes
  BY <1>1 DEF LayoutInv, Passes, Typed
<1>3. PICK p : p = Top.n
  OBVIOUS
<1>4. Unposted(todo)' = Unposted(todo) \ {p} /\ p \in Nodes /\ p \in Unposted(todo)
  BY <1>1, <1>2, <1>3, PassPosts
<1>5. \A q \in Nodes : p \in Below(q) => q \in Unposted(todo)
  BY <1>2, <1>4, AncestorsUnposted
<1>6. PostVisit(p)
  BY <1>1, <1>3
<1>7. CASE Op(p) \notin Calls \cup {"dyn"}
  <2>1. storage' = storage
    BY <1>6, <1>7 DEF PostVisit
  <2>2. /\ Nodes' = Nodes
        /\ \A n : Op(n)' = Op(n) /\ Kid(n, 1)' = Kid(n, 1) /\ Result(n)' = Result(n)
    BY <1>1, SameTree DEF Kid, Result
  <2>3. SUFFICES ASSUME NEW n \in Nodes PROVE PlaceOf(n)' /\ NotYet(n)'
    BY <2>2 DEF PlaceInv
  <2>4. PlaceOf(n) /\ NotYet(n)
    BY <1>1 DEF PlaceInv, Passes
  <2>5. PlaceOf(n)'
    BY <1>1, <2>1, <2>4, SamePlaces
  <2>6. NotYet(n)'
    BY <1>1, <1>4, <1>7, <2>1, <2>2, <2>4, SameJoined DEF NotYet, None
  <2> QED
    BY <2>5, <2>6
<1>8. CASE Op(p) \in Calls
  <2>1. Op(p) \notin Aggregates /\ Op(p) \notin {"dyn", "const", "ident"} /\ Op(p) \in Writing
    BY <1>8 DEF Calls, Aggregates, Writing
  <2>2. Stamp(p, Acquire(Release(Slots, Kids(p))))
    BY <1>6, <1>8, <2>1 DEF PostVisit
  <2>3. PICK g : g = Acquire(Release(Slots, Kids(p))).got
    OBVIOUS
  <2>4. storage' = [storage EXCEPT ![p] = Slot(g)]
    BY <2>2, <2>3 DEF Stamp
  <2>5. (\A n \in Nodes : n # p => storage'[n] = storage[n]) /\ PlaceOf(p)' /\ NotYet(p)'
    BY <1>1, <1>2, <1>4, <2>1, <2>4, SlotPlace
  <2> QED
    BY <1>1, <1>2, <1>4, <1>5, <2>1, <2>5, PlacedOne DEF Passes
<1>9. CASE Op(p) = "dyn"
  <2>1. storage' = [storage EXCEPT ![p] = storage[Kid(p, 1)]]
    BY <1>6, <1>9 DEF PostVisit, Aggregates, Calls
  <2>2. Kid(p, 1) \in Nodes /\ Kid(p, 1) # p
    BY <1>2, <1>4, <1>9, OnlyKid
  <2>3. storage'[p] = storage'[Kid(p, 1)] /\ \A n \in Nodes : n # p => storage'[n] = storage[n]
    BY <1>2, <1>4, <2>1, <2>2
  <2>4. Op(p)' = "dyn" /\ Kid(p, 1)' = Kid(p, 1) /\ p \notin Unposted(todo)'
    BY <1>1, <1>4, <1>9 DEF Op, Kid
  <2>5. PlaceOf(p)' /\ NotYet(p)'
    BY <1>1, <2>3, <2>4 DEF PlaceOf, NotYet, Joined, Shares, Writing, Calls, Aggregates
  <2> QED
    BY <1>1, <1>2, <1>4, <1>5, <1>9, <2>3, <2>5, PlacedOne DEF Passes
<1> QED
  BY <1>7, <1>8, <1>9

\* The last pass places what joins another node: dyn and comprehensions.
LEMMA LocalsPlaces ==
    ASSUME LayoutInv, PlaceInv, LocalsPre \/ LocalsPost
    PROVE  PlaceInv'
<1>1. /\ stage = "locals" /\ todo # <<>> /\ tree' = tree /\ variables' = variables
      /\ binding' = binding
  BY DEF LocalsPre, LocalsPost, Doing, layoutVars, nameVars
<1>2. tree \in Trees /\ Passing(todo) /\ DOMAIN storage = Nodes
  BY <1>1 DEF LayoutInv, Passes, Typed
<1>3. PICK p : p = Top.n
  OBVIOUS
<1>4. CASE LocalsPre
  <2>1. Top.do = "pre" /\ Descend(Top.n) /\ storage' = storage /\ stage' = stage
    BY <1>4 DEF LocalsPre, Doing, layoutVars
  <2>2. Unposted(todo)' = Unposted(todo) /\ p \in Nodes
    BY <1>1, <1>2, <1>3, <2>1, PassDescends
  <2> QED
    BY <1>1, <1>2, <2>1, <2>2, PlacedNone DEF Passes
<1>5. CASE LocalsPost
  <2>1. /\ Top.do = "post" /\ Push(<<>>) /\ stage' \in {"locals", "crash"}
        /\ IF Op(Top.n) = "comp" THEN storage' = [storage EXCEPT ![Top.n] = storage[Result(Top.n)]]
           ELSE storage' = storage
    BY <1>1, <1>5 DEF LocalsPost, Doing, CompStorage
  <2>2. Unposted(todo)' = Unposted(todo) \ {p} /\ p \in Nodes /\ p \in Unposted(todo)
    BY <1>1, <1>2, <1>3, <2>1, PassPosts
  <2>3. CASE stage' = "crash"
    BY <2>3 DEF PlaceInv, Passes
  <2>4. CASE stage' = "locals" /\ Op(p) # "comp"
    <3>1. storage' = storage
      BY <1>3, <2>1, <2>4
    <3> QED
      BY <1>1, <1>2, <2>2, <2>4, <3>1, PlacedNone DEF Passes
  <2>5. CASE stage' = "locals" /\ Op(p) = "comp"
    <3>1. Result(p) \in Nodes /\ Result(p) # p
      BY <1>2, <2>2, <2>5, ResultKid
    <3>2. storage' = [storage EXCEPT ![p] = storage[Result(p)]]
      BY <1>3, <2>1, <2>5
    <3>3. storage'[p] = storage'[Result(p)] /\ \A n \in Nodes : n # p => storage'[n] = storage[n]
      BY <1>2, <2>2, <3>1, <3>2
    <3>4. Op(p)' = "comp" /\ Result(p)' = Result(p) /\ p \notin Unposted(todo)'
      BY <1>1, <2>2, <2>5 DEF Op, Result, Kid
    <3>5. PlaceOf(p)' /\ NotYet(p)'
      BY <2>5, <3>3, <3>4 DEF PlaceOf, NotYet, Writing, Calls, Aggregates
    <3>6. \A q \in Nodes : p \in Below(q) => q \in Unposted(todo)
      BY <1>2, <2>2, AncestorsUnposted
    <3> QED
      BY <1>1, <1>2, <2>2, <2>5, <3>3, <3>5, <3>6, PlacedOne DEF Passes
  <2> QED
    BY <2>1, <2>3, <2>4, <2>5
<1> QED
  BY <1>4, <1>5

\* Leaves have their place when the layout starts.
LEMMA StartPlaces ==
    ASSUME LayoutInv, StartLayout
    PROVE  PlaceInv'
<1>1. /\ stage' = "select" /\ tree' = tree /\ variables' = variables /\ binding' = binding
      /\ storage' = [n \in Nodes |-> LeafStorage(n)]
  BY DEF StartLayout, nameVars
<1>2. Nodes' = Nodes /\ \A n : Op(n)' = Op(n)
  BY <1>1, SameTree
<1>3. \A i : SlotOf(i)' = SlotOf(i)
  BY <1>1 DEF SlotOf
<1>4. SUFFICES ASSUME NEW n \in Nodes PROVE PlaceOf(n)' /\ NotYet(n)'
  BY <1>2 DEF PlaceInv
<1>5. storage'[n] = LeafStorage(n)
  BY <1>1
<1>6. /\ Op(n) = "const" => storage'[n] = Rodata
      /\ Op(n) = "ident" => storage'[n] = Local(SlotOf(binding[n]))
      /\ Op(n) \notin {"const", "ident"} => storage'[n] = Rodata \/ storage'[n] = None
      /\ Op(n) \notin {"const", "ident", "list", "map"} => storage'[n] = None
  BY <1>5 DEF LeafStorage
<1>7. PlaceOf(n)'
  BY <1>1, <1>2, <1>3, <1>6 DEF PlaceOf, Rodata, None, Local, Shares, Writing, Calls, Aggregates
<1>8. NotYet(n)'
  BY <1>1, <1>2, <1>6 DEF NotYet, None
<1> QED
  BY <1>7, <1>8

\* From one pass to the next.
LEMMA NextPassPlaces ==
    ASSUME LayoutInv, PlaceInv, NextPass
    PROVE  PlaceInv'
<1>1. /\ stage \in Passes /\ todo = <<>> /\ todo' = <<Visit(1)>> /\ tree' = tree /\ storage' = storage
      /\ variables' = variables /\ binding' = binding
      /\ stage' = CASE stage = "select" -> "aggregate"
                    [] stage = "aggregate" -> "locals"
                    [] OTHER -> "emit"
  BY DEF NextPass, Passes, layoutVars, nameVars
<1>2. tree \in Trees
  BY DEF LayoutInv, Typed
<1>3. /\ Nodes' = Nodes
      /\ \A n : Op(n)' = Op(n) /\ Kid(n, 1)' = Kid(n, 1) /\ Result(n)' = Result(n)
  BY <1>1, SameTree DEF Kid, Result
<1>4. Unposted(todo) = {} /\ Unposted(todo)' = Nodes
  BY <1>1, <1>2, PassStarts DEF Unposted
<1>5. SUFFICES ASSUME NEW n \in Nodes PROVE PlaceOf(n)' /\ NotYet(n)'
  BY <1>3 DEF PlaceInv
<1>6. PlaceOf(n) /\ NotYet(n)
  BY <1>1 DEF PlaceInv
<1>7. PlaceOf(n)'
  BY <1>1, <1>6, SamePlaces
<1>8. CASE stage = "select" /\ stage' = "aggregate"
  BY <1>1, <1>3, <1>4, <1>6, <1>7, <1>8, SameJoined DEF NotYet, None
<1>9. CASE stage = "aggregate" /\ stage' = "locals"
  BY <1>1, <1>3, <1>4, <1>6, <1>7, <1>9, SameJoined DEF NotYet, None
<1>10. CASE stage = "locals" /\ stage' = "emit"
  BY <1>1, <1>3, <1>4, <1>6, <1>7, <1>10, SameJoined DEF NotYet, None
<1> QED
  BY <1>1, <1>7, <1>8, <1>9, <1>10 DEF Passes

\* The running code moves no annotation.
LEMMA LaterPlaces ==
    ASSUME PlaceInv, tree' = tree, variables' = variables, binding' = binding, storage' = storage,
           stage \in {"emit", "run"}
    PROVE  stage' \notin Passes => PlaceInv'
<1>1. /\ Nodes' = Nodes
      /\ \A n : Op(n)' = Op(n) /\ Result(n)' = Result(n)
  BY SameTree DEF Kid, Result
<1>2. \A n \in Nodes : PlaceOf(n) /\ NotYet(n)
  BY DEF PlaceInv
<1>3. ASSUME stage' \in {"emit", "run"}, NEW n \in Nodes PROVE PlaceOf(n)' /\ NotYet(n)'
  <2>1. PlaceOf(n)'
    BY <1>2, SamePlaces
  <2>2. NotYet(n)'
    BY <1>1, <1>2, <1>3, SameJoined DEF NotYet, None
  <2> QED
    BY <2>1, <2>2
<1> QED
  BY <1>1, <1>3 DEF PlaceInv

\* PlaceInv is inductive relative to LayoutInv.
LEMMA PlaceStep ==
    ASSUME LayoutInv, PlaceInv, [Next]_vars
    PROVE  PlaceInv'
<1>1. CASE UNCHANGED vars
  <2>1. /\ tree' = tree /\ storage' = storage /\ stage' = stage /\ todo' = todo
        /\ variables' = variables /\ binding' = binding
    BY <1>1 DEF vars
  <2>2. Nodes' = Nodes /\ \A n : Op(n)' = Op(n) /\ Result(n)' = Result(n)
    BY <2>1, SameTree DEF Kid, Result
  <2>3. Unposted(todo)' = Unposted(todo)
    <3>1. PICK t : t = todo /\ t = todo'
      BY <2>1
    <3>2. Unposted(t)' = Unposted(t)
      BY <2>1, SamePassing
    <3>3. Unposted(todo)' = Unposted(t)'
      BY <2>1, <3>1
    <3> QED
      BY <3>1, <3>2, <3>3
  <2>4. \A n \in Nodes : NotYet(n) => NotYet(n)'
    BY <2>1, <2>2, <2>3, SameJoined DEF NotYet, None
  <2>5. \A n : PlaceOf(n) => PlaceOf(n)'
    BY <2>1, SamePlaces
  <2> QED
    BY <2>1, <2>2, <2>4, <2>5 DEF PlaceInv
<1>2. CASE ResolvePre \/ EnterScope \/ LeaveScope \/ ResolvePost
  <2>1. stage' = "resolve"
    BY <1>2 DEF ResolvePre, EnterScope, LeaveScope, ResolvePost, Doing
  <2> QED
    BY <2>1 DEF PlaceInv, Passes
<1>3. CASE StartLayout
  BY <1>3, StartPlaces
<1>4. CASE SelectPre \/ SelectPost \/ AggregatePre \/ AggregatePost
  BY <1>4, SelectPlaces, AggregatePrePlaces, AggregatePostPlaces
<1>5. CASE LocalsPre \/ LocalsPost \/ NextPass
  BY <1>5, LocalsPlaces, NextPassPlaces
<1>6. CASE Emit
  <2>1. /\ stage = "emit" /\ stage' \in {"run", "done", "crash"} /\ tree' = tree /\ storage' = storage
        /\ variables' = variables /\ binding' = binding
    BY <1>6 DEF Emit, layoutVars, nameVars
  <2> QED
    BY <2>1, LaterPlaces DEF Passes
<1>7. CASE RunStep
  <2>1. /\ stage = "run" /\ stage' = "run" /\ tree' = tree /\ storage' = storage
        /\ variables' = variables /\ binding' = binding
    BY <1>7, RunFrame DEF layoutVars, nameVars
  <2> QED
    BY <2>1, LaterPlaces DEF Passes
<1>8. CASE Return
  <2>1. stage' = "done"
    BY <1>8 DEF Return
  <2> QED
    BY <2>1 DEF PlaceInv, Passes
<1> QED
  BY <1>1, <1>2, <1>3, <1>4, <1>5, <1>6, <1>7, <1>8 DEF Next, RunStep

\* Each kind of node is where its pass leaves it.
LEMMA PlaceInvariant == Spec => []PlaceInv
<1>1. Init => PlaceInv
  BY DEF Init, PlaceInv, Passes
<1>2. LayoutInv /\ PlaceInv /\ [Next]_vars => PlaceInv'
  BY PlaceStep
<1> QED
  BY <1>1, <1>2, LayoutInvariant, PTL DEF Spec

-----------------------------------------------------------------------------
(* FlattenSeq: whatever concatenation preserves, it preserves. *)

Flattening(f, ss, n) ==
    f = [i \in 1 .. n |-> IF i = 1 THEN ss[i] ELSE f[i - 1] \o ss[i]]

\* The recursive function behind FlattenSeq exists.
LEMMA FlatteningExists ==
    ASSUME NEW ss, NEW l \in Nat
    PROVE  \E f : Flattening(f, ss, l)
<1> DEFINE Missing == {n \in Nat : ~ \E f : Flattening(f, ss, n)}
<1>1. SUFFICES ASSUME Missing # {} PROVE FALSE
  OBVIOUS
<1>2. PICK n \in Missing : \A j \in Missing : n <= j
  BY <1>1, LeastIndex
<1>3. n # 0
  <2>1. PICK f : f = [i \in 1 .. 0 |-> IF i = 1 THEN ss[i] ELSE ss[i]]
    OBVIOUS
  <2>2. 1 .. 0 = {}
    OBVIOUS
  <2>3. f = [i \in 1 .. 0 |-> IF i = 1 THEN ss[i] ELSE f[i - 1] \o ss[i]]
    BY <2>1, <2>2
  <2>4. Flattening(f, ss, 0)
    BY <2>3 DEF Flattening
  <2> QED
    BY <2>4, <1>2
<1>4. n \in Nat /\ n - 1 \in Nat /\ n - 1 \notin Missing
  BY <1>2, <1>3
<1>5. PICK f : Flattening(f, ss, n - 1)
  BY <1>4
<1>6. PICK x : x = IF n = 1 THEN ss[n] ELSE f[n - 1] \o ss[n]
  OBVIOUS
<1>7. PICK g : g = [i \in 1 .. n |-> IF i = n THEN x ELSE f[i]]
  OBVIOUS
<1>8. PICK h : h = [i \in 1 .. n |-> IF i = 1 THEN ss[i] ELSE g[i - 1] \o ss[i]]
  OBVIOUS
<1>9. ASSUME NEW i \in 1 .. n PROVE g[i] = h[i]
  <2>1. CASE i = n /\ n # 1
    <3>1. g[n - 1] = f[n - 1]
      BY <1>4, <1>7, <2>1
    <3>2. h[n] = g[n - 1] \o ss[n]
      BY <1>3, <1>4, <1>8, <2>1
    <3> QED
      BY <2>1, <3>1, <3>2, <1>4, <1>6, <1>7
  <2>2. CASE i = n /\ n = 1
    BY <2>2, <1>6, <1>7, <1>8
  <2>3. CASE i # n /\ i = 1
    <3>1. f[1] = ss[1]
      BY <1>4, <1>5, <2>3 DEF Flattening
    <3> QED
      BY <2>3, <3>1, <1>4, <1>7, <1>8
  <2>4. CASE i # n /\ i # 1
    <3>1. i \in 1 .. n - 1 /\ i - 1 \in 1 .. n /\ i - 1 # n
      BY <2>4, <1>4
    <3>2. f[i] = f[i - 1] \o ss[i]
      BY <2>4, <3>1, <1>5 DEF Flattening
    <3>3. g[i] = f[i] /\ g[i - 1] = f[i - 1]
      BY <2>4, <3>1, <1>7
    <3>4. h[i] = g[i - 1] \o ss[i]
      BY <2>4, <1>8
    <3> QED
      BY <3>2, <3>3, <3>4
  <2> QED
    BY <2>1, <2>2, <2>3, <2>4
<1>10. g = h
  BY <1>7, <1>8, <1>9
<1>11. Flattening(g, ss, n)
  BY <1>8, <1>10 DEF Flattening
<1> QED
  BY <1>2, <1>11

\* FlattenSeq is the last value of its recursive function.
LEMMA FlattenLast ==
    ASSUME NEW ss, Len(ss) # 0, NEW f, f = CHOOSE g : Flattening(g, ss, Len(ss))
    PROVE  FlattenSeq(ss) = f[Len(ss)]
BY DEF FlattenSeq, Flattening

\* A set of sequences closed under concatenation is closed under FlattenSeq.
LEMMA FlattenIn ==
    ASSUME NEW S, \A a, b \in S : a \o b \in S, NEW ss \in Seq(S), ss # <<>>
    PROVE  FlattenSeq(ss) \in S
<1>1. PICK l \in Nat : l = Len(ss)
  OBVIOUS
<1>2. l # 0 /\ \A i \in 1 .. l : ss[i] \in S
  BY <1>1
<1>3. PICK f : f = CHOOSE g : Flattening(g, ss, l)
  OBVIOUS
<1>4. f = [i \in 1 .. l |-> IF i = 1 THEN ss[i] ELSE f[i - 1] \o ss[i]]
  BY <1>3, FlatteningExists, Zenon DEF Flattening
<1> DEFINE Bad == {n \in Nat : n + 1 \in 1 .. l /\ f[n + 1] \notin S}
<1>5. Bad = {}
  <2>1. SUFFICES ASSUME Bad # {} PROVE FALSE
    OBVIOUS
  <2>2. PICK n \in Bad : \A j \in Bad : n <= j
    BY <2>1, LeastIndex
  <2>3. CASE n = 0
    BY <1>2, <1>4, <2>2, <2>3
  <2>4. CASE n # 0
    <3>1. n - 1 \in Nat /\ (n - 1) + 1 = n /\ n \in 1 .. l /\ n - 1 \notin Bad
      BY <2>2, <2>4
    <3>2. f[n] \in S
      BY <3>1
    <3>3. n + 1 \in 1 .. l /\ n + 1 # 1 /\ (n + 1) - 1 = n
      BY <2>2, <2>4
    <3>4. f[n + 1] = f[n] \o ss[n + 1]
      BY <1>4, <3>3
    <3>5. f[n + 1] \in S
      BY <1>2, <3>2, <3>3, <3>4
    <3> QED
      BY <2>2, <3>5
  <2> QED
    BY <2>3, <2>4
<1>6. f[l] \in S
  <2>1. l - 1 \in Nat /\ (l - 1) + 1 = l /\ l \in 1 .. l
    BY <1>2
  <2> QED
    BY <1>5, <2>1
<1> QED
  BY <1>1, <1>2, <1>3, <1>6, FlattenLast

-----------------------------------------------------------------------------
(* The emitted code.  An item of the stack waits for what is above it, and *)
(* what it reads through an annotation is there or is still to be made by  *)
(* an item above it.                                                       *)

Even(l) == l % 2 = 0

Shaped(it) ==
    /\ it.do = "fill" => /\ ToSet(it.ks) \subseteq KidSet(it.n)
                         /\ Op(it.n) = "map" => Even(Len(it.ks))
    /\ it.do = "branch" => Op(it.n) = "cond" /\ it.ks = <<Kid(it.n, 1)>>
    /\ it.do = "same" => Op(it.n) = "dyn" /\ it.ks = <<Kid(it.n, 1)>>
    /\ it.do \in {"prologue", "loop", "into", "copy", "leave"} => Op(it.n) = "comp"
    /\ it.do = "prologue" => it.ks = <<IterRange(it.n), AccuInit(it.n)>>
    /\ it.do = "copy" => it.ks = <<LoopBody(it.n)>>
    /\ it.do = "leave" => it.ks = <<Result(it.n), AccuInit(it.n)>>

\* The code of a node runs inside the code of the nodes it belongs to, and a
\* comprehension's range and init run before its prologue.
Within(a, b) == b.do # "eval" => /\ a.n \in Below(b.n)
                                 /\ b.do = "prologue" => a.n # b.n

\* The nodes whose address it uses, and those whose address it leaves.
Reads(it) ==
    IF it.do \in {"branch", "prologue", "copy", "same"} THEN ToSet(it.ks)
    ELSE IF it.do = "leave" THEN {it.ks[1]} ELSE {}
Makes(it) ==
    IF it.do \in {"eval", "kernel", "same", "branch", "prologue", "leave"} THEN {it.n} ELSE {}

Located(k) == storage[k] = None \/ storage[k].at = where[k]

Nested(t) ==
    /\ t \in Seq(ItemType)
    /\ \A i \in 1 .. Len(t) : Shaped(t[i])
    /\ \A i, j \in 1 .. Len(t) : i < j => Within(t[i], t[j])
Fed(t) ==
    \A j \in 1 .. Len(t) : \A k \in Reads(t[j]) :
        Located(k) \/ \E i \in 1 .. Len(t) : i < j /\ k \in Makes(t[i])

RunInv == /\ DOMAIN where = Nodes
          /\ stage = "run" => Nested(todo) /\ Fed(todo)

\* What an item reads through an annotation is an operand of its node.
LEMMA ReaderKids ==
    ASSUME tree \in Trees, NEW it \in ItemType, Shaped(it), NEW k \in Reads(it)
    PROVE  /\ k \in KidSet(it.n) /\ k \in Nodes /\ it.n \in Nodes
           /\ \A c \in Nodes : Op(c) = "comp" /\ k = AccuInit(c) =>
                 it.do = "prologue" /\ it.n = c
<1>1. it.n \in Nodes
  BY DEF ItemType
<1>2. PICK n \in Nodes : n = it.n
  BY <1>1
<1>3. CASE it.do \in {"branch", "same"}
  <2>1. k = Kid(n, 1) /\ Op(n) \in {"cond", "dyn"}
    BY <1>2, <1>3 DEF Shaped, Reads, ToSet
  <2>2. Kids(n) \in Seq(Nat) /\ (Len(Kids(n)) = 3 \/ Len(Kids(n)) = 1)
    <3>1. Op(n) \in Ops /\ Kids(n) \in Seq(Nat) /\ Len(Kids(n)) \in Arity(Op(n))
      BY Shape
    <3>2. (Op(n) = "cond" => Arity(Op(n)) = {3}) /\ (Op(n) = "dyn" => Arity(Op(n)) = {1})
      BY DEF Arity
    <3> QED
      BY <2>1, <3>1, <3>2
  <2>3. Kids(n)[1] \in KidSet(n)
    BY <2>2, KidsInOrder
  <2>4. k \in KidSet(n)
    BY <2>1, <2>3 DEF Kid, Kids
  <2>5. ASSUME NEW c \in Nodes, Op(c) = "comp", k = AccuInit(c) PROVE FALSE
    <3>1. k \in KidSet(c)
      BY <2>5, CompKids
    <3>2. c = n
      BY <2>4, <3>1, OneParent
    <3> QED
      BY <2>1, <2>5, <3>2
  <2> QED
    BY <1>2, <2>4, <2>5, KidIsLater
<1>4. CASE it.do \in {"prologue", "copy", "leave"}
  <2>1. Op(n) = "comp"
    BY <1>2, <1>4 DEF Shaped
  <2>2. /\ k \in {IterRange(n), AccuInit(n), LoopBody(n), Result(n)}
        /\ it.do # "prologue" => k \in {LoopBody(n), Result(n)}
    BY <1>2, <1>4 DEF Shaped, Reads, ToSet
  <2>3. k \in KidSet(n) /\ k \in Nodes
    BY <2>1, <2>2, CompKids
  <2>4. Kids(n) \in Seq(Nat) /\ Len(Kids(n)) = 5
    BY <2>1, Shape DEF Arity
  <2>5. Kids(n)[2] # Kids(n)[4] /\ Kids(n)[2] # Kids(n)[5]
    <3>1. 2 \in 1 .. Len(Kids(n)) /\ 4 \in 1 .. Len(Kids(n)) /\ 5 \in 1 .. Len(Kids(n))
      BY <2>4
    <3> QED
      BY <3>1, KidsInOrder
  <2>6. AccuInit(n) \notin {LoopBody(n), Result(n)}
    BY <2>5 DEF AccuInit, LoopBody, Result, Kid, Kids
  <2>7. ASSUME NEW c \in Nodes, Op(c) = "comp", k = AccuInit(c) PROVE it.do = "prologue" /\ n = c
    <3>1. k \in KidSet(c)
      BY <2>7, CompKids
    <3>2. c = n
      BY <2>3, <3>1, OneParent
    <3> QED
      BY <2>2, <2>6, <2>7, <3>2
  <2> QED
    BY <1>2, <2>3, <2>7
<1>5. it.do \in {"branch", "same", "prologue", "copy", "leave"}
  BY DEF Reads
<1> QED
  BY <1>3, <1>4, <1>5

\* The items that replace an item of node n.
Members(n) == {it \in ItemType : /\ Shaped(it) /\ it.n \in Below(n)
                                 /\ it.do = "eval" \/ it.n = n}
Inner(s, n) == \A i, j \in 1 .. Len(s) : i < j /\ s[j].do = "prologue" => s[i].n # n

\* A step may move only an accumulator, away from where its init was.
Kept == \A k \in Nodes : Located(k) =>
            Located(k)' \/ (Op(Top.n) = "comp" /\ Top.do # "eval" /\ k = AccuInit(Top.n))
Supplied(s) ==
    /\ \A j \in 1 .. Len(s) : \A k \in Reads(s[j]) :
         Located(k)' \/ \E i \in 1 .. Len(s) : i < j /\ k \in Makes(s[i])
    /\ \A k \in Makes(Top) : Located(k)' \/ \E i \in 1 .. Len(s) : k \in Makes(s[i])

\* Nested depends on the tree only.
LEMMA SameNested ==
    ASSUME tree' = tree, NEW t
    PROVE  Nested(t)' <=> Nested(t)
<1>1. ItemType' = ItemType
  BY SameTree DEF ItemType
<1>2. \A n, i : Kid(n, i)' = Kid(n, i)
  BY DEF Kid
<1>3. \A n : /\ IterRange(n)' = IterRange(n) /\ AccuInit(n)' = AccuInit(n)
             /\ LoopBody(n)' = LoopBody(n) /\ Result(n)' = Result(n)
  BY <1>2 DEF IterRange, AccuInit, LoopBody, Result
<1>4. \A n : Op(n)' = Op(n) /\ KidSet(n)' = KidSet(n) /\ Below(n)' = Below(n)
  BY SameTree
<1>5. \A it : Shaped(it)' <=> Shaped(it)
  BY <1>2, <1>3, <1>4 DEF Shaped
<1>6. \A a, b : Within(a, b)' <=> Within(a, b)
  BY <1>4 DEF Within
<1> QED
  BY <1>1, <1>5, <1>6 DEF Nested

\* Replacing the top item by items inside it that leave what it would have left.
LEMMA Replacing ==
    ASSUME tree \in Trees, tree' = tree, Nested(todo), Fed(todo), todo # <<>>,
           NEW s, s \in Seq(Members(Top.n)), Inner(s, Top.n), Kept, Supplied(s), Push(s)
    PROVE  Nested(todo)' /\ Fed(todo)'
<1>1. PICK t : t = todo
  OBVIOUS
<1>2. t \in Seq(ItemType) /\ t # <<>> /\ (\A i \in 1 .. Len(t) : t[i] \in ItemType) /\ 1 \in 1 .. Len(t)
  BY <1>1 DEF Nested
<1>3. PICK n \in Nodes : n = t[1].n
  BY <1>2 DEF ItemType
<1>4. Top = t[1]
  BY <1>1 DEF Top
<1>5. /\ s \in Seq(Members(n)) /\ s \in Seq(ItemType)
      /\ \A i \in 1 .. Len(s) : /\ Shaped(s[i]) /\ s[i].n \in Below(n)
                                /\ s[i].do = "eval" \/ s[i].n = n
  BY <1>3, <1>4 DEF Members
<1>6. PICK u : u = Pushed(s, t)
  OBVIOUS
<1>7. todo' = u
  BY <1>1, <1>6 DEF Push, Pushed
<1>8. PICK a \in Nat : a = Len(s)
  BY <1>5
<1>9. PICK l \in Nat : l = Len(t)
  BY <1>2
<1>10. /\ u \in Seq(ItemType) /\ Len(u) = a + (l - 1) /\ l >= 1
       /\ \A i \in 1 .. a : i \in 1 .. Len(u) /\ u[i] = s[i]
       /\ \A i \in 2 .. l : /\ a + (i - 1) \in 1 .. Len(u)
                            /\ u[a + (i - 1)] = t[i]
       /\ \A i \in 1 .. Len(u) :
            \/ i \in 1 .. a
            \/ \E j \in 2 .. l : i = a + (j - 1)
  <2>1. PushFact(ItemType, s, t, u)
    BY <1>2, <1>5, <1>6, PushShape
  <2> QED
    BY <2>1, <1>8, <1>9 DEF PushFact
<1>11. \A i \in 2 .. l : i \in 1 .. Len(t) /\ t[i] \in ItemType /\ Shaped(t[i]) /\ Within(t[1], t[i])
  BY <1>1, <1>2, <1>9 DEF Nested
\* What replaces the top is within what the top was within.
<1>12. ASSUME NEW i \in 1 .. a, NEW j \in 2 .. l PROVE Within(s[i], t[j])
  <2>1. PICK b \in Nodes : b = t[j].n
    BY <1>11 DEF ItemType
  <2>2. SUFFICES ASSUME t[j].do # "eval"
                 PROVE  s[i].n \in Below(b) /\ (t[j].do = "prologue" => s[i].n # b)
    BY <2>1 DEF Within
  <2>3. n \in Below(b) /\ (t[j].do = "prologue" => n # b)
    BY <1>3, <1>11, <2>1, <2>2 DEF Within
  <2>4. s[i].n \in Below(n)
    BY <1>5, <1>8
  <2>5. s[i].n \in Below(b)
    BY <2>3, <2>4, BelowTransitive
  <2>6. s[i].n >= n /\ n >= b /\ n \in Nat /\ b \in Nat /\ s[i].n \in Nat
    <3>1. n >= b
      BY <2>3, BelowSelf
    <3>2. s[i].n >= n /\ s[i].n \in Nodes
      BY <2>4, BelowSelf
    <3> QED
      BY <3>1, <3>2, NodeNat
  <2> QED
    BY <2>3, <2>5, <2>6
<1>13. ASSUME NEW i \in 1 .. a, NEW j \in 1 .. a, i < j PROVE Within(s[i], s[j])
  <2>1. s[i].n \in Below(n) /\ (s[j].do = "eval" \/ s[j].n = n)
    BY <1>5, <1>8
  <2>2. s[j].do = "prologue" => s[i].n # n
    BY <1>3, <1>4, <1>8, <1>13 DEF Inner
  <2> QED
    BY <2>1, <2>2 DEF Within
<1>14. Nested(u)
  <2>1. ASSUME NEW i \in 1 .. Len(u) PROVE Shaped(u[i])
    BY <1>5, <1>8, <1>10, <1>11
  <2>2. ASSUME NEW i \in 1 .. Len(u), NEW j \in 1 .. Len(u), i < j PROVE Within(u[i], u[j])
    <3>1. CASE j \in 1 .. a
      <4>1. i \in 1 .. a
        BY <2>2, <3>1
      <4> QED
        BY <1>10, <1>13, <2>2, <3>1, <4>1
    <3>2. CASE i \in 1 .. a /\ j \notin 1 .. a
      <4>1. PICK h \in 2 .. l : j = a + (h - 1)
        BY <1>10, <3>2
      <4> QED
        BY <1>10, <1>12, <3>2, <4>1
    <3>3. CASE i \notin 1 .. a
      <4>1. j \notin 1 .. a
        BY <2>2, <3>3
      <4>2. PICK h \in 2 .. l : j = a + (h - 1)
        BY <1>10, <4>1
      <4>3. PICK g \in 2 .. l : i = a + (g - 1)
        BY <1>10, <3>3
      <4>4. u[i] = t[g] /\ u[j] = t[h] /\ g < h /\ g \in 1 .. Len(t) /\ h \in 1 .. Len(t)
        BY <1>9, <1>10, <2>2, <4>2, <4>3
      <4> QED
        BY <1>1, <4>4 DEF Nested
    <3> QED
      BY <3>1, <3>2, <3>3
  <2> QED
    BY <1>10, <2>1, <2>2 DEF Nested
<1>15. Nested(todo)'
  <2>1. Nested(u)' <=> Nested(u)
    BY SameNested
  <2>2. Nested(todo)' <=> Nested(u)'
    BY <1>7
  <2> QED
    BY <1>14, <2>1, <2>2
<1>16. ASSUME NEW j \in 1 .. Len(u), NEW k \in Reads(u[j])
       PROVE  Located(k)' \/ \E i \in 1 .. Len(u) : i < j /\ k \in Makes(u[i])
  <2>1. CASE j \in 1 .. a
    <3>1. u[j] = s[j] /\ j \in 1 .. Len(s)
      BY <1>8, <1>10, <2>1
    <3>2. Located(k)' \/ \E i \in 1 .. Len(s) : i < j /\ k \in Makes(s[i])
      BY <1>16, <3>1 DEF Supplied
    <3> QED
      BY <1>8, <1>10, <3>2
  <2>2. CASE j \notin 1 .. a
    <3>1. PICK h \in 2 .. l : j = a + (h - 1)
      BY <1>10, <2>2
    <3>2. u[j] = t[h] /\ h \in 1 .. Len(t) /\ k \in Reads(t[h])
      BY <1>10, <1>11, <1>16, <3>1
    <3>3. Located(k) \/ \E i \in 1 .. Len(t) : i < h /\ k \in Makes(t[i])
      BY <1>1, <3>2 DEF Fed
    <3>4. CASE Located(k)
      <4>1. k \in Nodes /\ \A c \in Nodes : Op(c) = "comp" /\ k = AccuInit(c) =>
                              t[h].do = "prologue" /\ t[h].n = c
        BY <1>11, <3>1, <3>2, ReaderKids
      <4>2. t[h].do = "prologue" => t[h].n # n
        BY <1>3, <1>11, <3>1 DEF Within
      <4>3. ~(Op(n) = "comp" /\ k = AccuInit(n))
        BY <4>1, <4>2
      <4> QED
        BY <1>3, <1>4, <3>4, <4>1, <4>3 DEF Kept
    <3>5. CASE \E i \in 1 .. Len(t) : i < h /\ k \in Makes(t[i])
      <4>1. PICK i \in 1 .. Len(t) : i < h /\ k \in Makes(t[i])
        BY <3>5
      <4>2. CASE i = 1
        <5>1. Located(k)' \/ \E g \in 1 .. Len(s) : k \in Makes(s[g])
          BY <1>4, <4>1, <4>2 DEF Supplied
        <5>2. \A g \in 1 .. Len(s) : g \in 1 .. Len(u) /\ g < j /\ u[g] = s[g]
          BY <1>8, <1>10, <2>2, <3>1
        <5> QED
          BY <5>1, <5>2
      <4>3. CASE i # 1
        <5>1. i \in 2 .. l
          BY <1>9, <4>1, <4>3
        <5>2. a + (i - 1) \in 1 .. Len(u) /\ u[a + (i - 1)] = t[i] /\ a + (i - 1) < j
          BY <1>10, <3>1, <4>1, <5>1
        <5> QED
          BY <4>1, <5>2
      <4> QED
        BY <4>2, <4>3
    <3> QED
      BY <3>3, <3>4, <3>5
  <2> QED
    BY <2>1, <2>2
<1>17. Fed(todo)'
  BY <1>7, <1>16 DEF Fed, Reads, Makes
<1> QED
  BY <1>15, <1>17

\* A step of the emitted code, what it starts from and what it leaves.
Stepping ==
    /\ tree \in Trees /\ tree' = tree /\ storage' = storage /\ todo # <<>>
    /\ DOMAIN where = Nodes /\ Nested(todo) /\ Fed(todo)
Stepped == DOMAIN where' = Nodes /\ Nested(todo)' /\ Fed(todo)'

\* What the invariant says of the item on top.
LEMMA RunTop ==
    ASSUME Stepping
    PROVE  /\ Top \in ItemType /\ Top.n \in Nodes /\ Top.ks \in Seq(Nodes) /\ Shaped(Top)
           /\ \A k \in Reads(Top) : Located(k)
<1>1. todo \in Seq(ItemType) /\ 1 \in 1 .. Len(todo)
  BY DEF Stepping, Nested
<1>2. Top \in ItemType /\ Shaped(Top)
  BY <1>1 DEF Stepping, Nested, Top
<1>3. \A k \in Reads(Top) : Located(k)
  <2>1. \A k \in Reads(Top) : Located(k) \/ \E i \in 1 .. Len(todo) : i < 1
    BY <1>1 DEF Stepping, Fed, Top
  <2>2. ~ \E i \in 1 .. Len(todo) : i < 1
    BY <1>1
  <2> QED
    BY <2>1, <2>2
<1> QED
  BY <1>2, <1>3 DEF ItemType

\* Items that use no address.
Quiet(n) == {it \in Members(n) : Reads(it) = {} /\ it.do # "prologue"}

\* The case in which the new items read nothing through an annotation.
LEMMA QuietReplacing ==
    ASSUME Stepping, NEW s, s \in Seq(Quiet(Top.n)), Kept, Push(s),
           \A k \in Makes(Top) : Located(k)' \/ \E i \in 1 .. Len(s) : k \in Makes(s[i])
    PROVE  Nested(todo)' /\ Fed(todo)'
<1>1. /\ s \in Seq(Members(Top.n))
      /\ \A i \in 1 .. Len(s) : Reads(s[i]) = {} /\ s[i].do # "prologue"
  BY DEF Quiet
<1>2. Inner(s, Top.n)
  BY <1>1 DEF Inner
<1>3. Supplied(s)
  BY <1>1 DEF Supplied
<1> QED
  BY <1>1, <1>2, <1>3, Replacing DEF Stepping

\* A step that moves no operand.
LEMMA Unmoved ==
    ASSUME Stepping, where' = where
    PROVE  Kept /\ DOMAIN where' = Nodes /\ \A k : Located(k)' <=> Located(k)
<1>1. \A k : Located(k)' <=> Located(k)
  BY DEF Stepping, Located
<1> QED
  BY <1>1 DEF Stepping, Kept

\* A step that leaves one operand.
LEMMA Moved ==
    ASSUME Stepping, NEW n \in Nodes, NEW a, where' = [where EXCEPT ![n] = a]
    PROVE  /\ DOMAIN where' = Nodes /\ (Located(n)' <=> storage[n] = None \/ storage[n].at = a)
           /\ \A k \in Nodes : k # n => (Located(k)' <=> Located(k))
<1>1. /\ DOMAIN where' = Nodes /\ where'[n] = a
      /\ \A k \in Nodes : k # n => where'[k] = where[k]
  BY DEF Stepping
<1>2. storage' = storage
  BY DEF Stepping
<1> QED
  BY <1>1, <1>2 DEF Located, None

\* A step that leaves the node of the top item where its annotation says.
LEMMA Settling ==
    ASSUME Stepping, NEW a, where' = [where EXCEPT ![Top.n] = a],
           storage[Top.n] = None \/ storage[Top.n].at = a,
           NEW s, s \in Seq(Quiet(Top.n)), Push(s)
    PROVE  Stepped
<1>1. PICK n \in Nodes : n = Top.n
  BY RunTop
<1>2. /\ DOMAIN where' = Nodes /\ Located(n)'
      /\ \A k \in Nodes : k # n => (Located(k)' <=> Located(k))
  BY <1>1, Moved
<1>3. Kept
  BY <1>2 DEF Kept
<1>4. \A k \in Makes(Top) : Located(k)'
  BY <1>1, <1>2 DEF Makes
<1>5. Nested(todo)' /\ Fed(todo)'
  BY <1>3, <1>4, QuietReplacing
<1> QED
  BY <1>2, <1>5 DEF Stepped

\* A step that pushes nothing.
LEMMA NoItems == ASSUME NEW e, e = <<>> PROVE e \in Seq(Quiet(Top.n)) /\ Len(e) = 0
  OBVIOUS

\* A leaf, a kernel and an absorbed ternary leave the value of their node.
LEMMA LeafSteps ==
    ASSUME Stepping, EvalLeaf \/ Kernel \/ BranchPoison
    PROVE  Stepped
<1>1. PICK e : e = <<>>
  OBVIOUS
<1>2. Push(e) /\ where' = [where EXCEPT ![Top.n] = storage[Top.n].at]
  BY <1>1 DEF EvalLeaf, Kernel, BranchPoison, Yield, YieldInPlace
<1>3. e \in Seq(Quiet(Top.n))
  BY <1>1, NoItems
<1> QED
  BY <1>2, <1>3, Settling

\* A node that hands its operand's cell on leaves it there.
LEMMA ResultSteps ==
    ASSUME Stepping, Same \/ Leave, \A n \in Nodes : PlaceOf(n) /\ NotYet(n), stage = "run"
    PROVE  Stepped
<1>1. PICK e : e = <<>>
  OBVIOUS
<1>2. PICK n \in Nodes : n = Top.n
  BY RunTop
<1>3. Push(e) /\ where' = [where EXCEPT ![Top.n] = where[Top.ks[1]]]
  BY <1>1 DEF Same, Leave, YieldInPlace
<1>4. e \in Seq(Quiet(Top.n))
  BY <1>1, NoItems
<1>5. CASE Same
  <2>1. Top.do = "same" /\ Op(n) = "dyn" /\ Top.ks = <<Kid(n, 1)>>
    BY <1>2, <1>5, RunTop DEF Same, Running, Doing, Shaped
  <2>2. Top.ks[1] = Kid(n, 1) /\ Kid(n, 1) \in Reads(Top)
    BY <2>1 DEF Reads, ToSet
  <2>3. Located(Kid(n, 1))
    BY <2>2, RunTop
  <2>4. storage[n] = None \/ storage[n] = storage[Kid(n, 1)]
    BY <2>1 DEF PlaceOf, Shares
  <2>5. storage[n] = None \/ storage[n].at = where[Top.ks[1]]
    BY <2>2, <2>3, <2>4 DEF Located
  <2> QED
    BY <1>2, <1>3, <1>4, <2>5, Settling
<1>6. CASE Leave
  <2>1. Top.do = "leave" /\ Op(n) = "comp" /\ Top.ks = <<Result(n), AccuInit(n)>>
    BY <1>2, <1>6, RunTop DEF Leave, Running, Doing, Shaped
  <2>2. Top.ks[1] = Result(n) /\ Result(n) \in Reads(Top)
    BY <2>1 DEF Reads
  <2>3. Located(Result(n))
    BY <2>2, RunTop
  <2>4. storage[n] = storage[Result(n)]
    BY <2>1 DEF NotYet
  <2>5. storage[n] = None \/ storage[n].at = where[Top.ks[1]]
    BY <2>2, <2>3, <2>4 DEF Located
  <2> QED
    BY <1>2, <1>3, <1>4, <2>5, Settling
<1> QED
  BY <1>5, <1>6

\* The items in use.
LEMMA EvalMember ==
    ASSUME tree \in Trees, NEW n \in Nodes, NEW m \in Below(n)
    PROVE  Eval(m) \in Quiet(n) /\ Eval(m).do = "eval" /\ Eval(m).n = m /\ Makes(Eval(m)) = {m}
<1>1. PICK e : e = << >>
  OBVIOUS
<1>2. e \in Seq(Nodes) /\ "eval" \in Dos /\ m \in Nodes /\ Eval(m) = Item("eval", m, e)
  BY <1>1, BelowSelf DEF Dos, Eval
<1>3. Eval(m) \in ItemType /\ Eval(m).do = "eval" /\ Eval(m).n = m
  BY <1>2, ItemFields
<1> QED
  BY <1>3 DEF Quiet, Members, Shaped, Reads, Makes

\* An item of the node itself is inside the item it replaces.
LEMMA OwnMember ==
    ASSUME tree \in Trees, NEW n \in Nodes, NEW do \in Dos, NEW ks \in Seq(Nodes),
           Shaped(Item(do, n, ks))
    PROVE  /\ Item(do, n, ks) \in Members(n) /\ Item(do, n, ks).do = do
           /\ Item(do, n, ks).n = n /\ Item(do, n, ks).ks = ks
           /\ do \notin {"branch", "prologue", "copy", "same", "leave"} => Item(do, n, ks) \in Quiet(n)
<1>1. /\ Item(do, n, ks) \in ItemType /\ Item(do, n, ks).do = do
      /\ Item(do, n, ks).n = n /\ Item(do, n, ks).ks = ks
  BY ItemFields
<1>2. Item(do, n, ks) \in Members(n)
  BY <1>1, BelowSelf DEF Members
<1> QED
  BY <1>1, <1>2 DEF Quiet, Reads

\* So is the code of nodes below it.
LEMMA EvalsMember ==
    ASSUME tree \in Trees, NEW n \in Nodes, NEW ks \in Seq(Nodes), ToSet(ks) \subseteq Below(n)
    PROVE  Each(Eval, ks) \in Seq(Quiet(n)) /\ Len(Each(Eval, ks)) = Len(ks)
<1>1. \A i \in 1 .. Len(ks) : ks[i] \in Below(n)
  BY DEF ToSet
<1>2. \A i \in 1 .. Len(ks) : Eval(ks[i]) \in Quiet(n)
  BY <1>1, EvalMember
<1> QED
  BY <1>2 DEF Each

\* And that of its kids.
LEMMA KidsMember ==
    ASSUME tree \in Trees, NEW n \in Nodes
    PROVE  Kids(n) \in Seq(Nodes) /\ ToSet(Kids(n)) = KidSet(n) /\ KidSet(n) \subseteq Below(n)
<1>1. KidSet(n) \subseteq Below(n) /\ KidSet(n) \subseteq Nodes
  BY BelowKid, BelowSelf
<1>2. Kids(n) \in Seq(Nat) /\ KidSet(n) = {Kids(n)[i] : i \in 1 .. Len(Kids(n))}
  BY Shape
<1>3. \A i \in 1 .. Len(Kids(n)) : Kids(n)[i] \in Nodes
  BY <1>1, <1>2
<1> QED
  BY <1>1, <1>2, <1>3 DEF KidSet

\* Sequences of one,
LEMMA OneItem ==
    ASSUME NEW T, NEW a \in T, NEW s, s = <<a>>
    PROVE  s \in Seq(T) /\ Len(s) = 1 /\ s[1] = a
  OBVIOUS
\* two
LEMMA TwoItems ==
    ASSUME NEW T, NEW a \in T, NEW b \in T, NEW s, s = <<a, b>>
    PROVE  s \in Seq(T) /\ Len(s) = 2 /\ s[1] = a /\ s[2] = b
  OBVIOUS
\* and three items.
LEMMA ThreeItems ==
    ASSUME NEW T, NEW a \in T, NEW b \in T, NEW c \in T, NEW s, s = <<a, b, c>>
    PROVE  s \in Seq(T) /\ Len(s) = 3 /\ s[1] = a /\ s[2] = b /\ s[3] = c
  OBVIOUS

\* A call evaluates its arguments, then runs its kernel.
LEMMA CallSteps ==
    ASSUME Stepping, EvalCall
    PROVE  Stepped
<1>1. PICK n \in Nodes : n = Top.n
  BY RunTop
<1>2. tree \in Trees /\ where' = where
  BY DEF Stepping, EvalCall, runVars
<1>3. Kids(n) \in Seq(Nodes) /\ ToSet(Kids(n)) \subseteq Below(n)
  BY <1>2, KidsMember
<1>4. PICK e : e = Each(Eval, Kids(n))
  OBVIOUS
<1>5. e \in Seq(Quiet(n))
  BY <1>2, <1>3, <1>4, EvalsMember
<1>6. PICK k : k = Item("kernel", n, Kids(n))
  OBVIOUS
<1>7. k \in Quiet(n) /\ k.do = "kernel" /\ k.n = n
  <2>1. "kernel" \in Dos
    BY DEF Dos
  <2>2. Shaped(Item("kernel", n, Kids(n)))
    BY <1>3, <2>1, ItemFields DEF Shaped
  <2> QED
    BY <1>2, <1>3, <1>6, <2>1, <2>2, OwnMember
<1>8. PICK s : s = e \o <<k>>
  OBVIOUS
<1>9. s \in Seq(Quiet(n)) /\ Len(s) = Len(e) + 1 /\ Len(e) \in Nat /\ s[Len(e) + 1] = k
  BY <1>5, <1>7, <1>8, ConcatOne
<1>10. Push(s)
  BY <1>1, <1>4, <1>6, <1>8 DEF EvalCall
<1>11. Makes(Top) = {n}
  BY <1>1 DEF Makes, EvalCall, Running, Doing
<1>12. Len(e) + 1 \in 1 .. Len(s) /\ n \in Makes(s[Len(e) + 1])
  BY <1>7, <1>9 DEF Makes
<1>13. Kept /\ DOMAIN where' = Nodes
  BY <1>2, Unmoved
<1>14. \A m \in Makes(Top) : \E i \in 1 .. Len(s) : m \in Makes(s[i])
  BY <1>11, <1>12
<1>15. Nested(todo)' /\ Fed(todo)'
  BY <1>1, <1>9, <1>10, <1>13, <1>14, QuietReplacing
<1> QED
  BY <1>13, <1>15 DEF Stepped

\* A step of an item that leaves nothing.
LEMMA SilentSteps ==
    ASSUME Stepping, where' = where, Makes(Top) = {},
           NEW s, s \in Seq(Quiet(Top.n)), Push(s)
    PROVE  Stepped
<1>1. Kept /\ DOMAIN where' = Nodes
  BY Unmoved
<1>2. Nested(todo)' /\ Fed(todo)'
  BY <1>1, QuietReplacing
<1> QED
  BY <1>1, <1>2 DEF Stepped

\* An operand stored in its aggregate, a loop at its end.
LEMMA PopSteps ==
    ASSUME Stepping, PutOperands \/ LoopExit
    PROVE  Stepped
<1>1. PICK e : e = <<>>
  OBVIOUS
<1>2. Push(e) /\ where' = where /\ Top.do \in {"put", "loop"}
  BY <1>1 DEF PutOperands, LoopExit, Running, Doing, runVars
<1>3. Makes(Top) = {}
  BY <1>2 DEF Makes
<1>4. e \in Seq(Quiet(Top.n))
  BY <1>1, NoItems
<1> QED
  BY <1>2, <1>3, <1>4, SilentSteps

\* The entries of a map literal go in pairs.
LEMMA EvenLess ==
    ASSUME NEW l \in Nat, l # 0, Even(l)
    PROVE  l >= 2 /\ Even(l - 2)
<1>1. l % 2 = 0
  BY DEF Even
<1>2. l >= 2
  BY <1>1
<1>3. (l - 2) % 2 = 0
  BY <1>1, <1>2
<1> QED
  BY <1>2, <1>3 DEF Even

\* Filling from the middle of a literal.
LEMMA FillShaped ==
    ASSUME NEW n \in Nodes, NEW ks \in Seq(Nodes), ToSet(ks) \subseteq KidSet(n),
           Op(n) = "map" => Even(Len(ks))
    PROVE  Shaped(Item("fill", n, ks))
<1>1. PICK it : it = Item("fill", n, ks)
  OBVIOUS
<1>2. "fill" \in Dos
  BY DEF Dos
<1>3. it.do = "fill" /\ it.n = n /\ it.ks = ks
  BY <1>1, <1>2, ItemFields
<1>4. Shaped(it)
  BY <1>3 DEF Shaped
<1> QED
  BY <1>1, <1>4

\* A literal makes its container, then fills it.
LEMMA AggregateSteps ==
    ASSUME Stepping, EvalAggregate
    PROVE  Stepped
<1>1. PICK n \in Nodes : n = Top.n
  BY RunTop
<1>2. tree \in Trees
  BY DEF Stepping
<1>3. Kids(n) \in Seq(Nodes) /\ ToSet(Kids(n)) \subseteq KidSet(n)
  BY <1>2, KidsMember
<1>4. PICK f : f = Item("fill", n, Kids(n))
  OBVIOUS
<1>5. f \in Quiet(n)
  <2>1. "fill" \in Dos
    BY DEF Dos
  <2>2. Op(n) = "map" => Even(Len(Kids(n)))
    BY <1>2, Shape DEF Arity, Even
  <2>3. Shaped(Item("fill", n, Kids(n)))
    BY <1>3, <2>2, FillShaped
  <2> QED
    BY <1>2, <1>3, <1>4, <2>1, <2>3, OwnMember
<1>6. PICK s : s = <<f>>
  OBVIOUS
<1>7. s \in Seq(Quiet(n))
  BY <1>5, <1>6
<1>8. Push(s) /\ where' = [where EXCEPT ![Top.n] = storage[Top.n].at]
  BY <1>1, <1>4, <1>6 DEF EvalAggregate, Yield
<1> QED
  BY <1>1, <1>7, <1>8, Settling

\* One entry of a literal: its operands are evaluated and stored.
LEMMA FillSteps ==
    ASSUME Stepping, Fill
    PROVE  Stepped
<1>1. PICK n \in Nodes : n = Top.n
  BY RunTop
<1>2. tree \in Trees /\ where' = where /\ Top.do = "fill"
  BY DEF Stepping, Fill, Running, Doing, runVars
<1>3. Makes(Top) = {}
  BY <1>2 DEF Makes
<1>4. /\ Top.ks \in Seq(Nodes) /\ ToSet(Top.ks) \subseteq KidSet(n)
      /\ Op(n) = "map" => Even(Len(Top.ks))
  BY <1>1, <1>2, RunTop DEF Shaped
<1>5. CASE Top.ks = <<>>
  <2>1. PICK e : e = <<>>
    OBVIOUS
  <2>2. e \in Seq(Quiet(Top.n)) /\ Push(e)
    BY <1>5, <2>1, NoItems DEF Fill
  <2> QED
    BY <1>2, <1>3, <2>2, SilentSteps
<1>6. CASE Top.ks # <<>>
  <2>1. PICK w \in {1, 2} : w = IF Op(Top.n) = "map" THEN 2 ELSE 1
    OBVIOUS
  <2>2. PICK now : now = SubSeq(Top.ks, 1, w)
    OBVIOUS
  <2>3. PICK rest : rest = SubSeq(Top.ks, w + 1, Len(Top.ks))
    OBVIOUS
  <2>4. Push(Each(Eval, now) \o <<Item("put", n, now), Item("fill", n, rest)>>)
    BY <1>1, <1>6, <2>1, <2>2, <2>3 DEF Fill
  <2>5. PICK ks \in Seq(Nodes) : ks = Top.ks
    BY <1>4
  <2>6. PICK l \in Nat : l = Len(ks)
    BY <2>5
  <2>7. w <= l /\ w \in Nat /\ (Op(n) = "map" => Even(l - w))
    <3>1. l # 0
      BY <1>6, <2>5, <2>6
    <3>2. Op(n) = "map" => Even(l) /\ w = 2
      BY <1>1, <1>4, <2>1, <2>5, <2>6
    <3>3. Op(n) # "map" => w = 1
      BY <1>1, <2>1
    <3>4. Even(l) => l >= 2 /\ Even(l - 2)
      BY <3>1, EvenLess
    <3> QED
      BY <3>1, <3>2, <3>3, <3>4
  <2>8. /\ now \in Seq(Nodes) /\ Len(now) = w
        /\ \A i \in 1 .. w : now[i] = ks[i]
    BY <2>2, <2>5, <2>6, <2>7
  <2>9. /\ rest \in Seq(Nodes) /\ Len(rest) = l - w
        /\ \A i \in 1 .. (l - w) : rest[i] = ks[w + i]
    BY <2>3, <2>5, <2>6, <2>7
  <2>10. ToSet(now) \subseteq KidSet(n) /\ ToSet(rest) \subseteq KidSet(n)
    <3>1. \A i \in 1 .. l : ks[i] \in KidSet(n)
      BY <1>4, <2>5, <2>6 DEF ToSet
    <3>2. \A i \in 1 .. w : now[i] \in KidSet(n)
      BY <2>7, <2>8, <3>1
    <3>3. \A i \in 1 .. (l - w) : w + i \in 1 .. l
      BY <2>7
    <3>4. \A i \in 1 .. (l - w) : rest[i] \in KidSet(n)
      BY <2>9, <3>1, <3>3
    <3> QED
      BY <2>8, <2>9, <3>2, <3>4 DEF ToSet
  <2>11. Op(n) = "map" => Even(Len(rest))
    BY <2>7, <2>9
  <2>12. "put" \in Dos /\ "fill" \in Dos
    BY DEF Dos
  <2>13. PICK p : p = Item("put", n, now)
    OBVIOUS
  <2>14. p \in Quiet(n)
    <3>1. Shaped(Item("put", n, now))
      BY <2>8, <2>12, ItemFields DEF Shaped
    <3> QED
      BY <1>2, <2>8, <2>12, <2>13, <3>1, OwnMember
  <2>15. PICK f : f = Item("fill", n, rest)
    OBVIOUS
  <2>16. f \in Quiet(n)
    <3>1. Shaped(Item("fill", n, rest))
      BY <2>9, <2>10, <2>11, FillShaped
    <3> QED
      BY <1>2, <2>9, <2>12, <2>15, <3>1, OwnMember
  <2>17. PICK e : e = Each(Eval, now)
    OBVIOUS
  <2>18. e \in Seq(Quiet(n))
    BY <1>2, <2>8, <2>10, <2>17, KidsMember, EvalsMember
  <2>19. PICK q : q = <<p, f>>
    OBVIOUS
  <2>20. q \in Seq(Quiet(n))
    BY <2>14, <2>16, <2>19, TwoItems
  <2>21. PICK s : s = e \o q
    OBVIOUS
  <2>22. s \in Seq(Quiet(n))
    BY <2>18, <2>20, <2>21
  <2>23. Push(s)
    BY <2>4, <2>13, <2>15, <2>17, <2>19, <2>21
  <2> QED
    BY <1>1, <1>2, <1>3, <2>22, <2>23, SilentSteps
<1> QED
  BY <1>5, <1>6

\* A ternary has three operands.
LEMMA CondKid ==
    ASSUME tree \in Trees, NEW n \in Nodes, Op(n) = "cond", NEW i \in {1, 2, 3}
    PROVE  Kid(n, i) \in KidSet(n) /\ Kid(n, i) \in Nodes
<1>1. Kids(n) \in Seq(Nat) /\ Len(Kids(n)) = 3
  BY Shape DEF Arity
<1>2. PICK j \in 1 .. Len(Kids(n)) : j = i
  BY <1>1
<1>3. Kids(n)[j] \in KidSet(n)
  BY KidsInOrder
<1>4. Kid(n, i) = Kids(n)[j]
  BY <1>2 DEF Kid, Kids
<1> QED
  BY <1>3, <1>4, KidIsLater

\* A comprehension's or a ternary's code: an operand and what reads it.
LEMMA ReadingSteps ==
    ASSUME Stepping, where' = where, NEW n \in Nodes, n = Top.n, Top.do = "eval",
           NEW k \in KidSet(n), NEW do \in {"same", "branch"}, NEW ks, ks = <<k>>,
           Shaped(Item(do, n, ks)), Push(<<Eval(k), Item(do, n, ks)>>)
    PROVE  Stepped
<1>1. tree \in Trees /\ k \in Below(n) /\ k \in Nodes /\ k # n
  BY BelowKid, KidIsLater DEF Stepping
<1>2. ks \in Seq(Nodes) /\ do \in Dos /\ ToSet(ks) = {k}
  BY <1>1 DEF Dos, ToSet
<1>3. PICK e : e = Eval(k)
  OBVIOUS
<1>4. PICK r : r = Item(do, n, ks)
  OBVIOUS
<1>5. e \in Members(n) /\ e.do = "eval" /\ e.n = k /\ Makes(e) = {k} /\ Reads(e) = {}
  BY <1>1, <1>3, EvalMember DEF Quiet
<1>6. r \in Members(n) /\ r.do = do /\ r.n = n /\ r.ks = ks
  BY <1>1, <1>2, <1>4, OwnMember
<1>7. Reads(r) = {k} /\ Makes(r) = {n} /\ r.do # "prologue"
  BY <1>2, <1>6 DEF Reads, Makes
<1>8. PICK s : s = <<e, r>>
  OBVIOUS
<1>9. s \in Seq(Members(n)) /\ Len(s) = 2 /\ s[1] = e /\ s[2] = r
  BY <1>5, <1>6, <1>8, TwoItems
<1>10. \A i \in 1 .. Len(s) : i = 1 \/ i = 2
  BY <1>9
<1>11. Inner(s, n)
  BY <1>5, <1>7, <1>9, <1>10 DEF Inner
<1>12. Makes(Top) = {n} /\ 1 \in 1 .. Len(s) /\ 2 \in 1 .. Len(s) /\ 1 < 2
  BY <1>9 DEF Makes
<1>13. Supplied(s)
  <2>1. \A j \in 1 .. Len(s) : \A m \in Reads(s[j]) : j = 2 /\ m \in Makes(s[1])
    BY <1>5, <1>7, <1>9, <1>10
  <2> QED
    BY <1>7, <1>9, <1>12, <2>1 DEF Supplied
<1>14. Kept /\ DOMAIN where' = Nodes
  BY Unmoved
<1>15. Push(s)
  BY <1>3, <1>4, <1>8
<1>16. Nested(todo)' /\ Fed(todo)'
  BY <1>9, <1>11, <1>13, <1>14, <1>15, Replacing DEF Stepping
<1> QED
  BY <1>14, <1>16 DEF Stepped

\* A dyn evaluates its operand; a ternary its condition first.
LEMMA DynCondSteps ==
    ASSUME Stepping, EvalDyn \/ EvalCond
    PROVE  Stepped
<1>1. PICK n \in Nodes : n = Top.n
  BY RunTop
<1>2. tree \in Trees /\ where' = where /\ Top.do = "eval"
  BY DEF Stepping, EvalDyn, EvalCond, Running, Doing, runVars
<1>3. PICK k : k = Kid(n, 1)
  OBVIOUS
<1>4. PICK ks : ks = <<k>>
  OBVIOUS
<1>5. "same" \in Dos /\ "branch" \in Dos
  BY DEF Dos
<1>6. CASE EvalDyn
  <2>1. Op(n) = "dyn" /\ Push(<<Eval(k), Item("same", n, ks)>>)
    BY <1>1, <1>3, <1>4, <1>6 DEF EvalDyn
  <2>2. k \in KidSet(n) /\ k \in Nodes
    BY <1>2, <1>3, <2>1, OnlyKid
  <2>3. ks \in Seq(Nodes)
    BY <1>4, <2>2
  <2>4. Shaped(Item("same", n, ks))
    BY <1>3, <1>4, <1>5, <2>1, <2>3, ItemFields DEF Shaped
  <2> QED
    BY <1>1, <1>2, <1>4, <2>1, <2>2, <2>4, ReadingSteps
<1>7. CASE EvalCond
  <2>1. Op(n) = "cond" /\ Push(<<Eval(k), Item("branch", n, ks)>>)
    BY <1>1, <1>3, <1>4, <1>7 DEF EvalCond
  <2>2. k \in KidSet(n) /\ k \in Nodes
    BY <1>2, <1>3, <2>1, CondKid
  <2>3. ks \in Seq(Nodes)
    BY <1>4, <2>2
  <2>4. Shaped(Item("branch", n, ks))
    <3>1. PICK it : it = Item("branch", n, ks)
      OBVIOUS
    <3>2. it.do = "branch" /\ it.n = n /\ it.ks = ks
      BY <1>5, <2>3, <3>1, ItemFields
    <3>3. Shaped(it)
      BY <1>3, <1>4, <2>1, <3>2 DEF Shaped
    <3> QED
      BY <3>1, <3>3
  <2> QED
    BY <1>1, <1>2, <1>4, <2>1, <2>2, <2>4, ReadingSteps
<1> QED
  BY <1>6, <1>7

\* A ternary evaluates the arm its condition selects.
LEMMA BranchSteps ==
    ASSUME Stepping, BranchArm
    PROVE  Stepped
<1>1. PICK n \in Nodes : n = Top.n
  BY RunTop
<1>2. tree \in Trees /\ where' = where /\ Top.do = "branch"
  BY DEF Stepping, BranchArm, Running, Doing
<1>3. Op(n) = "cond"
  BY <1>1, <1>2, RunTop DEF Shaped
<1>4. PICK i \in {2, 3} : Push(<<Eval(Kid(n, i)), Item("kernel", n, <<Kid(n, i)>>)>>)
  BY <1>1 DEF BranchArm
<1>5. PICK k : k = Kid(n, i)
  OBVIOUS
<1>6. k \in KidSet(n) /\ k \in Nodes /\ k \in Below(n)
  <2>1. k \in KidSet(n) /\ k \in Nodes
    BY <1>2, <1>3, <1>5, CondKid
  <2> QED
    BY <1>2, <2>1, BelowKid
<1>7. PICK ks : ks = <<k>>
  OBVIOUS
<1>8. ks \in Seq(Nodes) /\ "kernel" \in Dos
  BY <1>6, <1>7 DEF Dos
<1>9. PICK e : e = Eval(k)
  OBVIOUS
<1>10. PICK r : r = Item("kernel", n, ks)
  OBVIOUS
<1>11. e \in Quiet(n)
  BY <1>2, <1>6, <1>9, EvalMember
<1>12. r \in Quiet(n) /\ r.do = "kernel" /\ r.n = n
  <2>1. Shaped(Item("kernel", n, ks))
    BY <1>8, ItemFields DEF Shaped
  <2> QED
    BY <1>2, <1>8, <1>10, <2>1, OwnMember
<1>13. PICK s : s = <<e, r>>
  OBVIOUS
<1>14. s \in Seq(Quiet(n)) /\ Len(s) = 2 /\ s[2] = r
  BY <1>11, <1>12, <1>13, TwoItems
<1>15. Makes(Top) = {n} /\ 2 \in 1 .. Len(s) /\ n \in Makes(s[2])
  BY <1>1, <1>2, <1>12, <1>14 DEF Makes
<1>16. Kept /\ DOMAIN where' = Nodes
  BY <1>2, Unmoved
<1>17. Push(s)
  BY <1>4, <1>5, <1>7, <1>9, <1>10, <1>13
<1>18. \A m \in Makes(Top) : \E j \in 1 .. Len(s) : m \in Makes(s[j])
  BY <1>15
<1>19. Nested(todo)' /\ Fed(todo)'
  BY <1>1, <1>14, <1>16, <1>17, <1>18, QuietReplacing
<1> QED
  BY <1>16, <1>19 DEF Stepped

\* A comprehension evaluates its range and its init first.
LEMMA CompSteps ==
    ASSUME Stepping, EvalComp
    PROVE  Stepped
<1>1. PICK c \in Nodes : c = Top.n
  BY RunTop
<1>2. tree \in Trees /\ where' = where /\ Top.do = "eval" /\ Op(c) = "comp"
  BY <1>1 DEF Stepping, EvalComp, Running, Doing, runVars
<1>3. PICK k : k = IterRange(c)
  OBVIOUS
<1>4. PICK m : m = AccuInit(c)
  OBVIOUS
<1>5. k \in KidSet(c) /\ m \in KidSet(c)
  BY <1>2, <1>3, <1>4, CompKids
<1>6. k \in Nodes /\ m \in Nodes /\ k \in Below(c) /\ m \in Below(c) /\ k # c /\ m # c
  BY <1>2, <1>5, BelowKid, KidIsLater
<1>7. PICK ks : ks = <<k, m>>
  OBVIOUS
<1>8. ks \in Seq(Nodes) /\ "prologue" \in Dos /\ ToSet(ks) = {k, m}
  BY <1>6, <1>7 DEF Dos, ToSet
<1>9. PICK a : a = Eval(k)
  OBVIOUS
<1>10. PICK b : b = Eval(m)
  OBVIOUS
<1>11. PICK p : p = Item("prologue", c, ks)
  OBVIOUS
<1>12. /\ a \in Members(c) /\ b \in Members(c) /\ Reads(a) = {} /\ Reads(b) = {}
       /\ Makes(a) = {k} /\ Makes(b) = {m} /\ a.n = k /\ b.n = m
       /\ a.do # "prologue" /\ b.do # "prologue"
  BY <1>2, <1>6, <1>9, <1>10, EvalMember DEF Quiet
<1>13. p \in Members(c) /\ p.do = "prologue" /\ p.n = c /\ p.ks = ks
  <2>1. Shaped(Item("prologue", c, ks))
    <3>1. p.do = "prologue" /\ p.n = c /\ p.ks = ks
      BY <1>8, <1>11, ItemFields
    <3>2. Shaped(p)
      BY <1>2, <1>3, <1>4, <1>7, <3>1 DEF Shaped
    <3> QED
      BY <1>11, <3>2
  <2> QED
    BY <1>2, <1>8, <1>11, <2>1, OwnMember
<1>14. Reads(p) = {k, m} /\ Makes(p) = {c}
  BY <1>8, <1>13 DEF Reads, Makes
<1>15. PICK s : s = <<a, b, p>>
  OBVIOUS
<1>16. s \in Seq(Members(c)) /\ Len(s) = 3 /\ s[1] = a /\ s[2] = b /\ s[3] = p
  BY <1>12, <1>13, <1>15, ThreeItems
<1>17. \A i \in 1 .. Len(s) : i = 1 \/ i = 2 \/ i = 3
  BY <1>16
<1>18. Inner(s, c)
  <2>1. \A j \in 1 .. Len(s) : s[j].do = "prologue" => j = 3
    BY <1>12, <1>16, <1>17
  <2>2. \A i \in 1 .. Len(s) : i < 3 => s[i].n # c
    BY <1>6, <1>12, <1>16, <1>17
  <2> QED
    BY <2>1, <2>2 DEF Inner
<1>19. Makes(Top) = {c} /\ 1 \in 1 .. Len(s) /\ 2 \in 1 .. Len(s) /\ 3 \in 1 .. Len(s) /\ 1 < 3 /\ 2 < 3
  BY <1>1, <1>2, <1>16 DEF Makes
<1>20. Supplied(s)
  <2>1. \A j \in 1 .. Len(s) : \A x \in Reads(s[j]) :
           j = 3 /\ (x \in Makes(s[1]) \/ x \in Makes(s[2]))
    BY <1>12, <1>14, <1>16, <1>17
  <2>2. c \in Makes(s[3])
    BY <1>14, <1>16
  <2> QED
    BY <1>19, <2>1, <2>2 DEF Supplied
<1>21. Kept /\ DOMAIN where' = Nodes
  BY <1>2, Unmoved
<1>22. Push(s)
  BY <1>1, <1>3, <1>4, <1>7, <1>9, <1>10, <1>11, <1>15 DEF EvalComp
<1>23. Nested(todo)' /\ Fed(todo)'
  BY <1>1, <1>2, <1>16, <1>18, <1>20, <1>21, <1>22, Replacing DEF Stepping
<1> QED
  BY <1>21, <1>23 DEF Stepped

\* Copying into the accumulator moves the init, which only the prologue reads.
LEMMA AccuMoved ==
    ASSUME Stepping, NEW c \in Nodes, c = Top.n, Op(c) = "comp", Top.do # "eval",
           NEW a, where' = [where EXCEPT ![AccuInit(c)] = a]
    PROVE  Kept /\ DOMAIN where' = Nodes
<1>1. AccuInit(c) \in Nodes
  BY CompKids DEF Stepping
<1>2. /\ DOMAIN where' = Nodes
      /\ \A k \in Nodes : k # AccuInit(c) => (Located(k)' <=> Located(k))
  BY <1>1, Moved
<1> QED
  BY <1>2 DEF Kept

\* The two copies into the accumulator.
LEMMA AccuSteps ==
    ASSUME Stepping, IntoAccu \/ CopyStep
    PROVE  Stepped
<1>1. PICK c \in Nodes : c = Top.n
  BY RunTop
<1>2. PICK e : e = <<>>
  OBVIOUS
<1>3. Push(e) /\ Top.do \in {"into", "copy"}
  BY <1>2 DEF IntoAccu, CopyStep, Running, Doing
<1>4. Op(c) = "comp" /\ Makes(Top) = {}
  BY <1>1, <1>3, RunTop DEF Shaped, Makes
<1>5. e \in Seq(Quiet(Top.n))
  BY <1>2, NoItems
<1>6. where' = where \/ where' = [where EXCEPT ![AccuInit(c)] = AccuSlot(c)]
  BY <1>1 DEF IntoAccu, CopyStep, AccuIs, Yield
<1>7. CASE where' = where
  BY <1>3, <1>4, <1>5, <1>7, SilentSteps
<1>8. CASE where' = [where EXCEPT ![AccuInit(c)] = AccuSlot(c)]
  <2>1. Kept /\ DOMAIN where' = Nodes
    BY <1>1, <1>3, <1>4, <1>8, AccuMoved
  <2>2. Nested(todo)' /\ Fed(todo)'
    BY <1>3, <1>4, <1>5, <2>1, QuietReplacing
  <2> QED
    BY <2>1, <2>2 DEF Stepped
<1> QED
  BY <1>6, <1>7, <1>8

\* The loop item of a comprehension.
LEMMA LoopShaped ==
    ASSUME tree \in Trees, NEW c \in Nodes, Op(c) = "comp", NEW ks \in Seq(Nodes)
    PROVE  Item("loop", c, ks) \in Quiet(c)
<1>1. PICK p : p = Item("loop", c, ks)
  OBVIOUS
<1>2. "loop" \in Dos
  BY DEF Dos
<1>3. p.do = "loop" /\ p.n = c /\ p.ks = ks
  BY <1>1, <1>2, ItemFields
<1>4. Shaped(p)
  BY <1>3 DEF Shaped
<1>5. Shaped(Item("loop", c, ks))
  BY <1>1, <1>4
<1> QED
  BY <1>2, <1>5, OwnMember

\* One item in front of two.
LEMMA JoinThree ==
    ASSUME NEW T, NEW a \in T, NEW b \in T, NEW c \in T
    PROVE  <<a>> \o <<b, c>> = <<a, b, c>>
<1>1. PICK u : u = <<a>>
  OBVIOUS
<1>2. PICK v : v = <<b, c>>
  OBVIOUS
<1>3. PICK w : w = u \o v
  OBVIOUS
<1>4. /\ u \in Seq(T) /\ Len(u) = 1 /\ u[1] = a
      /\ v \in Seq(T) /\ Len(v) = 2 /\ v[1] = b /\ v[2] = c
  BY <1>1, <1>2
<1>5. /\ w \in Seq(T) /\ Len(w) = 3
      /\ \A i \in 1 .. 3 : w[i] = IF i <= 1 THEN u[i] ELSE v[i - 1]
  <2>1. u \in Seq(T) /\ v \in Seq(T)
    BY <1>4
  <2>2. /\ w \in Seq(T) /\ Len(w) = Len(u) + Len(v)
        /\ \A i \in 1 .. Len(w) : w[i] = IF i <= Len(u) THEN u[i] ELSE v[i - Len(u)]
    BY <1>3, <2>1
  <2>3. Len(w) = 3
    BY <1>4, <2>2
  <2> QED
    BY <1>4, <2>2, <2>3
<1>6. w[1] = a /\ w[2] = b /\ w[3] = c
  BY <1>4, <1>5
<1>7. w = <<a, b, c>>
  BY <1>5, <1>6
<1> QED
  BY <1>1, <1>2, <1>3, <1>7

\* A comprehension that absorbs its range, and one that starts to loop.
LEMMA PrologueSteps ==
    ASSUME Stepping, PrologueAbsorbs \/ PrologueStarts
    PROVE  Stepped
<1>1. PICK c \in Nodes : c = Top.n
  BY RunTop
<1>2. tree \in Trees /\ Top.do = "prologue"
  BY DEF Stepping, PrologueAbsorbs, PrologueStarts, Running, Doing
<1>3. Op(c) = "comp" /\ Makes(Top) = {c}
  BY <1>1, <1>2, RunTop DEF Shaped, Makes
<1>4. where' = [where EXCEPT ![AccuInit(c)] = AccuSlot(c)]
  BY <1>1 DEF PrologueAbsorbs, PrologueStarts, AccuIs, Yield
<1>5. Kept /\ DOMAIN where' = Nodes
  BY <1>1, <1>2, <1>3, <1>4, AccuMoved
<1>6. PICK k : k = Result(c)
  OBVIOUS
<1>7. PICK m : m = AccuInit(c)
  OBVIOUS
<1>8. k \in Nodes /\ m \in Nodes /\ k \in Below(c)
  <2>1. k \in KidSet(c) /\ m \in KidSet(c)
    BY <1>2, <1>3, <1>6, <1>7, CompKids
  <2> QED
    BY <1>2, <2>1, BelowKid, KidIsLater
<1>9. PICK ks : ks = <<k, m>>
  OBVIOUS
<1>10. ks \in Seq(Nodes) /\ "leave" \in Dos /\ ks[1] = k
  BY <1>8, <1>9 DEF Dos
<1>11. PICK e : e = <<>>
  OBVIOUS
<1>12. e \in Seq(Nodes)
  BY <1>11
<1>13. PICK a : a = Eval(k)
  OBVIOUS
<1>14. PICK r : r = Item("leave", c, ks)
  OBVIOUS
<1>15. PICK p : p = Item("loop", c, e)
  OBVIOUS
<1>16. a \in Members(c) /\ Reads(a) = {} /\ Makes(a) = {k} /\ a.do # "prologue"
  BY <1>2, <1>8, <1>13, EvalMember DEF Quiet
<1>17. r \in Members(c) /\ r.do = "leave" /\ r.n = c /\ r.ks = ks
  <2>1. Shaped(Item("leave", c, ks))
    <3>1. r.do = "leave" /\ r.n = c /\ r.ks = ks
      BY <1>10, <1>14, ItemFields
    <3>2. Shaped(r)
      BY <1>3, <1>6, <1>7, <1>9, <3>1 DEF Shaped
    <3> QED
      BY <1>14, <3>2
  <2> QED
    BY <1>2, <1>10, <1>14, <2>1, OwnMember
<1>18. Reads(r) = {k} /\ Makes(r) = {c} /\ r.do # "prologue"
  BY <1>10, <1>17 DEF Reads, Makes
<1>19. p \in Members(c) /\ Reads(p) = {} /\ p.do # "prologue"
  BY <1>2, <1>3, <1>12, <1>15, LoopShaped DEF Quiet
<1>20. CASE PrologueAbsorbs
  <2>1. PICK s : s = <<a, r>>
    OBVIOUS
  <2>2. s \in Seq(Members(c)) /\ Len(s) = 2 /\ s[1] = a /\ s[2] = r
    BY <1>16, <1>17, <2>1, TwoItems
  <2>3. \A i \in 1 .. Len(s) : i = 1 \/ i = 2
    BY <2>2
  <2>4. Inner(s, c)
    BY <1>16, <1>18, <2>2, <2>3 DEF Inner
  <2>5. Supplied(s)
    <3>1. \A j \in 1 .. Len(s) : \A x \in Reads(s[j]) : j = 2 /\ x \in Makes(s[1])
      BY <1>16, <1>18, <2>2, <2>3
    <3>2. 1 \in 1 .. Len(s) /\ 2 \in 1 .. Len(s) /\ 1 < 2 /\ c \in Makes(s[2])
      BY <1>18, <2>2
    <3> QED
      BY <1>3, <3>1, <3>2 DEF Supplied
  <2>6. Push(s)
    BY <1>1, <1>6, <1>7, <1>9, <1>13, <1>14, <1>20, <2>1 DEF PrologueAbsorbs, Finish
  <2>7. Nested(todo)' /\ Fed(todo)'
    BY <1>1, <1>2, <1>5, <2>2, <2>4, <2>5, <2>6, Replacing DEF Stepping
  <2> QED
    BY <1>5, <2>7 DEF Stepped
<1>21. CASE PrologueStarts
  <2>1. PICK s : s = <<p, a, r>>
    OBVIOUS
  <2>2. s \in Seq(Members(c)) /\ Len(s) = 3 /\ s[1] = p /\ s[2] = a /\ s[3] = r
    BY <1>16, <1>17, <1>19, <2>1, ThreeItems
  <2>3. \A i \in 1 .. Len(s) : i = 1 \/ i = 2 \/ i = 3
    BY <2>2
  <2>4. Inner(s, c)
    BY <1>16, <1>18, <1>19, <2>2, <2>3 DEF Inner
  <2>5. Supplied(s)
    <3>1. \A j \in 1 .. Len(s) : \A x \in Reads(s[j]) : j = 3 /\ x \in Makes(s[2])
      BY <1>16, <1>18, <1>19, <2>2, <2>3
    <3>2. 2 \in 1 .. Len(s) /\ 3 \in 1 .. Len(s) /\ 2 < 3 /\ c \in Makes(s[3])
      BY <1>18, <2>2
    <3> QED
      BY <1>3, <3>1, <3>2 DEF Supplied
  <2>6. Push(s)
    <3>1. Push(<<p>> \o <<a, r>>)
      BY <1>1, <1>6, <1>7, <1>9, <1>11, <1>13, <1>14, <1>15, <1>21 DEF PrologueStarts, Finish
    <3>2. <<p>> \o <<a, r>> = <<p, a, r>>
      BY <1>16, <1>17, <1>19, JoinThree
    <3> QED
      BY <2>1, <3>1, <3>2
  <2>7. Nested(todo)' /\ Fed(todo)'
    BY <1>1, <1>2, <1>5, <2>2, <2>4, <2>5, <2>6, Replacing DEF Stepping
  <2> QED
    BY <1>5, <2>7 DEF Stepped
<1> QED
  BY <1>20, <1>21

-----------------------------------------------------------------------------
(* Rows: siblings, and the operands of one iteration. *)

\* Each follows those before it.
Row(ks) == \A i, j \in 1 .. Len(ks) : i < j => \A w \in Below(ks[j]) : After(w, ks[i])

\* Everything below a later sibling comes after an earlier one.
LEMMA Follows ==
    ASSUME tree \in Trees, NEW n \in Nodes, NEW k \in KidSet(n), NEW l \in KidSet(n), k < l
    PROVE  \A w \in Below(l) : After(w, k)
<1>1. SUFFICES ASSUME NEW w \in Below(l) PROVE After(w, k)
  OBVIOUS
<1>2. k \in Nodes /\ l \in Nodes /\ w \in Nodes /\ k \in Nat /\ w \in Nat
  BY KidIsLater, BelowSelf, NodeNat
<1>3. \A x \in Below(k) : x < w
  BY KidsApart
<1>4. k < w
  BY <1>2, <1>3, BelowSelf
<1>5. w \notin Below(k)
  <2>1. ~(w < w)
    BY <1>2
  <2> QED
    BY <1>3, <2>1
<1>6. w \in Below(n)
  BY BelowKid
<1> QED
  BY <1>2, <1>4, <1>5, <1>6 DEF After

\* Some kids of a node, in order, are a row.
LEMMA SiblingsRow ==
    ASSUME tree \in Trees, NEW n \in Nodes, NEW ks \in Seq(Nodes), ToSet(ks) \subseteq KidSet(n),
           \A i, j \in 1 .. Len(ks) : i < j => ks[i] < ks[j]
    PROVE  Row(ks)
<1>1. \A i \in 1 .. Len(ks) : ks[i] \in KidSet(n)
  BY DEF ToSet
<1> QED
  BY <1>1, Follows DEF Row

\* All of them are.
LEMMA KidsRow ==
    ASSUME tree \in Trees, NEW n \in Nodes
    PROVE  Row(Kids(n))
<1>1. Kids(n) \in Seq(Nodes) /\ ToSet(Kids(n)) \subseteq KidSet(n)
  BY KidsMember
<1>2. \A i, j \in 1 .. Len(Kids(n)) : i < j => Kids(n)[i] < Kids(n)[j]
  BY KidsInOrder
<1> QED
  BY <1>1, <1>2, SiblingsRow

\* Part of a row is a row.
LEMMA RowPart ==
    ASSUME NEW ks \in Seq(Nodes), Row(ks), NEW d \in Nat, NEW r \in Seq(Nodes),
           d + Len(r) <= Len(ks), \A i \in 1 .. Len(r) : r[i] = ks[d + i]
    PROVE  Row(r) /\ ToSet(r) \subseteq ToSet(ks)
<1>1. PICK l \in Nat : l = Len(ks)
  OBVIOUS
<1>2. PICK a \in Nat : a = Len(r)
  OBVIOUS
<1>3. \A i \in 1 .. a : d + i \in 1 .. l
  BY <1>1, <1>2
<1>4. Row(r)
  <2>1. SUFFICES ASSUME NEW i \in 1 .. a, NEW j \in 1 .. a, i < j, NEW w \in Below(r[j])
                 PROVE  After(w, r[i])
    BY <1>2 DEF Row
  <2>2. d + i < d + j
    BY <2>1
  <2>3. r[i] = ks[d + i] /\ r[j] = ks[d + j]
    BY <1>2
  <2> QED
    BY <1>1, <1>3, <2>1, <2>2, <2>3 DEF Row
<1>5. \A i \in 1 .. a : r[i] \in {ks[j] : j \in 1 .. l}
  <2>1. TAKE i \in 1 .. a
  <2>2. d + i \in 1 .. l /\ r[i] = ks[d + i]
    BY <1>2, <1>3
  <2> QED
    BY <2>2
<1> QED
  BY <1>1, <1>2, <1>4, <1>5 DEF ToSet

\* A row with one more node in front.
LEMMA RowFront ==
    ASSUME NEW x \in Nodes, NEW es \in Seq(Nodes), Row(es),
           \A i \in 1 .. Len(es) : \A w \in Below(es[i]) : After(w, x)
    PROVE  <<x>> \o es \in Seq(Nodes) /\ Row(<<x>> \o es) /\ ToSet(<<x>> \o es) \subseteq {x} \cup ToSet(es)
<1>1. PICK u : u = <<x>> \o es
  OBVIOUS
<1>2. PICK l \in Nat : l = Len(es)
  OBVIOUS
<1>3. PICK v : v = <<x>>
  OBVIOUS
<1>4. v \in Seq(Nodes) /\ Len(v) = 1 /\ v[1] = x /\ u = v \o es
  BY <1>1, <1>3
<1>5. /\ u \in Seq(Nodes) /\ Len(u) = l + 1 /\ u[1] = x
      /\ \A i \in 1 .. l : u[i + 1] = es[i]
  <2>0. \A p, r \in Seq(Nodes) : p \o r \in Seq(Nodes) /\ Len(p \o r) = Len(p) + Len(r)
    OBVIOUS
  <2>1. u \in Seq(Nodes) /\ Len(u) = 1 + l
    BY <1>2, <1>4, <2>0
  <2>2. u[1] = v[1]
    BY <1>2, <1>4, <2>1
  <2>3. ASSUME NEW i \in 1 .. l PROVE u[i + 1] = es[i]
    <3>1. PICK j \in Nat : j = i + 1
      OBVIOUS
    <3>2. j \in 1 .. (1 + l) /\ j > 1 /\ j - 1 = i
      BY <1>2, <3>1
    <3>3. u[j] = es[j - 1]
      BY <1>2, <1>4, <2>1, <3>2
    <3> QED
      BY <3>1, <3>2, <3>3
  <2> QED
    BY <1>2, <1>4, <2>1, <2>2, <2>3
<1>6. \A i \in 2 .. (l + 1) : i - 1 \in 1 .. l /\ u[i] = es[i - 1]
  <2>1. TAKE i \in 2 .. (l + 1)
  <2>2. PICK j \in 1 .. l : j = i - 1 /\ j + 1 = i
    BY <1>2
  <2> QED
    BY <1>5, <2>2
<1>7. Row(u)
  <2>1. SUFFICES ASSUME NEW i \in 1 .. (l + 1), NEW j \in 1 .. (l + 1), i < j, NEW w \in Below(u[j])
                 PROVE  After(w, u[i])
    BY <1>5 DEF Row
  <2>2. j \in 2 .. (l + 1)
    BY <2>1
  <2>3. u[j] = es[j - 1] /\ j - 1 \in 1 .. l
    BY <1>6, <2>2
  <2>4. CASE i = 1
    BY <1>2, <1>5, <2>1, <2>3, <2>4
  <2>5. CASE i # 1
    <3>1. i \in 2 .. (l + 1) /\ i - 1 < j - 1
      BY <2>1, <2>5
    <3>2. u[i] = es[i - 1] /\ i - 1 \in 1 .. l
      BY <1>6, <3>1
    <3> QED
      BY <1>2, <2>1, <2>3, <3>1, <3>2 DEF Row
  <2> QED
    BY <2>4, <2>5
<1>8. ToSet(u) \subseteq {x} \cup ToSet(es)
  <2>1. ToSet(u) = {u[i] : i \in 1 .. (l + 1)} /\ ToSet(es) = {es[i] : i \in 1 .. l}
    BY <1>2, <1>5 DEF ToSet
  <2>2. \A i \in 1 .. (l + 1) : u[i] = x \/ \E j \in 1 .. l : u[i] = es[j]
    <3>1. \A i \in 1 .. (l + 1) : i = 1 \/ i \in 2 .. (l + 1)
      BY <1>2
    <3> QED
      BY <1>5, <1>6, <3>1
  <2> QED
    BY <2>1, <2>2
<1> QED
  BY <1>1, <1>5, <1>7, <1>8

-----------------------------------------------------------------------------
(* One iteration: whatever a specialised step runs is below the loop. *)

Rows(n) == {ks \in Seq(Nodes) : Row(ks) /\ ToSet(ks) \subseteq Below(n)}

\* A row below a node is one of its rows.
LEMMA RowsOf ==
    ASSUME NEW B, B \subseteq Nodes, NEW ks \in Seq(B), Row(ks), NEW n, B = Below(n)
    PROVE  ks \in Rows(n)
<1>1. ks \in Seq(Nodes) /\ \A i \in DOMAIN ks : ks[i] \in B
  OBVIOUS
<1>2. ToSet(ks) \subseteq B
  BY <1>1 DEF ToSet
<1> QED
  BY <1>1, <1>2 DEF Rows

\* What one iteration updates the accumulator from: rows of operands of the body.
LEMMA LoopUpdates ==
    ASSUME tree \in Trees, NEW c \in Nodes, Op(c) = "comp", Specialised(c)
    PROVE  Updates(c) \in Seq(Rows(LoopBody(c))) /\ Rows(LoopBody(c)) \subseteq Seq(Below(c))
<1>1. PICK B : B = Below(LoopBody(c))
  OBVIOUS
<1>0. LoopBody(c) \in Nodes /\ B \subseteq Below(c)
  BY <1>1, CompKids, BelowKid
<1>2. B \subseteq Nodes
  BY <1>0, <1>1, BelowSelf
<1>3. \A n \in B : /\ Kids(n) \in Seq(B) /\ KidSet(n) \subseteq B
                   /\ \A i \in 1 .. Len(Kids(n)) : Kid(n, i) \in B
  <2>1. SUFFICES ASSUME NEW n \in B
                 PROVE  /\ Kids(n) \in Seq(B) /\ KidSet(n) \subseteq B
                        /\ \A i \in 1 .. Len(Kids(n)) : Kid(n, i) \in B
    OBVIOUS
  <2>2. n \in Nodes
    BY <1>2
  <2>3. KidSet(n) \subseteq B
    BY <1>0, <1>1, <2>2, KidBelow
  <2>4. Kids(n) \in Seq(Nat) /\ KidSet(n) = {Kids(n)[i] : i \in 1 .. Len(Kids(n))}
    BY <2>2, Shape
  <2>5. \A i \in 1 .. Len(Kids(n)) : Kids(n)[i] \in B
    BY <2>3, <2>4
  <2> QED
    BY <2>3, <2>4, <2>5 DEF Kid, Kids
<1>4. LoopBody(c) \in B
  BY <1>0, <1>1, BelowSelf
<1>5. PICK b : b = Body(c)
  OBVIOUS
<1>6. /\ b \in B
      /\ Pred(c) = <<>> \/ \E x \in B : Pred(c) = <<x>> /\ \A w \in Below(b) : After(w, x)
  <2>1. CASE Wrapped(c)
    <3>1. PICK m : m = LoopBody(c)
      OBVIOUS
    <3>2. Op(m) = "cond" /\ m \in Nodes /\ m \in B
      BY <1>0, <1>4, <2>1, <3>1 DEF Wrapped
    <3>3. Kid(m, 1) \in KidSet(m) /\ Kid(m, 2) \in KidSet(m) /\ Kid(m, 1) < Kid(m, 2)
      <4>1. Len(Kids(m)) = 3 /\ Kids(m) \in Seq(Nat)
        BY <3>2, Shape DEF Arity
      <4>2. 1 \in 1 .. Len(Kids(m)) /\ 2 \in 1 .. Len(Kids(m)) /\ 1 < 2
        BY <4>1
      <4>3. Kids(m)[1] \in KidSet(m) /\ Kids(m)[2] \in KidSet(m) /\ Kids(m)[1] < Kids(m)[2]
        BY <3>2, <4>2, KidsInOrder
      <4> QED
        BY <4>3 DEF Kid, Kids
    <3>4. \A w \in Below(Kid(m, 2)) : After(w, Kid(m, 1))
      BY <3>2, <3>3, Follows
    <3>5. KidSet(m) \subseteq B
      BY <1>3, <3>2
    <3>6. b = Kid(m, 2) /\ Pred(c) = <<Kid(m, 1)>>
      BY <1>5, <2>1, <3>1 DEF Body, Pred
    <3> QED
      BY <3>3, <3>4, <3>5, <3>6
  <2>2. CASE ~Wrapped(c)
    BY <1>4, <1>5, <2>2 DEF Body, Pred
  <2> QED
    BY <2>1, <2>2
<1>7. PICK entries : entries = Kids(Kid(b, 2))
  OBVIOUS
<1>8. PICK q : q = Pred(c)
  OBVIOUS
<1>9. Op(b) \in {"add", "put"}
  BY <1>5 DEF Specialised, IsAppend, IsInsert
<1>10. Kids(b) \in Seq(B) /\ Len(Kids(b)) >= 2 /\ Len(Kids(b)) \in Nat
  <2>1. Len(Kids(b)) \in Arity(Op(b)) /\ Kids(b) \in Seq(B)
    BY <1>2, <1>3, <1>6, Shape
  <2>2. Op(b) = "add" => Arity(Op(b)) = {2}
    BY DEF Arity
  <2>3. Op(b) = "put" => Arity(Op(b)) = {2, 3}
    BY DEF Arity
  <2>4. PICK l \in {2, 3} : l = Len(Kids(b))
    BY <1>9, <2>1, <2>2, <2>3
  <2>5. l >= 2 /\ l \in Nat
    OBVIOUS
  <2> QED
    BY <2>1, <2>4, <2>5, Zenon
<1>11. entries \in Seq(B) /\ Row(entries) /\ ToSet(entries) \subseteq Below(b)
  <2>1. 2 \in 1 .. Len(Kids(b))
    BY <1>10
  <2>2. PICK k \in B : k = Kid(b, 2)
    BY <1>3, <1>6, <2>1
  <2>3. k \in KidSet(b) /\ k \in Nodes /\ b \in Nodes
    <3>1. Kids(b)[2] \in KidSet(b)
      BY <1>2, <1>6, <2>1, KidsInOrder
    <3> QED
      BY <1>2, <1>6, <2>2, <3>1 DEF Kid, Kids
  <2>4. ToSet(Kids(k)) \subseteq Below(k) /\ Below(k) \subseteq Below(b)
    BY <2>3, KidsMember, BelowKid
  <2> QED
    BY <1>3, <1>7, <2>2, <2>3, <2>4, KidsRow
<1>12. PICK tail : tail = Tail(Kids(b))
  OBVIOUS
<1>13. tail \in Seq(B) /\ Row(tail) /\ ToSet(tail) \subseteq Below(b)
  <2>1. PICK ks \in Seq(B) : ks = Kids(b)
    BY <1>10
  <2>2. /\ tail \in Seq(B) /\ Len(tail) = Len(ks) - 1 /\ Len(ks) \in Nat
        /\ \A i \in 1 .. Len(tail) : tail[i] = ks[1 + i]
    BY <1>10, <1>12, <2>1
  <2>3. tail \in Seq(Nodes) /\ ks \in Seq(Nodes) /\ 1 + Len(tail) <= Len(ks)
    BY <1>2, <2>1, <2>2
  <2>4. Row(ks) /\ ToSet(ks) \subseteq Below(b)
    BY <1>2, <1>6, <2>1, KidsRow, KidsMember
  <2>5. Row(tail) /\ ToSet(tail) \subseteq ToSet(ks)
    BY <2>2, <2>3, <2>4, RowPart
  <2> QED
    BY <2>2, <2>4, <2>5
<1>14. ASSUME NEW es \in Seq(B), Row(es), ToSet(es) \subseteq Below(b)
       PROVE  q \o es \in Rows(LoopBody(c))
  <2>1. CASE q = <<>>
    <3>1. q \o es = es
      BY <2>1
    <3> QED
      BY <1>1, <1>2, <1>14, <3>1, RowsOf
  <2>2. CASE \E x \in B : q = <<x>> /\ \A w \in Below(b) : After(w, x)
    <3>1. PICK x \in B : q = <<x>> /\ \A w \in Below(b) : After(w, x)
      BY <2>2
    <3>2. es \in Seq(Nodes) /\ x \in Nodes
      BY <1>2, <1>14, <3>1
    <3>3. \A i \in 1 .. Len(es) : es[i] \in ToSet(es)
      BY <3>2 DEF ToSet
    <3>4. \A i \in 1 .. Len(es) : Below(es[i]) \subseteq Below(b)
      BY <1>2, <1>6, <1>14, <3>3, BelowTransitive
    <3>5. <<x>> \o es \in Seq(Nodes) /\ Row(<<x>> \o es) /\ ToSet(<<x>> \o es) \subseteq {x} \cup ToSet(es)
      BY <1>14, <3>1, <3>2, <3>4, RowFront
    <3>6. Below(b) \subseteq B
      BY <1>0, <1>1, <1>6, BelowTransitive
    <3> QED
      BY <1>1, <1>14, <3>1, <3>5, <3>6 DEF Rows
  <2> QED
    BY <1>6, <1>8, <2>1, <2>2
<1>15. PICK pairs : pairs = [i \in 1 .. (Len(entries) \div 2) |-> SubSeq(entries, 2 * i - 1, 2 * i)]
  OBVIOUS
<1>16. pairs \in Seq(Rows(LoopBody(c)))
  <2>1. PICK l \in Nat : l = Len(entries)
    BY <1>11
  <2>2. PICK h \in Nat : h = l \div 2
    BY <2>1
  <2>3. 2 * h <= l
    BY <2>2
  <2>4. ASSUME NEW i \in 1 .. h PROVE SubSeq(entries, 2 * i - 1, 2 * i) \in Rows(LoopBody(c))
    <3>1. PICK a \in Nat : a = 2 * i - 1
      OBVIOUS
    <3>2. PICK d \in Nat : d = 2 * i
      OBVIOUS
    <3>3. a >= 1 /\ d <= l
      BY <2>3, <3>1, <3>2
    <3>4. PICK r : r = SubSeq(entries, a, d)
      OBVIOUS
    <3>5. PICK z \in Nat : z = a - 1
      BY <3>3
    <3>6. a <= d /\ d - z = 2 /\ z + 2 <= l
      BY <3>1, <3>2, <3>3, <3>5
    <3>7. r \in Seq(B) /\ Len(r) = 2 /\ \A j \in 1 .. 2 : r[j] = entries[z + j]
      BY <1>11, <2>1, <3>3, <3>4, <3>5, <3>6
    <3>8. r \in Seq(Nodes) /\ entries \in Seq(Nodes)
      BY <1>2, <1>11, <3>7
    <3>9. Row(r)
      BY <1>11, <2>1, <3>5, <3>6, <3>7, <3>8, RowPart
    <3>10. r \in Rows(LoopBody(c))
      BY <1>1, <1>2, <3>7, <3>9, RowsOf
    <3> QED
      BY <3>1, <3>2, <3>4, <3>10
  <2> QED
    BY <1>15, <2>1, <2>2, <2>4
<1>17. Updates(c) \in {<<q \o entries>>, <<q \o tail>>, pairs}
  <2>1. IsAppend(c, b) => ~IsInsert(c, b)
    BY DEF IsAppend, IsInsert
  <2>2. IsAppend(c, b) \/ IsInsert(c, b)
    BY <1>5 DEF Specialised
  <2> QED
    BY <1>5, <1>7, <1>8, <1>12, <1>15, <2>1, <2>2 DEF Updates
<1>18. \A s \in Rows(LoopBody(c)) : <<s>> \in Seq(Rows(LoopBody(c)))
  OBVIOUS
<1>19. q \o entries \in Rows(LoopBody(c)) /\ q \o tail \in Rows(LoopBody(c))
  BY <1>11, <1>13, <1>14
<1>20. ASSUME NEW ks \in Rows(LoopBody(c)) PROVE ks \in Seq(Below(c))
  <2>1. ks \in Seq(Nodes) /\ ToSet(ks) \subseteq Below(c)
    BY <1>0, <1>1 DEF Rows
  <2>2. \A i \in DOMAIN ks : ks[i] \in Below(c)
    BY <2>1 DEF ToSet
  <2> QED
    BY <2>1, <2>2
<1> QED
  BY <1>16, <1>17, <1>18, <1>19, <1>20

\* The items that update the accumulator are inside the comprehension.
LEMMA IntoMember ==
    ASSUME tree \in Trees, NEW c \in Nodes, Op(c) = "comp", NEW ks \in Seq(Below(c))
    PROVE  Into(c, ks) \in Seq(Quiet(c))
<1>1. ks \in Seq(Nodes) /\ ToSet(ks) \subseteq Below(c)
  <2>1. Below(c) \subseteq Nodes
    BY BelowSelf
  <2> QED
    BY <2>1 DEF ToSet
<1>2. PICK e : e = Each(Eval, ks)
  OBVIOUS
<1>3. e \in Seq(Quiet(c))
  BY <1>1, <1>2, EvalsMember
<1>4. PICK b : b = Body(c)
  OBVIOUS
<1>5. PICK do \in {"put", "into"} : do =
        IF IsInsert(c, b) /\ Literal(b) /\ Kids(Kid(b, 2)) = <<>> THEN "put" ELSE "into"
  OBVIOUS
<1>6. PICK p : p = Item(do, c, ks)
  OBVIOUS
<1>7. do \in Dos /\ do \notin {"branch", "prologue", "copy", "same", "leave"}
  BY <1>5 DEF Dos
<1>8. p \in Quiet(c)
  <2>1. p.do = do /\ p.n = c /\ p.ks = ks
    BY <1>1, <1>6, <1>7, ItemFields
  <2>2. Shaped(p)
    BY <1>5, <2>1 DEF Shaped
  <2>3. Shaped(Item(do, c, ks))
    BY <1>6, <2>2
  <2> QED
    BY <1>1, <1>6, <1>7, <2>3, OwnMember
<1>9. e \o <<p>> \in Seq(Quiet(c))
  BY <1>3, <1>8, ConcatOne
<1>10. Into(c, ks) = e \o <<p>>
  BY <1>2, <1>4, <1>5, <1>6 DEF Into
<1> QED
  BY <1>9, <1>10

\* FlattenSeq of sequences of items is a sequence of items.
LEMMA FlattenAny ==
    ASSUME NEW T, NEW ss \in Seq(Seq(T))
    PROVE  FlattenSeq(ss) \in Seq(T)
<1>1. CASE ss = <<>>
  <2>1. FlattenSeq(ss) = <<>>
    BY <1>1 DEF FlattenSeq
  <2> QED
    BY <2>1
<1>2. CASE ss # <<>>
  <2>1. \A a, b \in Seq(T) : a \o b \in Seq(T)
    OBVIOUS
  <2> QED
    BY <1>2, <2>1, FlattenIn
<1> QED
  BY <1>1, <1>2

\* One iteration.
LEMMA LoopSteps ==
    ASSUME Stepping, LoopStep
    PROVE  Stepped
<1>1. PICK c \in Nodes : c = Top.n
  BY RunTop
<1>2. tree \in Trees /\ where' = where /\ Top.do = "loop"
  BY DEF Stepping, LoopStep, NextElement, Running, Doing
<1>3. Op(c) = "comp" /\ Makes(Top) = {} /\ Top.ks \in Seq(Nodes)
  BY <1>1, <1>2, RunTop DEF Shaped, Makes
<1>4. PICK k : k = LoopBody(c)
  OBVIOUS
<1>5. k \in Nodes /\ k \in Below(c)
  <2>1. k \in KidSet(c)
    BY <1>2, <1>3, <1>4, CompKids
  <2> QED
    BY <1>2, <2>1, BelowKid, KidIsLater
<1>6. PICK again : again = Item("loop", c, Append(Top.ks, k))
  OBVIOUS
<1>7. again \in Quiet(c)
  <2>1. Append(Top.ks, k) \in Seq(Nodes)
    BY <1>3, <1>5
  <2> QED
    BY <1>2, <1>3, <1>6, <2>1, LoopShaped
<1>8. CASE Specialised(c)
  <2>1. PICK ss : ss = [i \in 1 .. Len(Updates(c)) |-> Into(c, Updates(c)[i])]
    OBVIOUS
  <2>2. Push(FlattenSeq(ss) \o <<again>>)
    BY <1>1, <1>4, <1>6, <1>8, <2>1 DEF LoopStep, Each
  <2>3. Updates(c) \in Seq(Seq(Below(c)))
    <3>1. Updates(c) \in Seq(Rows(LoopBody(c))) /\ Rows(LoopBody(c)) \subseteq Seq(Below(c))
      BY <1>2, <1>3, <1>8, LoopUpdates
    <3> QED
      BY <3>1
  <2>4. \A i \in 1 .. Len(Updates(c)) : Into(c, Updates(c)[i]) \in Seq(Quiet(c))
    BY <1>2, <1>3, <2>3, IntoMember
  <2>5. ss \in Seq(Seq(Quiet(c)))
    BY <2>1, <2>3, <2>4
  <2>6. FlattenSeq(ss) \in Seq(Quiet(c))
    BY <2>5, FlattenAny
  <2>7. FlattenSeq(ss) \o <<again>> \in Seq(Quiet(c))
    BY <1>7, <2>6, ConcatOne
  <2> QED
    BY <1>1, <1>2, <1>3, <2>2, <2>7, SilentSteps
<1>9. CASE ~Specialised(c)
  <2>1. PICK ks : ks = <<k>>
    OBVIOUS
  <2>2. ks \in Seq(Nodes) /\ ToSet(ks) = {k} /\ "copy" \in Dos
    BY <1>5, <2>1 DEF ToSet, Dos
  <2>3. PICK a : a = Eval(k)
    OBVIOUS
  <2>4. PICK r : r = Item("copy", c, ks)
    OBVIOUS
  <2>5. a \in Members(c) /\ Reads(a) = {} /\ Makes(a) = {k} /\ a.do # "prologue"
    BY <1>2, <1>5, <2>3, EvalMember DEF Quiet
  <2>6. r \in Members(c) /\ r.do = "copy" /\ r.n = c /\ r.ks = ks
    <3>1. r.do = "copy" /\ r.n = c /\ r.ks = ks
      BY <2>2, <2>4, ItemFields
    <3>2. Shaped(r)
      BY <1>3, <1>4, <2>1, <3>1 DEF Shaped
    <3>3. Shaped(Item("copy", c, ks))
      BY <2>4, <3>2
    <3> QED
      BY <1>2, <2>2, <2>4, <3>3, OwnMember
  <2>7. Reads(r) = {k} /\ r.do # "prologue"
    BY <2>2, <2>6 DEF Reads
  <2>8. again \in Members(c) /\ Reads(again) = {} /\ again.do # "prologue"
    BY <1>7 DEF Quiet
  <2>9. PICK s : s = <<a, r, again>>
    OBVIOUS
  <2>10. s \in Seq(Members(c)) /\ Len(s) = 3 /\ s[1] = a /\ s[2] = r /\ s[3] = again
    BY <2>5, <2>6, <2>8, <2>9, ThreeItems
  <2>11. \A i \in 1 .. Len(s) : i = 1 \/ i = 2 \/ i = 3
    BY <2>10
  <2>12. Inner(s, c)
    BY <2>5, <2>7, <2>8, <2>10, <2>11 DEF Inner
  <2>13. Supplied(s)
    <3>1. \A j \in 1 .. Len(s) : \A x \in Reads(s[j]) : j = 2 /\ x \in Makes(s[1])
      BY <2>5, <2>7, <2>8, <2>10, <2>11
    <3>2. 1 \in 1 .. Len(s) /\ 1 < 2
      BY <2>10
    <3> QED
      BY <1>3, <3>1, <3>2 DEF Supplied
  <2>14. Push(s)
    BY <1>1, <1>4, <1>6, <1>9, <2>1, <2>3, <2>4, <2>9 DEF LoopStep
  <2>15. Kept /\ DOMAIN where' = Nodes
    BY <1>2, Unmoved
  <2>16. Nested(todo)' /\ Fed(todo)'
    BY <1>1, <1>2, <2>10, <2>12, <2>13, <2>14, <2>15, Replacing DEF Stepping
  <2> QED
    BY <2>15, <2>16 DEF Stepped
<1> QED
  BY <1>8, <1>9

\* Every step of the running code keeps RunInv.
LEMMA RunSteps ==
    ASSUME RunStep, LayoutInv, PlaceInv, RunInv
    PROVE  RunInv'
<1>1. stage = "run" /\ stage' = "run" /\ UNCHANGED layoutVars /\ todo # <<>>
  BY RunFrame
<1>2. tree' = tree /\ storage' = storage /\ tree \in Trees
  BY <1>1 DEF layoutVars, nameVars, LayoutInv, Typed
<1>3. Stepping
  BY <1>1, <1>2 DEF Stepping, RunInv
<1>4. \A n \in Nodes : PlaceOf(n) /\ NotYet(n)
  BY <1>1 DEF PlaceInv
<1>5. Stepped
  <2>1. CASE EvalLeaf \/ Kernel \/ BranchPoison \/ Same \/ Leave
    BY <1>1, <1>3, <1>4, <2>1, LeafSteps, ResultSteps
  <2>2. CASE EvalCall \/ EvalAggregate \/ Fill \/ PutOperands \/ LoopExit
    BY <1>3, <2>2, CallSteps, AggregateSteps, FillSteps, PopSteps
  <2>3. CASE EvalDyn \/ EvalCond \/ BranchArm \/ EvalComp
    BY <1>3, <2>3, DynCondSteps, BranchSteps, CompSteps
  <2>4. CASE PrologueAbsorbs \/ PrologueStarts \/ IntoAccu \/ CopyStep \/ LoopStep
    BY <1>3, <2>4, PrologueSteps, AccuSteps, LoopSteps
  <2> QED
    BY <2>1, <2>2, <2>3, <2>4 DEF RunStep
<1>6. Nodes' = Nodes
  BY <1>2, SameTree
<1> QED
  BY <1>5, <1>6 DEF Stepped, RunInv

\* The module starts with the code of the root.
LEMMA EmitRuns ==
    ASSUME Emit, LayoutInv, RunInv
    PROVE  RunInv'
<1>1. tree' = tree /\ storage' = storage /\ where' = where /\ tree \in Trees
  BY DEF Emit, layoutVars, nameVars, LayoutInv, Typed
<1>2. DOMAIN where' = Nodes'
  BY <1>1, SameTree DEF RunInv
<1>3. ASSUME stage' = "run" PROVE Nested(todo)' /\ Fed(todo)'
  <2>1. todo' = <<Eval(1)>>
    BY <1>3 DEF Emit
  <2>2. PICK u : u = <<Eval(1)>>
    OBVIOUS
  <2>3. 1 \in Nodes /\ 1 \in Below(1)
    BY <1>1, NodeNat, BelowSelf
  <2>4. Eval(1) \in Quiet(1)
    BY <1>1, <2>3, EvalMember
  <2>5. Eval(1) \in ItemType /\ Shaped(Eval(1)) /\ Reads(Eval(1)) = {}
    BY <2>4 DEF Quiet, Members
  <2>6. u \in Seq(ItemType) /\ Len(u) = 1 /\ u[1] = Eval(1)
    BY <2>2, <2>5
  <2>7. \A i \in 1 .. Len(u) : i = 1
    BY <2>6
  <2>8. Nested(u)
    BY <2>5, <2>6, <2>7 DEF Nested
  <2>9. Nested(u)'
    BY <1>1, <2>8, SameNested
  <2>10. Fed(u)'
    BY <2>5, <2>6, <2>7 DEF Fed, Reads
  <2>11. todo' = u
    BY <2>1, <2>2
  <2> QED
    BY <2>9, <2>10, <2>11
<1> QED
  BY <1>2, <1>3 DEF RunInv

\* RunInv is inductive relative to LayoutInv and PlaceInv.
LEMMA RunKeeps ==
    ASSUME LayoutInv, PlaceInv, RunInv, [Next]_vars
    PROVE  RunInv'
<1>1. CASE RunStep
  BY <1>1, RunSteps
<1>2. CASE Emit
  BY <1>2, EmitRuns
<1>3. CASE Return
  <2>1. tree' = tree /\ where' = where /\ stage' = "done"
    BY <1>3 DEF Return, layoutVars, nameVars, runVars
  <2> QED
    BY <2>1, SameTree DEF RunInv
<1>4. CASE UNCHANGED vars
  <2>1. tree' = tree /\ where' = where /\ stage' = stage /\ todo' = todo /\ storage' = storage
    BY <1>4 DEF vars
  <2>2. DOMAIN where' = Nodes'
    BY <2>1, SameTree DEF RunInv
  <2>3. PICK t : t = todo
    OBVIOUS
  <2>4. ASSUME Nested(todo), Fed(todo) PROVE Nested(todo)' /\ Fed(todo)'
    <3>1. Nested(t)' <=> Nested(t)
      BY <2>1, SameNested
    <3>2. Fed(t)' <=> Fed(t)
      BY <2>1 DEF Fed, Reads, Makes, Located
    <3> QED
      BY <2>1, <2>3, <2>4, <3>1, <3>2
  <2> QED
    BY <2>1, <2>2, <2>4 DEF RunInv
<1>5. CASE \/ ResolvePre \/ EnterScope \/ LeaveScope \/ ResolvePost \/ StartLayout
           \/ SelectPre \/ SelectPost \/ AggregatePre \/ AggregatePost
           \/ LocalsPre \/ LocalsPost \/ NextPass
  <2>1. tree' = tree /\ where' = where /\ stage' # "run"
    <3>1. CASE ResolvePre \/ EnterScope \/ LeaveScope \/ ResolvePost \/ StartLayout
      BY <3>1 DEF ResolvePre, EnterScope, LeaveScope, ResolvePost, StartLayout, Doing,
         layoutVars, nameVars, runVars
    <3>2. CASE SelectPre \/ SelectPost \/ AggregatePre \/ AggregatePost
      BY <3>2 DEF SelectPre, SelectPost, AggregatePre, AggregatePost, Doing,
         layoutVars, nameVars, runVars
    <3>3. CASE LocalsPre \/ LocalsPost \/ NextPass
      BY <3>3 DEF LocalsPre, LocalsPost, NextPass, Doing, layoutVars, nameVars, runVars
    <3> QED
      BY <1>5, <3>1, <3>2, <3>3
  <2> QED
    BY <2>1, SameTree DEF RunInv
<1> QED
  BY <1>1, <1>2, <1>3, <1>4, <1>5 DEF Next, RunStep

\* What is read through an annotation is there.
LEMMA RunInvariant == Spec => []RunInv
<1>1. Init => RunInv
  <2>1. SUFFICES ASSUME Init PROVE RunInv
    OBVIOUS
  <2>2. where = [n \in Nodes |-> ReadOnly] /\ stage = "resolve"
    BY <2>1 DEF Init
  <2> QED
    BY <2>2 DEF RunInv
<1>2. LayoutInv /\ PlaceInv /\ RunInv /\ [Next]_vars => RunInv'
  BY RunKeeps
<1> QED
  BY <1>1, <1>2, LayoutInvariant, PlaceInvariant, PTL DEF Spec

\* For every expression and every run of its code, what a ternary or a
\* comprehension reads through the annotation of its condition, range, init or
\* step is where that operand's own code left it (EmitSlotBaseAddress,
\* ResolveCompSourceAddress, ResolveCompContext, EmitGenericStep).
THEOREM AnnotationsAlwaysAgree == Spec => []AnnotationsAgree
<1>1. RunInv => AnnotationsAgree
  <2>1. SUFFICES ASSUME RunInv, stage = "run", todo # <<>>,
                        Top.do \in {"branch", "prologue", "copy"},
                        NEW k \in ToSet(Top.ks), storage[k] # None
                 PROVE  Address(storage[k]) = where[k]
    BY DEF AnnotationsAgree
  <2>2. todo \in Seq(ItemType) /\ Fed(todo)
    BY <2>1 DEF RunInv, Nested
  <2>3. 1 \in 1 .. Len(todo) /\ ~ \E i \in 1 .. Len(todo) : i < 1
    BY <2>1, <2>2
  <2>4. k \in Reads(todo[1])
    BY <2>1 DEF Reads, Top
  <2>5. Located(k)
    BY <2>2, <2>3, <2>4 DEF Fed
  <2> QED
    BY <2>1, <2>5 DEF Located, Address
<1> QED
  BY <1>1, RunInvariant, PTL

-----------------------------------------------------------------------------
(* Names.  The comprehensions whose variables a node sees, outermost       *)
(* first: what the stack of scopes has to hold when the node is visited.   *)

Loops(c)  == Below(Kid(c, 3)) \cup Below(LoopBody(c))
Around(n) == {c \in Comps : n \in Loops(c) \/ n \in Below(Result(c))}

\* A scope: the comprehension, and whether it is that of its loop or of its result.
Frame == [c : Nodes, loop : BOOLEAN]

Lists(n, f) ==
    /\ f \in Seq(Frame)
    /\ \A d \in 1 .. Len(f) : f[d].c \in Around(n) /\ (f[d].loop <=> n \in Loops(f[d].c))
    /\ \A c \in Around(n) : \E d \in 1 .. Len(f) : f[d].c = c
    /\ \A d, e \in 1 .. Len(f) : d < e => f[d].c < f[e].c

\* A kid and its parent are below the same parts of other nodes.
LEMMA KidAlike ==
    ASSUME tree \in Trees, NEW n \in Nodes, NEW k \in KidSet(n),
           NEW c \in Nodes, c # n, NEW l \in KidSet(c)
    PROVE  k \in Below(l) <=> n \in Below(l)
<1>1. k \in Nodes /\ l \in Nodes
  BY KidIsLater
<1>2. k # l
  BY OneParent
<1> QED
  BY <1>1, <1>2, KidBelow, ParentBelow

\* Two kids have nothing in common.
LEMMA KidsDisjoint ==
    ASSUME tree \in Trees, NEW n \in Nodes, NEW k \in KidSet(n), NEW l \in KidSet(n), k # l
    PROVE  k \notin Below(l)
<1>1. k \in Nodes /\ l \in Nodes /\ k \in Nat /\ l \in Nat
  BY KidIsLater
<1>2. k \in Below(k) /\ l \in Below(l)
  BY <1>1, BelowSelf
<1>3. CASE k < l
  <2>1. \A y \in Below(l) : k < y
    BY <1>2, <1>3, KidsApart
  <2> QED
    BY <1>1, <2>1
<1>4. CASE l < k
  <2>1. \A x \in Below(l) : x < k
    BY <1>2, <1>4, KidsApart
  <2> QED
    BY <1>1, <2>1
<1> QED
  BY <1>1, <1>3, <1>4

\* A comprehension is a node.
LEMMA CompNode == ASSUME tree \in Trees, NEW c \in Comps PROVE c \in Nodes /\ Op(c) = "comp"
  BY DEF Comps

\* The comprehensions around a node come before it.
LEMMA AroundAbove ==
    ASSUME tree \in Trees, NEW n \in Nodes, NEW c \in Around(n)
    PROVE  c < n /\ c \in Nat /\ n \in Nat /\ c \in Nodes
<1>1. c \in Nodes /\ Op(c) = "comp"
  BY CompNode DEF Around
<1>2. PICK l \in KidSet(c) : n \in Below(l)
  BY <1>1, CompKids DEF Around, Loops
<1>3. l \in Nodes /\ l > c /\ l \in Nat /\ c \in Nat
  BY <1>1, KidIsLater
<1>4. n >= l /\ n \in Nat
  BY <1>2, <1>3, BelowSelf, NodeNat
<1> QED
  BY <1>1, <1>3, <1>4

\* What surrounds a kid is what surrounds its parent, and the parent.
LEMMA AroundKid ==
    ASSUME tree \in Trees, NEW n \in Nodes, NEW k \in KidSet(n), NEW c \in Comps, c # n
    PROVE  /\ c \in Around(k) <=> c \in Around(n)
           /\ k \in Loops(c) <=> n \in Loops(c)
<1>1. c \in Nodes /\ Op(c) = "comp"
  BY CompNode
<1>2. Kid(c, 3) \in KidSet(c) /\ LoopBody(c) \in KidSet(c) /\ Result(c) \in KidSet(c)
  BY <1>1, CompKids
<1>3. /\ k \in Below(Kid(c, 3)) <=> n \in Below(Kid(c, 3))
      /\ k \in Below(LoopBody(c)) <=> n \in Below(LoopBody(c))
      /\ k \in Below(Result(c)) <=> n \in Below(Result(c))
  BY <1>1, <1>2, KidAlike
<1> QED
  BY <1>3 DEF Around, Loops

\* A kid around which nothing is added has its parent's frames.
LEMMA SameLists ==
    ASSUME tree \in Trees, NEW n \in Nodes, NEW k \in KidSet(n), n \notin Around(k),
           NEW f, Lists(n, f)
    PROVE  Lists(k, f)
<1>1. n \notin Around(n)
  BY AroundAbove
<1>2. \A c \in Comps : c \in Around(k) <=> c \in Around(n)
  BY <1>1, AroundKid
<1>3. Around(k) = Around(n)
  BY <1>2 DEF Around
<1>4. \A c \in Around(n) : k \in Loops(c) <=> n \in Loops(c)
  BY <1>1, AroundKid DEF Around
<1> QED
  BY <1>3, <1>4 DEF Lists

\* A kid that its parent is around has one frame more.
LEMMA MoreLists ==
    ASSUME tree \in Trees, NEW n \in Nodes, NEW k \in KidSet(n), n \in Around(k),
           NEW f, Lists(n, f), NEW b \in BOOLEAN, b <=> k \in Loops(n)
    PROVE  Lists(k, Append(f, [c |-> n, loop |-> b]))
<1>1. PICK x : x = [c |-> n, loop |-> b]
  OBVIOUS
<1>2. x \in Frame /\ x.c = n /\ x.loop = b
  BY <1>1 DEF Frame
<1>3. PICK g : g = Append(f, x)
  OBVIOUS
<1>4. PICK l \in Nat : l = Len(f)
  BY DEF Lists
<1>5. /\ g \in Seq(Frame) /\ Len(g) = l + 1 /\ g[l + 1] = x
      /\ \A d \in 1 .. l : g[d] = f[d]
  BY <1>2, <1>3, <1>4 DEF Lists
<1>6. \A c \in Comps : c # n => /\ c \in Around(k) <=> c \in Around(n)
                                /\ k \in Loops(c) <=> n \in Loops(c)
  BY AroundKid
<1>7. \A c \in Around(n) : c # n /\ c \in Comps /\ c < n
  BY AroundAbove DEF Around
<1>8. \A d \in 1 .. (l + 1) : d \in 1 .. l \/ d = l + 1
  BY <1>4
<1>9. ASSUME NEW d \in 1 .. Len(g)
      PROVE  g[d].c \in Around(k) /\ (g[d].loop <=> k \in Loops(g[d].c))
  <2>1. CASE d \in 1 .. l
    <3>1. g[d] = f[d] /\ f[d].c \in Around(n) /\ (f[d].loop <=> n \in Loops(f[d].c))
      BY <1>4, <1>5, <2>1 DEF Lists
    <3> QED
      BY <1>6, <1>7, <3>1
  <2>2. CASE d = l + 1
    BY <1>2, <1>5, <2>2
  <2> QED
    BY <1>5, <1>8, <2>1, <2>2
<1>10. ASSUME NEW c \in Around(k) PROVE \E d \in 1 .. Len(g) : g[d].c = c
  <2>1. CASE c = n
    <3>1. l + 1 \in 1 .. Len(g)
      BY <1>4, <1>5
    <3> QED
      BY <1>2, <1>5, <2>1, <3>1
  <2>2. CASE c # n
    <3>1. c \in Around(n)
      BY <1>6, <2>2 DEF Around
    <3>2. PICK d \in 1 .. l : f[d].c = c
      BY <1>4, <3>1 DEF Lists
    <3>3. d \in 1 .. Len(g)
      BY <1>4, <1>5
    <3> QED
      BY <1>5, <3>2, <3>3
  <2> QED
    BY <2>1, <2>2
<1>11. ASSUME NEW d \in 1 .. Len(g), NEW e \in 1 .. Len(g), d < e PROVE g[d].c < g[e].c
  <2>1. d \in 1 .. l
    BY <1>4, <1>5, <1>11
  <2>2. g[d] = f[d] /\ f[d].c \in Around(n)
    BY <1>4, <1>5, <2>1 DEF Lists
  <2>3. CASE e \in 1 .. l
    BY <1>4, <1>5, <1>11, <2>1, <2>3 DEF Lists
  <2>4. CASE e = l + 1
    BY <1>2, <1>5, <1>7, <2>2, <2>4
  <2> QED
    BY <1>5, <1>8, <2>3, <2>4
<1>12. Lists(k, g)
  BY <1>5, <1>9, <1>10, <1>11 DEF Lists
<1> QED
  BY <1>1, <1>3, <1>12

\* Range and init see what the comprehension sees; condition and step see all
\* its variables, the result its accumulator.
LEMMA CompLists ==
    ASSUME tree \in Trees, NEW c \in Nodes, Op(c) = "comp", NEW f, Lists(c, f)
    PROVE  /\ Lists(IterRange(c), f) /\ Lists(AccuInit(c), f)
           /\ Lists(Kid(c, 3), Append(f, [c |-> c, loop |-> TRUE]))
           /\ Lists(LoopBody(c), Append(f, [c |-> c, loop |-> TRUE]))
           /\ Lists(Result(c), Append(f, [c |-> c, loop |-> FALSE]))
<1>1. {IterRange(c), AccuInit(c), Kid(c, 3), LoopBody(c), Result(c)} \subseteq KidSet(c)
  BY CompKids
<1>2. Kids(c) \in Seq(Nat) /\ Len(Kids(c)) = 5
  BY Shape DEF Arity
<1>3. \A i, j \in 1 .. 5 : Kids(c)[i] = Kids(c)[j] => i = j
  BY <1>2, KidsInOrder
<1>4. \A i, j \in 1 .. 5 : i # j => Kid(c, i) # Kid(c, j)
  BY <1>3 DEF Kid, Kids
<1>5. /\ IterRange(c) \notin {Kid(c, 3), LoopBody(c), Result(c)}
      /\ AccuInit(c) \notin {Kid(c, 3), LoopBody(c), Result(c)}
      /\ Result(c) \notin {Kid(c, 3), LoopBody(c)}
  BY <1>4 DEF IterRange, AccuInit, LoopBody, Result
<1>6. c \in Comps
  BY DEF Comps
<1>7. c \notin Around(IterRange(c)) /\ c \notin Around(AccuInit(c)) /\ Result(c) \notin Loops(c)
  BY <1>1, <1>5, KidsDisjoint DEF Around, Loops
<1>8. Kid(c, 3) \in Loops(c) /\ LoopBody(c) \in Loops(c) /\ Result(c) \in Below(Result(c))
  BY CompKids, BelowSelf DEF Loops
<1>9. c \in Around(Kid(c, 3)) /\ c \in Around(LoopBody(c)) /\ c \in Around(Result(c))
  BY <1>6, <1>8 DEF Around
<1> QED
  BY <1>1, <1>7, <1>8, <1>9, SameLists, MoreLists

-----------------------------------------------------------------------------
(* The stack of ResolvePass: g[i] is what the stack of scopes has to be    *)
(* when item i is on top.                                                  *)

Effect(it, f) ==
    IF it.do = "loop" THEN Append(f, [c |-> it.n, loop |-> TRUE])
    ELSE IF it.do = "result" THEN Append(f, [c |-> it.n, loop |-> FALSE])
    ELSE IF it.do = "pop" THEN Front(f)
    ELSE f

Right(it, f) ==
    /\ it.do \in {"pre", "post", "loop", "pop", "result"}
    /\ it.do \in {"pre", "post"} => Lists(it.n, f)
    /\ it.do = "post" => Op(it.n) # "comp"
    /\ it.do = "pop" => f # <<>>
    /\ it.do \in {"loop", "result"} => Op(it.n) = "comp"

Chain(t, g) ==
    /\ t \in Seq(ItemType) /\ g \in Seq(Seq(Frame)) /\ Len(g) = Len(t) + 1
    /\ \A i \in 1 .. Len(t) : Right(t[i], g[i]) /\ g[i + 1] = Effect(t[i], g[i])

\* The items s replace an item after which the scopes are as in h.
Links(s, gs, h) ==
    /\ s \in Seq(ItemType) /\ gs \in Seq(Seq(Frame)) /\ Len(gs) = Len(s)
    /\ \A i \in 1 .. Len(s) :
         /\ Right(s[i], gs[i])
         /\ Effect(s[i], gs[i]) = IF i = Len(s) THEN h ELSE gs[i + 1]

\* Replacing the top item by items that lead from its frames to those it leaves.
LEMMA Chaining ==
    ASSUME NEW t, t # <<>>, NEW g, Chain(t, g), NEW s, NEW gs, Links(s, gs, g[2])
    PROVE  /\ Chain(Pushed(s, t), Pushed(gs, g))
           /\ s # <<>> => Pushed(gs, g)[1] = gs[1]
           /\ s = <<>> => Pushed(gs, g)[1] = g[2]
<1>1. t \in Seq(ItemType) /\ g \in Seq(Seq(Frame)) /\ s \in Seq(ItemType) /\ gs \in Seq(Seq(Frame))
  BY DEF Chain, Links
<1>2. PICK l \in Nat : l = Len(t)
  BY <1>1
<1>3. PICK a \in Nat : a = Len(s)
  BY <1>1
<1>4. l >= 1 /\ Len(g) = l + 1 /\ Len(gs) = a
  BY <1>1, <1>2, <1>3 DEF Chain, Links
<1>5. g # <<>>
  BY <1>2, <1>4
<1>6. PICK u : u = Pushed(s, t)
  OBVIOUS
<1>7. PICK v : v = Pushed(gs, g)
  OBVIOUS
<1>8. /\ u \in Seq(ItemType) /\ Len(u) = a + (l - 1)
      /\ \A i \in 1 .. a : i \in 1 .. Len(u) /\ u[i] = s[i]
      /\ \A i \in 2 .. l : a + (i - 1) \in 1 .. Len(u) /\ u[a + (i - 1)] = t[i]
      /\ \A i \in 1 .. Len(u) : i \in 1 .. a \/ \E j \in 2 .. l : i = a + (j - 1)
  <2>1. PushFact(ItemType, s, t, u)
    BY <1>1, <1>6, PushShape
  <2> QED
    BY <2>1, <1>2, <1>3 DEF PushFact
<1>9. /\ v \in Seq(Seq(Frame)) /\ Len(v) = a + ((l + 1) - 1)
      /\ \A i \in 1 .. a : i \in 1 .. Len(v) /\ v[i] = gs[i]
      /\ \A i \in 2 .. (l + 1) : a + (i - 1) \in 1 .. Len(v) /\ v[a + (i - 1)] = g[i]
  <2>1. PushFact(Seq(Frame), gs, g, v)
    BY <1>1, <1>5, <1>7, PushShape
  <2> QED
    BY <2>1, <1>4 DEF PushFact
<1>10. v[a + 1] = g[2]
  <2>1. 2 \in 2 .. (l + 1) /\ a + (2 - 1) = a + 1
    BY <1>4
  <2> QED
    BY <1>9, <2>1
<1>11. ASSUME NEW i \in 1 .. Len(u) PROVE Right(u[i], v[i]) /\ v[i + 1] = Effect(u[i], v[i])
  <2>1. CASE i \in 1 .. a
    <3>1. u[i] = s[i] /\ v[i] = gs[i]
      BY <1>8, <1>9, <2>1
    <3>2. Right(s[i], gs[i]) /\ Effect(s[i], gs[i]) = IF i = a THEN g[2] ELSE gs[i + 1]
      BY <1>3, <2>1 DEF Links
    <3>3. i # a => i + 1 \in 1 .. a
      BY <2>1
    <3>4. v[i + 1] = IF i = a THEN g[2] ELSE gs[i + 1]
      BY <1>9, <1>10, <3>3
    <3> QED
      BY <3>1, <3>2, <3>4
  <2>2. CASE \E j \in 2 .. l : i = a + (j - 1)
    <3>1. PICK j \in 2 .. l : i = a + (j - 1)
      BY <2>2
    <3>2. j \in 2 .. (l + 1) /\ j + 1 \in 2 .. (l + 1) /\ i + 1 = a + ((j + 1) - 1)
          /\ j \in 1 .. Len(t)
      BY <1>2, <1>4, <3>1
    <3>3. u[i] = t[j] /\ v[i] = g[j]
      BY <1>8, <1>9, <3>1, <3>2
    <3>4. v[i + 1] = g[j + 1]
      <4>1. PICK h \in 2 .. (l + 1) : h = j + 1
        BY <3>2
      <4>2. v[a + (h - 1)] = g[h]
        BY <1>9
      <4>3. a + (h - 1) = i + 1
        BY <3>2, <4>1
      <4> QED
        BY <4>1, <4>2, <4>3
    <3> QED
      BY <3>2, <3>3, <3>4 DEF Chain
  <2> QED
    BY <1>8, <2>1, <2>2
<1>12. Len(v) = Len(u) + 1
  BY <1>4, <1>8, <1>9
<1>13. Chain(u, v)
  BY <1>8, <1>9, <1>11, <1>12 DEF Chain
<1>14. s # <<>> => v[1] = gs[1]
  <2>1. s # <<>> => 1 \in 1 .. a
    BY <1>1, <1>3
  <2> QED
    BY <1>9, <2>1
<1>15. s = <<>> => v[1] = g[2]
  BY <1>3, <1>10
<1> QED
  BY <1>6, <1>7, <1>13, <1>14, <1>15

\* Chain depends on the tree only.
LEMMA SameChain ==
    ASSUME tree' = tree, NEW t, NEW g
    PROVE  (Chain(t, g)' <=> Chain(t, g)) /\ Frame' = Frame
<1>1. ItemType' = ItemType /\ Frame' = Frame
  BY SameTree DEF ItemType, Frame
<1>2. \A n, i : Kid(n, i)' = Kid(n, i)
  BY DEF Kid
<1>3. \A n : Loops(n)' = Loops(n) /\ Result(n)' = Result(n)
  BY <1>2, SameTree DEF LoopBody, Result, Loops
<1>4. \A n : Around(n)' = Around(n) /\ Op(n)' = Op(n)
  BY <1>3, SameTree DEF Around
<1>5. \A n, f : Lists(n, f)' <=> Lists(n, f)
  BY <1>1, <1>3, <1>4 DEF Lists
<1>6. \A it, f : Right(it, f)' <=> Right(it, f)
  BY <1>4, <1>5 DEF Right
<1>7. \A it, f : Effect(it, f)' = Effect(it, f)
  BY DEF Effect
<1> QED
  BY <1>1, <1>6, <1>7 DEF Chain

\* What the chain says of the item on top.
LEMMA TopRight ==
    ASSUME NEW t, t # <<>>, NEW g, Chain(t, g)
    PROVE  /\ t[1] \in ItemType /\ t[1].n \in Nodes /\ g[1] \in Seq(Frame) /\ Right(t[1], g[1])
           /\ g[2] = Effect(t[1], g[1])
<1>1. t \in Seq(ItemType) /\ g \in Seq(Seq(Frame)) /\ Len(g) = Len(t) + 1
  BY DEF Chain
<1>2. 1 \in 1 .. Len(t) /\ 1 \in 1 .. Len(g)
  BY <1>1
<1>3. Right(t[1], g[1]) /\ g[1 + 1] = Effect(t[1], g[1])
  BY <1>2 DEF Chain
<1>4. t[1] \in ItemType /\ g[1] \in Seq(Frame)
  BY <1>1, <1>2
<1> QED
  BY <1>3, <1>4 DEF ItemType

\* The visit of a node that is no comprehension.
LEMMA OpeningLinks ==
    ASSUME tree \in Trees, NEW n \in Nodes, Op(n) # "comp", NEW f, Lists(n, f)
    PROVE  \E gs : Links(Opened(n), gs, f) /\ gs[1] = f
<1>1. PICK o : o = Opened(n)
  OBVIOUS
<1>2. PICK a \in Nat : a = Len(Kids(n))
  BY Shape
<1>3. /\ o \in Seq(ItemType) /\ Len(o) = a + 1
      /\ \A i \in 1 .. a : /\ Kids(n)[i] \in KidSet(n)
                           /\ o[i].do = "pre" /\ o[i].n = Kids(n)[i]
      /\ o[a + 1].do = "post" /\ o[a + 1].n = n
  BY <1>1, <1>2, OpenedShape
<1>4. f \in Seq(Frame)
  BY DEF Lists
<1>5. PICK gs : gs = [i \in 1 .. (a + 1) |-> f]
  OBVIOUS
<1>6. gs \in Seq(Seq(Frame)) /\ Len(gs) = a + 1 /\ \A i \in 1 .. (a + 1) : gs[i] = f
  BY <1>2, <1>4, <1>5
<1>7. ASSUME NEW k \in KidSet(n) PROVE Lists(k, f)
  <2>1. ASSUME n \in Around(k) PROVE FALSE
    BY <2>1 DEF Around, Comps
  <2> QED
    BY <2>1, SameLists
<1>8. ASSUME NEW i \in 1 .. Len(o)
      PROVE  /\ Right(o[i], gs[i])
             /\ Effect(o[i], gs[i]) = IF i = Len(o) THEN f ELSE gs[i + 1]
  <2>1. gs[i] = f /\ (i # Len(o) => gs[i + 1] = f)
    BY <1>3, <1>6
  <2>2. /\ o[i].do \in {"pre", "post"} /\ Lists(o[i].n, f)
        /\ o[i].do = "post" => Op(o[i].n) # "comp"
    <3>1. CASE i = a + 1
      BY <1>3, <3>1
    <3>2. CASE i # a + 1
      <4>1. i \in 1 .. a
        BY <1>3, <3>2
      <4> QED
        BY <1>3, <1>7, <4>1
    <3> QED
      BY <3>1, <3>2
  <2>3. Right(o[i], f) /\ Effect(o[i], f) = f
    BY <2>2 DEF Right, Effect
  <2> QED
    BY <2>1, <2>3
<1>9. Links(o, gs, f)
  BY <1>3, <1>6, <1>8 DEF Links
<1>10. gs[1] = f
  BY <1>6
<1> QED
  BY <1>1, <1>9, <1>10

CompItems(c) ==
    <<Visit(IterRange(c)), Visit(AccuInit(c)), Item("loop", c, <<>>),
      Visit(Kid(c, 3)), Visit(LoopBody(c)), Item("pop", c, <<>>),
      Item("result", c, <<>>), Visit(Result(c)), Item("pop", c, <<>>)>>

\* The nine items of a comprehension in ResolvePass.
LEMMA CompItemsShape ==
    ASSUME tree \in Trees, NEW c \in Nodes, Op(c) = "comp"
    PROVE  /\ CompItems(c) \in Seq(ItemType) /\ Len(CompItems(c)) = 9
           /\ CompItems(c)[1].do = "pre" /\ CompItems(c)[1].n = IterRange(c)
           /\ CompItems(c)[2].do = "pre" /\ CompItems(c)[2].n = AccuInit(c)
           /\ CompItems(c)[3].do = "loop" /\ CompItems(c)[3].n = c
           /\ CompItems(c)[4].do = "pre" /\ CompItems(c)[4].n = Kid(c, 3)
           /\ CompItems(c)[5].do = "pre" /\ CompItems(c)[5].n = LoopBody(c)
           /\ CompItems(c)[6].do = "pop" /\ CompItems(c)[6].n = c
           /\ CompItems(c)[7].do = "result" /\ CompItems(c)[7].n = c
           /\ CompItems(c)[8].do = "pre" /\ CompItems(c)[8].n = Result(c)
           /\ CompItems(c)[9].do = "pop" /\ CompItems(c)[9].n = c
<1>1. /\ IterRange(c) \in Nodes /\ AccuInit(c) \in Nodes /\ Kid(c, 3) \in Nodes
      /\ LoopBody(c) \in Nodes /\ Result(c) \in Nodes
  BY CompKids
<1>2. \A n \in Nodes : Visit(n) \in ItemType /\ Visit(n).do = "pre" /\ Visit(n).n = n
  BY VisitFields
<1>3. <<>> \in Seq(Nodes)
  OBVIOUS
<1>4. \A do \in {"loop", "pop", "result"} :
         Item(do, c, <<>>) \in ItemType /\ Item(do, c, <<>>).do = do /\ Item(do, c, <<>>).n = c
  BY <1>3 DEF Item, ItemType, Dos
<1>5. PICK a1, a2, a3, a4, a5, b1, b2, b3 :
         /\ a1 = Visit(IterRange(c)) /\ a2 = Visit(AccuInit(c)) /\ a3 = Visit(Kid(c, 3))
         /\ a4 = Visit(LoopBody(c)) /\ a5 = Visit(Result(c)) /\ b1 = Item("loop", c, <<>>)
         /\ b2 = Item("pop", c, <<>>) /\ b3 = Item("result", c, <<>>)
  OBVIOUS
<1>6. /\ a1 \in ItemType /\ a2 \in ItemType /\ a3 \in ItemType /\ a4 \in ItemType /\ a5 \in ItemType
      /\ a1.do = "pre" /\ a2.do = "pre" /\ a3.do = "pre" /\ a4.do = "pre" /\ a5.do = "pre"
      /\ a1.n = IterRange(c) /\ a2.n = AccuInit(c) /\ a3.n = Kid(c, 3)
      /\ a4.n = LoopBody(c) /\ a5.n = Result(c)
  BY <1>1, <1>2, <1>5
<1>7. /\ b1 \in ItemType /\ b2 \in ItemType /\ b3 \in ItemType
      /\ b1.do = "loop" /\ b2.do = "pop" /\ b3.do = "result" /\ b1.n = c /\ b2.n = c /\ b3.n = c
  BY <1>4, <1>5
<1>8. PICK s : s = <<a1, a2, b1, a3, a4, b2, b3, a5, b2>>
  OBVIOUS
<1>9. s \in Seq(ItemType) /\ Len(s) = 9
      /\ s[1] = a1 /\ s[2] = a2 /\ s[3] = b1 /\ s[4] = a3 /\ s[5] = a4 /\ s[6] = b2
      /\ s[7] = b3 /\ s[8] = a5 /\ s[9] = b2
  BY <1>6, <1>7, <1>8
<1>10. CompItems(c) = s
  BY <1>5, <1>8 DEF CompItems
<1> QED
  BY <1>6, <1>7, <1>9, <1>10

\* They lead from the frames before the comprehension back to these.
LEMMA CompLinks ==
    ASSUME tree \in Trees, NEW c \in Nodes, Op(c) = "comp", NEW f, Lists(c, f)
    PROVE  \E gs : Links(CompItems(c), gs, f) /\ gs[1] = f
<1>1. PICK s : s = CompItems(c)
  OBVIOUS
<1>2. /\ s \in Seq(ItemType) /\ Len(s) = 9
      /\ s[1].do = "pre" /\ s[1].n = IterRange(c)
      /\ s[2].do = "pre" /\ s[2].n = AccuInit(c)
      /\ s[3].do = "loop" /\ s[3].n = c
      /\ s[4].do = "pre" /\ s[4].n = Kid(c, 3)
      /\ s[5].do = "pre" /\ s[5].n = LoopBody(c)
      /\ s[6].do = "pop" /\ s[6].n = c
      /\ s[7].do = "result" /\ s[7].n = c
      /\ s[8].do = "pre" /\ s[8].n = Result(c)
      /\ s[9].do = "pop" /\ s[9].n = c
  BY <1>1, CompItemsShape
<1>3. PICK x : x = [c |-> c, loop |-> TRUE]
  OBVIOUS
<1>4. PICK y : y = [c |-> c, loop |-> FALSE]
  OBVIOUS
<1>5. x \in Frame /\ y \in Frame /\ f \in Seq(Frame)
  BY <1>3, <1>4 DEF Frame, Lists
<1>6. PICK f1 : f1 = Append(f, x)
  OBVIOUS
<1>7. PICK f2 : f2 = Append(f, y)
  OBVIOUS
<1>8. \A z \in Frame : Append(f, z) \in Seq(Frame) /\ Append(f, z) # <<>> /\ Front(Append(f, z)) = f
  <2>1. SUFFICES ASSUME NEW z \in Frame
                 PROVE  Append(f, z) \in Seq(Frame) /\ Append(f, z) # <<>> /\ Front(Append(f, z)) = f
    OBVIOUS
  <2>2. PICK g : g = Append(f, z)
    OBVIOUS
  <2>3. PICK l \in Nat : l = Len(f)
    BY <1>5
  <2>4. g \in Seq(Frame) /\ Len(g) = l + 1 /\ \A i \in 1 .. l : g[i] = f[i]
    BY <1>5, <2>2, <2>3
  <2>5. Front(g) = SubSeq(g, 1, Len(g) - 1)
    BY DEF Front
  <2>6. SubSeq(g, 1, l) = [i \in 1 .. l |-> g[i]]
    BY <2>3, <2>4
  <2>7. f = [i \in 1 .. l |-> f[i]]
    BY <1>5, <2>3
  <2>8. SubSeq(g, 1, l) = f
    BY <2>4, <2>6, <2>7
  <2>9. Front(g) = f
    BY <2>3, <2>4, <2>5, <2>8
  <2>10. g # <<>>
    BY <2>3, <2>4
  <2> QED
    BY <2>2, <2>4, <2>9, <2>10
<1>9. /\ f1 \in Seq(Frame) /\ f1 # <<>> /\ Front(f1) = f
      /\ f2 \in Seq(Frame) /\ f2 # <<>> /\ Front(f2) = f
  BY <1>5, <1>6, <1>7, <1>8
<1>10. /\ Lists(IterRange(c), f) /\ Lists(AccuInit(c), f) /\ Lists(Kid(c, 3), f1)
       /\ Lists(LoopBody(c), f1) /\ Lists(Result(c), f2)
  BY <1>3, <1>4, <1>6, <1>7, CompLists
<1>11. PICK gs : gs = <<f, f, f, f1, f1, f1, f, f2, f2>>
  OBVIOUS
<1>12. gs \in Seq(Seq(Frame)) /\ Len(gs) = 9
       /\ gs[1] = f /\ gs[2] = f /\ gs[3] = f /\ gs[4] = f1 /\ gs[5] = f1 /\ gs[6] = f1
       /\ gs[7] = f /\ gs[8] = f2 /\ gs[9] = f2
  BY <1>5, <1>9, <1>11
<1>13. /\ Right(s[1], f) /\ Right(s[2], f) /\ Right(s[3], f) /\ Right(s[4], f1) /\ Right(s[5], f1)
       /\ Right(s[6], f1) /\ Right(s[7], f) /\ Right(s[8], f2) /\ Right(s[9], f2)
  BY <1>2, <1>9, <1>10 DEF Right
<1>14. /\ Effect(s[1], f) = f /\ Effect(s[2], f) = f /\ Effect(s[3], f) = f1
       /\ Effect(s[4], f1) = f1 /\ Effect(s[5], f1) = f1 /\ Effect(s[6], f1) = f
       /\ Effect(s[7], f) = f2 /\ Effect(s[8], f2) = f2 /\ Effect(s[9], f2) = f
  BY <1>2, <1>3, <1>4, <1>6, <1>7, <1>9 DEF Effect
<1>15. ASSUME NEW i \in 1 .. 9
       PROVE  Right(s[i], gs[i]) /\ Effect(s[i], gs[i]) = IF i = 9 THEN f ELSE gs[i + 1]
  <2>1. i = 1 \/ i = 2 \/ i = 3 \/ i = 4 \/ i = 5 \/ i = 6 \/ i = 7 \/ i = 8 \/ i = 9
    OBVIOUS
  <2>2. CASE i = 1 \/ i = 2 \/ i = 3
    BY <2>2, <1>12, <1>13, <1>14
  <2>3. CASE i = 4 \/ i = 5 \/ i = 6
    BY <2>3, <1>12, <1>13, <1>14
  <2>4. CASE i = 7 \/ i = 8 \/ i = 9
    BY <2>4, <1>12, <1>13, <1>14
  <2> QED
    BY <2>1, <2>2, <2>3, <2>4
<1>16. Links(s, gs, f)
  BY <1>2, <1>12, <1>15 DEF Links
<1> QED
  BY <1>1, <1>12, <1>16

-----------------------------------------------------------------------------
(* What ResolvePass knows at each point. *)

AllNames(c) == {tree.name[c].iter, tree.name[c].accu} \cup ({tree.name[c].iter2} \ {""})
FrameNames(x) == IF x.loop THEN AllNames(x.c) ELSE {tree.name[x.c].accu}

Conforms(v) ==
    IF v.role = "free" THEN v.of = 0 /\ ~v.moves
    ELSE /\ v.of \in Comps
         /\ v.role = "iter" => v.name = tree.name[v.of].iter
         /\ v.role = "iter2" => v.name = tree.name[v.of].iter2 /\ v.name # ""
         /\ v.role = "accu" => v.name = tree.name[v.of].accu /\ ~v.moves
VarsConform == \A i \in 1 .. Len(variables) : Conforms(variables[i])
FreeOnce ==
    \A i, j \in 1 .. Len(variables) :
        variables[i].role = "free" /\ variables[j].role = "free"
        /\ variables[i].name = variables[j].name => i = j

HasRole(c, r) == \E i \in 1 .. Len(variables) : variables[i].of = c /\ variables[i].role = r
Has(c) == /\ HasRole(c, "accu") /\ HasRole(c, "iter")
          /\ tree.name[c].iter2 # "" => HasRole(c, "iter2")

Describes(S, x) ==
    /\ \A i \in S : i \in 1 .. Len(variables) /\ variables[i].of = x.c
    /\ {variables[i].name : i \in S} = FrameNames(x)
Scoped(f) ==
    /\ scopes \in Seq(SUBSET Nat) /\ Len(scopes) = Len(f)
    /\ \A d \in 1 .. Len(f) : Describes(scopes[d], f[d])

\* The comprehensions that show n a variable of its name, and the one it means.
Showing(n) == {c \in Comps : Shows(c, n, Last(tree.name[n]))}
Meant(n) == IF Len(tree.name[n]) = 2 \/ Showing(n) = {} THEN 0 ELSE Max(Showing(n))
NameOk(n) ==
    /\ binding[n] \in 1 .. Len(variables)
    /\ variables[binding[n]].name = Last(tree.name[n])
    /\ variables[binding[n]].of = Meant(n)

Covers(it, m) == (it.do = "pre" /\ m \in Below(it.n)) \/ (it.do = "post" /\ m = it.n)
Waits(m) == stage = "resolve" /\ \E i \in 1 .. Len(todo) : Covers(todo[i], m)
Ready == \A i \in 1 .. Len(todo) : todo[i].do \in {"loop", "result"} => Has(todo[i].n)

NameInv ==
    /\ VarsConform /\ FreeOnce /\ DOMAIN binding = Nodes
    /\ stage = "resolve" => Ready /\ \E g : Chain(todo, g) /\ Scoped(g[1])
    /\ \A n \in Nodes : Op(n) = "ident" /\ ~Waits(n) => NameOk(n)
    /\ \A c \in Comps : ~Waits(c) => Has(c)

\* The table of variables only grows.
Grows == \A i \in 1 .. Len(variables) : i \in 1 .. Len(variables') /\ variables'[i] = variables[i]

\* What a name means depends on the tree only.
LEMMA SameNames ==
    ASSUME tree' = tree
    PROVE  /\ \A x : FrameNames(x)' = FrameNames(x)
           /\ \A n : Meant(n)' = Meant(n)
           /\ \A v : Conforms(v)' <=> Conforms(v)
<1>1. Comps' = Comps /\ \A n : Below(n)' = Below(n)
  BY SameTree
<1>2. \A n, i : Kid(n, i)' = Kid(n, i)
  BY DEF Kid
<1>3. \A c, n, nm : Shows(c, n, nm)' <=> Shows(c, n, nm)
  BY <1>1, <1>2 DEF Shows, Result
<1>4. \A n : Showing(n)' = Showing(n)
  BY <1>1, <1>3 DEF Showing
<1>5. \A n : Meant(n)' = Meant(n)
  BY <1>4 DEF Meant
<1>6. \A v : Conforms(v)' <=> Conforms(v)
  BY <1>1 DEF Conforms
<1>7. \A x : FrameNames(x)' = FrameNames(x)
  BY DEF FrameNames, AllNames
<1> QED
  BY <1>5, <1>6, <1>7

\* Declaring variables leaves what is known of the earlier ones.
LEMMA Growing ==
    ASSUME tree' = tree, Grows
    PROVE  /\ \A c : Has(c) => Has(c)'
           /\ \A S, x : Describes(S, x) => Describes(S, x)'
           /\ \A n : NameOk(n) /\ binding'[n] = binding[n] => NameOk(n)'
<1>1. \A c, r : HasRole(c, r) => HasRole(c, r)'
  BY DEF Grows, HasRole
<1>2. \A c : Has(c) => Has(c)'
  BY <1>1 DEF Has
<1>3. ASSUME NEW S, NEW x, Describes(S, x) PROVE Describes(S, x)'
  <2>1. \A i \in S : i \in 1 .. Len(variables') /\ variables'[i] = variables[i]
    BY <1>3 DEF Grows, Describes
  <2>2. {variables'[i].name : i \in S} = {variables[i].name : i \in S}
    BY <2>1
  <2>3. FrameNames(x)' = FrameNames(x)
    BY SameNames
  <2> QED
    BY <1>3, <2>1, <2>2, <2>3 DEF Describes
<1>4. ASSUME NEW n, NameOk(n), binding'[n] = binding[n] PROVE NameOk(n)'
  <2>1. Meant(n)' = Meant(n)
    BY SameNames
  <2> QED
    BY <1>4, <2>1 DEF NameOk, Grows
<1> QED
  BY <1>2, <1>3, <1>4

\* A step of ResolvePass that replaces the top item by s.
LEMMA Resolving ==
    ASSUME tree \in Trees, tree' = tree, NameInv, stage = "resolve", stage' = "resolve",
           todo # <<>>, NEW g, Chain(todo, g), NEW s, NEW gs, Links(s, gs, g[2]), Push(s), Grows,
           \A i \in 1 .. Len(s) : s[i].do \in {"loop", "result"} => Has(s[i].n)',
           NEW f, f = (IF s = <<>> THEN g[2] ELSE gs[1]), Scoped(f)'
    PROVE  /\ Ready' /\ \E h : Chain(todo, h)' /\ Scoped(h[1])'
           /\ \A m \in Nodes : ~Waits(m)' =>
                 ~Waits(m) \/ (Covers(Top, m) /\ \A i \in 1 .. Len(s) : ~Covers(s[i], m))
<1>1. PICK t : t = todo
  OBVIOUS
<1>2. t \in Seq(ItemType) /\ s \in Seq(ItemType) /\ t # <<>>
  BY <1>1 DEF Chain, Links
<1>3. PICK u : u = Pushed(s, t)
  OBVIOUS
<1>4. todo' = u
  BY <1>1, <1>3 DEF Push, Pushed
<1>5. PICK a \in Nat : a = Len(s)
  BY <1>2
<1>6. PICK l \in Nat : l = Len(t)
  BY <1>2
<1>7. /\ u \in Seq(ItemType) /\ Len(u) = a + (l - 1)
      /\ \A i \in 1 .. a : i \in 1 .. Len(u) /\ u[i] = s[i]
      /\ \A i \in 2 .. l : a + (i - 1) \in 1 .. Len(u) /\ u[a + (i - 1)] = t[i]
      /\ \A i \in 1 .. Len(u) : i \in 1 .. a \/ \E j \in 2 .. l : i = a + (j - 1)
  <2>1. PushFact(ItemType, s, t, u)
    BY <1>2, <1>3, PushShape
  <2> QED
    BY <2>1, <1>5, <1>6 DEF PushFact
<1>8. PICK h : h = Pushed(gs, g)
  OBVIOUS
<1>9. Chain(u, h) /\ (s # <<>> => h[1] = gs[1]) /\ (s = <<>> => h[1] = g[2])
  BY <1>1, <1>3, <1>8, Chaining
<1>10. Chain(todo, h)'
  <2>1. Chain(u, h)' <=> Chain(u, h)
    BY SameChain
  <2>2. Chain(todo, h)' <=> Chain(u, h)'
    BY <1>4
  <2> QED
    BY <1>9, <2>1, <2>2
<1>11. h[1] = f
  BY <1>9
<1>12. Scoped(h[1])'
  BY <1>11
<1>13. ASSUME NEW i \in 1 .. Len(u), u[i].do \in {"loop", "result"} PROVE Has(u[i].n)'
  <2>1. CASE i \in 1 .. a
    BY <1>5, <1>7, <1>13, <2>1
  <2>2. CASE \E j \in 2 .. l : i = a + (j - 1)
    <3>1. PICK j \in 2 .. l : i = a + (j - 1)
      BY <2>2
    <3>2. j \in 1 .. Len(t)
      <4>1. j \in 1 .. l
        BY <1>6, <3>1
      <4> QED
        BY <1>6, <4>1
    <3>3. u[i] = t[j]
      <4>1. u[a + (j - 1)] = t[j]
        BY ONLY <1>7, j \in 2 .. l
      <4> QED
        BY ONLY <3>1, <4>1
    <3>4. Has(t[j].n)
      BY <1>1, <1>13, <3>2, <3>3 DEF NameInv, Ready
    <3> QED
      BY <3>3, <3>4, Growing
  <2> QED
    BY <1>7, <2>1, <2>2
<1>14. Ready'
  BY <1>4, <1>13 DEF Ready
<1>15. ASSUME NEW m \in Nodes, ~Waits(m)', Waits(m)
       PROVE  Covers(Top, m) /\ \A i \in 1 .. Len(s) : ~Covers(s[i], m)
  <2>1. \A i \in 1 .. Len(u) : ~Covers(u[i], m)
    <3>1. \A i \in 1 .. Len(u) : ~Covers(u[i], m)'
      BY <1>4, <1>15 DEF Waits, Covers
    <3>2. \A it : Covers(it, m)' <=> Covers(it, m)
      BY SameTree DEF Covers
    <3> QED
      BY <1>4, <1>15, <3>2 DEF Waits, Covers
  <2>2. PICK j \in 1 .. Len(t) : Covers(t[j], m)
    BY <1>1, <1>15 DEF Waits
  <2>3. j = 1
    <3>1. ASSUME j # 1 PROVE FALSE
      <4>1. j \in 2 .. l
        BY <1>6, <3>1
      <4>2. a + (j - 1) \in 1 .. Len(u) /\ u[a + (j - 1)] = t[j]
        BY <1>7, <4>1
      <4> QED
        BY <2>1, <2>2, <4>2
    <3> QED
      BY <3>1
  <2>4. Top = t[1]
    BY <1>1 DEF Top
  <2> QED
    BY <1>5, <1>7, <2>1, <2>2, <2>3, <2>4
<1> QED
  BY <1>10, <1>12, <1>14, <1>15

-----------------------------------------------------------------------------
(* The variables of a comprehension. *)

DeclaredFact(c, w) ==
    /\ w \in Seq(VarType)
    /\ \A i \in 1 .. Len(w) : w[i].of = c /\ w[i].role # "free" /\ Conforms(w[i])
    /\ \A r \in {"iter", "accu"} : \E i \in 1 .. Len(w) : w[i].of = c /\ w[i].role = r
    /\ tree.name[c].iter2 # "" => \E i \in 1 .. Len(w) : w[i].of = c /\ w[i].role = "iter2"

\* One item and one item.
LEMMA JoinTwo ==
    ASSUME NEW T, NEW a \in T, NEW b \in T
    PROVE  <<a>> \o <<b>> = <<a, b>>
<1>1. PICK u : u = <<a>>
  OBVIOUS
<1>2. PICK w : w = u \o <<b>>
  OBVIOUS
<1>3. u \in Seq(T) /\ Len(u) = 1 /\ u[1] = a
  BY <1>1
<1>4. /\ w \in Seq(T) /\ Len(w) = Len(u) + 1
      /\ \A i \in 1 .. Len(u) : w[i] = u[i]
      /\ w[Len(u) + 1] = b
  <2>1. u \in Seq(T)
    BY <1>3
  <2>2. /\ u \o <<b>> \in Seq(T) /\ Len(u \o <<b>>) = Len(u) + 1
        /\ \A i \in 1 .. Len(u) : (u \o <<b>>)[i] = u[i]
        /\ (u \o <<b>>)[Len(u) + 1] = b
    BY <2>1, ConcatOne
  <2> QED
    BY <1>2, <2>2
<1>5. w \in Seq(T) /\ Len(w) = 2 /\ w[1] = a /\ w[2] = b
  BY <1>3, <1>4
<1>6. w = <<a, b>>
  BY <1>5
<1> QED
  BY <1>1, <1>2, <1>6

\* The variables a comprehension declares, one by one.
LEMMA DeclaredParts ==
    ASSUME tree \in Trees, NEW c \in Nodes, Op(c) = "comp"
    PROVE  DeclaredFact(c, Declared(c))
<1>1. PICK d : d = tree.name[c]
  OBVIOUS
<1>2. d \in [iter : STRING, iter2 : STRING, accu : STRING, source : STRING] /\ c \in Nat
  BY <1>1, Shape, NodeNat DEF NameShape
<1>3. PICK two : two = (d.iter2 # "")
  OBVIOUS
<1>4. PICK m1 : m1 = (d.source = "list" /\ ~two)
  OBVIOUS
<1>5. PICK m2 : m2 = (d.source = "list")
  OBVIOUS
<1>6. m1 \in BOOLEAN /\ m2 \in BOOLEAN /\ two \in BOOLEAN
  BY <1>3, <1>4, <1>5
<1>7. PICK a : a = Variable(d.iter, "iter", c, m1)
  OBVIOUS
<1>8. PICK b : b = Variable(d.iter2, "iter2", c, m2)
  OBVIOUS
<1>9. PICK e : e = Variable(d.accu, "accu", c, FALSE)
  OBVIOUS
<1>10. a \in VarType /\ b \in VarType /\ e \in VarType
  <2>1. d.iter \in STRING /\ d.iter2 \in STRING /\ d.accu \in STRING
    BY <1>2
  <2>2. c \in Nat /\ FALSE \in BOOLEAN
    BY <1>2
  <2>3. a \in VarType
    BY <2>1, <2>2, <1>6, <1>7 DEF Variable, VarType
  <2>4. b \in VarType
    BY <2>1, <2>2, <1>6, <1>8 DEF Variable, VarType
  <2>5. e \in VarType
    BY <2>1, <2>2, <1>9 DEF Variable, VarType
  <2> QED
    BY <2>3, <2>4, <2>5
<1>11. c \in Comps
  BY DEF Comps
<1>12. a.of = c /\ a.role = "iter" /\ Conforms(a)
  BY <1>1, <1>7, <1>11 DEF Variable, Conforms
<1>13. b.of = c /\ b.role = "iter2" /\ (two => Conforms(b))
  BY <1>1, <1>3, <1>8, <1>11 DEF Variable, Conforms
<1>14. e.of = c /\ e.role = "accu" /\ Conforms(e)
  BY <1>1, <1>9, <1>11 DEF Variable, Conforms
<1>15. PICK z : z = IF two THEN <<b>> ELSE <<>>
  OBVIOUS
<1>16. Declared(c) = (<<a>> \o z) \o <<e>>
  BY <1>1, <1>3, <1>4, <1>5, <1>7, <1>8, <1>9, <1>15, Zenon DEF Declared
<1>17. CASE two
  <2>1. <<a>> \o z = <<a, b>>
    BY <1>10, <1>15, <1>17, JoinTwo
  <2>2. PICK u : u = <<a, b>>
    OBVIOUS
  <2>3. u \in Seq(VarType) /\ Len(u) = 2 /\ u[1] = a /\ u[2] = b
    BY <1>10, <2>2
  <2>4. PICK w : w = u \o <<e>>
    OBVIOUS
  <2>5. /\ w \in Seq(VarType) /\ Len(w) = Len(u) + 1
        /\ \A i \in 1 .. Len(u) : w[i] = u[i]
        /\ w[Len(u) + 1] = e
    <3>1. u \in Seq(VarType) /\ e \in VarType
      BY <1>10, <2>3
    <3>2. /\ u \o <<e>> \in Seq(VarType) /\ Len(u \o <<e>>) = Len(u) + 1
          /\ \A i \in 1 .. Len(u) : (u \o <<e>>)[i] = u[i]
          /\ (u \o <<e>>)[Len(u) + 1] = e
      BY <3>1, ConcatOne
    <3> QED
      BY <2>4, <3>2
  <2>6. w \in Seq(VarType) /\ Len(w) = 3 /\ w[1] = a /\ w[2] = b /\ w[3] = e
    BY <2>3, <2>5
  <2>7. \A i \in 1 .. 3 : i = 1 \/ i = 2 \/ i = 3
    OBVIOUS
  <2>8. 1 \in 1 .. 3 /\ 2 \in 1 .. 3 /\ 3 \in 1 .. 3
    OBVIOUS
  <2>9. DeclaredFact(c, w)
    <3>1. \A i \in 1 .. Len(w) : w[i].of = c /\ w[i].role # "free" /\ Conforms(w[i])
      BY <1>12, <1>13, <1>14, <1>17, <2>6, <2>7
    <3>2. \A r \in {"iter", "iter2", "accu"} : \E i \in 1 .. Len(w) : w[i].of = c /\ w[i].role = r
      BY <1>12, <1>13, <1>14, <2>6, <2>8
    <3> QED
      BY <2>6, <3>1, <3>2 DEF DeclaredFact
  <2> QED
    BY <1>16, <2>1, <2>2, <2>4, <2>9
<1>18. CASE ~two
  <2>1. <<a>> \o z = <<a>>
    BY <1>10, <1>15, <1>18
  <2>2. PICK w : w = <<a, e>>
    OBVIOUS
  <2>3. w \in Seq(VarType) /\ Len(w) = 2 /\ w[1] = a /\ w[2] = e
    BY <1>10, <2>2
  <2>4. Declared(c) = w
    BY <1>10, <1>16, <2>1, <2>2, JoinTwo
  <2>5. \A i \in 1 .. 2 : i = 1 \/ i = 2
    OBVIOUS
  <2>6. 1 \in 1 .. 2 /\ 2 \in 1 .. 2
    OBVIOUS
  <2>7. DeclaredFact(c, w)
    <3>1. \A i \in 1 .. Len(w) : w[i].of = c /\ w[i].role # "free" /\ Conforms(w[i])
      BY <1>12, <1>14, <2>3, <2>5
    <3>2. \A r \in {"iter", "accu"} : \E i \in 1 .. Len(w) : w[i].of = c /\ w[i].role = r
      BY <1>12, <1>14, <2>3, <2>6
    <3> QED
      BY <1>1, <1>3, <1>18, <2>3, <3>1, <3>2 DEF DeclaredFact
  <2> QED
    BY <2>4, <2>7
<1> QED
  BY <1>6, <1>17, <1>18

-----------------------------------------------------------------------------
(* The steps of ResolvePass. *)

\* What visiting the top item settles, when s replaces it.
Settled(s) ==
    \A n \in Nodes : Covers(Top, n) /\ (\A i \in 1 .. Len(s) : ~Covers(s[i], n)) =>
        /\ Op(n) = "ident" => NameOk(n)'
        /\ Op(n) = "comp" => Has(n)'

\* A step of ResolvePass that follows the chain and declares what it enters keeps NameInv.
LEMMA NamesFollow ==
    ASSUME tree \in Trees, tree' = tree, NameInv, stage = "resolve", stage' = "resolve",
           todo # <<>>, NEW g, Chain(todo, g), NEW s, NEW gs, Links(s, gs, g[2]), Push(s), Grows,
           \A i \in 1 .. Len(s) : s[i].do \in {"loop", "result"} => Has(s[i].n)',
           NEW f, f = (IF s = <<>> THEN g[2] ELSE gs[1]), Scoped(f)',
           VarsConform', FreeOnce', DOMAIN binding' = Nodes,
           \A n \in Nodes : Op(n) = "ident" => binding'[n] = binding[n] \/ NameOk(n)',
           Settled(s)
    PROVE  NameInv'
<1>1. /\ Ready' /\ \E h : Chain(todo, h)' /\ Scoped(h[1])'
      /\ \A m \in Nodes : ~Waits(m)' =>
            ~Waits(m) \/ (Covers(Top, m) /\ \A i \in 1 .. Len(s) : ~Covers(s[i], m))
  BY Resolving
<1>2. Nodes' = Nodes /\ Comps' = Comps /\ \A n : Op(n)' = Op(n)
  BY SameTree
<1>3. ASSUME NEW n \in Nodes, Op(n) = "ident", ~Waits(n)' PROVE NameOk(n)'
  <2>1. CASE ~Waits(n)
    <3>1. NameOk(n)
      BY <1>3, <2>1 DEF NameInv
    <3> QED
      BY <1>3, <3>1, Growing
  <2>2. CASE Waits(n)
    BY <1>1, <1>3, <2>2 DEF Settled
  <2> QED
    BY <2>1, <2>2
<1>4. ASSUME NEW c \in Comps, ~Waits(c)' PROVE Has(c)'
  <2>0. c \in Nodes /\ Op(c) = "comp"
    BY CompNode
  <2>1. CASE ~Waits(c)
    <3>1. Has(c)
      BY <2>1 DEF NameInv
    <3> QED
      BY <3>1, Growing
  <2>2. CASE Waits(c)
    BY <1>1, <1>4, <2>0, <2>2 DEF Settled
  <2> QED
    BY <2>1, <2>2
<1>5. DOMAIN binding' = Nodes'
  BY <1>2
<1>6. \A n \in Nodes' : Op(n)' = "ident" /\ ~Waits(n)' => NameOk(n)'
  BY <1>2, <1>3
<1>7. \A c \in Comps' : ~Waits(c)' => Has(c)'
  BY <1>2, <1>4
<1>8. (\E h : Chain(todo, h) /\ Scoped(h[1]))'
  BY <1>1
<1> QED
  BY <1>1, <1>5, <1>6, <1>7, <1>8 DEF NameInv

\* The stack, the scopes and the top item of ResolvePass.
LEMMA NamesTop ==
    ASSUME LayoutInv, NameInv, stage = "resolve", todo # <<>>
    PROVE  /\ tree \in Trees /\ variables \in Seq(VarType) /\ Top.n \in Nodes
           /\ \E g : /\ Chain(todo, g) /\ Scoped(g[1]) /\ g[1] \in Seq(Frame)
                     /\ Right(Top, g[1]) /\ g[2] = Effect(Top, g[1])
<1>1. tree \in Trees /\ variables \in Seq(VarType)
  BY DEF LayoutInv, Typed
<1>2. PICK g : Chain(todo, g) /\ Scoped(g[1])
  BY DEF NameInv
<1>3. /\ Top.n \in Nodes /\ g[1] \in Seq(Frame) /\ Right(Top, g[1]) /\ g[2] = Effect(Top, g[1])
  BY <1>2, TopRight DEF Top
<1> QED
  BY <1>1, <1>2, <1>3

\* Frames stay right while the scopes stay and the table grows.
LEMMA SameScoped ==
    ASSUME tree' = tree, Grows, scopes' = scopes, NEW f, Scoped(f)
    PROVE  Scoped(f)'
<1>1. \A d \in 1 .. Len(f) : Describes(scopes[d], f[d])'
  <2>1. SUFFICES ASSUME NEW d \in 1 .. Len(f) PROVE Describes(scopes[d], f[d])'
    OBVIOUS
  <2>2. PICK S : S = scopes[d]
    OBVIOUS
  <2>3. Describes(S, f[d])'
    BY <2>2, Growing DEF Scoped
  <2> QED
    BY <2>2, <2>3
<1> QED
  BY <1>1 DEF Scoped

\* A step that leaves the table.
LEMMA GrowsNot ==
    ASSUME variables' = variables
    PROVE  /\ Grows
           /\ tree' = tree => (VarsConform' <=> VarsConform) /\ (FreeOnce' <=> FreeOnce)
<1>1. Grows
  BY DEF Grows
<1>2. ASSUME tree' = tree PROVE (VarsConform' <=> VarsConform) /\ (FreeOnce' <=> FreeOnce)
  <2>1. \A v : Conforms(v)' <=> Conforms(v)
    BY <1>2, SameNames
  <2> QED
    BY <2>1 DEF VarsConform, FreeOnce
<1> QED
  BY <1>1, <1>2

\* How the positions of the longer sequence u relate to those of v and w.
JoinFact(T, v, w, u) ==
    /\ u \in Seq(T)
    /\ \A i \in 1 .. Len(v) : i \in 1 .. Len(u) /\ u[i] = v[i]
    /\ \A j \in 1 .. Len(w) : Len(v) + j \in 1 .. Len(u) /\ u[Len(v) + j] = w[j]
    /\ \A i \in 1 .. Len(u) :
         \/ i \in 1 .. Len(v)
         \/ \E j \in 1 .. Len(w) : i = Len(v) + j

\* What concatenation does, index by index.
LEMMA JoinShape ==
    ASSUME NEW T, NEW v \in Seq(T), NEW w \in Seq(T)
    PROVE  JoinFact(T, v, w, v \o w)
<1>1. PICK u : u = v \o w
  OBVIOUS
<1>2. /\ u \in Seq(T) /\ Len(u) = Len(v) + Len(w)
      /\ \A i \in 1 .. Len(u) : u[i] = IF i <= Len(v) THEN v[i] ELSE w[i - Len(v)]
  BY <1>1
<1>3. PICK a \in Nat : a = Len(v)
  OBVIOUS
<1>4. PICK b \in Nat : b = Len(w)
  OBVIOUS
<1>5. Len(u) = a + b
  BY <1>2, <1>3, <1>4
<1>6. \A i \in 1 .. a : i \in 1 .. Len(u) /\ u[i] = v[i]
  BY <1>2, <1>3, <1>5
<1>7. ASSUME NEW j \in 1 .. b PROVE a + j \in 1 .. Len(u) /\ u[a + j] = w[j]
  <2>1. PICK k \in Nat : k = a + j
    OBVIOUS
  <2>2. k \in 1 .. Len(u) /\ ~(k <= a) /\ k - a = j
    BY <1>5, <2>1
  <2> QED
    BY <1>2, <1>3, <2>1, <2>2
<1>8. ASSUME NEW i \in 1 .. Len(u), i \notin 1 .. a PROVE \E j \in 1 .. b : i = a + j
  <2>1. i - a \in 1 .. b /\ i = a + (i - a)
    BY <1>5, <1>8
  <2> QED
    BY <2>1
<1>9. JoinFact(T, v, w, u)
  BY <1>2, <1>3, <1>4, <1>6, <1>7, <1>8 DEF JoinFact
<1> QED
  BY <1>1, <1>9

\* What the table of variables is after a comprehension has declared its own.
LEMMA Declaring ==
    ASSUME tree \in Trees, tree' = tree, variables \in Seq(VarType), VarsConform, FreeOnce,
           NEW c \in Nodes, Op(c) = "comp", variables' = variables \o Declared(c)
    PROVE  Grows /\ VarsConform' /\ FreeOnce' /\ Has(c)'
<1>1. PICK v : v = variables
  OBVIOUS
<1>2. PICK w : w = Declared(c)
  OBVIOUS
<1>3. PICK u : u = v \o w
  OBVIOUS
<1>4. DeclaredFact(c, w)
  BY <1>2, DeclaredParts
<1>5. v \in Seq(VarType) /\ w \in Seq(VarType)
  BY <1>1, <1>4 DEF DeclaredFact
<1>6. JoinFact(VarType, v, w, u)
  BY <1>3, <1>5, JoinShape
<1>7. variables' = u
  BY <1>1, <1>2, <1>3
<1>8. Grows
  BY <1>1, <1>6, <1>7 DEF Grows, JoinFact
<1>9. VarsConform'
  <2>1. ASSUME NEW i \in 1 .. Len(u) PROVE Conforms(u[i])
    <3>1. CASE i \in 1 .. Len(v)
      BY <1>1, <1>6, <3>1 DEF JoinFact, VarsConform
    <3>2. CASE \E j \in 1 .. Len(w) : i = Len(v) + j
      BY <1>4, <1>6, <3>2 DEF JoinFact, DeclaredFact
    <3> QED
      BY <1>6, <3>1, <3>2 DEF JoinFact
  <2>2. \A x : Conforms(x)' <=> Conforms(x)
    BY SameNames
  <2> QED
    BY <1>7, <2>1, <2>2 DEF VarsConform
<1>10. FreeOnce'
  <2>1. ASSUME NEW i \in 1 .. Len(u), u[i].role = "free"
        PROVE  i \in 1 .. Len(v) /\ u[i] = v[i]
    <3>1. ASSUME NEW j \in 1 .. Len(w), i = Len(v) + j PROVE FALSE
      BY <1>4, <1>6, <2>1, <3>1 DEF JoinFact, DeclaredFact
    <3>2. i \in 1 .. Len(v)
      BY <1>6, <3>1 DEF JoinFact
    <3> QED
      BY <1>6, <3>2 DEF JoinFact
  <2> QED
    BY <1>1, <1>7, <2>1 DEF FreeOnce
<1>11. ASSUME NEW r, \E j \in 1 .. Len(w) : w[j].of = c /\ w[j].role = r
       PROVE  HasRole(c, r)'
  <2>1. PICK j \in 1 .. Len(w) : w[j].of = c /\ w[j].role = r
    BY <1>11
  <2>2. PICK i : i = Len(v) + j
    OBVIOUS
  <2>3. i \in 1 .. Len(u) /\ u[i] = w[j]
    BY <1>6, <2>2 DEF JoinFact
  <2> QED
    BY <1>7, <2>1, <2>3 DEF HasRole
<1>12. HasRole(c, "accu")' /\ HasRole(c, "iter")'
  <2>1. "accu" \in {"iter", "accu"} /\ "iter" \in {"iter", "accu"}
    OBVIOUS
  <2> QED
    BY <1>4, <1>11, <2>1 DEF DeclaredFact
<1>13. tree.name[c].iter2 # "" => HasRole(c, "iter2")'
  BY <1>4, <1>11 DEF DeclaredFact
<1> QED
  BY <1>8, <1>9, <1>10, <1>12, <1>13 DEF Has

\* A comprehension has no other kids than its five parts.
LEMMA FiveKids ==
    ASSUME tree \in Trees, NEW c \in Nodes, Op(c) = "comp", NEW k \in KidSet(c)
    PROVE  k \in {IterRange(c), AccuInit(c), Kid(c, 3), LoopBody(c), Result(c)}
<1>1. Kids(c) \in Seq(Nat) /\ Len(Kids(c)) = 5
  BY Shape DEF Arity
<1>2. PICK i \in 1 .. 5 : k = Kids(c)[i]
  <2>1. \E i \in 1 .. Len(Kids(c)) : k = Kids(c)[i]
    BY Shape
  <2> QED
    BY <1>1, <2>1
<1>3. i = 1 \/ i = 2 \/ i = 3 \/ i = 4 \/ i = 5
  OBVIOUS
<1>4. k = Kid(c, i)
  BY <1>2 DEF Kid, Kids
<1> QED
  BY <1>3, <1>4 DEF IterRange, AccuInit, LoopBody, Result

\* Going down.
LEMMA ResolvePreNames ==
    ASSUME LayoutInv, NameInv, ResolvePre
    PROVE  NameInv'
<1>1. /\ stage = "resolve" /\ stage' = "resolve" /\ todo # <<>> /\ Top.do = "pre"
      /\ tree' = tree /\ scopes' = scopes /\ binding' = binding
  BY DEF ResolvePre, Doing
<1>2. PICK c : c = Top.n
  OBVIOUS
<1>3. tree \in Trees /\ variables \in Seq(VarType) /\ c \in Nodes
  BY <1>1, <1>2, NamesTop
<1>4. PICK g : /\ Chain(todo, g) /\ Scoped(g[1]) /\ g[1] \in Seq(Frame)
               /\ Right(Top, g[1]) /\ g[2] = Effect(Top, g[1])
  BY <1>1, NamesTop
<1>5. PICK f : f = g[1]
  OBVIOUS
<1>6. Lists(c, f) /\ g[2] = f /\ Scoped(f)
  BY <1>1, <1>2, <1>4, <1>5 DEF Right, Effect
<1>7. VarsConform /\ FreeOnce /\ DOMAIN binding' = Nodes
  BY <1>1 DEF NameInv
<1>8. \A n \in Nodes : Covers(Top, n) => n \in Below(c)
  BY <1>1, <1>2 DEF Covers
<1>9. \A n \in Nodes : Op(n) = "ident" => binding'[n] = binding[n] \/ NameOk(n)'
  BY <1>1
<1>10. CASE Op(c) = "comp"
  <2>1. variables' = variables \o Declared(c) /\ Push(CompItems(c))
    BY <1>2, <1>10 DEF ResolvePre, CompItems
  <2>2. Grows /\ VarsConform' /\ FreeOnce' /\ Has(c)'
    BY <1>1, <1>3, <1>7, <1>10, <2>1, Declaring
  <2>3. PICK s : s = CompItems(c)
    OBVIOUS
  <2>4. PICK gs : Links(s, gs, f) /\ gs[1] = f
    BY <1>3, <1>6, <1>10, <2>3, CompLinks
  <2>5. /\ s \in Seq(ItemType) /\ Len(s) = 9
        /\ s[1].do = "pre" /\ s[1].n = IterRange(c)
        /\ s[2].do = "pre" /\ s[2].n = AccuInit(c)
        /\ s[3].do = "loop" /\ s[3].n = c
        /\ s[4].do = "pre" /\ s[4].n = Kid(c, 3)
        /\ s[5].do = "pre" /\ s[5].n = LoopBody(c)
        /\ s[6].do = "pop" /\ s[6].n = c
        /\ s[7].do = "result" /\ s[7].n = c
        /\ s[8].do = "pre" /\ s[8].n = Result(c)
        /\ s[9].do = "pop" /\ s[9].n = c
    BY <1>3, <1>10, <2>3, CompItemsShape
  <2>6. ASSUME NEW i \in 1 .. Len(s), s[i].do \in {"loop", "result"} PROVE s[i].n = c
    <3>1. i \in {1, 2, 3, 4, 5, 6, 7, 8, 9}
      BY <2>5
    <3>2. i \notin {1, 2, 4, 5, 6, 8, 9}
      BY <2>5, <2>6
    <3>3. i = 3 \/ i = 7
      BY <3>1, <3>2
    <3> QED
      BY <2>5, <3>3
  <2>7. \A k \in KidSet(c) : \E i \in 1 .. Len(s) : s[i].do = "pre" /\ s[i].n = k
    <3>1. 1 \in 1 .. 9 /\ 2 \in 1 .. 9 /\ 4 \in 1 .. 9 /\ 5 \in 1 .. 9 /\ 8 \in 1 .. 9
      OBVIOUS
    <3>2. \A k \in KidSet(c) : k \in {IterRange(c), AccuInit(c), Kid(c, 3), LoopBody(c), Result(c)}
      BY <1>3, <1>10, FiveKids
    <3> QED
      BY <2>5, <3>1, <3>2
  <2>8. ASSUME NEW n \in Below(c), n # c PROVE \E i \in 1 .. Len(s) : Covers(s[i], n)
    <3>1. PICK k \in KidSet(c) : n \in Below(k)
      BY <1>3, <2>8, BelowSplit
    <3> QED
      BY <2>7, <3>1 DEF Covers
  <2>9. Settled(s)
    BY <1>8, <1>10, <2>2, <2>8 DEF Settled
  <2>10. s # <<>>
    <3>1. Len(s) = 9
      BY <2>5
    <3> QED
      BY <3>1
  <2>11. Scoped(f)'
    BY <1>1, <1>6, <2>2, SameScoped
  <2>12. \A i \in 1 .. Len(s) : s[i].do \in {"loop", "result"} => Has(s[i].n)'
    BY <2>2, <2>6
  <2>13. f = (IF s = <<>> THEN g[2] ELSE gs[1])
    BY <2>4, <2>10
  <2>14. Links(s, gs, g[2]) /\ Push(s)
    BY <1>6, <2>1, <2>3, <2>4
  <2> QED
    BY <1>1, <1>3, <1>4, <1>7, <1>9, <2>2, <2>9, <2>11, <2>12, <2>13, <2>14, NamesFollow
<1>11. CASE Op(c) # "comp"
  <2>1. variables' = variables /\ Push(Opened(c))
    BY <1>2, <1>11 DEF ResolvePre, Descend, Opened
  <2>2. Grows /\ VarsConform' /\ FreeOnce'
    BY <1>1, <1>7, <2>1, GrowsNot
  <2>3. PICK s : s = Opened(c)
    OBVIOUS
  <2>4. PICK gs : Links(s, gs, f) /\ gs[1] = f
    BY <1>3, <1>6, <1>11, <2>3, OpeningLinks
  <2>5. PICK a \in Nat : a = Len(Kids(c))
    BY <1>3, OpenedShape
  <2>6. /\ s \in Seq(ItemType) /\ Len(s) = a + 1
        /\ \A i \in 1 .. a : s[i].do = "pre" /\ s[i].n = Kids(c)[i]
        /\ s[a + 1].do = "post" /\ s[a + 1].n = c
    BY <1>3, <2>3, <2>5, OpenedShape
  <2>7. \A i \in 1 .. (a + 1) : i \in 1 .. a \/ i = a + 1
    OBVIOUS
  <2>8. ASSUME NEW n \in Below(c) PROVE \E i \in 1 .. Len(s) : Covers(s[i], n)
    <3>1. CASE n = c
      <4>1. a + 1 \in 1 .. Len(s)
        BY <2>6
      <4> QED
        BY <2>6, <3>1, <4>1 DEF Covers
    <3>2. CASE n # c
      <4>1. PICK k \in KidSet(c) : n \in Below(k)
        BY <1>3, <3>2, BelowSplit
      <4>2. PICK i \in 1 .. a : k = Kids(c)[i]
        BY <1>3, <2>5, Shape
      <4>3. i \in 1 .. Len(s)
        BY <2>6
      <4> QED
        BY <2>6, <4>1, <4>2, <4>3 DEF Covers
    <3> QED
      BY <3>1, <3>2
  <2>9. Settled(s)
    BY <1>8, <2>8 DEF Settled
  <2>10. s # <<>>
    BY <2>6
  <2>11. Scoped(f)'
    BY <1>1, <1>6, <2>2, SameScoped
  <2>12. \A i \in 1 .. Len(s) : s[i].do \in {"loop", "result"} => Has(s[i].n)'
    BY <2>6, <2>7
  <2>13. f = (IF s = <<>> THEN g[2] ELSE gs[1])
    BY <2>4, <2>10
  <2>14. Links(s, gs, g[2]) /\ Push(s)
    BY <1>6, <2>1, <2>3, <2>4
  <2> QED
    BY <1>1, <1>3, <1>4, <1>7, <1>9, <2>2, <2>9, <2>11, <2>12, <2>13, <2>14, NamesFollow
<1> QED
  BY <1>10, <1>11

\* The least and the greatest of a bounded set of numbers.
LEMMA Extremes ==
    ASSUME NEW n \in Nat, NEW S, S \subseteq 0 .. n, S # {}
    PROVE  /\ Max(S) \in S /\ \A x \in S : x <= Max(S)
           /\ Min(S) \in S /\ \A x \in S : Min(S) <= x
<1>1. \A x \in S : x \in Nat
  OBVIOUS
<1>2. PICK a \in S : \A x \in S : x <= a
  BY GreatestIndex
<1>3. \A x \in S : a >= x
  BY <1>1, <1>2
<1>4. Max(S) \in S /\ \A x \in S : Max(S) >= x
  BY <1>3 DEF Max
<1>5. PICK b \in S : \A x \in S : b <= x
  BY <1>1, LeastIndex
<1>6. Min(S) \in S /\ \A x \in S : Min(S) <= x
  BY <1>5 DEF Min
<1>7. \A x \in S : x <= Max(S)
  BY <1>1, <1>4
<1> QED
  BY <1>4, <1>6, <1>7

\* What Front does, index by index.
LEMMA FrontShape ==
    ASSUME NEW T, NEW a \in Seq(T), a # <<>>
    PROVE  /\ Front(a) \in Seq(T) /\ Len(Front(a)) = Len(a) - 1
           /\ \A i \in 1 .. Len(Front(a)) : Front(a)[i] = a[i] /\ i \in 1 .. Len(a)
<1>1. PICK l \in Nat : l = Len(a)
  OBVIOUS
<1>2. l >= 1
  BY <1>1
<1>3. PICK b : b = SubSeq(a, 1, l - 1)
  OBVIOUS
<1>4. Front(a) = b
  BY <1>1, <1>3 DEF Front
<1>5. b = [i \in 1 .. (l - 1) |-> a[i]]
  BY <1>1, <1>2, <1>3
<1>6. \A i \in 1 .. (l - 1) : i \in 1 .. l /\ a[i] \in T
  BY <1>1, <1>2
<1>7. b \in Seq(T) /\ Len(b) = l - 1 /\ \A i \in 1 .. (l - 1) : b[i] = a[i]
  BY <1>2, <1>5, <1>6
<1> QED
  BY <1>1, <1>4, <1>6, <1>7

\* Pushing nothing leads from a list of frames to itself.
LEMMA NoLinks == ASSUME NEW h PROVE Links(<<>>, <<>>, h)
<1>1. PICK s : s = <<>>
  OBVIOUS
<1>2. s \in Seq(ItemType) /\ s \in Seq(Seq(Frame)) /\ Len(s) = 0
  BY <1>1
<1>3. Links(s, s, h)
  BY <1>2 DEF Links
<1> QED
  BY <1>1, <1>3

\* A step that only takes the top item away.
LEMMA NamesPop ==
    ASSUME tree \in Trees, tree' = tree, NameInv, stage = "resolve", stage' = "resolve",
           todo # <<>>, NEW g, Chain(todo, g), Push(<<>>), Grows, Scoped(g[2])',
           VarsConform', FreeOnce', DOMAIN binding' = Nodes,
           \A n \in Nodes : Op(n) = "ident" => binding'[n] = binding[n] \/ NameOk(n)',
           Settled(<<>>)
    PROVE  NameInv'
<1>1. PICK s : s = <<>>
  OBVIOUS
<1>2. Links(s, s, g[2]) /\ Push(s) /\ Settled(s)
  BY <1>1, NoLinks
<1>3. Len(s) = 0
  BY <1>1
<1>4. \A i \in 1 .. Len(s) : s[i].do \in {"loop", "result"} => Has(s[i].n)'
  BY <1>3
<1>5. PICK f : f = g[2]
  OBVIOUS
<1>6. Scoped(f)' /\ f = (IF s = <<>> THEN g[2] ELSE s[1])
  BY <1>1, <1>5
<1> QED
  BY <1>2, <1>4, <1>6, NamesFollow

\* The scope that a comprehension opens holds the variables it is to show.
LEMMA Opening ==
    ASSUME tree \in Trees, VarsConform, NEW c \in Nodes, Has(c), NEW b \in BOOLEAN,
           NEW roles, roles = (IF b THEN {"iter", "iter2", "accu"} ELSE {"accu"}),
           NEW S, S = {i \in 1 .. Len(variables) : variables[i].of = c /\ variables[i].role \in roles}
    PROVE  Describes(S, [c |-> c, loop |-> b])
<1>1. PICK x : x = [c |-> c, loop |-> b]
  OBVIOUS
<1>2. x.c = c /\ x.loop = b
  BY <1>1
<1>3. PICK d : d = tree.name[c]
  OBVIOUS
<1>4. PICK N : N = IF b THEN {d.iter, d.accu} \cup ({d.iter2} \ {""}) ELSE {d.accu}
  OBVIOUS
<1>5. FrameNames(x) = N
  BY <1>2, <1>3, <1>4 DEF FrameNames, AllNames
<1>6. ASSUME NEW i \in S PROVE variables[i].name \in N
  <2>1. PICK v : v = variables[i]
    OBVIOUS
  <2>2. Conforms(v) /\ v.of = c /\ v.role \in roles
    BY <2>1 DEF VarsConform
  <2>3. /\ v.role = "iter" => v.name = d.iter
        /\ v.role = "iter2" => v.name = d.iter2 /\ v.name # ""
        /\ v.role = "accu" => v.name = d.accu
    BY <1>3, <2>2 DEF Conforms
  <2>4. v.role \in roles
    BY <2>2
  <2>5. v.name \in N
    BY <1>4, <2>3, <2>4
  <2> QED
    BY <2>1, <2>5
<1>7. ASSUME NEW r \in roles, HasRole(c, r)
      PROVE  \E i \in S : variables[i].role = r /\ Conforms(variables[i]) /\ variables[i].of = c
  BY <1>7 DEF HasRole, VarsConform
<1>8. ASSUME NEW nm \in N PROVE \E i \in S : variables[i].name = nm
  <2>1. CASE nm = d.accu
    <3>1. "accu" \in roles /\ HasRole(c, "accu")
      BY DEF Has
    <3>2. PICK i \in S : variables[i].role = "accu" /\ Conforms(variables[i]) /\ variables[i].of = c
      BY <1>7, <3>1
    <3> QED
      BY <1>3, <2>1, <3>2 DEF Conforms
  <2>2. CASE nm # d.accu /\ nm = d.iter
    <3>1. "iter" \in roles /\ HasRole(c, "iter")
      BY <1>4, <2>2 DEF Has
    <3>2. PICK i \in S : variables[i].role = "iter" /\ Conforms(variables[i]) /\ variables[i].of = c
      BY <1>7, <3>1
    <3> QED
      BY <1>3, <2>2, <3>2 DEF Conforms
  <2>3. CASE nm # d.accu /\ nm # d.iter
    <3>1. b /\ nm = d.iter2 /\ d.iter2 # ""
      BY <1>4, <2>3
    <3>2. "iter2" \in roles /\ HasRole(c, "iter2")
      BY <1>3, <3>1 DEF Has
    <3>3. PICK i \in S : variables[i].role = "iter2" /\ Conforms(variables[i]) /\ variables[i].of = c
      BY <1>7, <3>2
    <3> QED
      BY <1>3, <3>1, <3>3 DEF Conforms
  <2> QED
    BY <2>1, <2>2, <2>3
<1>9. {variables[i].name : i \in S} = N
  BY <1>6, <1>8
<1>10. Describes(S, x)
  BY <1>2, <1>5, <1>9 DEF Describes
<1> QED
  BY <1>1, <1>10

\* Entering a loop or a result: a frame more, its variables declared.
LEMMA EnterNames ==
    ASSUME LayoutInv, NameInv, EnterScope
    PROVE  NameInv'
<1>1. /\ stage = "resolve" /\ stage' = "resolve" /\ todo # <<>> /\ Top.do \in {"loop", "result"}
      /\ tree' = tree /\ variables' = variables /\ binding' = binding /\ Push(<<>>)
  BY DEF EnterScope, Doing
<1>2. PICK c : c = Top.n
  OBVIOUS
<1>3. tree \in Trees /\ variables \in Seq(VarType) /\ c \in Nodes
  BY <1>1, <1>2, NamesTop
<1>4. PICK g : /\ Chain(todo, g) /\ Scoped(g[1]) /\ g[1] \in Seq(Frame)
               /\ Right(Top, g[1]) /\ g[2] = Effect(Top, g[1])
  BY <1>1, NamesTop
<1>5. PICK f : f = g[1]
  OBVIOUS
<1>6. PICK b : b = (Top.do = "loop")
  OBVIOUS
<1>7. PICK roles : roles = IF b THEN {"iter", "iter2", "accu"} ELSE {"accu"}
  OBVIOUS
<1>8. PICK S : S = {i \in DOMAIN variables : variables[i].of = c /\ variables[i].role \in roles}
  OBVIOUS
<1>9. scopes' = Append(scopes, S)
  BY <1>2, <1>6, <1>7, <1>8 DEF EnterScope
<1>10. S = {i \in 1 .. Len(variables) : variables[i].of = c /\ variables[i].role \in roles}
  BY <1>3, <1>8
<1>11. Has(c)
  <2>1. 1 \in 1 .. Len(todo) /\ Top = todo[1]
    BY <1>1, <1>4 DEF Chain, Top
  <2> QED
    BY <1>1, <1>2, <2>1 DEF NameInv, Ready
<1>12. VarsConform /\ FreeOnce /\ DOMAIN binding' = Nodes
  BY <1>1 DEF NameInv
<1>13. PICK x : x = [c |-> c, loop |-> b]
  OBVIOUS
<1>14. b \in BOOLEAN
  BY <1>6
<1>15. Describes(S, x)
  BY <1>3, <1>7, <1>10, <1>11, <1>12, <1>13, <1>14, Opening
<1>16. g[2] = Append(f, x)
  BY <1>1, <1>2, <1>4, <1>5, <1>6, <1>13 DEF Effect
<1>17. Grows /\ VarsConform' /\ FreeOnce'
  BY <1>1, <1>12, GrowsNot
<1>18. Scoped(g[2])'
  <2>1. PICK l \in Nat : l = Len(f)
    BY <1>4, <1>5
  <2>2. scopes \in Seq(SUBSET Nat) /\ Len(scopes) = l /\ S \in SUBSET Nat
    BY <1>4, <1>5, <1>10, <2>1 DEF Scoped
  <2>3. PICK sc : sc = Append(scopes, S)
    OBVIOUS
  <2>4. PICK h : h = Append(f, x)
    OBVIOUS
  <2>5. x \in Frame /\ f \in Seq(Frame)
    BY <1>3, <1>4, <1>5, <1>13, <1>14 DEF Frame
  <2>6. /\ sc \in Seq(SUBSET Nat) /\ Len(sc) = l + 1 /\ sc[l + 1] = S
        /\ \A d \in 1 .. l : sc[d] = scopes[d]
    BY <2>2, <2>3
  <2>7. Len(h) = l + 1 /\ h[l + 1] = x /\ \A d \in 1 .. l : h[d] = f[d]
    BY <2>1, <2>4, <2>5
  <2>8. ASSUME NEW d \in 1 .. (l + 1) PROVE Describes(sc[d], h[d])
    <3>1. CASE d \in 1 .. l
      <4>1. Describes(scopes[d], f[d])
        BY <1>4, <1>5, <2>1, <3>1 DEF Scoped
      <4> QED
        BY <2>6, <2>7, <3>1, <4>1
    <3>2. CASE d = l + 1
      BY <1>15, <2>6, <2>7, <3>2
    <3> QED
      BY <2>1, <3>1, <3>2
  <2>9. \A T, y : Describes(T, y) => Describes(T, y)'
    BY <1>1, <1>17, Growing
  <2>10. \A d \in 1 .. (l + 1) : Describes(sc[d], h[d])'
    BY <2>8, <2>9
  <2>11. scopes' = sc /\ g[2] = h
    BY <1>9, <1>16, <2>3, <2>4
  <2>12. Scoped(h)'
    BY <2>6, <2>7, <2>10, <2>11 DEF Scoped
  <2> QED
    BY <2>11, <2>12
<1>19. Settled(<<>>)
  BY <1>1 DEF Settled, Covers
<1>20. \A n \in Nodes : Op(n) = "ident" => binding'[n] = binding[n] \/ NameOk(n)'
  BY <1>1
<1> QED
  BY <1>1, <1>3, <1>4, <1>12, <1>17, <1>18, <1>19, <1>20, NamesPop

\* Leaving one: a frame less.
LEMMA LeaveNames ==
    ASSUME LayoutInv, NameInv, LeaveScope
    PROVE  NameInv'
<1>1. /\ stage = "resolve" /\ stage' = "resolve" /\ todo # <<>> /\ Top.do = "pop"
      /\ tree' = tree /\ variables' = variables /\ binding' = binding /\ Push(<<>>)
      /\ scopes' = Front(scopes)
  BY DEF LeaveScope, PopScope, Doing
<1>2. tree \in Trees /\ variables \in Seq(VarType)
  BY <1>1, NamesTop
<1>3. PICK g : /\ Chain(todo, g) /\ Scoped(g[1]) /\ g[1] \in Seq(Frame)
               /\ Right(Top, g[1]) /\ g[2] = Effect(Top, g[1])
  BY <1>1, NamesTop
<1>4. PICK f : f = g[1]
  OBVIOUS
<1>5. f \in Seq(Frame) /\ f # <<>> /\ g[2] = Front(f)
  BY <1>1, <1>3, <1>4 DEF Right, Effect
<1>6. VarsConform /\ FreeOnce /\ DOMAIN binding' = Nodes
  BY <1>1 DEF NameInv
<1>7. Grows /\ VarsConform' /\ FreeOnce'
  BY <1>1, <1>6, GrowsNot
<1>8. Scoped(g[2])'
  <2>1. scopes \in Seq(SUBSET Nat) /\ Len(scopes) = Len(f)
    BY <1>3, <1>4 DEF Scoped
  <2>2. scopes # <<>>
    BY <1>5, <2>1
  <2>3. PICK sc : sc = Front(scopes)
    OBVIOUS
  <2>4. PICK h : h = Front(f)
    OBVIOUS
  <2>5. /\ sc \in Seq(SUBSET Nat) /\ Len(sc) = Len(scopes) - 1
        /\ \A d \in 1 .. Len(sc) : sc[d] = scopes[d] /\ d \in 1 .. Len(scopes)
    BY <2>1, <2>2, <2>3, FrontShape
  <2>6. Len(h) = Len(f) - 1 /\ \A d \in 1 .. Len(h) : h[d] = f[d]
    BY <1>5, <2>4, FrontShape
  <2>7. ASSUME NEW d \in 1 .. Len(h) PROVE Describes(sc[d], h[d])
    <3>1. sc[d] = scopes[d] /\ h[d] = f[d] /\ d \in 1 .. Len(f)
      BY <2>1, <2>5, <2>6
    <3>2. Describes(scopes[d], f[d])
      BY <1>3, <1>4, <3>1 DEF Scoped
    <3> QED
      BY <3>1, <3>2
  <2>8. \A T, y : Describes(T, y) => Describes(T, y)'
    BY <1>1, <1>7, Growing
  <2>9. \A d \in 1 .. Len(h) : Describes(sc[d], h[d])'
    BY <2>7, <2>8
  <2>10. scopes' = sc /\ g[2] = h
    BY <1>1, <1>5, <2>3, <2>4
  <2>11. Scoped(h)'
    BY <2>1, <2>5, <2>6, <2>9, <2>10 DEF Scoped
  <2> QED
    BY <2>10, <2>11
<1>9. Settled(<<>>)
  BY <1>1 DEF Settled, Covers
<1>10. \A n \in Nodes : Op(n) = "ident" => binding'[n] = binding[n] \/ NameOk(n)'
  BY <1>1
<1> QED
  BY <1>1, <1>2, <1>3, <1>6, <1>7, <1>8, <1>9, <1>10, NamesPop

\* The scopes that hold a variable of the name of n are those of the
\* comprehensions that show n one.
LEMMA Shown ==
    ASSUME tree \in Trees, NEW n \in Nodes, NEW f, Lists(n, f), Scoped(f),
           NEW nm, nm = Last(tree.name[n]), NEW d \in 1 .. Len(f)
    PROVE  (\E i \in scopes[d] : variables[i].name = nm) <=> f[d].c \in Showing(n)
<1>1. PICK x : x = f[d]
  OBVIOUS
<1>2. PICK c : c = x.c
  OBVIOUS
<1>3. c \in Around(n) /\ (x.loop <=> n \in Loops(c)) /\ Describes(scopes[d], x)
  BY <1>1, <1>2 DEF Lists, Scoped
<1>4. (\E i \in scopes[d] : variables[i].name = nm) <=> nm \in FrameNames(x)
  BY <1>3 DEF Describes
<1>5. c \in Comps /\ (n \in Loops(c) \/ n \in Below(Result(c)))
  BY <1>3 DEF Around
<1>6. (\E i \in {3, 4} : n \in Below(Kid(c, i))) <=> n \in Loops(c)
  BY DEF Loops, LoopBody
<1>7. c \in Showing(n) <=> (\/ n \in Loops(c) /\ nm \in AllNames(c)
                            \/ n \in Below(Result(c)) /\ nm = tree.name[c].accu)
  BY <1>5, <1>6 DEF Showing, Shows, AllNames
<1>8. nm \in FrameNames(x) <=> IF n \in Loops(c) THEN nm \in AllNames(c) ELSE nm = tree.name[c].accu
  BY <1>2, <1>3 DEF FrameNames
<1>9. tree.name[c].accu \in AllNames(c)
  BY DEF AllNames
<1>10. nm \in FrameNames(x) <=> c \in Showing(n)
  BY <1>5, <1>7, <1>8, <1>9
<1> QED
  BY <1>1, <1>2, <1>4, <1>10

\* A comprehension that shows a name is around the node.
LEMMA ShowingIsAround ==
    ASSUME tree \in Trees, NEW n \in Nodes
    PROVE  Showing(n) \subseteq Around(n) /\ Showing(n) \subseteq 0 .. n
<1>1. \A c : (\E i \in {3, 4} : n \in Below(Kid(c, i))) <=> n \in Loops(c)
  BY DEF Loops, LoopBody
<1>2. Showing(n) \subseteq Around(n)
  BY <1>1 DEF Showing, Shows, Around
<1>3. \A c \in Around(n) : c \in 0 .. n
  BY AroundAbove
<1> QED
  BY <1>2, <1>3

\* The scopes that hold a variable named nm.
Holding(nm) == {d \in DOMAIN scopes : \E i \in scopes[d] : variables[i].name = nm}

\* The scopes of n that hold a variable of its name, and the last of them.
LEMMA Innermost ==
    ASSUME tree \in Trees, NEW n \in Nodes, NEW f, Lists(n, f), Scoped(f),
           NEW nm, nm = Last(tree.name[n]),
           NEW has, has = Holding(nm)
    PROVE  /\ has = {} <=> Showing(n) = {}
           /\ has # {} => /\ Max(has) \in has /\ Max(has) \in 1 .. Len(f)
                          /\ f[Max(has)].c = Max(Showing(n))
<1>1. scopes \in Seq(SUBSET Nat) /\ Len(scopes) = Len(f) /\ f \in Seq(Frame)
  BY DEF Scoped, Lists
<1>2. DOMAIN scopes = 1 .. Len(f)
  BY <1>1
<1>3. has \subseteq 1 .. Len(f)
  BY <1>2 DEF Holding
<1>4. \A d \in 1 .. Len(f) : d \in has <=> f[d].c \in Showing(n)
  BY <1>2, Shown DEF Holding
<1>5. ASSUME NEW c \in Showing(n) PROVE \E d \in has : f[d].c = c
  <2>1. c \in Around(n)
    BY ShowingIsAround
  <2>2. PICK d \in 1 .. Len(f) : f[d].c = c
    BY <2>1 DEF Lists
  <2> QED
    BY <1>4, <2>2
<1>6. has = {} <=> Showing(n) = {}
  BY <1>3, <1>4, <1>5
<1>7. ASSUME has # {} PROVE Max(has) \in has /\ f[Max(has)].c = Max(Showing(n))
  <2>1. PICK l \in Nat : l = Len(f)
    BY <1>1
  <2>2. has \subseteq 0 .. l
    BY <1>3, <2>1
  <2>3. PICK D : D = Max(has)
    OBVIOUS
  <2>4. D \in has /\ \A d \in has : d <= D
    BY <1>7, <2>1, <2>2, <2>3, Extremes
  <2>5. Showing(n) # {} /\ Showing(n) \subseteq 0 .. n /\ n \in Nat
    BY <1>6, <1>7, ShowingIsAround, NodeNat
  <2>6. Max(Showing(n)) \in Showing(n) /\ \A c \in Showing(n) : c <= Max(Showing(n))
    BY <2>5, Extremes
  <2>7. PICK M : M = Max(Showing(n))
    OBVIOUS
  <2>8. PICK d \in has : f[d].c = M
    BY <1>5, <2>6, <2>7
  <2>9. f[D].c \in Showing(n) /\ D \in 1 .. Len(f) /\ d \in 1 .. Len(f)
    BY <1>3, <1>4, <2>4
  <2>10. f[D].c <= M /\ M \in Nat /\ f[D].c \in Nat
    BY <2>5, <2>6, <2>7, <2>9
  <2>11. d < D => FALSE
    <3>1. d < D => f[d].c < f[D].c
      BY <2>9 DEF Lists
    <3> QED
      BY <2>8, <2>10, <3>1
  <2>12. d <= D /\ d \in Nat /\ D \in Nat
    BY <2>1, <2>4, <2>9
  <2>13. d = D
    BY <2>11, <2>12
  <2> QED
    BY <2>3, <2>4, <2>7, <2>8, <2>13
<1> QED
  BY <1>3, <1>6, <1>7

\* TryResolveScope finds the variable that the tree says is meant, if any.
LEMMA Finding ==
    ASSUME tree \in Trees, variables \in Seq(VarType), NEW n \in Nodes, Op(n) = "ident",
           NEW f, Lists(n, f), Scoped(f), NEW nm, nm = Last(tree.name[n]),
           NEW scoped, scoped = (IF Len(tree.name[n]) = 2 THEN {} ELSE InScopes(nm))
    PROVE  /\ scoped \subseteq 1 .. Len(variables)
           /\ scoped = {} => Meant(n) = 0
           /\ \A i \in scoped : variables[i].name = nm /\ variables[i].of = Meant(n)
<1>1. PICK has : has = Holding(nm)
  OBVIOUS
<1>2. /\ has = {} <=> Showing(n) = {}
      /\ has # {} => /\ Max(has) \in has /\ Max(has) \in 1 .. Len(f)
                     /\ f[Max(has)].c = Max(Showing(n))
  BY <1>1, Innermost
<1>3. InScopes(nm) = IF has = {} THEN {} ELSE {i \in scopes[Max(has)] : variables[i].name = nm}
  BY <1>1 DEF InScopes, Holding
<1>4. CASE Len(tree.name[n]) = 2
  BY <1>4 DEF Meant
<1>5. CASE Len(tree.name[n]) # 2 /\ has = {}
  BY <1>2, <1>3, <1>5 DEF Meant
<1>6. CASE Len(tree.name[n]) # 2 /\ has # {}
  <2>1. PICK D : D = Max(has)
    OBVIOUS
  <2>2. scoped = {i \in scopes[D] : variables[i].name = nm}
    BY <1>3, <1>6, <2>1
  <2>3. Describes(scopes[D], f[D])
    BY <1>2, <1>6, <2>1 DEF Scoped
  <2>4. \A i \in scopes[D] : i \in 1 .. Len(variables) /\ variables[i].of = f[D].c
    BY <2>3 DEF Describes
  <2>5. Meant(n) = f[D].c
    BY <1>2, <1>6, <2>1 DEF Meant
  <2>6. scoped # {}
    BY <1>1, <1>2, <1>6, <2>1, <2>2 DEF Holding
  <2> QED
    BY <2>2, <2>4, <2>5, <2>6
<1> QED
  BY <1>4, <1>5, <1>6

\* Binding a name: the innermost frame that has it, else the free variable.
LEMMA ResolvePostNames ==
    ASSUME LayoutInv, NameInv, ResolvePost
    PROVE  NameInv'
<1>1. /\ stage = "resolve" /\ stage' = "resolve" /\ todo # <<>> /\ Top.do = "post"
      /\ tree' = tree /\ scopes' = scopes /\ Push(<<>>)
  BY DEF ResolvePost, Doing
<1>2. PICK n : n = Top.n
  OBVIOUS
<1>3. tree \in Trees /\ variables \in Seq(VarType) /\ n \in Nodes
  BY <1>1, <1>2, NamesTop
<1>4. PICK g : /\ Chain(todo, g) /\ Scoped(g[1]) /\ g[1] \in Seq(Frame)
               /\ Right(Top, g[1]) /\ g[2] = Effect(Top, g[1])
  BY <1>1, NamesTop
<1>5. PICK f : f = g[1]
  OBVIOUS
<1>6. Lists(n, f) /\ Op(n) # "comp" /\ g[2] = f /\ Scoped(f)
  BY <1>1, <1>2, <1>4, <1>5 DEF Right, Effect
<1>7. VarsConform /\ FreeOnce /\ DOMAIN binding = Nodes
  BY DEF NameInv
<1>8. \A m \in Nodes : Covers(Top, m) => m = n
  BY <1>1, <1>2 DEF Covers
<1>9. CASE Op(n) # "ident"
  <2>1. variables' = variables /\ binding' = binding
    BY <1>2, <1>9 DEF ResolvePost
  <2>2. Grows /\ VarsConform' /\ FreeOnce'
    BY <1>1, <1>7, <2>1, GrowsNot
  <2>3. Scoped(g[2])'
    BY <1>1, <1>6, <2>2, SameScoped
  <2>4. Settled(<<>>)
    BY <1>6, <1>8, <1>9 DEF Settled
  <2>5. \A m \in Nodes : Op(m) = "ident" => binding'[m] = binding[m] \/ NameOk(m)'
    BY <2>1
  <2>6. DOMAIN binding' = Nodes
    BY <1>7, <2>1
  <2> QED
    BY <1>1, <1>3, <1>4, <2>2, <2>3, <2>4, <2>5, <2>6, NamesPop
<1>10. CASE Op(n) = "ident"
  <2>1. PICK nm : nm = Last(tree.name[n])
    OBVIOUS
  <2>2. PICK scoped : scoped = IF Len(tree.name[n]) = 2 THEN {} ELSE InScopes(nm)
    OBVIOUS
  <2>3. PICK known : known = {i \in DOMAIN variables :
                                  variables[i].role = "free" /\ variables[i].name = nm}
    OBVIOUS
  <2>4. PICK found : found = IF scoped # {} THEN scoped ELSE known
    OBVIOUS
  <2>5. IF found # {}
          THEN binding' = [binding EXCEPT ![n] = Min(found)] /\ UNCHANGED variables
          ELSE /\ variables' = Append(variables, Variable(nm, "free", 0, FALSE))
               /\ binding' = [binding EXCEPT ![n] = Len(variables) + 1]
    BY <1>2, <1>10, <2>1, <2>2, <2>3, <2>4 DEF ResolvePost, PostVisitIdent
  <2>6. /\ scoped \subseteq 1 .. Len(variables)
        /\ scoped = {} => Meant(n) = 0
        /\ \A i \in scoped : variables[i].name = nm /\ variables[i].of = Meant(n)
    BY <1>3, <1>6, <1>10, <2>1, <2>2, Finding
  <2>7. Meant(n)' = Meant(n) /\ \A v : Conforms(v)' <=> Conforms(v)
    BY <1>1, SameNames
  <2>8. DOMAIN variables = 1 .. Len(variables) /\ Len(variables) \in Nat
    BY <1>3
  <2>9. /\ DOMAIN binding' = Nodes
        /\ \A m \in Nodes : m # n => binding'[m] = binding[m]
    BY <1>7, <2>5
  <2>10. Grows /\ VarsConform' /\ FreeOnce' /\ NameOk(n)'
    <3>1. CASE found # {}
      <4>1. PICK i : i = Min(found)
        OBVIOUS
      <4>2. found \subseteq 0 .. Len(variables)
        <5>1. known \subseteq 1 .. Len(variables)
          BY <2>3, <2>8
        <5>2. found \subseteq 1 .. Len(variables)
          BY <2>4, <2>6, <5>1
        <5> QED
          BY <2>8, <5>2
      <4>3. i \in found
        BY <2>8, <3>1, <4>1, <4>2, Extremes
      <4>4. binding'[n] = i /\ variables' = variables
        BY <1>3, <1>7, <2>5, <3>1, <4>1
      <4>5. i \in 1 .. Len(variables) /\ variables[i].name = nm /\ variables[i].of = Meant(n)
        <5>1. CASE scoped # {}
          BY <2>4, <2>6, <4>3, <5>1
        <5>2. CASE scoped = {}
          <6>1. i \in 1 .. Len(variables) /\ variables[i].role = "free" /\ variables[i].name = nm
            BY <2>3, <2>4, <2>8, <4>3, <5>2
          <6>2. variables[i].of = 0
            BY <1>7, <6>1 DEF VarsConform, Conforms
          <6> QED
            BY <2>6, <5>2, <6>1, <6>2
        <5> QED
          BY <5>1, <5>2
      <4>6. NameOk(n)'
        BY <1>1, <2>1, <2>7, <4>4, <4>5 DEF NameOk
      <4> QED
        BY <1>1, <1>7, <4>4, <4>6, GrowsNot
    <3>2. CASE found = {}
      <4>1. PICK l \in Nat : l = Len(variables)
        BY <2>8, Zenon
      <4>2. PICK v : v = Variable(nm, "free", 0, FALSE)
        OBVIOUS
      <4>3. v.name = nm /\ v.role = "free" /\ v.of = 0 /\ v.moves = FALSE
        BY <4>2 DEF Variable
      <4>4. PICK u : u = Append(variables, v)
        OBVIOUS
      <4>5. /\ Len(u) = l + 1 /\ u[l + 1] = v
            /\ \A i \in 1 .. l : u[i] = variables[i]
        BY <1>3, <4>1, <4>4
      <4>6. variables' = u /\ binding'[n] = l + 1
        BY <1>3, <1>7, <2>5, <3>2, <4>1, <4>2, <4>4
      <4>7. Grows
        BY <4>1, <4>5, <4>6 DEF Grows
      <4>8. \A i \in 1 .. (l + 1) : i \in 1 .. l \/ i = l + 1
        OBVIOUS
      <4>9. Conforms(v)
        BY <4>3 DEF Conforms
      <4>10. VarsConform'
        <5>1. \A i \in 1 .. (l + 1) : Conforms(u[i])
          BY <1>7, <4>1, <4>5, <4>8, <4>9 DEF VarsConform
        <5> QED
          BY <2>7, <4>5, <4>6, <5>1 DEF VarsConform
      <4>11. \A i \in 1 .. l : ~(variables[i].role = "free" /\ variables[i].name = nm)
        BY <2>3, <2>4, <2>8, <3>2, <4>1
      <4>12. FreeOnce'
        <5>1. ASSUME NEW i \in 1 .. (l + 1), NEW j \in 1 .. (l + 1),
                     u[i].role = "free", u[j].role = "free", u[i].name = u[j].name
              PROVE  i = j
          <6>1. CASE i \in 1 .. l /\ j \in 1 .. l
            BY <1>7, <4>1, <4>5, <5>1, <6>1 DEF FreeOnce
          <6>2. CASE i = l + 1 /\ j \in 1 .. l
            BY <4>3, <4>5, <4>11, <5>1, <6>2
          <6>3. CASE i \in 1 .. l /\ j = l + 1
            BY <4>3, <4>5, <4>11, <5>1, <6>3
          <6> QED
            BY <4>8, <6>1, <6>2, <6>3
        <5> QED
          BY <4>5, <4>6, <5>1 DEF FreeOnce
      <4>13. Meant(n) = 0
        BY <2>4, <2>6, <3>2
      <4>14. NameOk(n)'
        <5>1. l + 1 \in 1 .. (l + 1)
          OBVIOUS
        <5> QED
          BY <1>1, <2>1, <2>7, <4>3, <4>5, <4>6, <4>13, <5>1 DEF NameOk
      <4> QED
        BY <4>7, <4>10, <4>12, <4>14
    <3> QED
      BY <3>1, <3>2
  <2>11. Scoped(g[2])'
    BY <1>1, <1>6, <2>10, SameScoped
  <2>12. Settled(<<>>)
    BY <1>8, <1>10, <2>10 DEF Settled
  <2>13. \A m \in Nodes : Op(m) = "ident" => binding'[m] = binding[m] \/ NameOk(m)'
    BY <2>9, <2>10
  <2> QED
    BY <1>1, <1>3, <1>4, <2>9, <2>10, <2>11, <2>12, <2>13, NamesPop
<1> QED
  BY <1>9, <1>10

\* Once every node is resolved the names stay as they are.
LEMMA NamesStay ==
    ASSUME NameInv, stage = "resolve" => todo = <<>>, stage' # "resolve",
           tree' = tree, variables' = variables, binding' = binding
    PROVE  NameInv'
<1>1. Nodes' = Nodes /\ Comps' = Comps /\ \A n : Op(n)' = Op(n)
  BY SameTree
<1>2. Grows /\ (VarsConform' <=> VarsConform) /\ (FreeOnce' <=> FreeOnce)
  BY GrowsNot
<1>3. \A n : ~Waits(n)
  <2>1. todo = <<>> => 1 .. Len(todo) = {}
    OBVIOUS
  <2> QED
    BY <2>1 DEF Waits
<1>4. \A n \in Nodes : Op(n) = "ident" => NameOk(n)'
  <2>1. SUFFICES ASSUME NEW n \in Nodes, Op(n) = "ident" PROVE NameOk(n)'
    OBVIOUS
  <2>2. NameOk(n)
    BY <1>3, <2>1 DEF NameInv
  <2> QED
    BY <1>2, <2>2, Growing
<1>5. \A c \in Comps : Has(c)'
  <2>1. SUFFICES ASSUME NEW c \in Comps PROVE Has(c)'
    OBVIOUS
  <2>2. Has(c)
    BY <1>3, <2>1 DEF NameInv
  <2> QED
    BY <1>2, <2>2, Growing
<1>6. VarsConform' /\ FreeOnce' /\ DOMAIN binding' = Nodes'
  BY <1>1, <1>2 DEF NameInv
<1>7. \A n \in Nodes' : Op(n)' = "ident" /\ ~Waits(n)' => NameOk(n)'
  BY <1>1, <1>4
<1>8. \A c \in Comps' : ~Waits(c)' => Has(c)'
  BY <1>1, <1>5
<1> QED
  BY <1>6, <1>7, <1>8 DEF NameInv

\* A stuttering step.
LEMMA NamesIdle ==
    ASSUME NameInv, UNCHANGED vars
    PROVE  NameInv'
<1>1. /\ tree' = tree /\ variables' = variables /\ binding' = binding /\ scopes' = scopes
      /\ stage' = stage /\ todo' = todo
  BY DEF vars
<1>2. CASE stage # "resolve"
  BY <1>1, <1>2, NamesStay
<1>3. CASE stage = "resolve"
  <2>1. Nodes' = Nodes /\ Comps' = Comps /\ \A n : Op(n)' = Op(n)
    BY <1>1, SameTree
  <2>2. Grows /\ (VarsConform' <=> VarsConform) /\ (FreeOnce' <=> FreeOnce)
    BY <1>1, GrowsNot
  <2>3. PICK t : t = todo
    OBVIOUS
  <2>4. PICK g : Chain(t, g) /\ Scoped(g[1])
    BY <1>3, <2>3 DEF NameInv
  <2>5. Chain(t, g)' <=> Chain(t, g)
    BY <1>1, SameChain
  <2>6. Chain(todo, g)' <=> Chain(t, g)'
    BY <1>1, <2>3
  <2>7. PICK f : f = g[1]
    OBVIOUS
  <2>8. Scoped(f)'
    BY <1>1, <2>2, <2>4, <2>7, SameScoped
  <2>9. Ready'
    <3>1. \A i \in 1 .. Len(todo) : todo[i].do \in {"loop", "result"} => Has(todo[i].n)
      BY <1>3 DEF NameInv, Ready
    <3>2. \A i \in 1 .. Len(t) : t[i].do \in {"loop", "result"} => Has(t[i].n)'
      BY <1>1, <2>2, <2>3, <3>1, Growing
    <3> QED
      BY <1>1, <2>3, <3>2 DEF Ready
  <2>10. \A n : Waits(n)' <=> Waits(n)
    <3>1. \A it, n : Covers(it, n)' <=> Covers(it, n)
      BY <1>1, SameTree DEF Covers
    <3>2. \A n : Waits(n) <=> stage = "resolve" /\ \E i \in 1 .. Len(t) : Covers(t[i], n)
      BY <2>3 DEF Waits
    <3>3. \A n : Waits(n)' <=> stage' = "resolve" /\ \E i \in 1 .. Len(t) : Covers(t[i], n)'
      BY <1>1, <2>3 DEF Waits
    <3> QED
      BY <1>1, <3>1, <3>2, <3>3
  <2>11. ASSUME NEW n \in Nodes, Op(n) = "ident", ~Waits(n)' PROVE NameOk(n)'
    <3>1. NameOk(n)
      BY <2>10, <2>11 DEF NameInv
    <3> QED
      BY <1>1, <2>2, <3>1, Growing
  <2>12. ASSUME NEW c \in Comps, ~Waits(c)' PROVE Has(c)'
    <3>1. Has(c)
      BY <2>10, <2>12 DEF NameInv
    <3> QED
      BY <1>1, <2>2, <3>1, Growing
  <2>13. VarsConform' /\ FreeOnce' /\ DOMAIN binding' = Nodes'
    BY <1>1, <2>1, <2>2 DEF NameInv
  <2>14. \A n \in Nodes' : Op(n)' = "ident" /\ ~Waits(n)' => NameOk(n)'
    BY <2>1, <2>11
  <2>15. \A c \in Comps' : ~Waits(c)' => Has(c)'
    BY <2>1, <2>12
  <2>16. (\E h : Chain(todo, h) /\ Scoped(h[1]))'
    BY <2>4, <2>5, <2>6, <2>7, <2>8
  <2> QED
    BY <2>9, <2>13, <2>14, <2>15, <2>16 DEF NameInv
<1> QED
  BY <1>2, <1>3

\* The initial states.
LEMMA NamesInit ==
    ASSUME Init
    PROVE  NameInv
<1>1. tree \in Trees /\ stage = "resolve" /\ variables = <<>> /\ scopes = <<>>
      /\ binding = [n \in Nodes |-> 0] /\ todo = <<Visit(1)>>
  BY DEF Init
<1>2. 1 \in Nodes /\ 1 \in Nat /\ \A n \in Nodes : n \in Nat /\ n >= 1
  BY <1>1, NodeNat
<1>3. PICK a : a = Visit(1)
  OBVIOUS
<1>4. a \in ItemType /\ a.do = "pre" /\ a.n = 1
  BY <1>2, <1>3, VisitFields
<1>5. PICK t : t = <<a>>
  OBVIOUS
<1>6. todo = t /\ t \in Seq(ItemType) /\ Len(t) = 1 /\ t[1] = a
  BY <1>1, <1>3, <1>4, <1>5
<1>7. PICK f : f = <<>>
  OBVIOUS
<1>8. f \in Seq(Frame) /\ Len(f) = 0
  BY <1>7
<1>9. Around(1) = {}
  <2>1. ASSUME NEW c \in Around(1) PROVE FALSE
    BY <1>1, <1>2, AroundAbove
  <2> QED
    BY <2>1
<1>10. Lists(1, f)
  BY <1>8, <1>9 DEF Lists
<1>11. PICK g : g = <<f, f>>
  OBVIOUS
<1>12. g \in Seq(Seq(Frame)) /\ Len(g) = 2 /\ g[1] = f /\ g[2] = f
  BY <1>8, <1>11
<1>13. Right(a, f) /\ Effect(a, f) = f
  BY <1>4, <1>10 DEF Right, Effect
<1>14. Chain(t, g)
  <2>1. \A i \in 1 .. Len(t) : Right(t[i], g[i]) /\ g[i + 1] = Effect(t[i], g[i])
    BY <1>6, <1>12, <1>13
  <2> QED
    BY <1>6, <1>12, <2>1 DEF Chain
<1>15. Scoped(g[1])
  <2>1. scopes \in Seq(SUBSET Nat) /\ Len(scopes) = 0
    BY <1>1
  <2> QED
    BY <1>8, <1>12, <2>1 DEF Scoped
<1>16. Ready
  BY <1>4, <1>6 DEF Ready
<1>17. \A n \in Nodes : Waits(n)
  <2>1. \A n \in Nodes : n \in Below(1)
    BY <1>1, BelowRoot
  <2>2. 1 \in 1 .. Len(t)
    BY <1>6
  <2> QED
    BY <1>1, <1>4, <1>6, <2>1, <2>2 DEF Waits, Covers
<1>18. VarsConform /\ FreeOnce /\ DOMAIN binding = Nodes
  <2>1. 1 .. Len(variables) = {}
    BY <1>1
  <2> QED
    BY <1>1, <2>1 DEF VarsConform, FreeOnce
<1>19. \A c \in Comps : Waits(c)
  BY <1>17 DEF Comps
<1> QED
  BY <1>6, <1>14, <1>15, <1>16, <1>17, <1>18, <1>19 DEF NameInv

\* NameInv is inductive relative to LayoutInv.
LEMMA NamesStep ==
    ASSUME LayoutInv, NameInv, [Next]_vars
    PROVE  NameInv'
<1>1. CASE UNCHANGED vars
  BY <1>1, NamesIdle
<1>2. CASE ResolvePre \/ EnterScope \/ LeaveScope \/ ResolvePost
  BY <1>2, ResolvePreNames, EnterNames, LeaveNames, ResolvePostNames
<1>3. CASE StartLayout
  <2>1. /\ todo = <<>> /\ stage' # "resolve" /\ tree' = tree /\ variables' = variables
        /\ binding' = binding
    BY <1>3 DEF StartLayout, nameVars
  <2> QED
    BY <2>1, NamesStay
<1>4. CASE SelectPre \/ SelectPost \/ AggregatePre \/ AggregatePost \/ LocalsPre \/ LocalsPost
           \/ NextPass \/ Emit \/ RunStep \/ Return
  <2>1. stage # "resolve" /\ stage' # "resolve" /\ UNCHANGED nameVars
    <3>1. CASE SelectPre \/ SelectPost
      BY <3>1 DEF SelectPre, SelectPost, Doing, layoutVars
    <3>2. CASE AggregatePre \/ AggregatePost
      BY <3>2 DEF AggregatePre, AggregatePost, Doing, layoutVars
    <3>3. CASE LocalsPre \/ LocalsPost
      BY <3>3 DEF LocalsPre, LocalsPost, Doing, layoutVars
    <3>4. CASE NextPass \/ Emit \/ Return
      BY <3>4 DEF NextPass, Emit, Return, layoutVars
    <3>5. CASE RunStep
      BY <3>5, RunFrame DEF layoutVars
    <3> QED
      BY <1>4, <3>1, <3>2, <3>3, <3>4, <3>5
  <2>2. tree' = tree /\ variables' = variables /\ binding' = binding
    BY <2>1 DEF nameVars
  <2> QED
    BY <2>1, <2>2, NamesStay
<1> QED
  BY <1>1, <1>2, <1>3, <1>4 DEF Next, RunStep

\* The scopes are the lexical ones.
LEMMA NameInvariant == Spec => []NameInv
<1>1. Init => NameInv
  BY NamesInit
<1>2. LayoutInv /\ NameInv /\ [Next]_vars => NameInv'
  BY NamesStep
<1> QED
  BY <1>1, <1>2, LayoutInvariant, PTL DEF Spec

\* In every expression, however comprehensions are nested and names repeated,
\* a name means the variable of the innermost comprehension around it that
\* declares it, or the one free variable of that name: the stack of scopes
\* that ScopedIdentResolver pushes and pops is the lexical one at every ident.
THEOREM NamesAlwaysLexical == Spec => []NamesLexical
<1>1. LayoutInv /\ NameInv => NamesLexical
  <2>1. SUFFICES ASSUME LayoutInv, NameInv, stage \in {"emit", "crash"},
                        NEW n \in Nodes, Op(n) = "ident",
                        NEW v, v = variables[binding[n]],
                        NEW around, around = {c \in Comps : Shows(c, n, v.name)}
                 PROVE  /\ v.name = Last(tree.name[n])
                        /\ v.of = IF Len(tree.name[n]) = 2 \/ around = {} THEN 0 ELSE Max(around)
                        /\ v.of = 0 => \A i \in DOMAIN variables :
                                 variables[i].of = 0 /\ variables[i].name = v.name => i = binding[n]
    BY DEF NamesLexical
  <2>2. NameOk(n)
    BY <2>1 DEF NameInv, Waits
  <2>3. v.name = Last(tree.name[n]) /\ v.of = Meant(n) /\ binding[n] \in 1 .. Len(variables)
    BY <2>1, <2>2 DEF NameOk
  <2>4. around = Showing(n)
    BY <2>1, <2>3 DEF Showing
  <2>5. tree \in Trees /\ variables \in Seq(VarType)
    BY <2>1 DEF LayoutInv, Typed
  <2>6. \A i \in 1 .. Len(variables) : variables[i].of = 0 => variables[i].role = "free"
    <3>1. 0 \notin Comps
      BY <2>5, NodeNat DEF Comps
    <3> QED
      BY <2>1, <3>1 DEF NameInv, VarsConform, Conforms
  <2>7. FreeOnce /\ DOMAIN variables = 1 .. Len(variables)
    BY <2>1, <2>5 DEF NameInv
  <2> QED
    BY <2>1, <2>3, <2>4, <2>6, <2>7 DEF Meant, FreeOnce
<1> QED
  BY <1>1, LayoutInvariant, NameInvariant, PTL

=============================================================================
