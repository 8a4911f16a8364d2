--------------------------- MODULE LoweringProofs ---------------------------
(***************************************************************************)
(* What the lowering makes of the layout (expr_lower.cc,                   *)
(* expr_lower_comprehension.cc), for every expression: no operand is       *)
(* overwritten before it is consumed, and where the compiler gives up.     *)
(***************************************************************************)
EXTENDS SlotLayoutProofs

-----------------------------------------------------------------------------
(* Operands.  What an item of the running code may still write, which      *)
(* operands it consumes, and where an operand that waits can be.           *)

\* Node w stands for its cell or, if it is a comprehension, for those of its
\* variables.
Writes(it, w) ==
    \/ it.do = "eval" /\ w \in Below(it.n)
    \/ it.do = "fill" /\ \E k \in ToSet(it.ks) : w \in Below(k)
    \/ it.do = "branch" /\ (w = it.n \/ w \in Below(Kid(it.n, 2)) \/ w \in Below(Kid(it.n, 3)))
    \/ it.do \in {"prologue", "loop"} /\ (w = it.n \/ w \in Below(LoopBody(it.n)))
    \/ it.do = "prologue" /\ w \in Below(Result(it.n))
    \/ it.do \in {"kernel", "into", "copy"} /\ w = it.n

Consumers == {"kernel", "put", "same", "branch", "prologue", "into", "copy", "leave"}
Consumes(it, n) == it.do \in Consumers /\ n \in ToSet(it.ks)

\* Some item of t after i, and not after k, consumes n.
Taken(t, i, k, n) == \E j \in 1 .. Len(t) : i < j /\ j <= k /\ Consumes(t[j], n)

\* Node w runs between the code of m and that of its consumer: it follows m
\* below m's parent, or it is an operand of the aggregate m.
Meanwhile(w, m) == After(w, m) \/ (Op(m) \in Aggregates /\ w \in Below(m) /\ w # m)

\* The init of a comprehension, in the accumulator's cell.
Token(m) == \E c \in Comps : m = AccuInit(c) /\ where[m] = AccuSlot(c)

Proper(it) == /\ it.do = "fill" => Row(it.ks)
              /\ it.do = "kernel" => Op(it.n) \in Writing

\* What an item above k leaves is apart from what k writes or consumed before.
Guarded(t) ==
    \A i, k \in 1 .. Len(t) : i < k => \A n \in Makes(t[i]), w \in Nodes :
        Writes(t[k], w) => After(w, n) \/ Taken(t, i, k, n)
Sheltered(t) ==
    \A m \in pending : \A k \in 1 .. Len(t), w \in Nodes :
        Writes(t[k], w) => Token(m) \/ Meanwhile(w, m) \/ Taken(t, 0, k, m)

\* The node whose cell m can be found in: itself, or the result of a
\* comprehension in which its code ends.
Stands(m, r) == \/ r = m
                \/ Op(m) \in {"dyn", "comp"} /\ \E c \in Comps : c \in Below(m) /\ r = Result(c)
Spot(m, a) ==
    \/ a = ReadOnly
    \/ \E r \in Slotted : Stands(m, r) /\ Op(r) # "comp" /\ a = storage[r].at
    \/ /\ Op(m) \in {"ident", "dyn", "comp"}
       /\ \E o \in Below(m) : Op(o) = "ident" /\ a = SlotOf(binding[o])
Housed(m) == Token(m) \/ Spot(m, where[m])

Unwritten == \A i \in DOMAIN variables : variables[i].role = "free" => mem[SlotOf(i)] = 0
Intact == \A n \in pending : where[n] # ReadOnly => mem[where[n]] = val[n]

SafeRun ==
    /\ DOMAIN mem = Addresses /\ pending \subseteq Nodes
    /\ \A i \in 1 .. Len(todo) : Proper(todo[i])
    /\ Guarded(todo) /\ Sheltered(todo)
    /\ \A m \in Nodes : Housed(m)
    /\ Unwritten /\ Intact
SafeInv ==
    /\ DOMAIN val = Nodes
    /\ stage \notin {"run", "done"} => pending = {} /\ \A n \in Nodes : where[n] = ReadOnly
    /\ stage = "run" => SafeRun

-----------------------------------------------------------------------------
(* The cells of variables. *)

CellsTo(i) == {j \in 1 .. i : ~variables[j].moves}

\* The slots of variables are distinct and lie below the workspace.
LEMMA SlotsApart ==
    ASSUME variables \in Seq(VarType)
    PROVE  \A i \in 1 .. Len(variables) :
             /\ SlotOf(i) \in Nat /\ SlotOf(i) < SlotsBase
             /\ ~variables[i].moves => SlotOf(i) >= 1
             /\ \A j \in 1 .. Len(variables) : SlotOf(i) = SlotOf(j) /\ SlotOf(i) # ReadOnly => i = j
<1>1. PICK l \in Nat : l = Len(variables) /\ DOMAIN variables = 1 .. l
  OBVIOUS
<1>2. PICK C : C = [i \in 1 .. l |-> CellsTo(i)]
  OBVIOUS
<1>3. PICK A : A = {i \in DOMAIN variables : ~variables[i].moves}
  OBVIOUS
<1>4. IsFiniteSet(A)
  <2>1. A \subseteq 1 .. l
    BY <1>1, <1>3
  <2>2. IsFiniteSet(1 .. l)
    BY <1>1, FS_Interval
  <2> QED
    BY <2>1, <2>2, FS_Subset
<1>5. \A i \in 1 .. l : C[i] \subseteq A /\ IsFiniteSet(C[i])
  <2>1. \A i \in 1 .. l : C[i] \subseteq A
    BY <1>1, <1>2, <1>3 DEF CellsTo
  <2> QED
    BY <1>4, <2>1, FS_Subset
<1>6. PICK K : K = [i \in 1 .. l |-> Cardinality(C[i])]
  OBVIOUS
<1>7. \A i \in 1 .. l : K[i] \in Nat /\ K[i] <= Cardinality(A) /\ Cardinality(A) \in Nat
  <2>1. Cardinality(A) \in Nat
    BY <1>4, FS_CardinalityType
  <2>2. \A i \in 1 .. l : Cardinality(C[i]) \in Nat /\ Cardinality(C[i]) <= Cardinality(A)
    BY <1>4, <1>5, FS_Subset, FS_CardinalityType
  <2> QED
    BY <1>6, <2>1, <2>2
<1>8. SlotsBase = Cardinality(A) + 1
  BY <1>3 DEF SlotsBase
<1>9. \A i \in 1 .. l : SlotOf(i) = IF variables[i].moves THEN 0 ELSE K[i]
  BY <1>2, <1>6 DEF SlotOf, CellsTo, ReadOnly
<1>10. \A i \in 1 .. l : ~variables[i].moves => i \in C[i]
  BY <1>2 DEF CellsTo
<1>11. \A i \in 1 .. l : ~variables[i].moves => K[i] >= 1
  <2>1. TAKE i \in 1 .. l
  <2>2. HAVE ~variables[i].moves
  <2>3. Cardinality(C[i]) # 0
    BY <1>5, <1>10, <2>2, FS_EmptySet
  <2> QED
    BY <1>6, <1>7, <2>3
<1>12. ASSUME NEW i \in 1 .. l, NEW j \in 1 .. l, i < j, ~variables[i].moves, ~variables[j].moves
       PROVE  K[i] # K[j]
  <2>1. C[i] \subseteq C[j]
    BY <1>2, <1>12 DEF CellsTo
  <2>2. j \in C[j] /\ j \notin C[i]
    BY <1>2, <1>10, <1>12 DEF CellsTo
  <2>3. Cardinality(C[i]) # Cardinality(C[j])
    BY <1>5, <2>1, <2>2, FS_Subset
  <2> QED
    BY <1>6, <2>3
<1>13. ASSUME NEW i \in 1 .. l, NEW j \in 1 .. l, SlotOf(i) = SlotOf(j), SlotOf(i) # 0
       PROVE  i = j
  <2>1. ~variables[i].moves /\ ~variables[j].moves /\ K[i] = K[j]
    BY <1>9, <1>13
  <2> QED
    BY <1>12, <2>1
<1>14. \A i \in 1 .. l : /\ SlotOf(i) \in Nat /\ SlotOf(i) < SlotsBase
                         /\ ~variables[i].moves => SlotOf(i) >= 1
  BY <1>7, <1>8, <1>9, <1>11
<1> QED
  BY <1>1, <1>13, <1>14 DEF ReadOnly


-----------------------------------------------------------------------------
(* The stack of the running code: what replaces the top item.              *)

\* What items write, consume and leave depends on the tree only.
LEMMA SameRun ==
    ASSUME tree' = tree
    PROVE  /\ \A it, w : (Writes(it, w)' <=> Writes(it, w)) /\ (Consumes(it, w)' <=> Consumes(it, w))
           /\ \A it : Makes(it)' = Makes(it)
           /\ \A w, m : (Meanwhile(w, m)' <=> Meanwhile(w, m)) /\ (After(w, m)' <=> After(w, m))
           /\ \A it : Proper(it)' <=> Proper(it)
           /\ \A t, i, k, n : Taken(t, i, k, n)' <=> Taken(t, i, k, n)
<1>1. \A n, i : Kid(n, i)' = Kid(n, i)
  BY DEF Kid
<1>2. \A n : LoopBody(n)' = LoopBody(n) /\ Result(n)' = Result(n)
  BY <1>1 DEF LoopBody, Result
<1>3. /\ Nodes' = Nodes
      /\ \A n : Op(n)' = Op(n) /\ KidSet(n)' = KidSet(n) /\ Below(n)' = Below(n)
  BY SameTree
<1>4. \A it, w : (Writes(it, w)' <=> Writes(it, w)) /\ (Consumes(it, w)' <=> Consumes(it, w))
  BY <1>1, <1>2, <1>3 DEF Writes, Consumes
<1>5. \A w, m : (Meanwhile(w, m)' <=> Meanwhile(w, m)) /\ (After(w, m)' <=> After(w, m))
  BY <1>3 DEF Meanwhile, After
<1>6. \A it : Proper(it)' <=> Proper(it)
  BY <1>3, <1>5 DEF Proper, Row
<1>7. \A t, i, k, n : Taken(t, i, k, n)' <=> Taken(t, i, k, n)
  BY <1>4 DEF Taken
<1> QED
  BY <1>4, <1>5, <1>6, <1>7 DEF Makes

\* Within s, an item's result is consumed later in s unless it is in out, and
\* no item in between writes where it is.
Orderly(s, out) ==
    \A i \in 1 .. Len(s) : \A n \in Makes(s[i]) :
        /\ n \in out \/ Taken(s, i, Len(s), n)
        /\ \A k \in 1 .. Len(s), w \in Nodes :
             i < k /\ Writes(s[k], w) => After(w, n) \/ Taken(s, i, k, n)
Handover(s) ==
    /\ s \in Seq(ItemType) /\ Orderly(s, Makes(Top))
    /\ \A i \in 1 .. Len(s) : Proper(s[i]) /\ \A w \in Nodes : Writes(s[i], w) => Writes(Top, w)

\* The nodes that wait after a step.
Waiting(s) ==
    \A m \in pending' :
        \/ Token(m)'
        \/ m \in pending /\ ~Consumes(Top, m) /\ (Token(m) => Token(m)')
        \/ m \in Makes(Top) /\ \A i \in 1 .. Len(s), w \in Nodes : Writes(s[i], w) => Meanwhile(w, m)

\* What is consumed on a stack is consumed on the stack after a push.
LEMMA TakenOn ==
    ASSUME NEW T, NEW t \in Seq(T), t # <<>>, NEW s \in Seq(T), NEW u, u = Pushed(s, t), NEW n,
           NEW k \in 2 .. Len(t)
    PROVE  /\ \A i \in 1 .. Len(t) : Taken(t, i, k, n) =>
                 Taken(u, Len(s) + (i - 1), Len(s) + (k - 1), n) /\ Taken(u, Len(s), Len(s) + (k - 1), n)
           /\ \A i, j \in 1 .. Len(s) : Taken(s, i, j, n) =>
                 Taken(u, i, j, n) /\ Taken(u, i, Len(s) + (k - 1), n)
<1>1. PICK a \in Nat : a = Len(s)
  OBVIOUS
<1>2. PICK l \in Nat : l = Len(t)
  OBVIOUS
<1>3. /\ u \in Seq(T) /\ Len(u) = a + (l - 1)
      /\ \A i \in 1 .. a : i \in 1 .. Len(u) /\ u[i] = s[i]
      /\ \A i \in 2 .. l : a + (i - 1) \in 1 .. Len(u) /\ u[a + (i - 1)] = t[i]
  <2>1. PushFact(T, s, t, u)
    BY PushShape
  <2> QED
    BY <2>1, <1>1, <1>2 DEF PushFact
<1>4. ASSUME NEW i \in 1 .. l, Taken(t, i, k, n)
      PROVE  Taken(u, a + (i - 1), a + (k - 1), n) /\ Taken(u, a, a + (k - 1), n)
  <2>1. PICK j \in 1 .. l : i < j /\ j <= k /\ Consumes(t[j], n)
    BY <1>2, <1>4 DEF Taken
  <2>2. j \in 2 .. l /\ k \in 2 .. l
    BY <1>2, <2>1
  <2>3. PICK b \in 1 .. Len(u) : b = a + (j - 1)
    BY <1>3, <2>2
  <2>4. Consumes(u[b], n)
    BY <1>3, <2>1, <2>2, <2>3
  <2>5. a + (i - 1) < b /\ a < b /\ b <= a + (k - 1)
    BY <1>1, <1>2, <2>1, <2>2, <2>3
  <2> QED
    BY <2>4, <2>5 DEF Taken
<1>5. ASSUME NEW i \in 1 .. a, NEW j \in 1 .. a, Taken(s, i, j, n)
      PROVE  Taken(u, i, j, n) /\ Taken(u, i, a + (k - 1), n)
  <2>1. PICK b \in 1 .. a : i < b /\ b <= j /\ Consumes(s[b], n)
    BY <1>1, <1>5 DEF Taken
  <2>2. b \in 1 .. Len(u) /\ Consumes(u[b], n)
    BY <1>3, <2>1
  <2>3. b <= a + (k - 1)
    BY <1>1, <1>2, <2>1
  <2> QED
    BY <2>1, <2>2, <2>3 DEF Taken
<1> QED
  BY <1>1, <1>2, <1>4, <1>5

\* Replacing the top item as Handover asks keeps Guarded.
LEMMA GuardedOn ==
    ASSUME tree \in Trees, todo \in Seq(ItemType), todo # <<>>, Guarded(todo),
           NEW s, Handover(s), NEW u, u = Pushed(s, todo)
    PROVE  Guarded(u)
<1>1. PICK t : t = todo
  OBVIOUS
<1>2. PICK a \in Nat : a = Len(s)
  BY DEF Handover
<1>3. PICK l \in Nat : l = Len(t)
  BY <1>1
<1>4. t \in Seq(ItemType) /\ t # <<>> /\ s \in Seq(ItemType) /\ u = Pushed(s, t) /\ Guarded(t) /\ 1 \in 1 .. l
  BY <1>1, <1>3 DEF Handover
<1>5. /\ u \in Seq(ItemType) /\ Len(u) = a + (l - 1)
      /\ \A i \in 1 .. a : i \in 1 .. Len(u) /\ u[i] = s[i]
      /\ \A i \in 2 .. l : a + (i - 1) \in 1 .. Len(u) /\ u[a + (i - 1)] = t[i]
      /\ \A i \in 1 .. Len(u) : i \in 1 .. a \/ \E j \in 2 .. l : i = a + (j - 1)
  <2>1. PushFact(ItemType, s, t, u)
    BY <1>4, PushShape
  <2> QED
    BY <2>1, <1>2, <1>3 DEF PushFact
<1>6. SUFFICES ASSUME NEW i \in 1 .. Len(u), NEW k \in 1 .. Len(u), i < k,
                      NEW n \in Makes(u[i]), NEW w \in Nodes, Writes(u[k], w)
               PROVE  After(w, n) \/ Taken(u, i, k, n)
  BY DEF Guarded
<1>7. i \in Nat /\ k \in Nat
  BY <1>5
<1>8. CASE k \in 1 .. a
  <2>1. i \in 1 .. a
    BY <1>2, <1>6, <1>7, <1>8
  <2>2. n \in Makes(s[i]) /\ Writes(s[k], w)
    BY <1>5, <1>6, <1>8, <2>1
  <2>3. After(w, n) \/ Taken(s, i, k, n)
    BY <1>2, <1>6, <1>8, <2>1, <2>2 DEF Handover, Orderly
  <2>4. ASSUME Taken(s, i, k, n) PROVE Taken(u, i, k, n)
    <3>1. PICK j \in 1 .. a : i < j /\ j <= k /\ Consumes(s[j], n)
      BY <1>2, <2>4 DEF Taken
    <3> QED
      BY <1>5, <3>1 DEF Taken
  <2> QED
    BY <2>3, <2>4
<1>9. CASE \E j \in 2 .. l : k = a + (j - 1)
  <2>1. PICK j \in 2 .. l : k = a + (j - 1)
    BY <1>9
  <2>2. Writes(t[j], w)
    <3>1. u[a + (j - 1)] = t[j]
      BY <1>5
    <3> QED
      BY <1>6, <2>1, <3>1
  <2>3. /\ \A b \in 1 .. l : Taken(t, b, j, n) =>
               Taken(u, a + (b - 1), a + (j - 1), n) /\ Taken(u, a, a + (j - 1), n)
        /\ \A b, c \in 1 .. a : Taken(s, b, c, n) => Taken(u, b, a + (j - 1), n)
    BY <1>2, <1>3, <1>4, TakenOn
  <2>4. CASE i \in 1 .. a
    <3>1. n \in Makes(s[i])
      BY <1>5, <1>6, <2>4
    <3>2. n \in Makes(t[1]) \/ Taken(s, i, a, n)
      BY <1>1, <1>2, <2>4, <3>1 DEF Handover, Orderly, Top
    <3>3. ASSUME n \in Makes(t[1]) PROVE After(w, n) \/ Taken(t, 1, j, n)
      <4>1. 1 < j /\ j \in 1 .. l
        BY <2>1
      <4> QED
        BY <1>3, <1>4, <2>2, <3>3, <4>1 DEF Guarded
    <3>4. ASSUME Taken(t, 1, j, n) PROVE Taken(u, i, k, n)
      <4>1. Taken(u, a, k, n)
        BY <1>4, <2>1, <2>3, <3>4
      <4>2. i <= a
        BY <2>4
      <4> QED
        BY <1>5, <1>7, <4>1, <4>2 DEF Taken
    <3>5. ASSUME Taken(s, i, a, n) PROVE Taken(u, i, k, n)
      <4>1. a \in 1 .. a
        BY <2>4
      <4> QED
        BY <2>1, <2>3, <2>4, <3>5, <4>1
    <3> QED
      BY <3>2, <3>3, <3>4, <3>5
  <2>5. CASE \E b \in 2 .. l : i = a + (b - 1)
    <3>1. PICK b \in 2 .. l : i = a + (b - 1)
      BY <2>5
    <3>2. u[a + (b - 1)] = t[b]
      BY <1>5
    <3>3. n \in Makes(t[b])
      BY <1>6, <3>1, <3>2
    <3>4. b < j /\ b \in 1 .. l /\ j \in 1 .. l
      BY <1>6, <2>1, <3>1
    <3>5. After(w, n) \/ Taken(t, b, j, n)
      BY <1>3, <1>4, <2>2, <3>3, <3>4 DEF Guarded
    <3> QED
      BY <2>1, <2>3, <3>1, <3>4, <3>5
  <2> QED
    BY <1>5, <2>4, <2>5
<1> QED
  BY <1>5, <1>8, <1>9

\* With Waiting it keeps Sheltered too.
LEMMA ShelteredOn ==
    ASSUME tree \in Trees, tree' = tree, todo \in Seq(ItemType), todo # <<>>, Guarded(todo),
           Sheltered(todo), NEW s, Handover(s), Waiting(s), NEW u, u = Pushed(s, todo)
    PROVE  Sheltered(u)'
<1>1. PICK t : t = todo
  OBVIOUS
<1>2. PICK a \in Nat : a = Len(s)
  BY DEF Handover
<1>3. PICK l \in Nat : l = Len(t)
  BY <1>1
<1>4. /\ t \in Seq(ItemType) /\ t # <<>> /\ s \in Seq(ItemType) /\ u = Pushed(s, t)
      /\ Guarded(t) /\ Sheltered(t) /\ 1 \in 1 .. l /\ Top = t[1]
  BY <1>1, <1>3 DEF Handover, Top
<1>5. /\ u \in Seq(ItemType) /\ Len(u) = a + (l - 1)
      /\ \A i \in 1 .. a : i \in 1 .. Len(u) /\ u[i] = s[i]
      /\ \A i \in 2 .. l : a + (i - 1) \in 1 .. Len(u) /\ u[a + (i - 1)] = t[i]
      /\ \A i \in 1 .. Len(u) : i \in 1 .. a \/ \E j \in 2 .. l : i = a + (j - 1)
  <2>1. PushFact(ItemType, s, t, u)
    BY <1>4, PushShape
  <2> QED
    BY <2>1, <1>2, <1>3 DEF PushFact
<1>6. ASSUME NEW m \in pending', NEW k \in 1 .. Len(u), NEW w \in Nodes, Writes(u[k], w)
      PROVE  Token(m)' \/ Meanwhile(w, m) \/ Taken(u, 0, k, m)
  <2>1. CASE k \in 1 .. a
    <3>1. Writes(s[k], w)
      BY <1>5, <1>6, <2>1
    <3>2. Writes(Top, w)
      BY <1>2, <2>1, <3>1 DEF Handover
    <3>3. ASSUME m \in pending, ~Consumes(Top, m) PROVE Token(m) \/ Meanwhile(w, m)
      <4>1. Token(m) \/ Meanwhile(w, m) \/ Taken(t, 0, 1, m)
        BY <1>3, <1>4, <3>2, <3>3 DEF Sheltered
      <4>2. ~Taken(t, 0, 1, m)
        <5>1. ASSUME NEW j \in 1 .. l, 0 < j, j <= 1, Consumes(t[j], m) PROVE FALSE
          <6>1. j = 1
            BY <5>1
          <6> QED
            BY <1>4, <3>3, <5>1, <6>1
        <5> QED
          BY <1>3, <5>1 DEF Taken
      <4> QED
        BY <4>1, <4>2
    <3>4. CASE m \in pending /\ ~Consumes(Top, m) /\ (Token(m) => Token(m)')
      BY <3>3, <3>4
    <3>5. CASE \A i \in 1 .. Len(s), x \in Nodes : Writes(s[i], x) => Meanwhile(x, m)
      BY <1>2, <2>1, <3>1, <3>5
    <3> QED
      BY <3>4, <3>5 DEF Waiting
  <2>2. CASE \E j \in 2 .. l : k = a + (j - 1)
    <3>1. PICK j \in 2 .. l : k = a + (j - 1)
      BY <2>2
    <3>2. Writes(t[j], w) /\ j \in 1 .. l
      <4>1. u[a + (j - 1)] = t[j]
        BY <1>5
      <4>2. j \in 1 .. l
        BY <3>1
      <4> QED
        BY <1>6, <3>1, <4>1, <4>2
    <3>3. Taken(t, 1, j, m) => Taken(u, 0, k, m)
      <4>1. Taken(t, 1, j, m) => Taken(u, a, a + (j - 1), m)
        BY <1>2, <1>3, <1>4, TakenOn
      <4>2. \A b \in 1 .. Len(u) : a < b => 0 < b
        BY <1>5
      <4> QED
        BY <3>1, <4>1, <4>2 DEF Taken
    <3>4. CASE m \in pending /\ ~Consumes(Top, m) /\ (Token(m) => Token(m)')
      <4>1. Token(m) \/ Meanwhile(w, m) \/ Taken(t, 0, j, m)
        BY <1>3, <1>4, <3>2, <3>4 DEF Sheltered
      <4>2. ASSUME Taken(t, 0, j, m) PROVE Taken(t, 1, j, m)
        <5>1. PICK b \in 1 .. l : 0 < b /\ b <= j /\ Consumes(t[b], m)
          BY <1>3, <4>2 DEF Taken
        <5>2. b # 1
          BY <1>4, <3>4, <5>1
        <5>3. 1 < b
          BY <5>1, <5>2
        <5> QED
          BY <1>3, <5>1, <5>3 DEF Taken
      <4> QED
        BY <3>3, <3>4, <4>1, <4>2
    <3>5. CASE m \in Makes(Top)
      <4>1. 1 < j
        BY <3>1
      <4>2. After(w, m) \/ Taken(t, 1, j, m)
        BY <1>3, <1>4, <3>2, <3>5, <4>1 DEF Guarded
      <4> QED
        BY <3>3, <4>2 DEF Meanwhile
    <3> QED
      BY <3>4, <3>5 DEF Waiting
  <2> QED
    BY <1>5, <2>1, <2>2
<1>7. Nodes' = Nodes
  BY SameTree
<1>8. /\ \A it, w : Writes(it, w)' <=> Writes(it, w)
      /\ \A w, m : Meanwhile(w, m)' <=> Meanwhile(w, m)
      /\ \A k, m : Taken(u, 0, k, m)' <=> Taken(u, 0, k, m)
  BY SameRun
<1> QED
  BY <1>6, <1>7, <1>8 DEF Sheltered

\* A step hands over its stack.
LEMMA HandingOver ==
    ASSUME tree \in Trees, tree' = tree, todo \in Seq(ItemType), todo # <<>>, Guarded(todo),
           Sheltered(todo), \A i \in 1 .. Len(todo) : Proper(todo[i]),
           NEW s, Handover(s), Waiting(s), Push(s)
    PROVE  Guarded(todo)' /\ Sheltered(todo)' /\ (\A i \in 1 .. Len(todo) : Proper(todo[i]))'
<1>1. PICK u : u = Pushed(s, todo)
  OBVIOUS
<1>2. todo' = u
  BY <1>1 DEF Push, Pushed
<1>3. Guarded(u)
  BY <1>1, GuardedOn
<1>4. Guarded(u)'
  <2>1. Nodes' = Nodes
    BY SameTree
  <2> QED
    BY <1>3, <2>1, SameRun DEF Guarded
<1>5. Sheltered(u)'
  BY <1>1, ShelteredOn
<1>6. \A i \in 1 .. Len(u) : Proper(u[i])
  <2>1. PICK t \in Seq(ItemType) : t = todo
    OBVIOUS
  <2>2. PushFact(ItemType, s, t, u)
    BY <1>1, <2>1, PushShape DEF Handover
  <2>3. \A i \in 1 .. Len(s) : Proper(s[i])
    BY DEF Handover
  <2>4. \A i \in 2 .. Len(t) : Proper(t[i])
    BY <2>1
  <2> QED
    BY <2>2, <2>3, <2>4 DEF PushFact
<1>7. \A i \in 1 .. Len(u) : Proper(u[i])'
  BY <1>6, SameRun
<1> QED
  BY <1>2, <1>4, <1>5, <1>7


-----------------------------------------------------------------------------
(* The stacks of operands: evaluate a row, then consume it. *)

\* The code of a node leaves that node and writes below it.
LEMMA EvalItem ==
    ASSUME NEW m \in Nodes
    PROVE  /\ Eval(m) \in ItemType /\ Eval(m).do = "eval" /\ Eval(m).n = m
           /\ Makes(Eval(m)) = {m} /\ Proper(Eval(m))
           /\ \A w : Writes(Eval(m), w) <=> w \in Below(m)
<1>1. PICK e : e = << >>
  OBVIOUS
<1>2. e \in Seq(Nodes) /\ "eval" \in Dos /\ Eval(m) = Item("eval", m, e)
  BY <1>1 DEF Dos, Eval
<1>3. Eval(m) \in ItemType /\ Eval(m).do = "eval" /\ Eval(m).n = m
  BY <1>2, ItemFields
<1> QED
  BY <1>3 DEF Makes, Proper, Writes

\* A larger set of results is allowed more.
LEMMA OrderlyMore ==
    ASSUME NEW s, NEW a, NEW b, a \subseteq b, Orderly(s, a)
    PROVE  Orderly(s, b)
  BY DEF Orderly

\* One item is in order.
LEMMA OrderlyOne ==
    ASSUME NEW q \in ItemType, NEW s, s = <<q>>
    PROVE  s \in Seq(ItemType) /\ Orderly(s, Makes(q)) /\ \A i \in 1 .. Len(s) : s[i] = q
<1>1. s \in Seq(ItemType) /\ Len(s) = 1 /\ s[1] = q
  BY OneItem
<1>2. \A i \in 1 .. Len(s) : i = 1
  BY <1>1
<1> QED
  BY <1>1, <1>2 DEF Orderly

\* So are two stacks in order, the first of which leaves nothing behind.
LEMMA OrderlyJoin ==
    ASSUME NEW a \in Seq(ItemType), Orderly(a, {}), NEW b \in Seq(ItemType), NEW out, Orderly(b, out),
           NEW s, s = a \o b
    PROVE  s \in Seq(ItemType) /\ Orderly(s, out)
<1>1. PICK x \in Nat : x = Len(a)
  OBVIOUS
<1>2. PICK y \in Nat : y = Len(b)
  OBVIOUS
<1>3. /\ s \in Seq(ItemType) /\ Len(s) = x + y
      /\ \A i \in 1 .. x : i \in 1 .. Len(s) /\ s[i] = a[i]
      /\ \A j \in 1 .. y : x + j \in 1 .. Len(s) /\ s[x + j] = b[j]
      /\ \A i \in 1 .. Len(s) : i \in 1 .. x \/ \E j \in 1 .. y : i = x + j
  <2>1. JoinFact(ItemType, a, b, s)
    BY JoinShape
  <2>2. Len(s) = x + y
    BY <1>1, <1>2
  <2> QED
    BY <2>1, <2>2, <1>1, <1>2 DEF JoinFact
<1>4. ASSUME NEW i \in 1 .. x, NEW n \in Makes(s[i])
      PROVE  /\ Taken(s, i, x, n)
             /\ \A k \in 1 .. Len(s), w \in Nodes :
                  i < k /\ Writes(s[k], w) => After(w, n) \/ Taken(s, i, k, n)
  <2>1. n \in Makes(a[i])
    BY <1>3, <1>4
  <2>2. \A k \in 1 .. x : Taken(a, i, k, n) => Taken(s, i, k, n)
    BY <1>1, <1>3 DEF Taken
  <2>3. Taken(s, i, x, n)
    <3>1. Taken(a, i, x, n)
      BY <1>1, <1>4, <2>1 DEF Orderly
    <3>2. x \in 1 .. x
      BY <1>4
    <3> QED
      BY <2>2, <3>1, <3>2
  <2>4. ASSUME NEW k \in 1 .. Len(s), NEW w \in Nodes, i < k, Writes(s[k], w)
        PROVE  After(w, n) \/ Taken(s, i, k, n)
    <3>1. CASE k \in 1 .. x
      <4>1. Writes(a[k], w)
        BY <1>3, <2>4, <3>1
      <4>2. After(w, n) \/ Taken(a, i, k, n)
        BY <1>1, <1>4, <2>1, <2>4, <3>1, <4>1 DEF Orderly
      <4> QED
        BY <2>2, <3>1, <4>2
    <3>2. CASE \E j \in 1 .. y : k = x + j
      <4>1. x <= k
        BY <3>2
      <4>2. k \in Nat
        BY <1>3
      <4> QED
        BY <1>3, <2>3, <4>1, <4>2 DEF Taken
    <3> QED
      BY <1>3, <3>1, <3>2
  <2> QED
    BY <2>3, <2>4
<1>5. ASSUME NEW i \in 1 .. y, NEW n \in Makes(s[x + i])
      PROVE  /\ n \in out \/ Taken(s, x + i, Len(s), n)
             /\ \A k \in 1 .. Len(s), w \in Nodes :
                  x + i < k /\ Writes(s[k], w) => After(w, n) \/ Taken(s, x + i, k, n)
  <2>1. n \in Makes(b[i])
    <3>1. s[x + i] = b[i]
      BY <1>3
    <3> QED
      BY <1>5, <3>1
  <2>2. ASSUME NEW k \in 1 .. y, Taken(b, i, k, n) PROVE Taken(s, x + i, x + k, n)
    <3>1. PICK j \in 1 .. y : i < j /\ j <= k /\ Consumes(b[j], n)
      BY <1>2, <2>2 DEF Taken
    <3>2. x + j \in 1 .. Len(s) /\ s[x + j] = b[j] /\ x + i < x + j /\ x + j <= x + k
      BY <1>3, <3>1
    <3>3. Consumes(s[x + j], n)
      BY <3>1, <3>2
    <3> QED
      BY <3>2, <3>3 DEF Taken
  <2>3. n \in out \/ Taken(s, x + i, Len(s), n)
    <3>1. n \in out \/ Taken(b, i, y, n)
      BY <1>2, <1>5, <2>1 DEF Orderly
    <3>2. y \in 1 .. y
      BY <1>5
    <3> QED
      BY <1>3, <2>2, <3>1, <3>2
  <2>4. ASSUME NEW k \in 1 .. Len(s), NEW w \in Nodes, x + i < k, Writes(s[k], w)
        PROVE  After(w, n) \/ Taken(s, x + i, k, n)
    <3>1. k \notin 1 .. x
      BY <1>5, <2>4
    <3>2. PICK j \in 1 .. y : k = x + j
      BY <1>3, <3>1
    <3>3. i < j
      BY <2>4, <3>2
    <3>4. Writes(b[j], w)
      <4>1. s[x + j] = b[j]
        BY <1>3
      <4> QED
        BY <2>4, <3>2, <4>1
    <3>5. After(w, n) \/ Taken(b, i, j, n)
      BY <1>2, <1>5, <2>1, <3>3, <3>4 DEF Orderly
    <3> QED
      BY <2>2, <3>2, <3>5
  <2> QED
    BY <2>3, <2>4
<1>6. ASSUME NEW i \in 1 .. Len(s), NEW n \in Makes(s[i])
      PROVE  /\ n \in out \/ Taken(s, i, Len(s), n)
             /\ \A k \in 1 .. Len(s), w \in Nodes :
                  i < k /\ Writes(s[k], w) => After(w, n) \/ Taken(s, i, k, n)
  <2>1. CASE i \in 1 .. x
    <3>1. Taken(s, i, x, n) => Taken(s, i, Len(s), n)
      <4>1. \A j \in 1 .. Len(s) : j <= x => j <= Len(s)
        BY <1>3
      <4> QED
        BY <4>1 DEF Taken
    <3> QED
      BY <1>4, <1>6, <2>1, <3>1
  <2>2. CASE \E j \in 1 .. y : i = x + j
    BY <1>5, <1>6, <2>2
  <2> QED
    BY <1>3, <2>1, <2>2
<1> QED
  BY <1>3, <1>6 DEF Orderly

Evals(ks) == Each(Eval, ks)
BlockFact(ks, q, s) ==
    /\ s \in Seq(ItemType) /\ Orderly(s, Makes(q))
    /\ \A i \in 1 .. Len(s) : s[i] = q \/ \E k \in ToSet(ks) : s[i] = Eval(k)

\* The operands of a row and the item that consumes them are in order.
LEMMA Block ==
    ASSUME tree \in Trees, NEW ks \in Seq(Nodes), Row(ks), NEW q \in ItemType,
           q.do \in Consumers, ToSet(ks) \subseteq ToSet(q.ks), NEW s, s = Evals(ks) \o <<q>>
    PROVE  BlockFact(ks, q, s)
<1>1. PICK l \in Nat : l = Len(ks)
  OBVIOUS
<1>2. PICK e : e = Evals(ks)
  OBVIOUS
<1>3. \A i \in 1 .. l : ks[i] \in Nodes /\ ks[i] \in ToSet(ks)
  BY <1>1 DEF ToSet
<1>4. e \in Seq(ItemType) /\ Len(e) = l /\ \A i \in 1 .. l : e[i] = Eval(ks[i])
  <2>1. e = [i \in 1 .. l |-> Eval(ks[i])]
    BY <1>1, <1>2 DEF Evals, Each
  <2>2. \A i \in 1 .. l : Eval(ks[i]) \in ItemType
    BY <1>3, EvalItem
  <2> QED
    BY <2>1, <2>2
<1>5. /\ s \in Seq(ItemType) /\ Len(s) = l + 1 /\ s[l + 1] = q
      /\ \A i \in 1 .. l : s[i] = Eval(ks[i])
  <2>1. /\ e \o <<q>> \in Seq(ItemType) /\ Len(e \o <<q>>) = Len(e) + 1
        /\ \A i \in 1 .. Len(e) : (e \o <<q>>)[i] = e[i]
        /\ (e \o <<q>>)[Len(e) + 1] = q
    BY <1>4, ConcatOne
  <2>2. s = e \o <<q>>
    BY <1>2
  <2> QED
    BY <1>4, <2>1, <2>2
<1>6. \A i \in 1 .. Len(s) : i \in 1 .. l \/ i = l + 1
  BY <1>5
<1>7. \A i \in 1 .. Len(s) : s[i] = q \/ \E k \in ToSet(ks) : s[i] = Eval(k)
  BY <1>3, <1>5, <1>6
<1>8. ASSUME NEW i \in 1 .. l, NEW n \in Makes(s[i])
      PROVE  /\ Taken(s, i, Len(s), n)
             /\ \A k \in 1 .. Len(s), w \in Nodes :
                  i < k /\ Writes(s[k], w) => After(w, n) \/ Taken(s, i, k, n)
  <2>1. n = ks[i]
    BY <1>3, <1>5, <1>8, EvalItem
  <2>2. Consumes(s[l + 1], n)
    BY <1>3, <1>5, <2>1 DEF Consumes
  <2>3. l + 1 \in 1 .. Len(s) /\ i < l + 1 /\ l + 1 <= Len(s)
    BY <1>5
  <2>4. Taken(s, i, Len(s), n)
    BY <2>2, <2>3 DEF Taken
  <2>5. ASSUME NEW k \in 1 .. Len(s), NEW w \in Nodes, i < k, Writes(s[k], w)
        PROVE  After(w, n) \/ Taken(s, i, k, n)
    <3>1. CASE k \in 1 .. l
      <4>1. w \in Below(ks[k])
        BY <1>3, <1>5, <2>5, <3>1, EvalItem
      <4> QED
        BY <1>1, <2>1, <2>5, <3>1, <4>1 DEF Row
    <3>2. CASE k = l + 1
      BY <1>5, <2>4, <3>2
    <3> QED
      BY <1>6, <3>1, <3>2
  <2> QED
    BY <2>4, <2>5
<1>9. ASSUME NEW n \in Makes(s[l + 1])
      PROVE  /\ n \in Makes(q)
             /\ \A k \in 1 .. Len(s) : ~(l + 1 < k)
  BY <1>5, <1>9
<1>10. Orderly(s, Makes(q))
  <2>1. SUFFICES ASSUME NEW i \in 1 .. Len(s), NEW n \in Makes(s[i])
                 PROVE  /\ n \in Makes(q) \/ Taken(s, i, Len(s), n)
                        /\ \A k \in 1 .. Len(s), w \in Nodes :
                             i < k /\ Writes(s[k], w) => After(w, n) \/ Taken(s, i, k, n)
    BY DEF Orderly
  <2>2. CASE i \in 1 .. l
    BY <1>8, <2>1, <2>2
  <2>3. CASE i = l + 1
    BY <1>9, <2>1, <2>3
  <2> QED
    BY <1>6, <2>2, <2>3
<1> QED
  BY <1>5, <1>7, <1>10 DEF BlockFact


\* Such a block can replace an item that may write what the block writes.
LEMMA Handing1 ==
    ASSUME tree \in Trees, NEW ks \in Seq(Nodes), Row(ks), NEW q \in ItemType,
           q.do \in Consumers, ToSet(ks) \subseteq ToSet(q.ks), Proper(q), Makes(q) \subseteq Makes(Top),
           \A w \in Nodes : Writes(q, w) => Writes(Top, w),
           \A k \in ToSet(ks) : \A w \in Below(k) : Writes(Top, w),
           NEW s, s = Evals(ks) \o <<q>>
    PROVE  Handover(s)
<1>1. /\ s \in Seq(ItemType) /\ Orderly(s, Makes(q))
      /\ \A i \in 1 .. Len(s) : s[i] = q \/ \E k \in ToSet(ks) : s[i] = Eval(k)
  <2>1. BlockFact(ks, q, s)
    BY Block
  <2> QED
    BY <2>1 DEF BlockFact
<1>2. Orderly(s, Makes(Top))
  BY <1>1, OrderlyMore
<1>3. \A k \in ToSet(ks) : k \in Nodes
  BY DEF ToSet
<1>4. ASSUME NEW i \in 1 .. Len(s)
      PROVE  Proper(s[i]) /\ \A w \in Nodes : Writes(s[i], w) => Writes(Top, w)
  <2>1. CASE s[i] = q
    BY <2>1
  <2>2. CASE \E k \in ToSet(ks) : s[i] = Eval(k)
    <3>1. PICK k \in ToSet(ks) : s[i] = Eval(k)
      BY <2>2
    <3>2. Proper(Eval(k)) /\ \A w : Writes(Eval(k), w) <=> w \in Below(k)
      BY <1>3, EvalItem
    <3> QED
      BY <3>1, <3>2
  <2> QED
    BY <1>1, <2>1, <2>2
<1> QED
  BY <1>1, <1>2, <1>4 DEF Handover

\* A block with one operand.
LEMMA OneEval ==
    ASSUME NEW a \in Nodes, NEW q \in ItemType, NEW ks, ks = <<a>>
    PROVE  /\ ks \in Seq(Nodes) /\ ToSet(ks) = {a} /\ Row(ks)
           /\ Evals(ks) \o <<q>> = <<Eval(a), q>>
<1>1. ks \in Seq(Nodes) /\ Len(ks) = 1 /\ ks[1] = a
  OBVIOUS
<1>2. \A i \in 1 .. Len(ks) : i = 1
  BY <1>1
<1>3. ToSet(ks) = {a} /\ Row(ks)
  BY <1>1, <1>2 DEF ToSet, Row
<1>4. PICK e : e = Evals(ks)
  OBVIOUS
<1>5. e = [i \in 1 .. 1 |-> Eval(ks[i])]
  BY <1>1, <1>4 DEF Evals, Each
<1>6. Eval(a) \in ItemType
  BY EvalItem
<1>7. e \in Seq(ItemType) /\ Len(e) = 1 /\ e[1] = Eval(a)
  BY <1>1, <1>5, <1>6
<1>8. e = <<Eval(a)>>
  BY <1>7
<1>9. <<Eval(a)>> \o <<q>> = <<Eval(a), q>>
  BY <1>6, JoinTwo
<1> QED
  BY <1>1, <1>3, <1>4, <1>8, <1>9

\* A block with two operands.
LEMMA TwoEvals ==
    ASSUME tree \in Trees, NEW n \in Nodes, NEW a \in KidSet(n), NEW b \in KidSet(n), a < b,
           NEW q \in ItemType, NEW ks, ks = <<a, b>>
    PROVE  /\ ks \in Seq(Nodes) /\ ToSet(ks) = {a, b} /\ Row(ks)
           /\ Evals(ks) \o <<q>> = <<Eval(a), Eval(b), q>>
<1>1. a \in Nodes /\ b \in Nodes
  BY KidIsLater
<1>2. ks \in Seq(Nodes) /\ Len(ks) = 2 /\ ks[1] = a /\ ks[2] = b
  BY <1>1
<1>3. \A i \in 1 .. Len(ks) : i = 1 \/ i = 2
  BY <1>2
<1>4. ToSet(ks) = {a, b}
  BY <1>2, <1>3 DEF ToSet
<1>5. Row(ks)
  <2>1. SUFFICES ASSUME NEW i \in 1 .. Len(ks), NEW j \in 1 .. Len(ks), i < j,
                        NEW w \in Below(ks[j])
                 PROVE  After(w, ks[i])
    BY DEF Row
  <2>2. i = 1 /\ j = 2
    BY <1>3, <2>1
  <2>3. \A v \in Below(b) : After(v, a)
    BY Follows
  <2> QED
    BY <1>2, <2>1, <2>2, <2>3
<1>6. PICK e : e = Evals(ks)
  OBVIOUS
<1>7. e = [i \in 1 .. 2 |-> Eval(ks[i])]
  BY <1>2, <1>6 DEF Evals, Each
<1>8. Eval(a) \in ItemType /\ Eval(b) \in ItemType
  BY <1>1, EvalItem
<1>9. e \in Seq(ItemType) /\ Len(e) = 2 /\ e[1] = Eval(a) /\ e[2] = Eval(b)
  BY <1>2, <1>7, <1>8
<1>10. PICK u : u = e \o <<q>>
  OBVIOUS
<1>11. u \in Seq(ItemType) /\ Len(u) = 3 /\ u[1] = Eval(a) /\ u[2] = Eval(b) /\ u[3] = q
  <2>0. e \in Seq(ItemType)
    BY <1>9
  <2>1. /\ e \o <<q>> \in Seq(ItemType) /\ Len(e \o <<q>>) = Len(e) + 1
        /\ \A i \in 1 .. Len(e) : (e \o <<q>>)[i] = e[i]
        /\ (e \o <<q>>)[Len(e) + 1] = q
    BY <2>0, ConcatOne
  <2> QED
    BY <1>9, <1>10, <2>1
<1>12. u = <<Eval(a), Eval(b), q>>
  BY <1>11
<1> QED
  BY <1>2, <1>4, <1>5, <1>6, <1>10, <1>12

-----------------------------------------------------------------------------
(* What each step of the code hands over. *)

Acting ==
    /\ tree \in Trees /\ UNCHANGED layoutVars /\ variables \in Seq(VarType)
    /\ stage = "run" /\ todo # <<>> /\ Nested(todo) /\ DOMAIN where = Nodes /\ SafeRun
Handed == \E s : Push(s) /\ Handover(s) /\ Waiting(s)

\* What the invariants say of the item on top.
LEMMA ActTop ==
    ASSUME Acting
    PROVE  /\ Top \in ItemType /\ Top.n \in Nodes /\ Top.ks \in Seq(Nodes) /\ Shaped(Top) /\ Proper(Top)
           /\ tree' = tree /\ tree \in Trees
<1>1. todo \in Seq(ItemType) /\ 1 \in 1 .. Len(todo)
  BY DEF Acting, Nested
<1>2. Top \in ItemType /\ Shaped(Top) /\ Proper(Top)
  BY <1>1 DEF Acting, Nested, Top, SafeRun
<1> QED
  BY <1>2 DEF ItemType, Acting, layoutVars, nameVars

\* The running code moves no variable.
LEMMA SameSlots ==
    ASSUME UNCHANGED layoutVars
    PROVE  /\ \A i : SlotOf(i)' = SlotOf(i)
           /\ \A c : AccuSlot(c)' = AccuSlot(c) /\ AccuInit(c)' = AccuInit(c)
           /\ Comps' = Comps /\ Addresses' = Addresses
<1>1. variables' = variables /\ peak' = peak /\ tree' = tree
  BY DEF layoutVars, nameVars
<1>2. \A i : SlotOf(i)' = SlotOf(i)
  BY <1>1 DEF SlotOf
<1>3. \A c, r : VarOf(c, r)' = VarOf(c, r)
  BY <1>1 DEF VarOf
<1>4. \A c : AccuSlot(c)' = AccuSlot(c)
  BY <1>1, <1>3 DEF AccuSlot, SlotOf, VarOf
<1>5. SlotsBase' = SlotsBase
  BY <1>1, SameBase
<1>6. \A c : AccuInit(c)' = AccuInit(c)
  BY <1>1 DEF AccuInit, Kid
<1> QED
  BY <1>1, <1>2, <1>4, <1>5, <1>6, SameTree DEF Addresses

\* An init in the accumulator's cell is still there if it was not moved.
LEMMA TokenKept ==
    ASSUME UNCHANGED layoutVars, NEW m, where'[m] = where[m], Token(m)
    PROVE  Token(m)'
<1>1. PICK c \in Comps : m = AccuInit(c) /\ where[m] = AccuSlot(c)
  BY DEF Token
<1>2. c \in Comps' /\ m = AccuInit(c)' /\ where'[m] = AccuSlot(c)'
  BY <1>1, SameSlots
<1> QED
  BY <1>2 DEF Token

\* A step that adds no operand.
LEMMA Fewer ==
    ASSUME Acting, where' = where, pending' \subseteq pending, \A m \in pending' : ~Consumes(Top, m)
    PROVE  \A s : Waiting(s)
<1>1. \A m : Token(m) => Token(m)'
  BY TokenKept DEF Acting
<1> QED
  BY <1>1 DEF Waiting

\* Pushing nothing is a handover.
LEMMA NothingOver ==
    ASSUME NEW e, e = <<>>
    PROVE  Handover(e) /\ Len(e) = 0
<1>1. e \in Seq(ItemType) /\ Len(e) = 0
  OBVIOUS
<1> QED
  BY <1>1 DEF Handover, Orderly

\* A step that yields the node of the top item and ends it.
LEMMA Ends ==
    ASSUME Acting, NEW a, NEW n, n = Top.n, where' = [where EXCEPT ![n] = a], n \in Makes(Top),
           NEW K, pending' = (pending \ K) \cup {n}, \A m : Consumes(Top, m) => m \in K,
           Push(<<>>)
    PROVE  Handed
<1>1. PICK e : e = <<>>
  OBVIOUS
<1>2. Handover(e) /\ Len(e) = 0 /\ Push(e)
  BY <1>1, NothingOver
<1>3. \A m \in Nodes : m # n => where'[m] = where[m]
  BY DEF Acting
<1>4. pending \subseteq Nodes
  BY DEF Acting, SafeRun
<1>5. \A m \in pending : m # n => (Token(m) => Token(m)')
  BY <1>3, <1>4, TokenKept DEF Acting
<1>6. ASSUME NEW m \in pending'
      PROVE  \/ m \in pending /\ ~Consumes(Top, m) /\ (Token(m) => Token(m)')
             \/ m \in Makes(Top) /\ \A i \in 1 .. Len(e), w \in Nodes : Writes(e[i], w) => Meanwhile(w, m)
  <2>1. CASE m = n
    BY <1>2, <2>1
  <2>2. CASE m # n
    BY <1>5, <1>6, <2>2
  <2> QED
    BY <2>1, <2>2
<1>7. Waiting(e)
  BY <1>6 DEF Waiting
<1> QED
  BY <1>2, <1>7 DEF Handed

\* An item that is done leaves its node, which waits from then on.
LEMMA LeafHands ==
    ASSUME Acting, EvalLeaf \/ Kernel \/ BranchPoison \/ Same \/ Leave
    PROVE  Handed
<1>1. PICK n : n = Top.n
  OBVIOUS
<1>2. Top.do \in {"eval", "kernel", "branch", "same", "leave"} /\ Push(<<>>)
  BY DEF EvalLeaf, Kernel, BranchPoison, Same, Leave, Running, Doing
<1>3. n \in Makes(Top)
  BY <1>1, <1>2 DEF Makes
<1>4. CASE EvalLeaf
  <2>1. Top.do = "eval"
    BY <1>4 DEF EvalLeaf, Running, Doing
  <2>2. \A m : ~Consumes(Top, m)
    BY <2>1 DEF Consumes, Consumers
  <2>3. /\ where' = [where EXCEPT ![n] = storage[Top.n].at]
        /\ pending' = (pending \ {}) \cup {n}
    BY <1>1, <1>4 DEF EvalLeaf, YieldInPlace
  <2> QED
    BY <1>1, <1>2, <1>3, <2>2, <2>3, Ends
<1>5. CASE Kernel \/ BranchPoison \/ Same \/ Leave
  <2>1. \E a : where' = [where EXCEPT ![n] = a]
    BY <1>1, <1>5 DEF Kernel, BranchPoison, Same, Leave, Yield, YieldInPlace
  <2>2. pending' = (pending \ ToSet(Top.ks)) \cup {n}
    BY <1>1, <1>5 DEF Kernel, BranchPoison, Same, Leave, Yield, YieldInPlace
  <2>3. \A m : Consumes(Top, m) => m \in ToSet(Top.ks)
    BY DEF Consumes
  <2> QED
    BY <1>1, <1>2, <1>3, <2>1, <2>2, <2>3, Ends
<1> QED
  BY <1>4, <1>5

\* An item that stores an operand, or ends a loop, leaves nothing.
LEMMA PopHands ==
    ASSUME Acting, PutOperands \/ LoopExit \/ (CopyStep /\ storage[Top.ks[1]] = None)
    PROVE  Handed
<1>1. PICK e : e = <<>>
  OBVIOUS
<1>2. Handover(e) /\ Push(e)
  BY <1>1, NothingOver DEF PutOperands, LoopExit, CopyStep
<1>3. where' = where /\ pending' \subseteq pending /\ \A m \in pending' : ~Consumes(Top, m)
  <2>1. CASE LoopExit
    <3>1. Top.do = "loop" /\ where' = where /\ pending' = pending
      BY <2>1 DEF LoopExit, Running, Doing, runVars
    <3> QED
      BY <3>1 DEF Consumes, Consumers
  <2>2. CASE PutOperands \/ (CopyStep /\ storage[Top.ks[1]] = None)
    <3>1. where' = where /\ pending' = pending \ ToSet(Top.ks)
      BY <2>2 DEF PutOperands, CopyStep
    <3> QED
      BY <3>1 DEF Consumes
  <2> QED
    BY <2>1, <2>2
<1>4. Waiting(e)
  BY <1>3, Fewer
<1> QED
  BY <1>2, <1>4 DEF Handed

\* The accumulator takes over from the operands.
LEMMA AccuWaits ==
    ASSUME Acting, NEW c \in Comps, NEW K, AccuIs(c, K), \A m : Consumes(Top, m) => m \in K
    PROVE  \A s : Waiting(s)
<1>1. PICK n : n = AccuInit(c)
  OBVIOUS
<1>2. n \in Nodes
  BY <1>1, CompKids DEF Comps, Acting
<1>3. where' = [where EXCEPT ![n] = AccuSlot(c)] /\ pending' = (pending \ K) \cup {n}
  BY <1>1 DEF AccuIs, Yield
<1>4. where'[n] = AccuSlot(c) /\ \A m \in Nodes : m # n => where'[m] = where[m]
  BY <1>2, <1>3 DEF Acting
<1>5. Token(n)'
  <2>1. UNCHANGED layoutVars
    BY DEF Acting
  <2>2. c \in Comps' /\ n = AccuInit(c)' /\ where'[n] = AccuSlot(c)'
    BY <1>1, <1>4, <2>1, SameSlots
  <2> QED
    BY <2>2 DEF Token
<1>6. pending \subseteq Nodes
  BY DEF Acting, SafeRun
<1>7. \A m \in pending : m # n => (Token(m) => Token(m)')
  BY <1>4, <1>6, TokenKept DEF Acting
<1>8. ASSUME NEW m \in pending'
      PROVE  Token(m)' \/ (m \in pending /\ ~Consumes(Top, m) /\ (Token(m) => Token(m)'))
  <2>1. CASE m = n
    BY <1>5, <2>1
  <2>2. CASE m # n
    BY <1>3, <1>7, <1>8, <2>2
  <2> QED
    BY <2>1, <2>2
<1> QED
  BY <1>8 DEF Waiting

\* A copy into the accumulator.
LEMMA AccuHands ==
    ASSUME Acting, IntoAccu \/ (CopyStep /\ storage[Top.ks[1]] # None)
    PROVE  Handed
<1>1. PICK e : e = <<>>
  OBVIOUS
<1>2. Handover(e) /\ Push(e)
  BY <1>1, NothingOver DEF IntoAccu, CopyStep
<1>3. PICK c : c = Top.n
  OBVIOUS
<1>4. c \in Comps
  BY <1>3, ActTop DEF IntoAccu, CopyStep, Running, Doing, Shaped, Comps
<1>5. AccuIs(c, ToSet(Top.ks))
  BY <1>3 DEF IntoAccu, CopyStep
<1>6. \A m : Consumes(Top, m) => m \in ToSet(Top.ks)
  BY DEF Consumes
<1>7. Waiting(e)
  BY <1>4, <1>5, <1>6, AccuWaits
<1> QED
  BY <1>2, <1>7 DEF Handed

\* A call hands over to its arguments and its kernel.
LEMMA CallHands ==
    ASSUME Acting, EvalCall
    PROVE  Handed
<1>1. PICK n \in Nodes : n = Top.n
  BY ActTop
<1>2. tree \in Trees /\ Top.do = "eval" /\ Op(n) \in Writing
  BY <1>1, ActTop DEF EvalCall, Running, Doing, Writing
<1>3. PICK ks : ks = Kids(n)
  OBVIOUS
<1>4. ks \in Seq(Nodes) /\ ToSet(ks) \subseteq Below(n) /\ Row(ks)
  BY <1>2, <1>3, KidsMember, KidsRow
<1>5. PICK q : q = Item("kernel", n, ks)
  OBVIOUS
<1>6. q \in ItemType /\ q.do = "kernel" /\ q.n = n /\ q.ks = ks
  <2>1. "kernel" \in Dos
    BY DEF Dos
  <2> QED
    BY <1>4, <1>5, <2>1, ItemFields
<1>7. PICK s : s = Evals(ks) \o <<q>>
  OBVIOUS
<1>8. Push(s)
  BY <1>1, <1>3, <1>5, <1>7 DEF EvalCall, Evals
<1>9. \A w : Writes(Top, w) <=> w \in Below(n)
  BY <1>1, <1>2 DEF Writes
<1>10. Handover(s)
  <2>1. q.do \in Consumers /\ Proper(q) /\ Makes(q) \subseteq Makes(Top)
    BY <1>1, <1>2, <1>6 DEF Consumers, Proper, Makes
  <2>2. \A w \in Nodes : Writes(q, w) => Writes(Top, w)
    BY <1>2, <1>6, <1>9, BelowSelf DEF Writes
  <2>3. \A k \in ToSet(ks) : \A w \in Below(k) : Writes(Top, w)
    BY <1>2, <1>4, <1>9, BelowTransitive
  <2> QED
    BY <1>2, <1>4, <1>6, <1>7, <2>1, <2>2, <2>3, Handing1
<1>11. where' = where /\ pending' = pending
  BY DEF EvalCall, runVars
<1>12. \A m : ~Consumes(Top, m)
  BY <1>2 DEF Consumes, Consumers
<1>13. Waiting(s)
  BY <1>11, <1>12, Fewer
<1> QED
  BY <1>8, <1>10, <1>13 DEF Handed

\* A literal hands over to its filling, and waits itself.
LEMMA AggregateHands ==
    ASSUME Acting, EvalAggregate
    PROVE  Handed
<1>1. PICK n \in Nodes : n = Top.n
  BY ActTop
<1>2. tree \in Trees /\ Top.do = "eval" /\ Op(n) \in Aggregates
  BY <1>1, ActTop DEF EvalAggregate, Running, Doing
<1>3. PICK ks : ks = Kids(n)
  OBVIOUS
<1>4. ks \in Seq(Nodes) /\ ToSet(ks) = KidSet(n) /\ Row(ks)
  BY <1>2, <1>3, KidsMember, KidsRow
<1>5. PICK q : q = Item("fill", n, ks)
  OBVIOUS
<1>6. q \in ItemType /\ q.do = "fill" /\ q.n = n /\ q.ks = ks
  <2>1. "fill" \in Dos
    BY DEF Dos
  <2> QED
    BY <1>4, <1>5, <2>1, ItemFields
<1>7. PICK s : s = <<q>>
  OBVIOUS
<1>8. Push(s)
  BY <1>1, <1>3, <1>5, <1>7 DEF EvalAggregate
<1>9. s \in Seq(ItemType) /\ Orderly(s, Makes(q)) /\ \A i \in 1 .. Len(s) : s[i] = q
  BY <1>6, <1>7, OrderlyOne
<1>10. Makes(q) = {}
  BY <1>6 DEF Makes
<1>11. Orderly(s, Makes(Top))
  BY <1>9, <1>10, OrderlyMore
<1>12. \A w : Writes(q, w) <=> \E k \in KidSet(n) : w \in Below(k)
  BY <1>4, <1>6 DEF Writes
<1>13. \A w : Writes(q, w) => w \in Below(n) /\ w # n /\ Writes(Top, w)
  BY <1>1, <1>2, <1>12, BelowKid DEF Writes
<1>14. Handover(s)
  BY <1>4, <1>6, <1>9, <1>11, <1>13 DEF Handover, Proper
<1>15. /\ where' = [where EXCEPT ![n] = storage[Top.n].at]
       /\ pending' = (pending \ {}) \cup {n}
  BY <1>1 DEF EvalAggregate, Yield
<1>16. \A m : ~Consumes(Top, m)
  BY <1>2 DEF Consumes, Consumers
<1>17. pending \subseteq Nodes /\ \A m \in Nodes : m # n => where'[m] = where[m]
  BY <1>15 DEF Acting, SafeRun
<1>18. \A m \in pending : m # n => (Token(m) => Token(m)')
  BY <1>17, TokenKept DEF Acting
<1>19. n \in Makes(Top) /\ \A w : Writes(q, w) => Meanwhile(w, n)
  BY <1>1, <1>2, <1>13 DEF Makes, Meanwhile
<1>20. Waiting(s)
  <2>1. SUFFICES ASSUME NEW m \in pending'
                 PROVE  \/ m \in pending /\ ~Consumes(Top, m) /\ (Token(m) => Token(m)')
                        \/ m \in Makes(Top) /\ \A i \in 1 .. Len(s), w \in Nodes :
                                                  Writes(s[i], w) => Meanwhile(w, m)
    BY DEF Waiting
  <2>2. CASE m = n
    BY <1>9, <1>19, <2>2
  <2>3. CASE m # n
    BY <1>15, <1>16, <1>18, <2>1, <2>3
  <2> QED
    BY <2>2, <2>3
<1> QED
  BY <1>8, <1>14, <1>20 DEF Handed

\* A step that leaves the operands alone.
LEMMA StillHands ==
    ASSUME Acting, where' = where, pending' = pending, Top.do \notin Consumers,
           NEW s, Push(s), Handover(s)
    PROVE  Handed
<1>1. \A m : ~Consumes(Top, m)
  BY DEF Consumes
<1>2. Waiting(s)
  BY <1>1, Fewer
<1> QED
  BY <1>2 DEF Handed

\* A piece of what replaces the top item.
Part(s, out) ==
    /\ s \in Seq(ItemType) /\ Orderly(s, out)
    /\ \A i \in 1 .. Len(s) : Proper(s[i]) /\ \A w \in Nodes : Writes(s[i], w) => Writes(Top, w)

\* Parts of a handover: one item,
LEMMA PartOne ==
    ASSUME NEW q \in ItemType, Proper(q), \A w \in Nodes : Writes(q, w) => Writes(Top, w),
           NEW s, s = <<q>>
    PROVE  Part(s, Makes(q))
<1>1. s \in Seq(ItemType) /\ Orderly(s, Makes(q)) /\ \A i \in 1 .. Len(s) : s[i] = q
  BY OrderlyOne
<1> QED
  BY <1>1 DEF Part

\* two parts,
LEMMA PartJoin ==
    ASSUME NEW a, Part(a, {}), NEW out, NEW b, Part(b, out), NEW s, s = a \o b
    PROVE  Part(s, out)
<1>1. a \in Seq(ItemType) /\ b \in Seq(ItemType) /\ Orderly(a, {}) /\ Orderly(b, out)
  BY DEF Part
<1>2. s \in Seq(ItemType) /\ Orderly(s, out)
  BY <1>1, OrderlyJoin
<1>3. PICK x \in Nat : x = Len(a)
  BY <1>1
<1>4. PICK y \in Nat : y = Len(b)
  BY <1>1
<1>5. Len(s) = x + y /\ \A i \in 1 .. (x + y) : s[i] = IF i <= x THEN a[i] ELSE b[i - x]
  BY <1>1, <1>3, <1>4
<1>6. ASSUME NEW i \in 1 .. Len(s)
      PROVE  Proper(s[i]) /\ \A w \in Nodes : Writes(s[i], w) => Writes(Top, w)
  <2>1. CASE i <= x
    <3>1. i \in 1 .. Len(a) /\ s[i] = a[i]
      BY <1>3, <1>5, <2>1
    <3> QED
      BY <3>1 DEF Part
  <2>2. CASE ~(i <= x)
    <3>1. PICK j \in 1 .. y : j = i - x
      BY <1>3, <1>4, <1>5, <2>2
    <3>2. j \in 1 .. Len(b) /\ s[i] = b[j]
      BY <1>4, <1>5, <2>2, <3>1
    <3> QED
      BY <3>2 DEF Part
  <2> QED
    BY <2>1, <2>2
<1> QED
  BY <1>2, <1>6 DEF Part

\* a block of operands and their consumer,
LEMMA PartBlock ==
    ASSUME tree \in Trees, NEW ks \in Seq(Nodes), Row(ks), NEW q \in ItemType,
           q.do \in Consumers, ToSet(ks) \subseteq ToSet(q.ks), Proper(q),
           \A w \in Nodes : Writes(q, w) => Writes(Top, w),
           \A k \in ToSet(ks) : \A w \in Below(k) : Writes(Top, w),
           NEW s, s = Evals(ks) \o <<q>>
    PROVE  Part(s, Makes(q))
<1>1. /\ s \in Seq(ItemType) /\ Orderly(s, Makes(q))
      /\ \A i \in 1 .. Len(s) : s[i] = q \/ \E k \in ToSet(ks) : s[i] = Eval(k)
  <2>1. BlockFact(ks, q, s)
    BY Block
  <2> QED
    BY <2>1 DEF BlockFact
<1>2. \A k \in ToSet(ks) : k \in Nodes
  BY DEF ToSet
<1>3. ASSUME NEW i \in 1 .. Len(s)
      PROVE  Proper(s[i]) /\ \A w \in Nodes : Writes(s[i], w) => Writes(Top, w)
  <2>1. CASE s[i] = q
    BY <2>1
  <2>2. CASE \E k \in ToSet(ks) : s[i] = Eval(k)
    <3>1. PICK k \in ToSet(ks) : s[i] = Eval(k)
      BY <2>2
    <3>2. Proper(Eval(k)) /\ \A w : Writes(Eval(k), w) <=> w \in Below(k)
      BY <1>2, EvalItem
    <3> QED
      BY <3>1, <3>2
  <2> QED
    BY <1>1, <2>1, <2>2
<1> QED
  BY <1>1, <1>3 DEF Part

\* and the whole.
LEMMA Whole ==
    ASSUME NEW out, out \subseteq Makes(Top), NEW s, Part(s, out)
    PROVE  Handover(s)
<1>1. Orderly(s, Makes(Top))
  BY OrderlyMore DEF Part
<1> QED
  BY <1>1 DEF Part, Handover

\* The last of two items at the end of a stack.
LEMMA SplitEnd ==
    ASSUME NEW T, NEW e \in Seq(T), NEW p \in T, NEW f \in T
    PROVE  e \o <<p, f>> = (e \o <<p>>) \o <<f>>
<1>1. PICK u : u = <<p>>
  OBVIOUS
<1>2. PICK v : v = <<f>>
  OBVIOUS
<1>3. u \in Seq(T) /\ v \in Seq(T)
  BY <1>1, <1>2
<1>4. (e \o u) \o v = e \o (u \o v)
  BY <1>3, ConcatAssociative
<1>5. u \o v = <<p, f>>
  BY <1>1, <1>2, JoinTwo
<1> QED
  BY <1>1, <1>2, <1>4, <1>5

\* The code of a row is a sequence of items.
LEMMA EvalsType ==
    ASSUME NEW ks \in Seq(Nodes)
    PROVE  Evals(ks) \in Seq(ItemType)
<1>1. \A i \in 1 .. Len(ks) : Eval(ks[i]) \in ItemType
  BY EvalItem
<1> QED
  BY <1>1 DEF Evals, Each

\* One entry of a literal, then the rest.
LEMMA FillHands ==
    ASSUME Acting, Fill
    PROVE  Handed
<1>1. PICK n \in Nodes : n = Top.n
  BY ActTop
<1>2. tree \in Trees /\ Top.do = "fill" /\ where' = where /\ pending' = pending
  BY ActTop DEF Fill, Running, Doing, runVars
<1>3. PICK ks \in Seq(Nodes) : ks = Top.ks
  BY ActTop
<1>4. /\ ToSet(ks) \subseteq KidSet(n) /\ Row(ks) /\ (Op(n) = "map" => Even(Len(ks)))
      /\ \A w : Writes(Top, w) <=> \E k \in ToSet(ks) : w \in Below(k)
  BY <1>1, <1>2, <1>3, ActTop DEF Shaped, Proper, Writes
<1>5. Top.do \notin Consumers
  BY <1>2 DEF Consumers
<1>6. CASE ks = <<>>
  <2>1. PICK e : e = <<>>
    OBVIOUS
  <2>2. Handover(e) /\ Push(e)
    BY <1>3, <1>6, <2>1, NothingOver DEF Fill
  <2> QED
    BY <1>2, <1>5, <2>2, StillHands
<1>7. CASE ks # <<>>
  <2>1. PICK w \in {1, 2} : w = IF Op(Top.n) = "map" THEN 2 ELSE 1
    OBVIOUS
  <2>2. PICK now : now = SubSeq(ks, 1, w)
    OBVIOUS
  <2>3. PICK rest : rest = SubSeq(ks, w + 1, Len(ks))
    OBVIOUS
  <2>4. PICK p : p = Item("put", n, now)
    OBVIOUS
  <2>5. PICK f : f = Item("fill", n, rest)
    OBVIOUS
  <2>6. Push(Evals(now) \o <<p, f>>)
    BY <1>1, <1>3, <1>7, <2>1, <2>2, <2>3, <2>4, <2>5 DEF Fill, Evals
  <2>7. PICK l \in Nat : l = Len(ks)
    OBVIOUS
  <2>8. w <= l /\ w \in Nat
    <3>1. l # 0
      BY <1>7, <2>7
    <3>2. Op(n) = "map" => Even(l) /\ w = 2
      BY <1>1, <1>4, <2>1, <2>7
    <3>3. Op(n) # "map" => w = 1
      BY <1>1, <2>1
    <3>4. Even(l) => l >= 2
      BY <3>1, EvenLess
    <3> QED
      BY <3>1, <3>2, <3>3, <3>4
  <2>9. now \in Seq(Nodes) /\ Len(now) = w /\ \A i \in 1 .. w : now[i] = ks[0 + i]
    BY <2>2, <2>7, <2>8
  <2>10. rest \in Seq(Nodes) /\ Len(rest) = l - w /\ \A i \in 1 .. (l - w) : rest[i] = ks[w + i]
    BY <2>3, <2>7, <2>8
  <2>11. Row(now) /\ ToSet(now) \subseteq ToSet(ks)
    <3>1. 0 \in Nat /\ 0 + Len(now) <= Len(ks) /\ \A i \in 1 .. Len(now) : now[i] = ks[0 + i]
      BY <2>7, <2>8, <2>9
    <3> QED
      BY <1>4, <2>9, <3>1, RowPart
  <2>12. Row(rest) /\ ToSet(rest) \subseteq ToSet(ks)
    <3>1. w + Len(rest) <= Len(ks) /\ \A i \in 1 .. Len(rest) : rest[i] = ks[w + i]
      BY <2>7, <2>8, <2>10
    <3> QED
      BY <1>4, <2>8, <2>10, <3>1, RowPart
  <2>13. "put" \in Dos /\ "fill" \in Dos
    BY DEF Dos
  <2>14. p \in ItemType /\ p.do = "put" /\ p.n = n /\ p.ks = now
    BY <2>4, <2>9, <2>13, ItemFields
  <2>15. f \in ItemType /\ f.do = "fill" /\ f.n = n /\ f.ks = rest
    BY <2>5, <2>10, <2>13, ItemFields
  <2>16. /\ p.do \in Consumers /\ Proper(p) /\ Makes(p) = {} /\ \A w1 \in Nodes : ~Writes(p, w1)
         /\ ToSet(now) \subseteq ToSet(p.ks)
    BY <2>14 DEF Consumers, Proper, Makes, Writes
  <2>17. Proper(f) /\ Makes(f) = {} /\ \A w1 \in Nodes : Writes(f, w1) => Writes(Top, w1)
    BY <1>4, <2>12, <2>15 DEF Proper, Makes, Writes
  <2>18. PICK a : a = Evals(now) \o <<p>>
    OBVIOUS
  <2>19. Part(a, {})
    <3>1. \A k \in ToSet(now) : \A w1 \in Below(k) : Writes(Top, w1)
      BY <1>4, <2>11
    <3>2. Part(a, Makes(p))
      BY <1>2, <2>9, <2>11, <2>14, <2>16, <2>18, <3>1, PartBlock
    <3> QED
      BY <2>16, <3>2
  <2>20. PICK b : b = <<f>>
    OBVIOUS
  <2>21. Part(b, {})
    BY <2>15, <2>17, <2>20, PartOne
  <2>22. PICK s : s = a \o b
    OBVIOUS
  <2>23. Handover(s)
    <3>1. Part(s, {})
      BY <2>19, <2>21, <2>22, PartJoin
    <3> QED
      BY <3>1, Whole
  <2>24. Push(s)
    <3>1. PICK e \in Seq(ItemType) : e = Evals(now)
      BY <2>9, EvalsType
    <3>2. p \in ItemType /\ f \in ItemType
      BY <2>14, <2>15
    <3>3. e \o <<p, f>> = (e \o <<p>>) \o <<f>>
      BY <3>2, SplitEnd
    <3> QED
      BY <2>6, <2>18, <2>20, <2>22, <3>1, <3>3
  <2> QED
    BY <1>2, <1>5, <2>23, <2>24, StillHands
<1> QED
  BY <1>6, <1>7

\* An operand, then the item that uses it.
LEMMA OneHands ==
    ASSUME Acting, where' = where, pending' = pending, Top.do = "eval",
           NEW n \in Nodes, n = Top.n, NEW k \in KidSet(n), NEW do \in {"same", "branch"},
           NEW ks, ks = <<k>>, Push(<<Eval(k), Item(do, n, ks)>>),
           do = "branch" => Op(n) = "cond"
    PROVE  Handed
<1>1. tree \in Trees /\ k \in Nodes /\ k \in Below(n) /\ Below(k) \subseteq Below(n)
  BY ActTop, BelowKid, KidIsLater
<1>2. \A w : Writes(Top, w) <=> w \in Below(n)
  BY DEF Writes
<1>3. PICK q : q = Item(do, n, ks)
  OBVIOUS
<1>4. ks \in Seq(Nodes) /\ do \in Dos
  BY <1>1 DEF Dos
<1>5. q \in ItemType /\ q.do = do /\ q.n = n /\ q.ks = ks
  BY <1>3, <1>4, ItemFields
<1>6. /\ ToSet(ks) = {k} /\ Row(ks)
      /\ Evals(ks) \o <<q>> = <<Eval(k), q>>
  BY <1>1, <1>5, OneEval
<1>7. q.do \in Consumers /\ Proper(q) /\ Makes(q) \subseteq Makes(Top)
  BY <1>5 DEF Consumers, Proper, Makes
<1>8. \A w \in Nodes : Writes(q, w) => Writes(Top, w)
  <2>1. CASE do = "same"
    BY <1>5, <2>1 DEF Writes
  <2>2. CASE do = "branch"
    <3>1. Kid(n, 2) \in KidSet(n) /\ Kid(n, 3) \in KidSet(n)
      BY <1>1, <2>2, CondKid
    <3>2. Below(Kid(n, 2)) \subseteq Below(n) /\ Below(Kid(n, 3)) \subseteq Below(n) /\ n \in Below(n)
      BY <1>1, <3>1, BelowKid, BelowSelf
    <3>3. \A w : Writes(q, w) => w = n \/ w \in Below(Kid(n, 2)) \/ w \in Below(Kid(n, 3))
      BY <1>5, <2>2 DEF Writes
    <3> QED
      BY <1>2, <3>2, <3>3
  <2> QED
    BY <2>1, <2>2
<1>9. PICK s : s = Evals(ks) \o <<q>>
  OBVIOUS
<1>10. Handover(s)
  <2>1. \A j \in ToSet(ks) : \A w \in Below(j) : Writes(Top, w)
    BY <1>1, <1>2, <1>6
  <2>2. ToSet(ks) \subseteq ToSet(q.ks)
    BY <1>5
  <2> QED
    BY <1>1, <1>4, <1>5, <1>6, <1>7, <1>8, <1>9, <2>1, <2>2, Handing1
<1>11. Push(s)
  BY <1>3, <1>6, <1>9
<1>12. Top.do \notin Consumers
  BY DEF Consumers
<1> QED
  BY <1>10, <1>11, <1>12, StillHands

\* A dyn and a ternary hand over to their operand.
LEMMA DynCondHands ==
    ASSUME Acting, EvalDyn \/ EvalCond
    PROVE  Handed
<1>1. PICK n \in Nodes : n = Top.n
  BY ActTop
<1>2. tree \in Trees /\ where' = where /\ pending' = pending /\ Top.do = "eval"
  BY ActTop DEF EvalDyn, EvalCond, Running, Doing, runVars
<1>3. PICK k : k = Kid(n, 1)
  OBVIOUS
<1>4. PICK ks : ks = <<k>>
  OBVIOUS
<1>5. CASE EvalDyn
  <2>1. Op(n) = "dyn" /\ Push(<<Eval(k), Item("same", n, ks)>>)
    BY <1>1, <1>3, <1>4, <1>5 DEF EvalDyn
  <2>2. k \in KidSet(n)
    BY <1>2, <1>3, <2>1, OnlyKid
  <2> QED
    BY <1>1, <1>2, <1>4, <2>1, <2>2, OneHands
<1>6. CASE EvalCond
  <2>1. Op(n) = "cond" /\ Push(<<Eval(k), Item("branch", n, ks)>>)
    BY <1>1, <1>3, <1>4, <1>6 DEF EvalCond
  <2>2. k \in KidSet(n)
    BY <1>2, <1>3, <2>1, CondKid
  <2> QED
    BY <1>1, <1>2, <1>4, <2>1, <2>2, OneHands
<1> QED
  BY <1>5, <1>6

\* A ternary to the arm that runs.
LEMMA BranchHands ==
    ASSUME Acting, BranchArm
    PROVE  Handed
<1>1. PICK n \in Nodes : n = Top.n
  BY ActTop
<1>2. tree \in Trees /\ Top.do = "branch" /\ where' = where /\ pending' = pending \ ToSet(Top.ks)
  BY ActTop DEF BranchArm, Running, Doing
<1>3. Op(n) = "cond"
  BY <1>1, <1>2, ActTop DEF Shaped
<1>4. PICK i \in {2, 3} : Push(<<Eval(Kid(n, i)), Item("kernel", n, <<Kid(n, i)>>)>>)
  BY <1>1 DEF BranchArm
<1>5. PICK k : k = Kid(n, i)
  OBVIOUS
<1>6. k \in KidSet(n) /\ k \in Nodes
  BY <1>2, <1>3, <1>5, CondKid
<1>7. PICK ks : ks = <<k>>
  OBVIOUS
<1>8. PICK q : q = Item("kernel", n, ks)
  OBVIOUS
<1>9. ks \in Seq(Nodes) /\ "kernel" \in Dos
  BY <1>6, <1>7 DEF Dos
<1>10. q \in ItemType /\ q.do = "kernel" /\ q.n = n /\ q.ks = ks
  BY <1>8, <1>9, ItemFields
<1>11. ToSet(ks) = {k} /\ Row(ks) /\ Evals(ks) \o <<q>> = <<Eval(k), q>>
  BY <1>6, <1>7, <1>10, OneEval
<1>12. \A w : Writes(Top, w) <=> w = n \/ w \in Below(Kid(n, 2)) \/ w \in Below(Kid(n, 3))
  BY <1>1, <1>2 DEF Writes
<1>13. PICK s : s = Evals(ks) \o <<q>>
  OBVIOUS
<1>14. Handover(s)
  <2>1. q.do \in Consumers /\ Proper(q) /\ Makes(q) \subseteq Makes(Top)
    BY <1>1, <1>2, <1>3, <1>10 DEF Consumers, Proper, Makes, Writing, Calls
  <2>2. \A w \in Nodes : Writes(q, w) => Writes(Top, w)
    BY <1>10, <1>12 DEF Writes
  <2>3. \A j \in ToSet(ks) : \A w \in Below(j) : Writes(Top, w)
    BY <1>5, <1>11, <1>12
  <2>4. ToSet(ks) \subseteq ToSet(q.ks)
    BY <1>10
  <2> QED
    BY <1>2, <1>9, <1>10, <1>11, <1>13, <2>1, <2>2, <2>3, <2>4, Handing1
<1>15. Push(s)
  BY <1>4, <1>5, <1>7, <1>8, <1>11, <1>13
<1>16. Waiting(s)
  <2>1. pending' \subseteq pending /\ \A m \in pending' : ~Consumes(Top, m)
    BY <1>2 DEF Consumes
  <2> QED
    BY <1>2, <2>1, Fewer
<1> QED
  BY <1>14, <1>15, <1>16 DEF Handed

\* What the items of a comprehension may write.
LEMMA CompWrites ==
    ASSUME tree \in Trees, NEW c \in Comps, NEW it \in ItemType, it.n = c,
           it.do \in {"prologue", "loop", "into", "put", "copy", "leave"}
    PROVE  /\ \A w : Writes(it, w) => w \in Below(c)
           /\ Proper(it)
<1>1. /\ c \in Nodes /\ Below(LoopBody(c)) \subseteq Below(c) /\ Below(Result(c)) \subseteq Below(c)
      /\ c \in Below(c)
  BY CompKids, BelowKid, BelowSelf, CompNode
<1>2. Proper(it)
  BY DEF Proper
<1>3. \A w : Writes(it, w) => w = c \/ w \in Below(LoopBody(c)) \/ w \in Below(Result(c))
  BY DEF Writes
<1> QED
  BY <1>1, <1>2, <1>3

\* A comprehension to its range and its init.
LEMMA CompHands ==
    ASSUME Acting, EvalComp
    PROVE  Handed
<1>1. PICK c \in Nodes : c = Top.n
  BY ActTop
<1>2. /\ tree \in Trees /\ where' = where /\ pending' = pending /\ Top.do = "eval"
      /\ c \in Comps /\ Op(c) = "comp"
  BY <1>1, ActTop DEF EvalComp, Running, Doing, runVars, Comps
<1>3. PICK k : k = IterRange(c)
  OBVIOUS
<1>4. PICK m : m = AccuInit(c)
  OBVIOUS
<1>5. k \in KidSet(c) /\ m \in KidSet(c) /\ k < m
  <2>1. Kids(c) \in Seq(Nat) /\ Len(Kids(c)) = 5
    BY <1>2, Shape DEF Arity
  <2>2. Kids(c)[1] < Kids(c)[2]
    <3>1. PICK i \in 1 .. Len(Kids(c)) : i = 1
      BY <2>1
    <3>2. PICK j \in 1 .. Len(Kids(c)) : j = 2
      BY <2>1
    <3>3. i < j => Kids(c)[i] < Kids(c)[j]
      BY <1>2, KidsInOrder
    <3> QED
      BY <3>1, <3>2, <3>3
  <2>3. k = Kids(c)[1] /\ m = Kids(c)[2]
    BY <1>3, <1>4 DEF IterRange, AccuInit, Kid, Kids
  <2> QED
    BY <1>2, <1>3, <1>4, <2>2, <2>3, CompKids
<1>6. PICK ks : ks = <<k, m>>
  OBVIOUS
<1>7. PICK q : q = Item("prologue", c, ks)
  OBVIOUS
<1>8. ks \in Seq(Nodes) /\ "prologue" \in Dos
  <2>1. k \in Nodes /\ m \in Nodes
    BY <1>2, <1>5, KidIsLater
  <2> QED
    BY <1>6, <2>1 DEF Dos
<1>9. q \in ItemType /\ q.do = "prologue" /\ q.n = c /\ q.ks = ks
  BY <1>7, <1>8, ItemFields
<1>10. /\ ToSet(ks) = {k, m} /\ Row(ks)
       /\ Evals(ks) \o <<q>> = <<Eval(k), Eval(m), q>>
  BY <1>2, <1>5, <1>6, <1>9, TwoEvals
<1>11. \A w : Writes(Top, w) <=> w \in Below(c)
  BY <1>1, <1>2 DEF Writes
<1>12. PICK s : s = Evals(ks) \o <<q>>
  OBVIOUS
<1>13. Handover(s)
  <2>1. q.do \in Consumers /\ Makes(q) \subseteq Makes(Top)
    BY <1>1, <1>2, <1>9 DEF Consumers, Makes
  <2>2. Proper(q) /\ \A w \in Nodes : Writes(q, w) => Writes(Top, w)
    BY <1>2, <1>9, <1>11, CompWrites
  <2>3. \A j \in ToSet(ks) : \A w \in Below(j) : Writes(Top, w)
    BY <1>2, <1>5, <1>10, <1>11, BelowKid
  <2>4. ToSet(ks) \subseteq ToSet(q.ks)
    BY <1>9
  <2> QED
    BY <1>2, <1>8, <1>9, <1>10, <1>12, <2>1, <2>2, <2>3, <2>4, Handing1
<1>14. Push(s)
  BY <1>1, <1>3, <1>4, <1>6, <1>7, <1>10, <1>12 DEF EvalComp
<1>15. Top.do \notin Consumers
  BY <1>2 DEF Consumers
<1> QED
  BY <1>2, <1>13, <1>14, <1>15, StillHands

\* Then to its loop and its result, or to its end.
LEMMA PrologueHands ==
    ASSUME Acting, PrologueAbsorbs \/ PrologueStarts
    PROVE  Handed
<1>1. PICK c \in Nodes : c = Top.n
  BY ActTop
<1>2. tree \in Trees /\ Top.do = "prologue"
  BY ActTop DEF PrologueAbsorbs, PrologueStarts, Running, Doing
<1>3. c \in Comps /\ Op(c) = "comp"
  BY <1>1, <1>2, ActTop DEF Shaped, Comps
<1>4. AccuIs(c, ToSet(Top.ks))
  BY <1>1 DEF PrologueAbsorbs, PrologueStarts
<1>5. \A s : Waiting(s)
  <2>1. \A m : Consumes(Top, m) => m \in ToSet(Top.ks)
    BY DEF Consumes
  <2> QED
    BY <1>3, <1>4, <2>1, AccuWaits
<1>6. PICK k : k = Result(c)
  OBVIOUS
<1>7. PICK m : m = AccuInit(c)
  OBVIOUS
<1>8. k \in Nodes /\ m \in Nodes
  BY <1>2, <1>3, <1>6, <1>7, CompKids
<1>9. PICK ks : ks = <<k>>
  OBVIOUS
<1>10. PICK ls : ls = <<k, m>>
  OBVIOUS
<1>11. ls \in Seq(Nodes) /\ ToSet(ls) = {k, m} /\ "leave" \in Dos /\ "loop" \in Dos
  BY <1>8, <1>10 DEF Dos, ToSet
<1>12. PICK q : q = Item("leave", c, ls)
  OBVIOUS
<1>13. q \in ItemType /\ q.do = "leave" /\ q.n = c /\ q.ks = ls
  BY <1>11, <1>12, ItemFields
<1>14. /\ ks \in Seq(Nodes) /\ ToSet(ks) = {k} /\ Row(ks)
       /\ Evals(ks) \o <<q>> = <<Eval(k), q>>
  BY <1>8, <1>9, <1>13, OneEval
<1>15. \A w : Writes(Top, w) <=> w = c \/ w \in Below(LoopBody(c)) \/ w \in Below(k)
  BY <1>1, <1>2, <1>6 DEF Writes
<1>16. PICK a : a = Evals(ks) \o <<q>>
  OBVIOUS
<1>17. Makes(q) = {c} /\ Makes(Top) = {c}
  BY <1>1, <1>2, <1>13 DEF Makes
<1>18. Part(a, {c})
  <2>1. q.do \in Consumers /\ Proper(q) /\ \A w \in Nodes : Writes(q, w) => Writes(Top, w)
    BY <1>13 DEF Consumers, Proper, Writes
  <2>2. \A j \in ToSet(ks) : \A w \in Below(j) : Writes(Top, w)
    BY <1>14, <1>15
  <2>3. ToSet(ks) \subseteq ToSet(q.ks)
    BY <1>11, <1>13, <1>14
  <2>4. Part(a, Makes(q))
    BY <1>2, <1>13, <1>14, <1>16, <2>1, <2>2, <2>3, PartBlock
  <2> QED
    BY <1>17, <2>4
<1>19. Finish(c) = a
  BY <1>6, <1>7, <1>10, <1>12, <1>14, <1>16 DEF Finish
<1>20. CASE PrologueAbsorbs
  <2>1. Push(a)
    BY <1>1, <1>19, <1>20 DEF PrologueAbsorbs
  <2>2. Handover(a)
    BY <1>17, <1>18, Whole
  <2> QED
    BY <1>5, <2>1, <2>2 DEF Handed
<1>21. CASE PrologueStarts
  <2>1. PICK e : e = <<>>
    OBVIOUS
  <2>2. e \in Seq(Nodes)
    BY <2>1
  <2>3. PICK p : p = Item("loop", c, e)
    OBVIOUS
  <2>4. p \in ItemType /\ p.do = "loop" /\ p.n = c
    BY <1>11, <2>2, <2>3, ItemFields
  <2>5. Makes(p) = {} /\ Proper(p) /\ \A w \in Nodes : Writes(p, w) => Writes(Top, w)
    BY <1>15, <2>4 DEF Makes, Proper, Writes
  <2>6. PICK b : b = <<p>>
    OBVIOUS
  <2>7. Part(b, {})
    BY <2>4, <2>5, <2>6, PartOne
  <2>8. PICK s : s = b \o a
    OBVIOUS
  <2>9. Part(s, {c})
    BY <1>18, <2>7, <2>8, PartJoin
  <2>10. Handover(s)
    BY <1>17, <2>9, Whole
  <2>11. Push(s)
    BY <1>1, <1>19, <1>21, <2>1, <2>3, <2>6, <2>8 DEF PrologueStarts
  <2> QED
    BY <1>5, <2>10, <2>11 DEF Handed
<1> QED
  BY <1>20, <1>21

\* One update of the accumulator is a part that leaves nothing behind.
LEMMA IntoPart ==
    ASSUME tree \in Trees, Top.do = "loop", Top.n \in Comps, NEW c, c = Top.n,
           NEW ks \in Rows(LoopBody(c))
    PROVE  Part(Into(c, ks), {})
<1>1. /\ ks \in Seq(Nodes) /\ Row(ks) /\ ToSet(ks) \subseteq Below(LoopBody(c))
      /\ c \in Nodes /\ c \in Comps /\ LoopBody(c) \in Nodes
  BY CompNode, CompKids DEF Rows
<1>2. PICK b : b = Body(c)
  OBVIOUS
<1>3. PICK do \in {"put", "into"} : do =
        IF IsInsert(c, b) /\ Literal(b) /\ Kids(Kid(b, 2)) = <<>> THEN "put" ELSE "into"
  OBVIOUS
<1>4. PICK q : q = Item(do, c, ks)
  OBVIOUS
<1>5. q \in ItemType /\ q.do = do /\ q.n = c /\ q.ks = ks
  <2>1. do \in Dos
    BY <1>3 DEF Dos
  <2> QED
    BY <1>1, <1>4, <2>1, ItemFields
<1>6. PICK s : s = Evals(ks) \o <<q>>
  OBVIOUS
<1>7. Into(c, ks) = s
  BY <1>2, <1>3, <1>4, <1>6 DEF Into, Evals
<1>8. \A w : Writes(Top, w) <=> w = c \/ w \in Below(LoopBody(c))
  BY DEF Writes
<1>9. /\ q.do \in Consumers /\ Makes(q) = {} /\ Proper(q) /\ ToSet(ks) \subseteq ToSet(q.ks)
      /\ \A w \in Nodes : Writes(q, w) => Writes(Top, w)
  BY <1>3, <1>5, <1>8 DEF Consumers, Makes, Proper, Writes
<1>10. \A j \in ToSet(ks) : \A w \in Below(j) : Writes(Top, w)
  <2>1. \A j \in ToSet(ks) : Below(j) \subseteq Below(LoopBody(c))
    BY <1>1, BelowTransitive
  <2> QED
    BY <1>8, <2>1
<1>11. Part(s, Makes(q))
  BY <1>1, <1>5, <1>6, <1>9, <1>10, PartBlock
<1> QED
  BY <1>7, <1>9, <1>11

Parts == {s \in Seq(ItemType) : Part(s, {})}

\* So is any number of them.
LEMMA PartsFlat ==
    ASSUME NEW ss \in Seq(Parts)
    PROVE  Part(FlattenSeq(ss), {})
<1>1. CASE ss = <<>>
  <2>1. PICK e : e = FlattenSeq(ss)
    OBVIOUS
  <2>2. e = <<>>
    BY <1>1, <2>1 DEF FlattenSeq
  <2>3. Handover(e) /\ Len(e) = 0
    BY <2>2, NothingOver
  <2>4. e \in Seq(ItemType)
    BY <2>3 DEF Handover
  <2>5. Part(e, {})
    BY <2>3, <2>4 DEF Part, Orderly
  <2> QED
    BY <2>1, <2>5
<1>2. CASE ss # <<>>
  <2>1. ASSUME NEW a \in Parts, NEW b \in Parts
        PROVE  a \o b \in Parts
    <3>1. PICK s : s = a \o b
      OBVIOUS
    <3>2. Part(a, {}) /\ Part(b, {})
      BY DEF Parts
    <3>3. Part(s, {})
      BY <3>1, <3>2, PartJoin
    <3>4. s \in Parts
      BY <3>3 DEF Part, Parts
    <3> QED
      BY <3>1, <3>4
  <2>2. FlattenSeq(ss) \in Parts
    BY <1>2, <2>1, FlattenIn
  <2> QED
    BY <2>2 DEF Parts
<1> QED
  BY <1>1, <1>2

\* One iteration, then the loop again.
LEMMA LoopHands ==
    ASSUME Acting, LoopStep
    PROVE  Handed
<1>1. PICK c \in Nodes : c = Top.n
  BY ActTop
<1>2. tree \in Trees /\ Top.do = "loop" /\ where' = where /\ pending' = pending
  BY ActTop DEF LoopStep, NextElement, Running, Doing
<1>3. Op(c) = "comp" /\ c \in Comps /\ Top.ks \in Seq(Nodes)
  BY <1>1, <1>2, ActTop DEF Shaped, Comps
<1>4. PICK k : k = LoopBody(c)
  OBVIOUS
<1>5. k \in Nodes
  BY <1>2, <1>3, <1>4, CompKids
<1>6. PICK r : r = Item("loop", c, Append(Top.ks, k))
  OBVIOUS
<1>7. r \in ItemType /\ r.do = "loop" /\ r.n = c
  <2>1. PICK ls : ls = Append(Top.ks, k)
    OBVIOUS
  <2>2. ls \in Seq(Nodes) /\ "loop" \in Dos
    BY <1>3, <1>5, <2>1 DEF Dos
  <2>3. r = Item("loop", c, ls)
    BY <1>6, <2>1
  <2> QED
    BY <2>2, <2>3, ItemFields
<1>8. \A w : Writes(Top, w) <=> w = c \/ w \in Below(k)
  BY <1>1, <1>2, <1>4 DEF Writes
<1>9. Makes(r) = {} /\ Proper(r) /\ \A w \in Nodes : Writes(r, w) => Writes(Top, w)
  BY <1>4, <1>7, <1>8 DEF Makes, Proper, Writes
<1>10. PICK b : b = <<r>>
  OBVIOUS
<1>11. Part(b, {})
  BY <1>7, <1>9, <1>10, PartOne
<1>12. \E a : Part(a, {}) /\ Push(a \o b)
  <2>1. CASE Specialised(c)
    <3>1. PICK ss : ss = [i \in 1 .. Len(Updates(c)) |-> Into(c, Updates(c)[i])]
      OBVIOUS
    <3>2. Push(FlattenSeq(ss) \o b)
      BY <1>1, <1>4, <1>6, <1>10, <2>1, <3>1 DEF LoopStep, Each
    <3>3. Updates(c) \in Seq(Rows(LoopBody(c)))
      BY <1>2, <1>3, <2>1, LoopUpdates
    <3>4. \A i \in 1 .. Len(Updates(c)) : Updates(c)[i] \in Rows(LoopBody(c))
      BY <3>3
    <3>5. \A i \in 1 .. Len(Updates(c)) : Part(Into(c, Updates(c)[i]), {})
      BY <1>1, <1>2, <1>3, <3>4, IntoPart
    <3>6. \A i \in 1 .. Len(Updates(c)) : Into(c, Updates(c)[i]) \in Parts
      BY <3>5 DEF Part, Parts
    <3>7. Len(Updates(c)) \in Nat
      BY <3>3
    <3>8. ss \in Seq(Parts)
      BY <3>1, <3>6, <3>7
    <3> QED
      BY <3>2, <3>8, PartsFlat
  <2>2. CASE ~Specialised(c)
    <3>1. PICK ks : ks = <<k>>
      OBVIOUS
    <3>2. PICK q : q = Item("copy", c, ks)
      OBVIOUS
    <3>3. ks \in Seq(Nodes) /\ "copy" \in Dos
      BY <1>5, <3>1 DEF Dos
    <3>4. q \in ItemType /\ q.do = "copy" /\ q.n = c /\ q.ks = ks
      BY <3>2, <3>3, ItemFields
    <3>5. ToSet(ks) = {k} /\ Row(ks) /\ Evals(ks) \o <<q>> = <<Eval(k), q>>
      BY <1>5, <3>1, <3>4, OneEval
    <3>6. /\ q.do \in Consumers /\ Makes(q) = {} /\ Proper(q) /\ ToSet(ks) \subseteq ToSet(q.ks)
          /\ \A w \in Nodes : Writes(q, w) => Writes(Top, w)
      BY <1>8, <3>4 DEF Consumers, Makes, Proper, Writes
    <3>7. \A j \in ToSet(ks) : \A w \in Below(j) : Writes(Top, w)
      BY <1>8, <3>5
    <3>8. PICK a : a = Evals(ks) \o <<q>>
      OBVIOUS
    <3>9. Part(a, {})
      <4>1. Part(a, Makes(q))
        BY <1>2, <3>3, <3>4, <3>5, <3>6, <3>7, <3>8, PartBlock
      <4> QED
        BY <3>6, <4>1
    <3>10. Push(<<Eval(k), q, r>>)
      BY <1>1, <1>4, <1>6, <2>2, <3>1, <3>2 DEF LoopStep
    <3>11. <<Eval(k), q, r>> = a \o b
      <4>1. PICK e : e = Eval(k)
        OBVIOUS
      <4>2. e \in ItemType
        BY <1>5, <4>1, EvalItem
      <4>3. PICK u : u = <<e>>
        OBVIOUS
      <4>4. u \in Seq(ItemType)
        BY <4>2, <4>3
      <4>5. u \o <<q, r>> = (u \o <<q>>) \o <<r>>
        BY <1>7, <3>4, <4>4, SplitEnd
      <4>6. <<e>> \o <<q>> = <<e, q>>
        BY <3>4, <4>2, JoinTwo
      <4>7. <<e>> \o <<q, r>> = <<e, q, r>>
        BY <1>7, <3>4, <4>2, JoinThree
      <4> QED
        BY <1>10, <3>5, <3>8, <4>1, <4>3, <4>5, <4>6, <4>7
    <3> QED
      BY <3>9, <3>10, <3>11
  <2> QED
    BY <2>1, <2>2
<1>13. PICK a : Part(a, {}) /\ Push(a \o b)
  BY <1>12
<1>14. PICK s : s = a \o b
  OBVIOUS
<1>15. Part(s, {})
  BY <1>11, <1>13, <1>14, PartJoin
<1>16. Handover(s) /\ Push(s)
  BY <1>13, <1>14, <1>15, Whole
<1>17. Top.do \notin Consumers
  BY <1>2 DEF Consumers
<1> QED
  BY <1>2, <1>16, <1>17, StillHands

\* Every step of the running code is a handover.
LEMMA AllHands ==
    ASSUME Acting, RunStep
    PROVE  Handed
<1>1. CASE EvalLeaf \/ Kernel \/ BranchPoison \/ Same \/ Leave
  BY <1>1, LeafHands
<1>2. CASE EvalCall \/ EvalAggregate \/ Fill \/ PutOperands \/ LoopExit
  BY <1>2, CallHands, AggregateHands, FillHands, PopHands
<1>3. CASE EvalDyn \/ EvalCond \/ BranchArm \/ EvalComp
  BY <1>3, DynCondHands, BranchHands, CompHands
<1>4. CASE PrologueAbsorbs \/ PrologueStarts \/ IntoAccu \/ LoopStep
  BY <1>4, PrologueHands, AccuHands, LoopHands
<1>5. CASE CopyStep
  BY <1>5, PopHands, AccuHands
<1> QED
  BY <1>1, <1>2, <1>3, <1>4, <1>5 DEF RunStep

-----------------------------------------------------------------------------
(* What each step of the code writes. *)

Ground ==
    /\ Acting /\ CellsApart /\ Fitting /\ Sound(Slots) /\ VarsConform /\ DOMAIN val = Nodes
    /\ \A n \in Nodes : PlaceOf(n) /\ NotYet(n) /\ (Op(n) = "ident" => NameOk(n))
    /\ \A c \in Comps : Has(c)

\* A stamped cell is in the workspace.
LEMMA SlottedCells ==
    ASSUME Ground, NEW n \in Slotted
    PROVE  storage[n].at \in Addresses /\ storage[n].at >= SlotsBase /\ storage[n].at # ReadOnly
<1>1. SlotsBase \in Nat /\ SlotsBase >= 1
  <2>1. SlotsBase \in Nat
    BY BaseNat DEF Ground, Acting
  <2>2. PICK A : A = {i \in DOMAIN variables : ~variables[i].moves}
    OBVIOUS
  <2>3. PICK l \in Nat : l = Len(variables) /\ DOMAIN variables = 1 .. l
    BY DEF Ground, Acting
  <2>4. IsFiniteSet(A)
    <3>1. A \in SUBSET (1 .. l)
      BY <2>2, <2>3
    <3>2. IsFiniteSet(1 .. l)
      BY <2>3, FS_Interval
    <3> QED
      BY <3>1, <3>2, FS_Subset
  <2>5. Cardinality(A) \in Nat
    BY <2>4, FS_CardinalityType
  <2> QED
    BY <2>1, <2>2, <2>5 DEF SlotsBase
<1>2. peak = bump /\ bump \in Nat
  BY DEF Ground, Sound, Slots
<1>3. PICK a : a = storage[n].at
  OBVIOUS
<1>4. a \in Nat /\ a >= SlotsBase /\ a < SlotsBase + bump
  BY <1>3 DEF Ground, Fitting
<1>5. a \in Addresses /\ a # 0
  BY <1>1, <1>2, <1>4 DEF Addresses
<1> QED
  BY <1>3, <1>4, <1>5 DEF ReadOnly

\* A variable's cell is below it, and its own.
LEMMA VariableCells ==
    ASSUME Ground
    PROVE  /\ \A i \in DOMAIN variables : /\ SlotOf(i) \in Addresses \cup {ReadOnly} /\ SlotOf(i) < SlotsBase
                                          /\ ~variables[i].moves => SlotOf(i) \in Addresses /\ SlotOf(i) # ReadOnly
           /\ \A i, j \in DOMAIN variables : SlotOf(i) = SlotOf(j) /\ SlotOf(i) # ReadOnly => i = j
           /\ SlotsBase \in Nat
<1>1. variables \in Seq(VarType)
  BY DEF Ground, Acting
<1>2. \A i \in 1 .. Len(variables) :
        /\ SlotOf(i) \in Nat /\ SlotOf(i) < SlotsBase
        /\ ~variables[i].moves => SlotOf(i) >= 1
        /\ \A j \in 1 .. Len(variables) : SlotOf(i) = SlotOf(j) /\ SlotOf(i) # ReadOnly => i = j
  BY <1>1, SlotsApart
<1>3. SlotsBase \in Nat
  BY <1>1, BaseNat
<1>4. peak \in Nat
  BY DEF Ground, Sound, Slots
<1>5. DOMAIN variables = 1 .. Len(variables)
  BY <1>1
<1>6. \A a \in Nat : a < SlotsBase => (a = 0 \/ (a >= 1 /\ a \in Addresses))
  BY <1>3, <1>4 DEF Addresses
<1>7. ASSUME NEW i \in DOMAIN variables
      PROVE  /\ SlotOf(i) \in Addresses \cup {ReadOnly} /\ SlotOf(i) < SlotsBase
             /\ ~variables[i].moves => SlotOf(i) \in Addresses /\ SlotOf(i) # ReadOnly
  <2>1. PICK a \in Nat : a = SlotOf(i)
    BY <1>2, <1>5
  <2>2. a < SlotsBase /\ (~variables[i].moves => a >= 1)
    BY <1>2, <1>5, <2>1
  <2> QED
    BY <1>6, <2>1, <2>2 DEF ReadOnly
<1> QED
  BY <1>2, <1>3, <1>5, <1>7

\* An accumulator is a variable.
LEMMA AccuCells ==
    ASSUME Ground, NEW c \in Comps
    PROVE  /\ VarOf(c, "accu") \in DOMAIN variables /\ variables[VarOf(c, "accu")].of = c
           /\ variables[VarOf(c, "accu")].role = "accu"
           /\ AccuSlot(c) = SlotOf(VarOf(c, "accu")) /\ AccuSlot(c) # ReadOnly
           /\ AccuSlot(c) \in Addresses /\ AccuSlot(c) < SlotsBase
<1>1. variables \in Seq(VarType)
  BY DEF Ground, Acting
<1>2. HasRole(c, "accu")
  BY DEF Ground, Has
<1>3. PICK v : v = VarOf(c, "accu")
  OBVIOUS
<1>4. v \in DOMAIN variables /\ variables[v].of = c /\ variables[v].role = "accu"
  BY <1>1, <1>2, <1>3 DEF VarOf, HasRole
<1>5. Conforms(variables[v])
  BY <1>1, <1>4 DEF Ground, VarsConform
<1>6. ~variables[v].moves
  BY <1>4, <1>5 DEF Conforms
<1> QED
  BY <1>3, <1>4, <1>6, VariableCells DEF AccuSlot

\* Every operand is somewhere.
LEMMA WhereCells ==
    ASSUME Ground, NEW m \in Nodes
    PROVE  where[m] \in Addresses \cup {ReadOnly}
<1>1. Housed(m) /\ tree \in Trees
  BY DEF Ground, Acting, SafeRun
<1>2. CASE Token(m)
  BY <1>2, AccuCells DEF Token
<1>3. CASE where[m] = ReadOnly \/ \E r \in Slotted : where[m] = storage[r].at
  BY <1>3, SlottedCells
<1>4. CASE \E o \in Below(m) : Op(o) = "ident" /\ where[m] = SlotOf(binding[o])
  <2>1. PICK o \in Below(m) : Op(o) = "ident" /\ where[m] = SlotOf(binding[o])
    BY <1>4
  <2>2. NameOk(o)
    BY <1>1, <2>1, BelowSelf DEF Ground
  <2>3. binding[o] \in DOMAIN variables
    BY <2>2 DEF NameOk, Ground, Acting
  <2> QED
    BY <2>1, <2>3, VariableCells
<1> QED
  BY <1>1, <1>2, <1>3, <1>4 DEF Housed, Spot

\* A node whose parent's code runs on is not overwritten by what comes meanwhile.
LEMMA CellKept ==
    ASSUME Ground, NEW n \in Slotted, Op(n) \in Writing, Writes(Top, n),
           NEW m \in pending, ~Consumes(Top, m), where[m] # ReadOnly
    PROVE  where[m] # storage[n].at
<1>1. m \in Nodes /\ n \in Nodes /\ tree \in Trees /\ Housed(m) /\ Sheltered(todo) /\ CellsApart
  BY DEF Ground, Acting, SafeRun, Slotted
<1>2. storage[n].at >= SlotsBase /\ storage[n].at \in Nat /\ SlotsBase \in Nat
  BY VariableCells DEF Ground, Fitting
<1>3. \A a : a < SlotsBase /\ a \in Nat => a # storage[n].at
  BY <1>2
<1>4. Addresses \subseteq Nat
  <2>1. peak \in Nat
    BY DEF Ground, Sound, Slots
  <2> QED
    BY <1>2, <2>1 DEF Addresses
<1>5. CASE Token(m)
  <2>1. PICK c \in Comps : where[m] = AccuSlot(c)
    BY <1>5 DEF Token
  <2> QED
    BY <1>3, <1>4, <2>1, AccuCells
<1>6. CASE ~Token(m)
  <2>1. Meanwhile(n, m)
    <3>1. 1 \in 1 .. Len(todo) /\ Top = todo[1]
      BY DEF Ground, Acting, Nested, Top
    <3>2. Token(m) \/ Meanwhile(n, m) \/ Taken(todo, 0, 1, m)
      BY <1>1, <3>1 DEF Sheltered
    <3>3. Taken(todo, 0, 1, m) => Consumes(Top, m)
      <4>1. HAVE Taken(todo, 0, 1, m)
      <4>2. PICK j \in 1 .. Len(todo) : 0 < j /\ j <= 1 /\ Consumes(todo[j], m)
        BY <4>1 DEF Taken
      <4>3. j = 1
        BY <4>2
      <4> QED
        BY <3>1, <4>2, <4>3
    <3> QED
      BY <1>6, <3>2, <3>3
  <2>2. Spot(m, where[m])
    BY <1>1, <1>6 DEF Housed
  <2>3. CASE \E r \in Slotted : Stands(m, r) /\ Op(r) # "comp" /\ where[m] = storage[r].at
    <3>1. PICK r \in Slotted : Stands(m, r) /\ Op(r) # "comp" /\ where[m] = storage[r].at
      BY <2>3
    <3>2. Clash(r, n)
      <4>1. CASE r = m
        BY <2>1, <4>1 DEF Meanwhile, Clash
      <4>2. CASE Op(m) \in {"dyn", "comp"} /\ \E c \in Comps : c \in Below(m) /\ r = Result(c)
        <5>1. PICK c \in Comps : c \in Below(m) /\ r = Result(c)
          BY <4>2
        <5>2. After(n, m)
          BY <2>1, <4>2 DEF Meanwhile, Aggregates
        <5>3. n > m /\ n \notin Below(m) /\ c \in Nodes
          BY <5>2, CompNode, <1>1 DEF After
        <5>4. n \notin Below(c)
          BY <1>1, <5>1, <5>3, BelowTransitive
        <5>5. n > c
          <6>1. n \in Nat /\ m \in Nat /\ c \in Nat
            BY <1>1, <5>3, NodeNat
          <6>2. ~(n <= c)
            BY <1>1, <5>1, <5>3, <6>1, BelowInterval
          <6> QED
            BY <6>1, <6>2
        <5> QED
          BY <5>1, <5>4, <5>5 DEF Clash
      <4> QED
        BY <3>1, <4>1, <4>2 DEF Stands
    <3> QED
      BY <1>1, <3>1, <3>2 DEF CellsApart
  <2>4. CASE \E o \in Below(m) : Op(o) = "ident" /\ where[m] = SlotOf(binding[o])
    <3>1. PICK o \in Below(m) : Op(o) = "ident" /\ where[m] = SlotOf(binding[o])
      BY <2>4
    <3>2. NameOk(o)
      BY <1>1, <3>1, BelowSelf DEF Ground
    <3>3. binding[o] \in DOMAIN variables
      BY <3>2 DEF NameOk, Ground, Acting
    <3> QED
      BY <1>3, <1>4, <3>1, <3>3, VariableCells
  <2> QED
    BY <2>2, <2>3, <2>4 DEF Spot
<1> QED
  BY <1>5, <1>6

\* Nor does a loop write the cell of a variable that something outside it holds.
LEMMA VariableKept ==
    ASSUME Ground, NEW c \in Comps, Writes(Top, c), NEW j \in DOMAIN variables, variables[j].of = c,
           NEW m \in pending, ~Consumes(Top, m), where[m] # ReadOnly,
           variables[j].role = "accu" => j = VarOf(c, "accu") /\ m # AccuInit(c)
    PROVE  where[m] # SlotOf(j)
<1>1. m \in Nodes /\ c \in Nodes /\ tree \in Trees /\ Housed(m) /\ Sheltered(todo)
  BY CompNode DEF Ground, Acting, SafeRun
<1>2. SUFFICES ASSUME where[m] = SlotOf(j) PROVE FALSE
  OBVIOUS
<1>3. \A i \in DOMAIN variables : where[m] = SlotOf(i) => i = j
  BY <1>2, VariableCells
<1>4. CASE Token(m)
  <2>1. PICK d \in Comps : m = AccuInit(d) /\ where[m] = AccuSlot(d)
    BY <1>4 DEF Token
  <2>2. VarOf(d, "accu") = j /\ variables[j].role = "accu" /\ d = c
    BY <1>3, <2>1, AccuCells
  <2> QED
    BY <2>1, <2>2
<1>5. CASE ~Token(m)
  <2>1. Meanwhile(c, m)
    <3>1. 1 \in 1 .. Len(todo) /\ Top = todo[1]
      BY DEF Ground, Acting, Nested, Top
    <3>2. Token(m) \/ Meanwhile(c, m) \/ Taken(todo, 0, 1, m)
      BY <1>1, <3>1 DEF Sheltered
    <3>3. Taken(todo, 0, 1, m) => Consumes(Top, m)
      <4>1. HAVE Taken(todo, 0, 1, m)
      <4>2. PICK i \in 1 .. Len(todo) : 0 < i /\ i <= 1 /\ Consumes(todo[i], m)
        BY <4>1 DEF Taken
      <4>3. i = 1
        BY <4>2
      <4> QED
        BY <3>1, <4>2, <4>3
    <3> QED
      BY <1>5, <3>2, <3>3
  <2>2. Spot(m, where[m])
    BY <1>1, <1>5 DEF Housed
  <2>3. CASE \E r \in Slotted : where[m] = storage[r].at
    <3>1. PICK r \in Slotted : where[m] = storage[r].at
      BY <2>3
    <3>2. storage[r].at \in Nat /\ storage[r].at >= SlotsBase
      BY DEF Ground, Fitting
    <3>3. SlotOf(j) < SlotsBase /\ SlotsBase \in Nat
      BY VariableCells
    <3> QED
      BY <1>2, <3>1, <3>2, <3>3
  <2>4. CASE /\ Op(m) \in {"ident", "dyn", "comp"}
             /\ \E o \in Below(m) : Op(o) = "ident" /\ where[m] = SlotOf(binding[o])
    <3>1. PICK o \in Below(m) : Op(o) = "ident" /\ where[m] = SlotOf(binding[o])
      BY <2>4
    <3>2. NameOk(o) /\ o \in Nodes
      BY <1>1, <3>1, BelowSelf DEF Ground
    <3>3. binding[o] \in DOMAIN variables
      BY <3>2 DEF NameOk, Ground, Acting
    <3>4. binding[o] = j
      BY <1>3, <3>1, <3>3
    <3>5. Meant(o) = c
      BY <3>2, <3>4 DEF NameOk
    <3>6. c \in Nat /\ m \in Nat /\ o \in Nat /\ c # 0
      BY <1>1, <3>2, NodeNat DEF Nodes
    <3>7. c \in Around(o) /\ c <= o
      <4>1. Showing(o) # {} /\ c = Max(Showing(o))
        BY <3>5, <3>6 DEF Meant
      <4>2. Showing(o) \subseteq Around(o) /\ Showing(o) \subseteq 0 .. o
        BY <1>1, <3>2, ShowingIsAround
      <4>3. c \in Showing(o)
        BY <3>6, <4>1, <4>2, Extremes
      <4> QED
        BY <4>2, <4>3
    <3>8. After(c, m)
      BY <2>1, <2>4 DEF Meanwhile, Aggregates
    <3>9. c > m /\ c \notin Below(m)
      BY <3>8 DEF After
    <3> QED
      BY <1>1, <3>1, <3>6, <3>7, <3>9, BelowInterval
  <2> QED
    BY <1>2, <2>2, <2>3, <2>4 DEF Spot
<1> QED
  BY <1>4, <1>5

Effected ==
    /\ DOMAIN mem' = Addresses /\ DOMAIN val' = Nodes /\ pending' \subseteq Nodes
    /\ \A m \in Nodes : Token(m)' \/ Spot(m, where'[m])
    /\ \A i \in DOMAIN variables : variables[i].role = "free" => mem'[SlotOf(i)] = 0
    /\ \A m \in pending' : where'[m] # ReadOnly => mem'[where'[m]] = val'[m]

\* What is known before a step of the running code.
LEMMA GroundFacts ==
    ASSUME Ground
    PROVE  /\ DOMAIN mem = Addresses /\ DOMAIN val = Nodes /\ DOMAIN where = Nodes /\ pending \subseteq Nodes
           /\ \A m \in Nodes : Token(m) \/ Spot(m, where[m])
           /\ \A i \in DOMAIN variables : variables[i].role = "free" => mem[SlotOf(i)] = 0
           /\ \A m \in pending : where[m] # ReadOnly => mem[where[m]] = val[m]
           /\ tree \in Trees /\ UNCHANGED layoutVars /\ Top.n \in Nodes /\ Shaped(Top) /\ Proper(Top)
<1>1. Acting
  BY DEF Ground
<1> QED
  BY <1>1, ActTop DEF Ground, Acting, SafeRun, Unwritten, Intact, Housed

\* A step that writes nothing.
LEMMA SilentEffect ==
    ASSUME Ground, pending' \subseteq pending, UNCHANGED <<mem, where, val>>
    PROVE  Effected
<1>1. mem' = mem /\ where' = where /\ val' = val
  OBVIOUS
<1>2. \A m : Token(m) => Token(m)'
  BY <1>1, GroundFacts, TokenKept
<1> QED
  BY <1>1, <1>2, GroundFacts DEF Effected

\* The node's own code writes its cell.
LEMMA YieldEffect ==
    ASSUME Ground, NEW n, n = Top.n, Op(n) \in Writing, Writes(Top, n), NEW K,
           \A m : Consumes(Top, m) => m \in K, Yield(n, storage[n].at, K)
    PROVE  Effected
<1>1. PICK a : a = storage[n].at
  OBVIOUS
<1>2. n \in Nodes
  BY GroundFacts
<1>3. /\ mem' = [mem EXCEPT ![a] = clock + 1] /\ where' = [where EXCEPT ![n] = a]
      /\ val' = [val EXCEPT ![n] = clock + 1] /\ pending' = (pending \ K) \cup {n}
  BY <1>1 DEF Yield
<1>4. a = ReadOnly \/ (n \in Slotted /\ a \in Addresses /\ a >= SlotsBase)
  <2>1. storage[n] = None \/ storage[n] = Rodata \/ n \in Slotted
    BY <1>2 DEF Ground, PlaceOf
  <2>2. None.at = ReadOnly /\ Rodata.at = ReadOnly
    BY DEF None, Rodata, ReadOnly
  <2> QED
    BY <1>1, <2>1, <2>2, SlottedCells
<1>5. /\ DOMAIN mem' = Addresses /\ (a \in Addresses => mem'[a] = clock + 1)
      /\ \A b \in Addresses : b # a => mem'[b] = mem[b]
  BY <1>3, GroundFacts
<1>6. /\ DOMAIN where' = Nodes /\ where'[n] = a /\ DOMAIN val' = Nodes /\ val'[n] = clock + 1
      /\ \A m \in Nodes : m # n => where'[m] = where[m] /\ val'[m] = val[m]
  BY <1>2, <1>3, GroundFacts
<1>7. pending' \subseteq Nodes
  BY <1>2, <1>3, GroundFacts
<1>8. \A m \in Nodes : Token(m)' \/ Spot(m, where'[m])
  <2>1. Spot(n, a)
    BY <1>1, <1>4 DEF Spot, Stands, Writing, Calls, Aggregates
  <2>2. \A m \in Nodes : m # n => (Token(m) => Token(m)')
    BY <1>6, GroundFacts, TokenKept
  <2> QED
    BY <1>6, <2>1, <2>2, GroundFacts
<1>9. ASSUME NEW i \in DOMAIN variables, variables[i].role = "free"
      PROVE  mem'[SlotOf(i)] = 0
  <2>1. SlotOf(i) \in Addresses /\ SlotOf(i) < SlotsBase /\ SlotOf(i) # ReadOnly
    <3>1. Conforms(variables[i])
      BY DEF Ground, VarsConform, Acting
    <3>2. ~variables[i].moves
      BY <1>9, <3>1 DEF Conforms
    <3> QED
      BY <3>2, VariableCells
  <2>2. SlotOf(i) # a
    <3>1. SlotsBase \in Nat /\ Addresses \subseteq Nat
      BY VariableCells DEF Addresses, Ground, Sound, Slots
    <3>2. CASE a = ReadOnly
      BY <2>1, <3>2
    <3>3. CASE a \in Addresses /\ a >= SlotsBase
      BY <2>1, <3>1, <3>3
    <3> QED
      BY <1>4, <3>2, <3>3
  <2> QED
    BY <1>5, <1>9, <2>1, <2>2, GroundFacts
<1>10. ASSUME NEW m \in pending', where'[m] # ReadOnly
       PROVE  mem'[where'[m]] = val'[m]
  <2>1. CASE m = n
    BY <1>4, <1>5, <1>6, <1>10, <2>1
  <2>2. CASE m # n
    <3>1. m \in pending /\ m \notin K /\ m \in Nodes /\ where'[m] = where[m] /\ val'[m] = val[m]
      BY <1>3, <1>6, <1>7, <1>10, <2>2
    <3>2. where[m] \in Addresses /\ mem[where[m]] = val[m]
      BY <1>10, <3>1, WhereCells, GroundFacts
    <3>3. where[m] # a
      BY <1>1, <1>4, <1>10, <3>1, CellKept
    <3> QED
      BY <1>5, <3>1, <3>2, <3>3
  <2> QED
    BY <2>1, <2>2
<1> QED
  BY <1>5, <1>6, <1>7, <1>8, <1>9, <1>10 DEF Effected

\* A block that ends in another node's yields what is there.
LEMMA InPlaceEffect ==
    ASSUME Ground, NEW n \in Nodes, NEW a, NEW K, YieldInPlace(n, a, K), Spot(n, a)
    PROVE  Effected
<1>1. /\ mem' = mem /\ where' = [where EXCEPT ![n] = a]
      /\ val' = [val EXCEPT ![n] = IF a = ReadOnly THEN 0 ELSE mem[a]]
      /\ pending' = (pending \ K) \cup {n}
  BY DEF YieldInPlace
<1>2. /\ where'[n] = a /\ DOMAIN val' = Nodes /\ val'[n] = IF a = ReadOnly THEN 0 ELSE mem[a]
      /\ \A m \in Nodes : m # n => where'[m] = where[m] /\ val'[m] = val[m]
  BY <1>1, GroundFacts
<1>3. \A m \in Nodes : m # n => (Token(m) => Token(m)')
  BY <1>2, GroundFacts, TokenKept
<1>4. \A m \in Nodes : Token(m)' \/ Spot(m, where'[m])
  BY <1>2, <1>3, GroundFacts
<1>5. pending' \subseteq Nodes /\ \A m \in pending' : m # n => m \in pending
  BY <1>1, GroundFacts
<1>6. \A m \in pending' : where'[m] # ReadOnly => mem'[where'[m]] = val'[m]
  BY <1>1, <1>2, <1>5, GroundFacts
<1> QED
  BY <1>1, <1>2, <1>4, <1>5, <1>6, GroundFacts DEF Effected

\* The accumulator's cell is written.
LEMMA AccuEffect ==
    ASSUME Ground, NEW c \in Comps, Writes(Top, c), NEW K,
           \A m : Consumes(Top, m) => m \in K, AccuIs(c, K)
    PROVE  Effected
<1>1. PICK n : n = AccuInit(c)
  OBVIOUS
<1>2. PICK a : a = AccuSlot(c)
  OBVIOUS
<1>3. PICK v : v = VarOf(c, "accu")
  OBVIOUS
<1>4. /\ v \in DOMAIN variables /\ variables[v].of = c /\ variables[v].role = "accu"
      /\ a = SlotOf(v) /\ a # ReadOnly /\ a \in Addresses
  BY <1>2, <1>3, AccuCells
<1>5. n \in Nodes
  BY <1>1, CompKids, GroundFacts DEF Comps
<1>6. /\ mem' = [mem EXCEPT ![a] = clock + 1] /\ where' = [where EXCEPT ![n] = a]
      /\ val' = [val EXCEPT ![n] = clock + 1] /\ pending' = (pending \ K) \cup {n}
  BY <1>1, <1>2 DEF AccuIs, Yield
<1>7. /\ DOMAIN mem' = Addresses /\ mem'[a] = clock + 1
      /\ \A b \in Addresses : b # a => mem'[b] = mem[b]
  BY <1>4, <1>6, GroundFacts
<1>8. /\ where'[n] = a /\ DOMAIN val' = Nodes /\ val'[n] = clock + 1
      /\ \A m \in Nodes : m # n => where'[m] = where[m] /\ val'[m] = val[m]
  BY <1>5, <1>6, GroundFacts
<1>9. pending' \subseteq Nodes
  BY <1>5, <1>6, GroundFacts
<1>10. \A m \in Nodes : Token(m)' \/ Spot(m, where'[m])
  <2>1. Token(n)'
    <3>1. c \in Comps' /\ n = AccuInit(c)' /\ where'[n] = AccuSlot(c)'
      BY <1>1, <1>2, <1>8, GroundFacts, SameSlots
    <3> QED
      BY <3>1 DEF Token
  <2>2. \A m \in Nodes : m # n => (Token(m) => Token(m)')
    BY <1>8, GroundFacts, TokenKept
  <2> QED
    BY <1>8, <2>1, <2>2, GroundFacts
<1>11. ASSUME NEW i \in DOMAIN variables, variables[i].role = "free"
       PROVE  mem'[SlotOf(i)] = 0
  <2>1. SlotOf(i) \in Addresses /\ SlotOf(i) # ReadOnly
    <3>1. Conforms(variables[i])
      BY DEF Ground, VarsConform, Acting
    <3>2. ~variables[i].moves
      BY <1>11, <3>1 DEF Conforms
    <3> QED
      BY <3>2, VariableCells
  <2>2. SlotOf(i) # a
    BY <1>4, <1>11, <2>1, VariableCells
  <2> QED
    BY <1>7, <1>11, <2>1, <2>2, GroundFacts
<1>12. ASSUME NEW m \in pending', where'[m] # ReadOnly
       PROVE  mem'[where'[m]] = val'[m]
  <2>1. CASE m = n
    BY <1>7, <1>8, <2>1
  <2>2. CASE m # n
    <3>1. m \in pending /\ m \notin K /\ m \in Nodes /\ where'[m] = where[m] /\ val'[m] = val[m]
      BY <1>6, <1>8, <1>9, <1>12, <2>2
    <3>2. where[m] \in Addresses /\ mem[where[m]] = val[m]
      BY <1>12, <3>1, WhereCells, GroundFacts
    <3>3. where[m] # SlotOf(v)
      BY <1>1, <1>3, <1>4, <1>12, <2>2, <3>1, VariableKept
    <3> QED
      BY <1>4, <1>7, <3>1, <3>2, <3>3
  <2> QED
    BY <2>1, <2>2
<1> QED
  BY <1>7, <1>8, <1>9, <1>10, <1>11, <1>12 DEF Effected

\* An iteration writes the cells of its variables.
LEMMA NextEffect ==
    ASSUME Ground, NEW c \in Comps, Writes(Top, c), \A m : ~Consumes(Top, m), NextElement(c)
    PROVE  Effected
<1>1. PICK C : C = {SlotOf(i) : i \in {j \in DOMAIN variables :
                      variables[j].of = c /\ variables[j].role # "accu"}} \ {ReadOnly}
  OBVIOUS
<1>2. /\ mem' = [a \in Addresses |-> IF a \in C THEN clock + 1 ELSE mem[a]]
      /\ where' = where /\ val' = val /\ pending' = pending
  BY <1>1 DEF NextElement
<1>3. DOMAIN mem' = Addresses /\ \A a \in Addresses : a \notin C => mem'[a] = mem[a]
  BY <1>2
<1>4. \A m \in Nodes : Token(m)' \/ Spot(m, where'[m])
  BY <1>2, GroundFacts, TokenKept
<1>5. ASSUME NEW i \in DOMAIN variables, variables[i].role = "free"
      PROVE  mem'[SlotOf(i)] = 0
  <2>1. Conforms(variables[i])
    BY DEF Ground, VarsConform, Acting
  <2>2. ~variables[i].moves /\ variables[i].of = 0
    BY <1>5, <2>1 DEF Conforms
  <2>3. SlotOf(i) \in Addresses /\ SlotOf(i) # ReadOnly
    BY <2>2, VariableCells
  <2>4. c # 0
    BY CompNode, GroundFacts, NodeNat DEF Nodes
  <2>5. SlotOf(i) \notin C
    <3>1. SUFFICES ASSUME NEW j \in DOMAIN variables, variables[j].of = c, SlotOf(i) = SlotOf(j)
                   PROVE FALSE
      BY <1>1
    <3> QED
      BY <2>2, <2>3, <2>4, <3>1, VariableCells
  <2> QED
    BY <1>3, <1>5, <2>3, <2>5, GroundFacts
<1>6. ASSUME NEW m \in pending', where'[m] # ReadOnly
      PROVE  mem'[where'[m]] = val'[m]
  <2>1. m \in pending /\ m \in Nodes /\ where'[m] = where[m] /\ val'[m] = val[m] /\ where[m] # ReadOnly
    BY <1>2, <1>6, GroundFacts
  <2>2. where[m] \in Addresses /\ mem[where[m]] = val[m]
    BY <2>1, WhereCells, GroundFacts
  <2>3. where[m] \notin C
    <3>1. SUFFICES ASSUME NEW j \in DOMAIN variables, variables[j].of = c, variables[j].role # "accu",
                          where[m] = SlotOf(j)
                   PROVE FALSE
      BY <1>1
    <3> QED
      BY <2>1, <3>1, VariableKept
  <2> QED
    BY <1>3, <2>1, <2>2, <2>3
<1> QED
  BY <1>2, <1>3, <1>4, <1>5, <1>6, GroundFacts DEF Effected

\* A block that yields the address of its last block's node.
LEMMA SameEffect ==
    ASSUME Ground, EvalLeaf \/ Same \/ Leave
    PROVE  Effected
<1>1. PICK n \in Nodes : n = Top.n
  BY GroundFacts
<1>2. tree \in Trees /\ Shaped(Top) /\ PlaceOf(n) /\ NotYet(n) /\ stage = "run"
  BY GroundFacts DEF Ground, Acting
<1>3. CASE EvalLeaf
  <2>1. YieldInPlace(n, storage[n].at, {})
    BY <1>1, <1>3 DEF EvalLeaf
  <2>2. \/ Op(n) \in {"const", "ident"}
        \/ Op(n) \in Aggregates /\ storage[n].kind = "rodata"
    BY <1>1, <1>3 DEF EvalLeaf
  <2>3. Spot(n, storage[n].at)
    <3>1. CASE Op(n) = "const"
      <4>1. storage[n] = Rodata
        BY <1>2, <3>1 DEF PlaceOf
      <4> QED
        BY <4>1 DEF Rodata, Spot
    <3>2. CASE Op(n) = "ident"
      <4>1. storage[n] = Local(SlotOf(binding[n]))
        BY <1>2, <3>2 DEF PlaceOf
      <4>2. storage[n].at = SlotOf(binding[n])
        BY <4>1 DEF Local
      <4>3. n \in Below(n)
        BY <1>2, BelowSelf
      <4> QED
        BY <3>2, <4>2, <4>3 DEF Spot
    <3>3. CASE Op(n) \in Aggregates /\ storage[n].kind = "rodata"
      <4>1. Op(n) \in Writing
        BY <3>3 DEF Writing
      <4>2. storage[n] = None \/ storage[n] = Rodata \/ n \in Slotted
        BY <1>2, <4>1 DEF PlaceOf
      <4>3. storage[n] = Rodata
        BY <3>3, <4>2 DEF None, Slotted
      <4> QED
        BY <4>3 DEF Rodata, Spot
    <3> QED
      BY <2>2, <3>1, <3>2, <3>3
  <2> QED
    BY <2>1, <2>3, InPlaceEffect
<1>4. CASE Same
  <2>1. Op(n) = "dyn" /\ Top.ks = <<Kid(n, 1)>>
    BY <1>1, <1>2, <1>4 DEF Same, Running, Doing, Shaped
  <2>2. PICK k : k = Kid(n, 1)
    OBVIOUS
  <2>3. k \in KidSet(n) /\ k \in Nodes /\ Below(k) \subseteq Below(n)
    BY <1>2, <2>1, <2>2, OnlyKid, BelowKid
  <2>4. YieldInPlace(n, where[k], ToSet(Top.ks))
    BY <1>1, <1>4, <2>1, <2>2 DEF Same
  <2>5. Spot(k, where[k])
    <3>1. ~Token(k)
      <4>1. SUFFICES ASSUME NEW c \in Comps, k = AccuInit(c) PROVE FALSE
        BY DEF Token
      <4>2. k \in KidSet(c) /\ c \in Nodes /\ Op(c) = "comp"
        BY <1>2, <4>1, CompNode, CompKids
      <4>3. c = n
        BY <1>2, <2>3, <4>2, OneParent
      <4> QED
        BY <2>1, <4>2, <4>3
    <3> QED
      BY <2>3, <3>1, GroundFacts
  <2>6. CASE where[k] = ReadOnly
    BY <2>4, <2>6, InPlaceEffect DEF Spot
  <2>7. CASE \E r \in Slotted : Stands(k, r) /\ Op(r) # "comp" /\ where[k] = storage[r].at
    <3>1. PICK r \in Slotted : Stands(k, r) /\ Op(r) # "comp" /\ where[k] = storage[r].at
      BY <2>7
    <3>2. CASE r = k
      <4>1. storage[n] = storage[k]
        BY <1>2, <2>1, <2>2, <3>1, <3>2 DEF NotYet, Joined
      <4>2. n \in Slotted /\ where[k] = storage[n].at
        BY <3>1, <3>2, <4>1 DEF Slotted
      <4>3. Spot(n, where[k])
        BY <2>1, <4>2 DEF Spot, Stands
      <4> QED
        BY <2>4, <4>3, InPlaceEffect
    <3>3. CASE \E c \in Comps : c \in Below(k) /\ r = Result(c)
      <4>1. Stands(n, r)
        BY <2>1, <2>3, <3>3 DEF Stands
      <4>2. Spot(n, where[k])
        BY <3>1, <4>1 DEF Spot
      <4> QED
        BY <2>4, <4>2, InPlaceEffect
    <3> QED
      BY <3>1, <3>2, <3>3 DEF Stands
  <2>8. CASE \E o \in Below(k) : Op(o) = "ident" /\ where[k] = SlotOf(binding[o])
    <3>1. Spot(n, where[k])
      BY <2>1, <2>3, <2>8 DEF Spot
    <3> QED
      BY <2>4, <3>1, InPlaceEffect
  <2> QED
    BY <2>5, <2>6, <2>7, <2>8 DEF Spot
<1>5. CASE Leave
  <2>1. Op(n) = "comp" /\ Top.ks = <<Result(n), AccuInit(n)>>
    BY <1>1, <1>2, <1>5 DEF Leave, Running, Doing, Shaped
  <2>2. PICK k : k = Result(n)
    OBVIOUS
  <2>3. k \in KidSet(n) /\ k \in Nodes /\ Below(k) \subseteq Below(n) /\ n \in Below(n)
    BY <1>2, <2>1, <2>2, ResultKid, BelowKid, BelowSelf
  <2>4. YieldInPlace(n, where[k], ToSet(Top.ks))
    BY <1>1, <1>5, <2>1, <2>2 DEF Leave
  <2>5. Spot(k, where[k])
    <3>1. ~Token(k)
      <4>1. SUFFICES ASSUME NEW c \in Comps, k = AccuInit(c) PROVE FALSE
        BY DEF Token
      <4>2. k \in KidSet(c) /\ c \in Nodes /\ Op(c) = "comp"
        BY <1>2, <4>1, CompNode, CompKids
      <4>3. c = n
        BY <1>2, <2>3, <4>2, OneParent
      <4>4. Kids(c) \in Seq(Nat) /\ Len(Kids(c)) = 5
        BY <1>2, <4>2, Shape DEF Arity
      <4>5. PICK i \in 1 .. Len(Kids(c)) : i = 2
        BY <4>4
      <4>6. PICK j \in 1 .. Len(Kids(c)) : j = 5
        BY <4>4
      <4>7. Kids(c)[i] # Kids(c)[j]
        <5>1. Kids(c)[i] = Kids(c)[j] => i = j
          BY <1>2, <4>2, KidsInOrder
        <5> QED
          BY <4>5, <4>6, <5>1
      <4>8. Kids(c)[i] = k /\ Kids(c)[j] = k
        BY <2>2, <4>1, <4>3, <4>5, <4>6 DEF AccuInit, Result, Kid, Kids
      <4> QED
        BY <4>7, <4>8
    <3> QED
      BY <2>3, <3>1, GroundFacts
  <2>6. Spot(n, where[k])
    <3>1. CASE where[k] = ReadOnly
      BY <3>1 DEF Spot
    <3>2. CASE \E r \in Slotted : Stands(k, r) /\ Op(r) # "comp" /\ where[k] = storage[r].at
      <4>1. PICK r \in Slotted : Stands(k, r) /\ Op(r) # "comp" /\ where[k] = storage[r].at
        BY <3>2
      <4>2. Stands(n, r)
        <5>1. n \in Comps
          BY <2>1 DEF Comps
        <5> QED
          BY <2>1, <2>2, <2>3, <4>1, <5>1 DEF Stands
      <4> QED
        BY <4>1, <4>2 DEF Spot
    <3>3. CASE \E o \in Below(k) : Op(o) = "ident" /\ where[k] = SlotOf(binding[o])
      BY <2>1, <2>3, <3>3 DEF Spot
    <3> QED
      BY <2>5, <3>1, <3>2, <3>3 DEF Spot
  <2> QED
    BY <2>4, <2>6, InPlaceEffect
<1> QED
  BY <1>3, <1>4, <1>5

\* A step that writes the cell of its own node.
LEMMA WriteEffect ==
    ASSUME Ground, Kernel \/ BranchPoison \/ EvalAggregate
    PROVE  Effected
<1>1. PICK n \in Nodes : n = Top.n
  BY GroundFacts
<1>2. tree \in Trees /\ Shaped(Top) /\ Proper(Top)
  BY GroundFacts
<1>3. CASE Kernel
  <2>1. Top.do = "kernel" /\ Op(n) \in Writing
    BY <1>1, <1>2, <1>3 DEF Kernel, Running, Doing, Proper
  <2>2. Writes(Top, n)
    BY <1>1, <2>1 DEF Writes
  <2>3. Yield(n, storage[n].at, ToSet(Top.ks)) /\ \A m : Consumes(Top, m) => m \in ToSet(Top.ks)
    BY <1>1, <1>3 DEF Kernel, Consumes
  <2> QED
    BY <1>1, <2>1, <2>2, <2>3, YieldEffect
<1>4. CASE BranchPoison
  <2>1. Top.do = "branch" /\ Op(n) \in Writing
    BY <1>1, <1>2, <1>4 DEF BranchPoison, Running, Doing, Shaped, Writing, Calls
  <2>2. Writes(Top, n)
    BY <1>1, <2>1 DEF Writes
  <2>3. Yield(n, storage[n].at, ToSet(Top.ks)) /\ \A m : Consumes(Top, m) => m \in ToSet(Top.ks)
    BY <1>1, <1>4 DEF BranchPoison, Consumes
  <2> QED
    BY <1>1, <2>1, <2>2, <2>3, YieldEffect
<1>5. CASE EvalAggregate
  <2>1. Top.do = "eval" /\ Op(n) \in Writing
    BY <1>1, <1>5 DEF EvalAggregate, Running, Doing, Writing
  <2>2. Writes(Top, n)
    BY <1>1, <1>2, <2>1, BelowSelf DEF Writes
  <2>3. Yield(n, storage[n].at, {}) /\ \A m : Consumes(Top, m) => m \in {}
    BY <1>1, <1>5, <2>1 DEF EvalAggregate, Consumes, Consumers
  <2> QED
    BY <1>1, <2>1, <2>2, <2>3, YieldEffect
<1> QED
  BY <1>3, <1>4, <1>5

\* A step of a comprehension, which writes variables of its own at most.
LEMMA LoopEffect ==
    ASSUME Ground, PrologueAbsorbs \/ PrologueStarts \/ IntoAccu \/ CopyStep \/ LoopStep
    PROVE  Effected
<1>1. PICK c \in Nodes : c = Top.n
  BY GroundFacts
<1>2. Shaped(Top) /\ Top.do \in {"prologue", "into", "copy", "loop"}
  BY GroundFacts DEF PrologueAbsorbs, PrologueStarts, IntoAccu, CopyStep, LoopStep, Running, Doing
<1>3. c \in Comps /\ Writes(Top, c)
  BY <1>1, <1>2 DEF Shaped, Comps, Writes
<1>4. CASE LoopStep
  <2>1. Top.do = "loop" /\ NextElement(c)
    BY <1>1, <1>4 DEF LoopStep, Running, Doing
  <2>2. \A m : ~Consumes(Top, m)
    BY <2>1 DEF Consumes, Consumers
  <2> QED
    BY <1>3, <2>1, <2>2, NextEffect
<1>5. CASE AccuIs(c, ToSet(Top.ks))
  <2>1. \A m : Consumes(Top, m) => m \in ToSet(Top.ks)
    BY DEF Consumes
  <2> QED
    BY <1>3, <1>5, <2>1, AccuEffect
<1>6. CASE CopyStep /\ storage[Top.ks[1]] = None
  <2>1. pending' \subseteq pending /\ UNCHANGED <<mem, where, val>>
    BY <1>6 DEF CopyStep
  <2> QED
    BY <2>1, SilentEffect
<1>7. LoopStep \/ AccuIs(c, ToSet(Top.ks)) \/ (CopyStep /\ storage[Top.ks[1]] = None)
  BY <1>1 DEF PrologueAbsorbs, PrologueStarts, IntoAccu, CopyStep
<1> QED
  BY <1>4, <1>5, <1>6, <1>7

\* Every step of the running code leaves what waits as it was.
LEMMA AllEffects ==
    ASSUME Ground, RunStep
    PROVE  Effected
<1>1. CASE EvalLeaf \/ Same \/ Leave
  BY <1>1, SameEffect
<1>2. CASE Kernel \/ BranchPoison \/ EvalAggregate
  BY <1>2, WriteEffect
<1>3. CASE PrologueAbsorbs \/ PrologueStarts \/ IntoAccu \/ CopyStep \/ LoopStep
  BY <1>3, LoopEffect
<1>4. CASE EvalCall \/ Fill \/ PutOperands \/ EvalDyn \/ EvalCond \/ BranchArm \/ EvalComp \/ LoopExit
  <2>1. pending' \subseteq pending /\ UNCHANGED <<mem, where, val>>
    BY <1>4 DEF EvalCall, Fill, PutOperands, EvalDyn, EvalCond, BranchArm, EvalComp, LoopExit, runVars
  <2> QED
    BY <2>1, SilentEffect
<1> QED
  BY <1>1, <1>2, <1>3, <1>4 DEF RunStep

\* The possible places of an operand do not change as the code runs.
LEMMA SpotKept ==
    ASSUME UNCHANGED layoutVars, NEW m, NEW a, Spot(m, a)
    PROVE  Spot(m, a)'
<1>1. tree' = tree /\ storage' = storage /\ binding' = binding
  BY DEF layoutVars, nameVars
<1>2. Slotted' = Slotted /\ Comps' = Comps
  BY <1>1, SameTree DEF Slotted
<1>3. \A n : Op(n)' = Op(n) /\ Below(n)' = Below(n) /\ Result(n)' = Result(n)
  <2>1. \A n : Result(n)' = Result(n)
    BY <1>1 DEF Result, Kid
  <2> QED
    BY <1>1, <2>1, SameTree
<1>4. \A r : Stands(m, r) => Stands(m, r)'
  BY <1>2, <1>3 DEF Stands
<1> QED
  BY <1>1, <1>2, <1>3, <1>4, SameSlots DEF Spot, ReadOnly

\* Every step of the running code keeps SafeInv.
LEMMA SafeRunSteps ==
    ASSUME RunStep, LayoutInv, PairInv, PlaceInv, RunInv, NameInv, SafeInv
    PROVE  SafeInv'
<1>1. stage = "run" /\ stage' = "run" /\ UNCHANGED layoutVars /\ todo # <<>>
  BY RunFrame
<1>2. /\ tree' = tree /\ storage' = storage /\ variables' = variables /\ binding' = binding
      /\ tree \in Trees /\ variables \in Seq(VarType)
  BY <1>1 DEF layoutVars, nameVars, LayoutInv, Typed
<1>3. Acting
  BY <1>1, <1>2 DEF Acting, RunInv, SafeInv
<1>4. \A n \in Nodes : ~Waits(n)
  BY <1>1 DEF Waits
<1>5. \A c \in Comps : c \in Nodes
  BY DEF Comps
<1>6. Ground
  BY <1>1, <1>3, <1>4, <1>5 DEF Ground, LayoutInv, PairInv, PlaceInv, NameInv, SafeInv
<1>7. Effected
  BY <1>6, AllEffects
<1>8. PICK s : Push(s) /\ Handover(s) /\ Waiting(s)
  BY <1>3, AllHands DEF Handed
<1>9. Guarded(todo)' /\ Sheltered(todo)' /\ (\A i \in 1 .. Len(todo) : Proper(todo[i]))'
  <2>1. /\ todo \in Seq(ItemType) /\ Guarded(todo) /\ Sheltered(todo)
        /\ \A i \in 1 .. Len(todo) : Proper(todo[i])
    BY <1>3 DEF Acting, Nested, SafeRun
  <2> QED
    BY <1>1, <1>2, <1>8, <2>1, HandingOver
<1>10. Nodes' = Nodes /\ Addresses' = Addresses /\ \A i : SlotOf(i)' = SlotOf(i)
  BY <1>1, <1>2, SameTree, SameSlots
<1>11. ASSUME NEW m \in Nodes PROVE Housed(m)'
  <2>1. CASE Token(m)'
    BY <2>1 DEF Housed
  <2>2. CASE Spot(m, where'[m])
    <3>1. PICK a : a = where'[m]
      OBVIOUS
    <3>2. Spot(m, a)'
      BY <1>1, <2>2, <3>1, SpotKept
    <3> QED
      BY <3>1, <3>2 DEF Housed
  <2> QED
    BY <1>7, <2>1, <2>2 DEF Effected
<1>12. Unwritten'
  BY <1>2, <1>7, <1>10 DEF Effected, Unwritten
<1>13. Intact'
  BY <1>7 DEF Effected, Intact, ReadOnly
<1>14. (DOMAIN mem = Addresses)' /\ (DOMAIN val = Nodes)' /\ (pending \subseteq Nodes)'
  BY <1>7, <1>10 DEF Effected
<1>15. (\A m \in Nodes : Housed(m))'
  BY <1>10, <1>11
<1>16. SafeRun'
  BY <1>9, <1>12, <1>13, <1>14, <1>15 DEF SafeRun
<1> QED
  BY <1>1, <1>14, <1>16 DEF SafeInv

\* The module starts with no operand, and with every cell unwritten.
LEMMA EmitSafe ==
    ASSUME Emit, LayoutInv, NameInv, SafeInv
    PROVE  SafeInv'
<1>1. /\ UNCHANGED layoutVars /\ where' = where /\ val' = val /\ pending' = pending
      /\ stage = "emit" /\ DOMAIN val = Nodes
  BY DEF Emit, SafeInv
<1>2. /\ tree' = tree /\ variables' = variables /\ tree \in Trees /\ variables \in Seq(VarType)
  BY <1>1 DEF layoutVars, nameVars, LayoutInv, Typed
<1>3. Nodes' = Nodes /\ Addresses' = Addresses /\ \A i : SlotOf(i)' = SlotOf(i)
  BY <1>1, <1>2, SameTree, SameSlots
<1>4. pending = {} /\ \A n \in Nodes : where[n] = ReadOnly
  BY <1>1 DEF SafeInv
<1>5. ASSUME stage' = "run" PROVE SafeRun'
  <2>1. todo' = <<Eval(1)>> /\ mem' = [a \in Addresses |-> 0]
    BY <1>5 DEF Emit
  <2>2. PICK e : e = Eval(1)
    OBVIOUS
  <2>3. e \in ItemType /\ Proper(e)
    <3>1. 1 \in Nodes
      BY <1>2, NodeNat
    <3> QED
      BY <2>2, <3>1, EvalItem
  <2>4. PICK u : u = <<e>>
    OBVIOUS
  <2>5. u \in Seq(ItemType) /\ Len(u) = 1 /\ u[1] = e /\ \A i \in 1 .. Len(u) : i = 1
    <3>1. Len(u) = 1 /\ u[1] = e /\ u \in Seq(ItemType)
      BY <2>3, <2>4, OneItem
    <3> QED
      BY <3>1
  <2>6. todo' = u
    BY <2>1, <2>2, <2>4
  <2>7. (\A i \in 1 .. Len(u) : Proper(u[i]))'
    BY <1>2, <2>3, <2>5, SameRun
  <2>8. Guarded(u)'
    BY <2>5 DEF Guarded
  <2>9. Sheltered(u)'
    BY <1>1, <1>4 DEF Sheltered
  <2>10. ASSUME NEW m \in Nodes PROVE Housed(m)'
    <3>1. where'[m] = ReadOnly
      BY <1>1, <1>4
    <3> QED
      BY <3>1 DEF Housed, Spot, ReadOnly
  <2>11. ASSUME NEW i \in DOMAIN variables, variables[i].role = "free"
         PROVE  SlotOf(i) \in Addresses
    <3>1. Conforms(variables[i])
      BY <1>2 DEF NameInv, VarsConform
    <3>2. i \in 1 .. Len(variables) /\ ~variables[i].moves
      BY <1>2, <2>11, <3>1 DEF Conforms
    <3>3. SlotOf(i) \in Nat /\ SlotOf(i) < SlotsBase /\ SlotOf(i) >= 1
      BY <1>2, <3>2, SlotsApart
    <3>4. peak \in Nat
      BY DEF LayoutInv, Sound, Slots
    <3>5. SlotsBase \in Nat
      BY <1>2, BaseNat
    <3> QED
      BY <3>3, <3>4, <3>5 DEF Addresses
  <2>12. Unwritten'
    BY <1>2, <1>3, <2>1, <2>11 DEF Unwritten
  <2>13. Intact'
    BY <1>1, <1>4 DEF Intact
  <2>14. (DOMAIN mem = Addresses)' /\ (pending \subseteq Nodes)'
    BY <1>1, <1>3, <1>4, <2>1
  <2>15. (\A m \in Nodes : Housed(m))'
    BY <1>3, <2>10
  <2> QED
    BY <2>6, <2>7, <2>8, <2>9, <2>12, <2>13, <2>14, <2>15 DEF SafeRun
<1>6. (DOMAIN val = Nodes)' /\ pending' = {} /\ \A n \in Nodes' : where'[n] = ReadOnly
  BY <1>1, <1>3, <1>4
<1> QED
  BY <1>5, <1>6 DEF SafeInv, ReadOnly

\* A stuttering step.
LEMMA SafeStutters ==
    ASSUME UNCHANGED vars, SafeInv
    PROVE  SafeInv'
<1>1. /\ UNCHANGED layoutVars /\ where' = where /\ val' = val /\ pending' = pending /\ mem' = mem
      /\ stage' = stage /\ todo' = todo /\ tree' = tree /\ variables' = variables
  BY DEF vars, layoutVars, nameVars
<1>2. Nodes' = Nodes /\ Addresses' = Addresses /\ \A i : SlotOf(i)' = SlotOf(i)
  BY <1>1, SameTree, SameSlots
<1>3. ASSUME SafeRun PROVE SafeRun'
  <2>1. PICK t : t = todo
    OBVIOUS
  <2>2. Guarded(t) /\ Sheltered(t) /\ \A i \in 1 .. Len(t) : Proper(t[i])
    BY <1>3, <2>1 DEF SafeRun
  <2>3. \A m : Token(m) => Token(m)'
    BY <1>1, TokenKept
  <2>4. Guarded(t)' /\ Sheltered(t)' /\ (\A i \in 1 .. Len(t) : Proper(t[i]))'
    <3>1. Guarded(t)'
      BY <1>1, <1>2, <2>2, SameRun DEF Guarded
    <3>2. Sheltered(t)'
      BY <1>1, <1>2, <2>2, <2>3, SameRun DEF Sheltered
    <3> QED
      BY <1>1, <2>2, <3>1, <3>2, SameRun
  <2>5. ASSUME NEW m \in Nodes PROVE Housed(m)'
    <3>1. Token(m) \/ Spot(m, where[m])
      BY <1>3 DEF SafeRun, Housed
    <3>2. PICK a : a = where[m]
      OBVIOUS
    <3>3. Spot(m, a) => Spot(m, a)'
      BY <1>1, SpotKept
    <3> QED
      BY <1>1, <2>3, <3>1, <3>2, <3>3 DEF Housed
  <2>6. (\A m \in Nodes : Housed(m))'
    BY <1>2, <2>5
  <2>7. Unwritten' /\ Intact'
    BY <1>1, <1>2, <1>3 DEF SafeRun, Unwritten, Intact, ReadOnly
  <2>8. (DOMAIN mem = Addresses)' /\ (pending \subseteq Nodes)'
    BY <1>1, <1>2, <1>3 DEF SafeRun
  <2> QED
    BY <1>1, <2>1, <2>4, <2>6, <2>7, <2>8 DEF SafeRun
<1> QED
  BY <1>1, <1>2, <1>3 DEF SafeInv, ReadOnly

\* SafeInv is inductive relative to the five invariants above.
LEMMA SafeStep ==
    ASSUME LayoutInv, PairInv, PlaceInv, RunInv, NameInv, SafeInv, [Next]_vars
    PROVE  SafeInv'
<1>1. CASE RunStep
  BY <1>1, SafeRunSteps
<1>2. CASE Emit
  BY <1>2, EmitSafe
<1>3. CASE UNCHANGED vars
  BY <1>3, SafeStutters
<1>4. CASE Return
  <2>1. tree' = tree /\ val' = val /\ stage' = "done"
    BY <1>4 DEF Return, layoutVars, nameVars, runVars
  <2> QED
    BY <2>1, SameTree DEF SafeInv
<1>5. CASE \/ ResolvePre \/ EnterScope \/ LeaveScope \/ ResolvePost \/ StartLayout
           \/ SelectPre \/ SelectPost \/ AggregatePre \/ AggregatePost
           \/ LocalsPre \/ LocalsPost \/ NextPass
  <2>1. /\ tree' = tree /\ UNCHANGED <<where, val, pending>>
        /\ stage \notin {"run", "done"} /\ stage' \notin {"run"}
    <3>1. CASE ResolvePre \/ EnterScope \/ LeaveScope \/ ResolvePost \/ StartLayout
      BY <3>1 DEF ResolvePre, EnterScope, LeaveScope, ResolvePost, StartLayout, Doing,
         layoutVars, nameVars, runVars
    <3>2. CASE SelectPre \/ SelectPost \/ AggregatePre \/ AggregatePost
      BY <3>2 DEF SelectPre, SelectPost, AggregatePre, AggregatePost, Doing,
         layoutVars, nameVars, runVars
    <3>3. CASE LocalsPre \/ LocalsPost \/ NextPass
      BY <3>3 DEF LocalsPre, LocalsPost, NextPass, Doing, layoutVars, nameVars, runVars
    <3> QED
      BY <1>5, <3>1, <3>2, <3>3
  <2> QED
    BY <2>1, SameTree DEF SafeInv, ReadOnly
<1> QED
  BY <1>1, <1>2, <1>3, <1>4, <1>5 DEF Next, RunStep

\* No code writes what waits.
LEMMA SafeInvariant == Spec => []SafeInv
<1>1. Init => SafeInv
  <2>1. SUFFICES ASSUME Init PROVE SafeInv
    OBVIOUS
  <2>2. /\ where = [n \in Nodes |-> ReadOnly] /\ stage = "resolve" /\ pending = {}
        /\ val = [n \in Nodes |-> 0]
    BY <2>1 DEF Init
  <2> QED
    BY <2>2 DEF SafeInv
<1>2. /\ LayoutInv /\ PairInv /\ PlaceInv /\ RunInv /\ NameInv /\ SafeInv /\ [Next]_vars
      => SafeInv'
  BY SafeStep
<1> QED
  BY <1>1, <1>2, LayoutInvariant, PairInvariant, PlaceInvariant, RunInvariant, NameInvariant, PTL
     DEF Spec

\* For every expression and every run of its code, between the code that
\* leaves an operand in a cell and the code that consumes it no other code
\* writes that cell, and none writes a marshalled variable: what LayoutPass
\* gives back early (SlotAllocator::Release) is never handed out to code that
\* runs while it is needed, whatever branches are taken and however often a
\* comprehension iterates.
THEOREM OperandsAlwaysIntact == Spec => []OperandsIntact
<1>1. SafeInv => OperandsIntact
  BY DEF SafeInv, SafeRun, Unwritten, Intact, OperandsIntact
<1> QED
  BY <1>1, SafeInvariant, PTL

-----------------------------------------------------------------------------
(* What the compiler refuses.  By the time the lowering reads it, every    *)
(* node has its storage, but for dyn of a comprehension.                   *)

Laid(n) ==
    /\ Op(n) = "select" /\ (stage = "select" => n \notin Unposted(todo)) => storage[n] # None
    /\ Op(n) \in Aggregates /\ stage # "select" /\ (stage = "aggregate" => n \notin Unvisited(todo))
         => storage[n] # None
    /\ Op(n) \in Calls /\ stage # "select" /\ (stage = "aggregate" => n \notin Unposted(todo))
         => storage[n] # None
    /\ Op(n) = "dyn" /\ Op(Kid(n, 1)) = "comp" => storage[n] = None
    /\ /\ Op(n) = "comp"
       /\ stage \in {"emit", "run"} \/ (stage = "locals" /\ n \notin Unposted(todo))
       => storage[Result(n)] # None
LaidInv == stage \in Passes \cup {"emit", "run"} => \A n \in Nodes : Laid(n)

\* A step of a pass touches the node on top only.
LEMMA LaidOne ==
    ASSUME tree' = tree, stage \in Passes, stage' = stage, LaidInv, NEW p \in Nodes,
           \A n \in Nodes : n # p => storage'[n] = storage[n],
           storage'[p] # None \/ storage'[p] = storage[p],
           \A n \in Nodes : n # p /\ n \in Unposted(todo) => n \in Unposted(todo)',
           \A n \in Nodes : n # p /\ n \in Unvisited(todo) => n \in Unvisited(todo)',
           tree \in Trees, Laid(p)'
    PROVE  LaidInv'
<1>1. /\ Nodes' = Nodes
      /\ \A n : Op(n)' = Op(n) /\ Kid(n, 1)' = Kid(n, 1) /\ Result(n)' = Result(n)
  BY SameTree DEF Kid, Result
<1>2. SUFFICES ASSUME NEW n \in Nodes, n # p PROVE Laid(n)'
  BY <1>1 DEF LaidInv
<1>3. Laid(n)
  BY DEF LaidInv
<1>4. storage'[n] = storage[n]
  BY <1>2
<1>5. Op(n) = "comp" => Result(n) \in Nodes
  BY ResultKid
<1>6. Op(n) = "comp" /\ storage[Result(n)] # None => storage'[Result(n)] # None
  BY <1>5
<1>7. \A q : Op(q)' = Op(q)
  BY <1>1
<1>8. (n \in Unposted(todo) => n \in Unposted(todo)') /\ (n \in Unvisited(todo) => n \in Unvisited(todo)')
  BY <1>2
<1> QED
  BY <1>1, <1>3, <1>4, <1>6, <1>8 DEF Laid, None

\* The select pass.
LEMMA SelectLays ==
    ASSUME LayoutInv, PlaceInv, LaidInv, SelectPre \/ SelectPost
    PROVE  LaidInv'
<1>1. stage = "select" /\ stage' = "select" /\ todo # <<>> /\ tree' = tree
  BY DEF SelectPre, SelectPost, Doing, layoutVars, nameVars
<1>2. tree \in Trees /\ Passing(todo) /\ DOMAIN storage = Nodes
  BY <1>1 DEF LayoutInv, Passes, Typed
<1>3. PICK p : p = Top.n
  OBVIOUS
<1>4. \A n : Op(n)' = Op(n) /\ Kid(n, 1)' = Kid(n, 1)
  BY <1>1, SameTree DEF Kid
<1>5. CASE SelectPre
  <2>1. Top.do = "pre" /\ Descend(Top.n) /\ storage' = storage
    BY <1>5 DEF SelectPre, Doing, layoutVars
  <2>2. /\ Unposted(todo)' = Unposted(todo) /\ Unvisited(todo)' = Unvisited(todo) \ {p} /\ p \in Nodes
    BY <1>1, <1>2, <1>3, <2>1, PassDescends
  <2>3. Laid(p)
    BY <1>1, <2>2 DEF LaidInv, Passes
  <2>4. Laid(p)'
    BY <1>1, <1>4, <2>1, <2>2, <2>3 DEF Laid, None
  <2> QED
    BY <1>1, <1>2, <2>1, <2>2, <2>4, LaidOne DEF Passes
<1>6. CASE SelectPost
  <2>1. /\ Top.do = "post" /\ Push(<<>>)
        /\ IF Op(Top.n) = "select" THEN Stamp(Top.n, Acquire(Release(Slots, Kids(Top.n))))
           ELSE storage' = storage
    BY <1>6 DEF SelectPost, Doing
  <2>2. /\ Unposted(todo)' = Unposted(todo) \ {p} /\ Unvisited(todo)' = Unvisited(todo) /\ p \in Nodes
    BY <1>1, <1>2, <1>3, <2>1, PassPosts
  <2>3. Laid(p)
    BY <1>1, <2>2 DEF LaidInv, Passes
  <2>4. CASE Op(p) = "select"
    <3>1. PICK g : g = Acquire(Release(Slots, Kids(p))).got
      OBVIOUS
    <3>2. storage' = [storage EXCEPT ![p] = Slot(g)]
      BY <1>3, <2>1, <2>4, <3>1 DEF Stamp
    <3>3. storage'[p] = Slot(g) /\ \A n \in Nodes : n # p => storage'[n] = storage[n]
      BY <1>2, <2>2, <3>2
    <3>4. storage'[p] # None
      BY <3>3 DEF Slot, None
    <3>5. Laid(p)'
      BY <1>1, <1>4, <2>4, <3>4 DEF Laid, Aggregates, Calls, None
    <3> QED
      BY <1>1, <1>2, <2>2, <3>3, <3>4, <3>5, LaidOne DEF Passes
  <2>5. CASE Op(p) # "select"
    <3>1. storage' = storage
      BY <1>3, <2>1, <2>5
    <3>2. Laid(p)'
      BY <1>1, <1>4, <2>3, <2>5, <3>1 DEF Laid, None
    <3> QED
      BY <1>1, <1>2, <2>2, <3>1, <3>2, LaidOne DEF Passes
  <2> QED
    BY <2>4, <2>5
<1> QED
  BY <1>5, <1>6

\* The aggregate pass on the way down.
LEMMA AggregatePreLays ==
    ASSUME LayoutInv, PlaceInv, LaidInv, AggregatePre
    PROVE  LaidInv'
<1>1. /\ stage = "aggregate" /\ stage' = "aggregate" /\ todo # <<>> /\ Top.do = "pre"
      /\ Descend(Top.n) /\ PreVisitExpr(Top.n) /\ tree' = tree
  BY DEF AggregatePre, Doing, nameVars
<1>2. tree \in Trees /\ Passing(todo) /\ DOMAIN storage = Nodes
  BY <1>1 DEF LayoutInv, Passes, Typed
<1>3. PICK p : p = Top.n
  OBVIOUS
<1>4. \A n : Op(n)' = Op(n) /\ Kid(n, 1)' = Kid(n, 1)
  BY <1>1, SameTree DEF Kid
<1>5. Unposted(todo)' = Unposted(todo) /\ Unvisited(todo)' = Unvisited(todo) \ {p} /\ p \in Nodes
  BY <1>1, <1>2, <1>3, PassDescends
<1>6. Laid(p)
  BY <1>1, <1>5 DEF LaidInv, Passes
<1>7. CASE ~ (Op(p) \in Aggregates /\ storage[p].kind # "rodata")
  <2>1. storage' = storage
    BY <1>1, <1>3, <1>7 DEF PreVisitExpr
  <2>2. Op(p) \in Aggregates => storage[p] # None
    BY <1>7 DEF None
  <2>3. Laid(p)'
    BY <1>1, <1>4, <1>5, <1>6, <2>1, <2>2 DEF Laid, None
  <2> QED
    BY <1>1, <1>2, <1>5, <2>1, <2>3, LaidOne DEF Passes
<1>8. CASE Op(p) \in Aggregates /\ storage[p].kind # "rodata"
  <2>1. PICK g : g = Acquire(Slots).got
    OBVIOUS
  <2>2. storage' = [storage EXCEPT ![p] = Slot(g)]
    BY <1>1, <1>3, <1>8, <2>1 DEF PreVisitExpr, Stamp
  <2>3. storage'[p] = Slot(g) /\ \A n \in Nodes : n # p => storage'[n] = storage[n]
    BY <1>2, <1>5, <2>2
  <2>4. storage'[p] # None
    BY <2>3 DEF Slot, None
  <2>5. Laid(p)'
    BY <1>1, <1>4, <1>8, <2>4 DEF Laid, Aggregates, Calls, None
  <2> QED
    BY <1>1, <1>2, <1>5, <2>3, <2>4, <2>5, LaidOne DEF Passes
<1> QED
  BY <1>7, <1>8

\* The aggregate pass on the way up: a dyn finds no storage on a comprehension.
LEMMA AggregatePostLays ==
    ASSUME LayoutInv, PlaceInv, LaidInv, AggregatePost
    PROVE  LaidInv'
<1>1. /\ stage = "aggregate" /\ stage' = "aggregate" /\ todo # <<>> /\ Top.do = "post"
      /\ Push(<<>>) /\ PostVisit(Top.n) /\ tree' = tree
  BY DEF AggregatePost, Doing, nameVars
<1>2. tree \in Trees /\ Passing(todo) /\ DOMAIN storage = Nodes
  BY <1>1 DEF LayoutInv, Passes, Typed
<1>3. PICK p : p = Top.n
  OBVIOUS
<1>4. \A n : Op(n)' = Op(n) /\ Kid(n, 1)' = Kid(n, 1)
  BY <1>1, SameTree DEF Kid
<1>5. /\ Unposted(todo)' = Unposted(todo) \ {p} /\ Unvisited(todo)' = Unvisited(todo)
      /\ p \in Nodes /\ p \in Unposted(todo)
  BY <1>1, <1>2, <1>3, PassPosts
<1>6. Laid(p) /\ PlaceOf(p) /\ NotYet(p) /\ PostVisit(p)
  BY <1>1, <1>3, <1>5 DEF LaidInv, PlaceInv, Passes
<1>7. CASE Op(p) \notin Calls \cup {"dyn"}
  <2>1. storage' = storage
    BY <1>6, <1>7 DEF PostVisit
  <2>2. Laid(p)'
    BY <1>1, <1>4, <1>5, <1>6, <1>7, <2>1 DEF Laid, None
  <2> QED
    BY <1>1, <1>2, <1>5, <2>1, <2>2, LaidOne DEF Passes
<1>8. CASE Op(p) \in Calls
  <2>1. Op(p) \notin Aggregates /\ Op(p) \notin {"dyn", "comp", "select"}
    BY <1>8 DEF Calls, Aggregates
  <2>2. PICK g : g = Acquire(Release(Slots, Kids(p))).got
    OBVIOUS
  <2>3. storage' = [storage EXCEPT ![p] = Slot(g)]
    BY <1>6, <1>8, <2>1, <2>2 DEF PostVisit, Stamp
  <2>4. storage'[p] = Slot(g) /\ \A n \in Nodes : n # p => storage'[n] = storage[n]
    BY <1>2, <1>5, <2>3
  <2>5. storage'[p] # None
    BY <2>4 DEF Slot, None
  <2>6. Laid(p)'
    BY <1>1, <1>4, <2>1, <2>5 DEF Laid, None
  <2> QED
    BY <1>1, <1>2, <1>5, <2>4, <2>5, <2>6, LaidOne DEF Passes
<1>9. CASE Op(p) = "dyn"
  <2>1. storage' = [storage EXCEPT ![p] = storage[Kid(p, 1)]]
    BY <1>6, <1>9 DEF PostVisit, Aggregates, Calls
  <2>2. Kid(p, 1) \in Nodes
    BY <1>2, <1>5, <1>9, OnlyKid
  <2>3. storage'[p] = storage[Kid(p, 1)] /\ \A n \in Nodes : n # p => storage'[n] = storage[n]
    BY <1>2, <1>5, <2>1
  <2>4. storage[p] = None
    BY <1>1, <1>5, <1>6, <1>9 DEF NotYet
  <2>5. Op(Kid(p, 1)) = "comp" => storage[Kid(p, 1)] = None
    BY <1>1, <2>2 DEF PlaceInv, NotYet, Passes
  <2>6. Laid(p)'
    BY <1>1, <1>4, <1>9, <2>3, <2>5 DEF Laid, Aggregates, Calls, None
  <2> QED
    BY <1>1, <1>2, <1>5, <2>3, <2>4, <2>6, LaidOne DEF Passes
<1> QED
  BY <1>7, <1>8, <1>9

\* The last pass: it goes on only from a comprehension whose result has a storage.
LEMMA LocalsLay ==
    ASSUME LayoutInv, PlaceInv, LaidInv, LocalsPre \/ LocalsPost
    PROVE  LaidInv'
<1>1. stage = "locals" /\ todo # <<>> /\ tree' = tree
  BY DEF LocalsPre, LocalsPost, Doing, layoutVars, nameVars
<1>2. tree \in Trees /\ Passing(todo) /\ DOMAIN storage = Nodes
  BY <1>1 DEF LayoutInv, Passes, Typed
<1>3. PICK p : p = Top.n
  OBVIOUS
<1>4. \A n : Op(n)' = Op(n) /\ Kid(n, 1)' = Kid(n, 1) /\ Result(n)' = Result(n)
  BY <1>1, SameTree DEF Kid, Result
<1>5. CASE LocalsPre
  <2>1. Top.do = "pre" /\ Descend(Top.n) /\ storage' = storage /\ stage' = stage
    BY <1>5 DEF LocalsPre, Doing, layoutVars
  <2>2. /\ Unposted(todo)' = Unposted(todo) /\ Unvisited(todo)' = Unvisited(todo) \ {p} /\ p \in Nodes
    BY <1>1, <1>2, <1>3, <2>1, PassDescends
  <2>3. Laid(p)
    BY <1>1, <2>2 DEF LaidInv, Passes
  <2>4. Laid(p)'
    BY <1>1, <1>4, <2>1, <2>2, <2>3 DEF Laid, None
  <2> QED
    BY <1>1, <1>2, <2>1, <2>2, <2>4, LaidOne DEF Passes
<1>6. CASE LocalsPost
  <2>1. /\ Top.do = "post" /\ Push(<<>>)
        /\ IF Op(Top.n) = "comp"
             THEN /\ storage' = [storage EXCEPT ![Top.n] = storage[Result(Top.n)]]
                  /\ stage' = IF storage[Result(Top.n)] = None THEN "crash" ELSE stage
             ELSE storage' = storage /\ stage' = stage
    BY <1>6 DEF LocalsPost, Doing, CompStorage
  <2>2. /\ Unposted(todo)' = Unposted(todo) \ {p} /\ Unvisited(todo)' = Unvisited(todo) /\ p \in Nodes
    BY <1>1, <1>2, <1>3, <2>1, PassPosts
  <2>3. Laid(p)
    BY <1>1, <2>2 DEF LaidInv, Passes
  <2>4. CASE Op(p) # "comp"
    <3>1. storage' = storage /\ stage' = stage
      BY <1>3, <2>1, <2>4
    <3>2. Laid(p)'
      BY <1>1, <1>4, <2>2, <2>3, <2>4, <3>1 DEF Laid, None
    <3> QED
      BY <1>1, <1>2, <2>2, <3>1, <3>2, LaidOne DEF Passes
  <2>5. CASE Op(p) = "comp" /\ storage[Result(p)] = None
    <3>1. stage' = "crash"
      BY <1>3, <2>1, <2>5
    <3> QED
      BY <3>1 DEF LaidInv, Passes
  <2>6. CASE Op(p) = "comp" /\ storage[Result(p)] # None
    <3>1. /\ stage' = stage /\ storage' = [storage EXCEPT ![p] = storage[Result(p)]]
      BY <1>3, <2>1, <2>6
    <3>2. Result(p) \in Nodes /\ Result(p) # p
      BY <1>2, <2>2, <2>6, ResultKid
    <3>3. /\ storage'[p] # None /\ storage'[Result(p)] # None
          /\ \A n \in Nodes : n # p => storage'[n] = storage[n]
      BY <1>2, <2>2, <2>6, <3>1, <3>2
    <3>4. Laid(p)'
      BY <1>1, <1>4, <2>6, <3>3 DEF Laid, Aggregates, Calls, None
    <3> QED
      BY <1>1, <1>2, <2>2, <3>1, <3>3, <3>4, LaidOne DEF Passes
  <2> QED
    BY <2>4, <2>5, <2>6
<1> QED
  BY <1>5, <1>6

\* Leaves alone have a storage when the layout starts.
LEMMA StartLays ==
    ASSUME LayoutInv, StartLayout
    PROVE  LaidInv'
<1>1. stage' = "select" /\ tree' = tree /\ storage' = [n \in Nodes |-> LeafStorage(n)] /\ todo' = <<Visit(1)>>
  BY DEF StartLayout, nameVars
<1>2. tree \in Trees
  BY DEF LayoutInv, Typed
<1>3. Nodes' = Nodes /\ \A n : Op(n)' = Op(n) /\ Kid(n, 1)' = Kid(n, 1)
  BY <1>1, SameTree DEF Kid
<1>4. Unposted(todo)' = Nodes
  BY <1>1, <1>2, PassStarts
<1>5. SUFFICES ASSUME NEW n \in Nodes PROVE Laid(n)'
  BY <1>3 DEF LaidInv
<1>6. Op(n) \notin {"const", "ident", "list", "map"} => storage'[n] = None
  BY <1>1 DEF LeafStorage
<1> QED
  BY <1>1, <1>3, <1>4, <1>6 DEF Laid, None

\* At the end of a pass every node has been visited and posted.
LEMMA NextPassLays ==
    ASSUME LayoutInv, LaidInv, NextPass
    PROVE  LaidInv'
<1>1. /\ stage \in Passes /\ todo = <<>> /\ todo' = <<Visit(1)>> /\ tree' = tree /\ storage' = storage
      /\ stage' = CASE stage = "select" -> "aggregate"
                    [] stage = "aggregate" -> "locals"
                    [] OTHER -> "emit"
  BY DEF NextPass, Passes, layoutVars, nameVars
<1>2. tree \in Trees
  BY DEF LayoutInv, Typed
<1>3. /\ Nodes' = Nodes
      /\ \A n : Op(n)' = Op(n) /\ Kid(n, 1)' = Kid(n, 1) /\ Result(n)' = Result(n)
  BY <1>1, SameTree DEF Kid, Result
<1>4. Unposted(todo) = {} /\ Unposted(todo)' = Nodes /\ Unvisited(todo) = {}
  BY <1>1, <1>2, PassStarts DEF Unposted, Unvisited
<1>5. Unvisited(todo)' = Nodes
  <2>1. PICK t : t = <<Visit(1)>>
    OBVIOUS
  <2>2. Unvisited(t) = Nodes
    BY <1>2, <2>1, Starting
  <2>3. Unvisited(t)' = Unvisited(t)
    BY <1>1, SamePassing
  <2>4. Unvisited(todo)' = Unvisited(t)'
    BY <1>1, <2>1
  <2> QED
    BY <2>2, <2>3, <2>4
<1>6. SUFFICES ASSUME NEW n \in Nodes PROVE Laid(n)'
  BY <1>3 DEF LaidInv
<1>7. Laid(n)
  BY <1>1 DEF LaidInv
<1>8. CASE stage = "select" /\ stage' = "aggregate"
  BY <1>1, <1>3, <1>4, <1>5, <1>7, <1>8 DEF Laid, None
<1>9. CASE stage = "aggregate" /\ stage' = "locals"
  BY <1>1, <1>3, <1>4, <1>5, <1>7, <1>9 DEF Laid, None
<1>10. CASE stage = "locals" /\ stage' = "emit"
  BY <1>1, <1>3, <1>4, <1>5, <1>7, <1>10 DEF Laid, None
<1> QED
  BY <1>1, <1>8, <1>9, <1>10 DEF Passes

\* The running code moves no storage.
LEMMA LaterLays ==
    ASSUME LaidInv, tree' = tree, storage' = storage, stage \in {"emit", "run"},
           stage' \in {"run", "done", "crash"}
    PROVE  LaidInv'
<1>1. /\ Nodes' = Nodes
      /\ \A n : Op(n)' = Op(n) /\ Kid(n, 1)' = Kid(n, 1) /\ Result(n)' = Result(n)
  BY SameTree DEF Kid, Result
<1>2. SUFFICES ASSUME NEW n \in Nodes, stage' = "run" PROVE Laid(n)'
  BY <1>1 DEF LaidInv, Passes
<1>3. Laid(n)
  BY DEF LaidInv
<1> QED
  BY <1>1, <1>2, <1>3 DEF Laid, None

\* LaidInv is inductive relative to LayoutInv and PlaceInv.
LEMMA LaidStep ==
    ASSUME LayoutInv, PlaceInv, LaidInv, [Next]_vars
    PROVE  LaidInv'
<1>1. CASE UNCHANGED vars
  <2>1. tree' = tree /\ storage' = storage /\ stage' = stage /\ todo' = todo
    BY <1>1 DEF vars
  <2>2. /\ Nodes' = Nodes
        /\ \A n : Op(n)' = Op(n) /\ Kid(n, 1)' = Kid(n, 1) /\ Result(n)' = Result(n)
    BY <2>1, SameTree DEF Kid, Result
  <2>3. Unposted(todo)' = Unposted(todo) /\ Unvisited(todo)' = Unvisited(todo)
    <3>1. PICK t : t = todo /\ t = todo'
      BY <2>1
    <3>2. Unposted(t)' = Unposted(t) /\ Unvisited(t)' = Unvisited(t)
      BY <2>1, SamePassing
    <3>3. Unposted(todo)' = Unposted(t)' /\ Unvisited(todo)' = Unvisited(t)'
      BY <2>1, <3>1
    <3> QED
      BY <3>1, <3>2, <3>3
  <2>4. \A n \in Nodes : Laid(n) => Laid(n)'
    BY <2>1, <2>2, <2>3 DEF Laid, None
  <2> QED
    BY <2>1, <2>2, <2>4 DEF LaidInv
<1>2. CASE ResolvePre \/ EnterScope \/ LeaveScope \/ ResolvePost
  <2>1. stage' = "resolve"
    BY <1>2 DEF ResolvePre, EnterScope, LeaveScope, ResolvePost, Doing
  <2> QED
    BY <2>1 DEF LaidInv, Passes
<1>3. CASE StartLayout
  BY <1>3, StartLays
<1>4. CASE SelectPre \/ SelectPost \/ AggregatePre \/ AggregatePost
  BY <1>4, SelectLays, AggregatePreLays, AggregatePostLays
<1>5. CASE LocalsPre \/ LocalsPost \/ NextPass
  BY <1>5, LocalsLay, NextPassLays
<1>6. CASE Emit
  <2>1. /\ stage = "emit" /\ stage' \in {"run", "done", "crash"} /\ tree' = tree /\ storage' = storage
    BY <1>6 DEF Emit, layoutVars, nameVars
  <2> QED
    BY <2>1, LaterLays
<1>7. CASE RunStep
  <2>1. /\ stage = "run" /\ stage' = "run" /\ tree' = tree /\ storage' = storage
    BY <1>7, RunFrame DEF layoutVars, nameVars
  <2> QED
    BY <2>1, LaterLays
<1>8. CASE Return
  <2>1. stage' = "done"
    BY <1>8 DEF Return
  <2> QED
    BY <2>1 DEF LaidInv, Passes
<1> QED
  BY <1>1, <1>2, <1>3, <1>4, <1>5, <1>6, <1>7, <1>8 DEF Next, RunStep

\* Every node is laid out by the pass it belongs to.
LEMMA LaidInvariant == Spec => []LaidInv
<1>1. Init => LaidInv
  BY DEF Init, LaidInv, Passes
<1>2. LayoutInv /\ PlaceInv /\ LaidInv /\ [Next]_vars => LaidInv'
  BY LaidStep
<1> QED
  BY <1>1, <1>2, LayoutInvariant, PlaceInvariant, PTL DEF Spec

-----------------------------------------------------------------------------
(* Place, the storage of a node read off the tree.                         *)

Placing(f, n) ==
    IF Op(n) = "ident" THEN "variable"
    ELSE IF Op(n) = "comp" THEN f[Result(n)]
    ELSE IF Op(n) # "dyn" THEN "cell"
    ELSE IF Op(Kid(n, 1)) = "comp" THEN "nowhere" ELSE f[Kid(n, 1)]

Placed(f) ==
    f = [n \in Nodes |->
           IF Op(n) = "ident" THEN "variable"
           ELSE IF Op(n) = "comp" THEN f[Result(n)]
           ELSE IF Op(n) # "dyn" THEN "cell"
           ELSE IF Op(Kid(n, 1)) = "comp" THEN "nowhere" ELSE f[Kid(n, 1)]]

\* Place is what its definition says: what it reads comes later in the tree.
LEMMA PlaceUnfolds ==
    ASSUME tree \in Trees
    PROVE  \A n \in Nodes : Place[n] = Placing(Place, n)
<1>1. PICK l \in Nat : l = Len(tree.op) /\ Nodes = 1 .. l
  BY NodeNat
<1> DEFINE Good(f, i) == f = [n \in Nodes |-> f[n]] /\ \A n \in Nodes : n > i => f[n] = Placing(f, n)
<1> DEFINE Reached == {i \in 0 .. l : \E f : Good(f, i)}
<1>2. l \in Reached
  <2>1. PICK f : f = [n \in Nodes |-> "cell"]
    OBVIOUS
  <2>2. f = [n \in Nodes |-> f[n]]
    BY <2>1
  <2>3. Good(f, l)
    BY <1>1, <2>2
  <2> QED
    BY <1>1, <2>3
<1>3. PICK i \in Reached : \A j \in Reached : i <= j
  <2>1. PICK r : r = Reached
    OBVIOUS
  <2>2. r \subseteq Nat /\ r # {}
    BY <1>2, <2>1
  <2>3. \E i \in r : \A j \in r : i <= j
    BY <2>2, LeastIndex
  <2> QED
    BY <2>1, <2>3
<1>4. i = 0
  <2>1. SUFFICES ASSUME i # 0 PROVE FALSE
    OBVIOUS
  <2>2. i \in Nodes /\ i - 1 \in 0 .. l /\ i \in Nat
    BY <1>1, <1>3, <2>1
  <2>3. PICK f : Good(f, i)
    BY <1>3
  <2>4. PICK g : g = [n \in Nodes |-> IF n = i THEN Placing(f, i) ELSE f[n]]
    OBVIOUS
  <2>5. g[i] = Placing(f, i) /\ \A n \in Nodes : n # i => g[n] = f[n]
    BY <2>2, <2>4
  <2>6. ASSUME NEW n \in Nodes, n >= i PROVE Placing(g, n) = Placing(f, n)
    <3>1. Op(n) = "dyn" => Kid(n, 1) \in Nodes /\ Kid(n, 1) > n
      BY OnlyKid, KidIsLater
    <3>2. Op(n) = "comp" => Result(n) \in Nodes /\ Result(n) > n
      BY ResultKid, KidIsLater
    <3>3. n \in Nat /\ \A k \in Nodes : k > n => k # i
      BY <1>1, <2>2, <2>6
    <3>4. Op(n) = "dyn" => g[Kid(n, 1)] = f[Kid(n, 1)]
      BY <2>5, <3>1, <3>3
    <3>5. Op(n) = "comp" => g[Result(n)] = f[Result(n)]
      BY <2>5, <3>2, <3>3
    <3> QED
      BY <3>4, <3>5 DEF Placing
  <2>7. ASSUME NEW n \in Nodes, n > i - 1 PROVE g[n] = Placing(g, n)
    <3>1. n >= i /\ n \in Nat
      BY <1>1, <2>2, <2>7
    <3>2. Placing(g, n) = Placing(f, n)
      BY <2>6, <3>1
    <3>3. CASE n = i
      BY <2>5, <3>2, <3>3
    <3>4. CASE n # i
      <4>1. n > i
        BY <2>2, <3>1, <3>4
      <4> QED
        BY <2>3, <2>5, <3>2, <3>4, <4>1
    <3> QED
      BY <3>3, <3>4
  <2>8. g = [n \in Nodes |-> g[n]]
    BY <2>4
  <2>9. Good(g, i - 1)
    BY <2>7, <2>8
  <2> QED
    BY <1>3, <2>2, <2>9
<1>5. PICK f : Good(f, 0)
  BY <1>3, <1>4
<1>6. f = [n \in Nodes |-> Placing(f, n)]
  BY <1>1, <1>5
<1>7. PICK h : h = CHOOSE g : Placed(g)
  OBVIOUS
<1>8. h = [n \in Nodes |-> Placing(h, n)]
  BY <1>6, <1>7 DEF Placed, Placing
<1>9. \A n : Place[n] = h[n]
  BY <1>7 DEF Place, Placed
<1>10. SUFFICES ASSUME NEW n \in Nodes PROVE Place[n] = Placing(Place, n)
  OBVIOUS
<1>11. Placing(Place, n) = Placing(h, n)
  BY <1>9 DEF Placing
<1> QED
  BY <1>8, <1>9, <1>11

\* Where a node is and where the tree says it is.
Matches(m) ==
    \/ Place[m] = "nowhere" /\ storage[m] = None
    \/ Place[m] = "variable" /\ storage[m].kind = "local"
    \/ Place[m] = "cell" /\ storage[m].kind \in {"rodata", "slot"}

\* Every op is of one of the groups the layout tells apart.
LEMMA OpGroups ==
    ASSUME tree \in Trees, NEW n \in Nodes
    PROVE  Op(n) \in {"const", "ident", "dyn", "comp"} \cup Writing
  BY Shape DEF Ops, Writing

\* A subtree that has been laid out is where the tree says.
LEMMA Matching ==
    ASSUME tree \in Trees, PlaceInv, LaidInv, stage \in {"locals", "emit"},
           NEW S, S \subseteq Nodes, \A n \in S : KidSet(n) \subseteq S,
           stage = "locals" => \A n \in S : n \notin Unposted(todo)
    PROVE  \A m \in S : Matches(m)
<1> DEFINE Bad == {m \in S : ~Matches(m)}
<1>1. SUFFICES ASSUME Bad # {} PROVE FALSE
  OBVIOUS
<1>2. PICK l \in Nat : l = Len(tree.op) /\ Nodes = 1 .. l
  BY NodeNat
<1>3. Bad \subseteq 0 .. l
  <2>1. Bad \subseteq S
    OBVIOUS
  <2>2. S \subseteq 0 .. l
    BY <1>2
  <2> HIDE DEF Bad
  <2> QED
    BY <2>1, <2>2
<1>4. PICK n \in Bad : \A j \in Bad : j <= n
  BY <1>1, <1>3, GreatestIndex
<1>5. n \in Nodes /\ n \in S /\ n \in Nat
  BY <1>2, <1>4
<1>6. ASSUME NEW k \in KidSet(n) PROVE Matches(k)
  <2>1. k \in S /\ k \in Nat /\ k > n
    BY <1>5, <1>6, KidIsLater
  <2>2. k \notin Bad
    BY <1>4, <1>5, <2>1
  <2> QED
    BY <2>1, <2>2
<1>7. PlaceOf(n) /\ NotYet(n) /\ Laid(n)
  BY <1>5 DEF PlaceInv, LaidInv, Passes
<1>8. Place[n] = Placing(Place, n)
  BY <1>5, PlaceUnfolds
<1>9. stage = "locals" => n \notin Unposted(todo)
  BY <1>5
<1>10. CASE Op(n) = "const"
  BY <1>4, <1>7, <1>8, <1>10 DEF PlaceOf, Placing, Matches, Rodata
<1>11. CASE Op(n) = "ident"
  BY <1>4, <1>7, <1>8, <1>11 DEF PlaceOf, Placing, Matches, Local
<1>12. CASE Op(n) \in Writing
  <2>1. Op(n) \notin {"ident", "comp", "dyn"}
    BY <1>12 DEF Writing, Calls, Aggregates
  <2>2. storage[n] # None
    BY <1>7, <1>9, <1>12 DEF Laid, Writing
  <2>3. storage[n].kind \in {"rodata", "slot"}
    BY <1>7, <1>12, <2>2 DEF PlaceOf, Slotted, Rodata
  <2> QED
    BY <1>4, <1>8, <2>1, <2>3 DEF Placing, Matches
<1>13. CASE Op(n) = "dyn" /\ Op(Kid(n, 1)) = "comp"
  BY <1>4, <1>7, <1>8, <1>13 DEF Laid, Placing, Matches
<1>14. CASE Op(n) = "dyn" /\ Op(Kid(n, 1)) # "comp"
  <2>1. Joined(n)
    BY <1>7, <1>9, <1>14 DEF NotYet
  <2>2. storage[n] = storage[Kid(n, 1)] /\ Place[n] = Place[Kid(n, 1)]
    BY <1>8, <1>14, <2>1 DEF Joined, Placing
  <2>3. Matches(Kid(n, 1))
    BY <1>5, <1>6, <1>14, OnlyKid
  <2> QED
    BY <1>4, <2>2, <2>3 DEF Matches
<1>15. CASE Op(n) = "comp"
  <2>1. storage[n] = storage[Result(n)]
    BY <1>7, <1>9, <1>15 DEF NotYet
  <2>2. Place[n] = Place[Result(n)]
    BY <1>8, <1>15 DEF Placing
  <2>3. Matches(Result(n))
    BY <1>5, <1>6, <1>15, ResultKid
  <2> QED
    BY <1>4, <2>1, <2>2, <2>3 DEF Matches
<1> QED
  BY <1>5, <1>10, <1>11, <1>12, <1>13, <1>14, <1>15, OpGroups

\* When the lowering starts, all of it has.
LEMMA AllMatch ==
    ASSUME tree \in Trees, PlaceInv, LaidInv, stage = "emit"
    PROVE  \A m \in Nodes : Matches(m)
<1>1. \A n \in Nodes : KidSet(n) \subseteq Nodes
  BY KidIsLater
<1> QED
  BY <1>1, Matching

\* What is below the node that a pass closes has been closed.
LEMMA BelowPosted ==
    ASSUME tree \in Trees, NEW t, Passing(t), t # <<>>, t[1].do = "post",
           NEW m \in Below(t[1].n), m # t[1].n
    PROVE  m \notin Unposted(t)
<1>1. SUFFICES ASSUME NEW i \in 1 .. Len(t), m \in Cover(t[i]) PROVE FALSE
  BY DEF Unposted
<1>2. t \in Seq(ItemType) /\ 1 \in 1 .. Len(t) /\ \A j \in 1 .. Len(t) : t[j] \in ItemType
  BY DEF Passing
<1>3. \A j \in 1 .. Len(t) : t[j].n \in Nodes
  BY <1>2 DEF ItemType
<1>4. PICK p \in Nodes : p = t[1].n
  BY <1>2, <1>3
<1>5. p \in Nat /\ m \in Nodes /\ m \in Nat /\ m > p
  BY <1>4, BelowSelf, NodeNat
<1>6. Cover(t[1]) = {p}
  BY <1>4 DEF Cover
<1>7. i > 1 /\ Before(t[1], t[i])
  <2>1. i # 1
    BY <1>1, <1>4, <1>6
  <2>2. 1 < i
    BY <1>2, <2>1
  <2> QED
    BY <1>2, <2>2 DEF Passing, Ordered
<1>8. ASSUME NEW j \in 1 .. Len(t), j > 1, t[j].do = "post", t[j].n = p PROVE FALSE
  <2>1. Before(t[1], t[j])
    BY <1>2, <1>8 DEF Passing, Ordered
  <2> QED
    BY <1>6, <1>8, <2>1 DEF Before
<1>9. CASE t[i].do = "pre"
  <2>1. PICK q \in Nodes : q = t[i].n
    BY <1>3
  <2>2. m \in Below(q) /\ q \in Below(q) /\ q \in Nat /\ q <= m
    BY <1>1, <1>9, <2>1, BelowSelf, NodeNat DEF Cover
  <2>3. p < q
    BY <1>6, <1>7, <1>9, <2>1, <2>2 DEF Before
  <2>4. q \in Below(p)
    BY <1>4, <1>5, <2>2, <2>3, BelowInterval
  <2>5. t[i].n \in Below(p) /\ p # t[i].n
    <3>1. q # p
      BY <1>5, <2>2, <2>3
    <3> QED
      BY <2>1, <2>4, <3>1
  <2>6. PICK j \in 1 .. Len(t) : j > i /\ t[j].do = "post" /\ t[j].n = p
    BY <2>5 DEF Passing, Closed
  <2>7. j > 1
    BY <1>7, <2>6
  <2> QED
    BY <1>8, <2>6, <2>7
<1>10. CASE t[i].do # "pre"
  <2>1. m = t[i].n
    BY <1>1, <1>10 DEF Cover
  <2>2. p \in Below(m) /\ p # m
    BY <1>6, <1>7, <1>10, <2>1 DEF Before
  <2> QED
    BY <1>5, <2>2, BelowSelf
<1> QED
  BY <1>9, <1>10

\* PostVisitComprehension aborts on a result that the tree says is nowhere.
LEMMA LocalsAbort ==
    ASSUME LayoutInv, PlaceInv, LaidInv, LocalsPost, stage' = "crash"
    PROVE  Unplaced
<1>1. /\ stage = "locals" /\ todo # <<>> /\ Top.do = "post" /\ Op(Top.n) = "comp"
      /\ storage[Result(Top.n)] = None
  BY DEF LocalsPost, Doing
<1>2. tree \in Trees /\ Passing(todo)
  BY <1>1 DEF LayoutInv, Typed, Passes
<1>3. PICK p : p = Top.n
  OBVIOUS
<1>4. p \in Nodes /\ p = todo[1].n
  BY <1>1, <1>2, <1>3, TopFacts DEF Top
<1>5. Result(p) \in KidSet(p) /\ Result(p) \in Nodes
  BY <1>1, <1>2, <1>3, <1>4, ResultKid
<1>6. PICK r \in Nodes : r = Result(p)
  BY <1>5
<1>7. Below(r) \subseteq Below(p) /\ p \notin Below(r) /\ r \in Below(r) /\ Below(r) \subseteq Nodes
  BY <1>2, <1>4, <1>5, <1>6, BelowKid, BelowSelf
<1>8. \A m \in Below(r) : m \notin Unposted(todo)
  BY <1>1, <1>2, <1>4, <1>7, BelowPosted DEF Top
<1>9. \A n \in Below(r) : KidSet(n) \subseteq Below(r)
  BY <1>2, <1>6, KidBelow
<1>10. Matches(r)
  BY <1>1, <1>2, <1>7, <1>8, <1>9, Matching
<1>11. Place[r] = "nowhere"
  BY <1>1, <1>3, <1>6, <1>10 DEF Matches, None
<1> QED
  BY <1>1, <1>3, <1>4, <1>6, <1>11 DEF Unplaced

-----------------------------------------------------------------------------
(* Outcome, the first failure in the order of emission. *)

\* What occurs in a concatenation.
LEMMA JoinParts ==
    ASSUME NEW T, NEW v \in Seq(T), NEW w \in Seq(T)
    PROVE  v \o w \in Seq(T) /\ ToSet(v \o w) = ToSet(v) \cup ToSet(w)
<1>1. PICK u : u = v \o w
  OBVIOUS
<1>2. JoinFact(T, v, w, u)
  BY <1>1, JoinShape
<1>3. /\ ToSet(v) = {v[i] : i \in 1 .. Len(v)} /\ ToSet(w) = {w[i] : i \in 1 .. Len(w)}
      /\ u \in Seq(T) /\ ToSet(u) = {u[i] : i \in 1 .. Len(u)}
  BY <1>2 DEF JoinFact, ToSet
<1>4. \A i \in 1 .. Len(v) : v[i] \in ToSet(u)
  BY <1>2, <1>3 DEF JoinFact
<1>5. \A j \in 1 .. Len(w) : w[j] \in ToSet(u)
  BY <1>2, <1>3 DEF JoinFact
<1>6. \A i \in 1 .. Len(u) : u[i] \in ToSet(v) \cup ToSet(w)
  <2>1. TAKE i \in 1 .. Len(u)
  <2>2. CASE i \in 1 .. Len(v)
    BY <1>2, <1>3, <2>2 DEF JoinFact
  <2>3. CASE i \notin 1 .. Len(v)
    <3>1. PICK j \in 1 .. Len(w) : i = Len(v) + j
      BY <1>2, <2>3 DEF JoinFact
    <3>2. u[i] = w[j]
      BY <1>2, <3>1 DEF JoinFact
    <3> QED
      BY <1>3, <3>2
  <2> QED
    BY <2>2, <2>3
<1>7. ToSet(u) \subseteq ToSet(v) \cup ToSet(w)
  BY <1>3, <1>6
<1>8. ToSet(v) \subseteq ToSet(u) /\ ToSet(w) \subseteq ToSet(u)
  BY <1>3, <1>4, <1>5
<1>9. ToSet(u) = ToSet(v) \cup ToSet(w)
  BY <1>7, <1>8
<1> QED
  BY <1>1, <1>3, <1>9

\* The first failure of a sequence is a member of it, and "ok" when there is none.
LEMMA FailureFact ==
    ASSUME NEW T, NEW s \in Seq(T)
    PROVE  /\ FirstFailure(s) = "ok" <=> \A x \in ToSet(s) : x = "ok"
           /\ FirstFailure(s) # "ok" => FirstFailure(s) \in ToSet(s)
<1>1. PICK l \in Nat : l = Len(s)
  OBVIOUS
<1>2. DOMAIN s = 1 .. l /\ ToSet(s) = {s[i] : i \in 1 .. l}
  BY <1>1 DEF ToSet
<1>3. PICK failed : failed = {i \in DOMAIN s : s[i] # "ok"}
  OBVIOUS
<1>4. FirstFailure(s) = IF failed = {} THEN "ok" ELSE s[Min(failed)]
  BY <1>3 DEF FirstFailure
<1>5. failed = {} <=> \A x \in ToSet(s) : x = "ok"
  BY <1>2, <1>3
<1>6. CASE failed = {}
  BY <1>4, <1>5, <1>6
<1>7. CASE failed # {}
  <2>1. failed \subseteq 0 .. l
    BY <1>2, <1>3
  <2>2. Min(failed) \in failed
    BY <1>7, <2>1, Extremes
  <2>3. s[Min(failed)] # "ok" /\ s[Min(failed)] \in ToSet(s)
    BY <1>2, <1>3, <2>2
  <2> QED
    BY <1>4, <1>5, <1>7, <2>3
<1> QED
  BY <1>6, <1>7

\* FlattenSeq of one sequence.
LEMMA FlattenOne ==
    ASSUME NEW T, NEW s \in Seq(T)
    PROVE  FlattenSeq(<<s>>) = s
<1>1. PICK ss : ss = <<s>>
  OBVIOUS
<1>2. ss \in Seq(Seq(T)) /\ Len(ss) = 1 /\ ss[1] = s
  BY <1>1
<1>3. PICK f : f = CHOOSE g : Flattening(g, ss, 1)
  OBVIOUS
<1>4. f = [i \in 1 .. 1 |-> IF i = 1 THEN ss[i] ELSE f[i - 1] \o ss[i]]
  BY <1>3, FlatteningExists DEF Flattening
<1>5. f[1] = s
  BY <1>2, <1>4
<1>6. FlattenSeq(ss) = f[1]
  <2>1. PICK l : l = Len(ss)
    OBVIOUS
  <2>2. Len(ss) # 0 /\ f = CHOOSE g : Flattening(g, ss, Len(ss))
    BY <1>2, <1>3
  <2>3. FlattenSeq(ss) = f[Len(ss)]
    BY <2>2, FlattenLast
  <2> QED
    BY <1>2, <2>3
<1> QED
  BY <1>1, <1>5, <1>6

\* FlattenSeq loses nothing.
LEMMA FlattenHas ==
    ASSUME NEW T, NEW ss \in Seq(Seq(T)), NEW j \in 1 .. Len(ss), NEW x \in ToSet(ss[j])
    PROVE  x \in ToSet(FlattenSeq(ss))
<1>1. PICK l \in Nat : l = Len(ss)
  OBVIOUS
<1>2. l # 0 /\ j \in Nat /\ j >= 1 /\ j <= l /\ \A i \in 1 .. l : ss[i] \in Seq(T)
  BY <1>1
<1>3. PICK f : f = CHOOSE g : Flattening(g, ss, l)
  OBVIOUS
<1>4. f = [i \in 1 .. l |-> IF i = 1 THEN ss[i] ELSE f[i - 1] \o ss[i]]
  BY <1>3, FlatteningExists, Zenon DEF Flattening
<1>5. \A i \in 1 .. l : i = 1 => f[i] = ss[i]
  BY <1>4
<1>6. \A i \in 1 .. l : i # 1 => f[i] = f[i - 1] \o ss[i]
  BY <1>4
<1> DEFINE Good(i) == f[i] \in Seq(T) /\ (i >= j => x \in ToSet(f[i]))
<1> DEFINE Bad == {i \in 1 .. l : ~Good(i)}
<1>7. Bad = {}
  <2>1. SUFFICES ASSUME Bad # {} PROVE FALSE
    OBVIOUS
  <2>2. Bad \subseteq Nat
    OBVIOUS
  <2>3. PICK n \in Bad : \A i \in Bad : n <= i
    BY <2>1, <2>2, LeastIndex
  <2>4. n \in 1 .. l /\ n \in Nat /\ ~Good(n)
    BY <2>3
  <2>5. CASE n = 1
    <3>1. f[n] = ss[n] /\ ss[n] \in Seq(T)
      BY <1>2, <1>5, <2>4, <2>5
    <3>2. n >= j => n = j
      BY <1>2, <2>5
    <3> QED
      BY <2>4, <3>1, <3>2
  <2>6. CASE n # 1
    <3>1. n - 1 \in 1 .. l /\ n - 1 < n /\ n - 1 \in Nat
      BY <2>4, <2>6
    <3>2. n - 1 \notin Bad
      BY <2>3, <2>4, <3>1
    <3>3. Good(n - 1)
      BY <3>1, <3>2
    <3>4. f[n] = f[n - 1] \o ss[n] /\ f[n - 1] \in Seq(T) /\ ss[n] \in Seq(T)
      BY <1>2, <1>6, <2>4, <2>6, <3>3
    <3>5. f[n] \in Seq(T) /\ ToSet(f[n]) = ToSet(f[n - 1]) \cup ToSet(ss[n])
      BY <3>4, JoinParts
    <3>6. n >= j => n = j \/ n - 1 >= j
      BY <1>2, <2>4
    <3>7. n >= j => x \in ToSet(f[n])
      BY <3>3, <3>5, <3>6
    <3> QED
      BY <2>4, <3>5, <3>7
  <2> QED
    BY <2>5, <2>6
<1>8. x \in ToSet(f[l])
  <2>1. l \in 1 .. l /\ l >= j
    BY <1>2
  <2>2. Good(l)
    BY <1>7, <2>1
  <2> QED
    BY <2>1, <2>2
<1>9. FlattenSeq(ss) = f[l]
  BY <1>1, <1>2, <1>3, FlattenLast
<1> QED
  BY <1>8, <1>9

\* Whatever runs below n, in whatever order.
Emits(n) == ToSet(EmittedFirst(n)) \cup ToSet(EmittedThen(n))

Coming(f, n) ==
    FirstFailure(<<EntryCheck(n)>> \o [i \in DOMAIN EmittedFirst(n) |-> f[EmittedFirst(n)[i]]] \o
                 <<LoopCheck(n)>> \o [i \in DOMAIN EmittedThen(n) |-> f[EmittedThen(n)[i]]] \o
                 <<ExitCheck(n)>>)

\* A node comes out ok when its checks pass and all it emits comes out ok, and
\* otherwise as one of them.
LEMMA ComingFact ==
    ASSUME NEW f, NEW n, NEW T, EmittedFirst(n) \in Seq(T), EmittedThen(n) \in Seq(T)
    PROVE  /\ Coming(f, n) = "ok" <=> /\ EntryCheck(n) = "ok" /\ LoopCheck(n) = "ok" /\ ExitCheck(n) = "ok"
                                      /\ \A k \in Emits(n) : f[k] = "ok"
           /\ Coming(f, n) # "ok" => \/ Coming(f, n) \in {EntryCheck(n), LoopCheck(n), ExitCheck(n)}
                                     \/ \E k \in Emits(n) : Coming(f, n) = f[k]
<1>1. PICK a : a = EmittedFirst(n)
  OBVIOUS
<1>2. PICK b : b = EmittedThen(n)
  OBVIOUS
<1>3. PICK e : e = EntryCheck(n)
  OBVIOUS
<1>4. PICK m : m = LoopCheck(n)
  OBVIOUS
<1>5. PICK x : x = ExitCheck(n)
  OBVIOUS
<1>6. PICK fa : fa = [i \in DOMAIN a |-> f[a[i]]]
  OBVIOUS
<1>7. PICK fb : fb = [i \in DOMAIN b |-> f[b[i]]]
  OBVIOUS
<1>8. PICK V : V = {e, m, x} \cup {f[k] : k \in ToSet(a) \cup ToSet(b)}
  OBVIOUS
<1>9. fa \in Seq(V) /\ ToSet(fa) = {f[k] : k \in ToSet(a)}
  <2>1. a \in Seq(T)
    BY <1>1
  <2>2. DOMAIN a = 1 .. Len(a) /\ Len(a) \in Nat
    BY <2>1
  <2>3. ToSet(a) = {a[i] : i \in DOMAIN a}
    BY DEF ToSet
  <2>4. DOMAIN fa = DOMAIN a /\ \A i \in DOMAIN a : fa[i] = f[a[i]]
    BY <1>6
  <2>5. \A i \in DOMAIN a : fa[i] \in V
    BY <1>8, <2>3, <2>4
  <2>6. fa \in Seq(V)
    BY <1>6, <2>2, <2>5
  <2> QED
    BY <2>3, <2>4, <2>6 DEF ToSet
<1>10. fb \in Seq(V) /\ ToSet(fb) = {f[k] : k \in ToSet(b)}
  <2>1. b \in Seq(T)
    BY <1>2
  <2>2. DOMAIN b = 1 .. Len(b) /\ Len(b) \in Nat
    BY <2>1
  <2>3. ToSet(b) = {b[i] : i \in DOMAIN b}
    BY DEF ToSet
  <2>4. DOMAIN fb = DOMAIN b /\ \A i \in DOMAIN b : fb[i] = f[b[i]]
    BY <1>7
  <2>5. \A i \in DOMAIN b : fb[i] \in V
    BY <1>8, <2>3, <2>4
  <2>6. fb \in Seq(V)
    BY <1>7, <2>2, <2>5
  <2> QED
    BY <2>3, <2>4, <2>6 DEF ToSet
<1>11. \A v \in V : \E one \in Seq(V) : one = <<v>> /\ ToSet(one) = {v}
  <2>1. TAKE v \in V
  <2>2. <<v>> \in Seq(V) /\ ToSet(<<v>>) = {v}
    BY DEF ToSet
  <2> QED
    BY <2>2
<1>12. PICK se \in Seq(V) : se = <<e>> /\ ToSet(se) = {e}
  BY <1>8, <1>11
<1>13. PICK sm \in Seq(V) : sm = <<m>> /\ ToSet(sm) = {m}
  BY <1>8, <1>11
<1>14. PICK sx \in Seq(V) : sx = <<x>> /\ ToSet(sx) = {x}
  BY <1>8, <1>11
<1>15. PICK s1 : s1 = se \o fa
  OBVIOUS
<1>16. s1 \in Seq(V) /\ ToSet(s1) = {e} \cup ToSet(fa)
  <2>1. ToSet(s1) = ToSet(se) \cup ToSet(fa) /\ s1 \in Seq(V)
    BY <1>9, <1>15, JoinParts
  <2> QED
    BY <1>12, <2>1
<1>17. PICK s2 : s2 = s1 \o sm
  OBVIOUS
<1>18. s2 \in Seq(V) /\ ToSet(s2) = {e, m} \cup ToSet(fa)
  <2>1. ToSet(s2) = ToSet(s1) \cup ToSet(sm) /\ s2 \in Seq(V)
    BY <1>16, <1>17, JoinParts
  <2> QED
    BY <1>16, <1>13, <2>1
<1>19. PICK s3 : s3 = s2 \o fb
  OBVIOUS
<1>20. s3 \in Seq(V) /\ ToSet(s3) = {e, m} \cup ToSet(fa) \cup ToSet(fb)
  BY <1>10, <1>18, <1>19, JoinParts
<1>21. PICK s4 : s4 = s3 \o sx
  OBVIOUS
<1>22. s4 \in Seq(V) /\ ToSet(s4) = {e, m, x} \cup ToSet(fa) \cup ToSet(fb)
  <2>1. ToSet(s4) = ToSet(s3) \cup ToSet(sx) /\ s4 \in Seq(V)
    BY <1>20, <1>21, JoinParts
  <2> QED
    BY <1>20, <1>14, <2>1
<1>23. Coming(f, n) = FirstFailure(s4)
  BY <1>1, <1>2, <1>3, <1>4, <1>5, <1>6, <1>7, <1>15, <1>17, <1>19, <1>21, <1>12, <1>13, <1>14 DEF Coming
<1>24. ToSet(s4) = {e, m, x} \cup {f[k] : k \in Emits(n)}
  BY <1>1, <1>2, <1>9, <1>10, <1>22 DEF Emits
<1>25. /\ FirstFailure(s4) = "ok" <=> \A y \in ToSet(s4) : y = "ok"
       /\ FirstFailure(s4) # "ok" => FirstFailure(s4) \in ToSet(s4)
  BY <1>22, FailureFact
<1> QED
  BY <1>3, <1>4, <1>5, <1>23, <1>24, <1>25

\* It depends on nothing else.
LEMMA ComingSame ==
    ASSUME NEW f, NEW g, NEW n, \A k \in Emits(n) : f[k] = g[k]
    PROVE  Coming(f, n) = Coming(g, n)
<1>1. [i \in DOMAIN EmittedFirst(n) |-> f[EmittedFirst(n)[i]]] =
      [i \in DOMAIN EmittedFirst(n) |-> g[EmittedFirst(n)[i]]]
  BY DEF Emits, ToSet
<1>2. [i \in DOMAIN EmittedThen(n) |-> f[EmittedThen(n)[i]]] =
      [i \in DOMAIN EmittedThen(n) |-> g[EmittedThen(n)[i]]]
  BY DEF Emits, ToSet
<1> QED
  BY <1>1, <1>2 DEF Coming

-----------------------------------------------------------------------------
(* What a comprehension with a specialised step emits: the guard and the   *)
(* operands of the update, all below nodes that are no comprehensions.     *)

Opens(c) == ToSet(FlattenSeq(Updates(c)))

\* The accumulator's list or map literal is taken apart.
TakenApart(c) ==
    LET b == Body(c) IN
    \/ IsAppend(c, b)
    \/ IsInsert(c, b) /\ Literal(b) /\ (Wrapped(c) => Len(Kids(Kid(b, 2))) <= 2)

\* The body of a loop and what it is made of.
LEMMA BodyShape ==
    ASSUME tree \in Trees, NEW c \in Nodes, Op(c) = "comp", Specialised(c)
    PROVE  LET b == Body(c) IN
           /\ b \in Nodes /\ Op(b) \in {"add", "put"} /\ Op(Kid(b, 1)) = "ident"
           /\ Kid(b, 1) \in KidSet(b) /\ Kid(b, 2) \in KidSet(b) /\ Kid(b, 2) \in Nodes
           /\ Kids(b) \in Seq(Nodes) /\ Len(Kids(b)) \in Nat /\ Len(Kids(b)) >= 2
           /\ IsAppend(c, b) => Len(Kids(b)) = 2
           /\ LoopBody(c) \in Nodes
           /\ ~Wrapped(c) => b = LoopBody(c)
           /\ Wrapped(c) => /\ Op(LoopBody(c)) = "cond" /\ b = Kid(LoopBody(c), 2)
                            /\ Kid(LoopBody(c), 1) \in KidSet(LoopBody(c)) /\ b \in KidSet(LoopBody(c))
                            /\ Op(Kid(LoopBody(c), 3)) = "ident"
                            /\ KidSet(LoopBody(c)) = {Kid(LoopBody(c), 1), b, Kid(LoopBody(c), 3)}
<1>1. PICK m \in Nodes : m = LoopBody(c)
  BY CompKids
<1>2. PICK b : b = Body(c)
  OBVIOUS
<1>3. ASSUME Wrapped(c)
      PROVE  /\ b \in Nodes /\ Op(m) = "cond" /\ b = Kid(m, 2)
             /\ Kid(m, 1) \in KidSet(m) /\ b \in KidSet(m) /\ Op(Kid(m, 3)) = "ident"
             /\ KidSet(m) = {Kid(m, 1), b, Kid(m, 3)}
  <2>1. Op(m) = "cond" /\ Op(Kid(m, 3)) = "ident" /\ b = Kid(m, 2)
    BY <1>1, <1>2, <1>3 DEF Wrapped, IsAccu, Body
  <2>2. Kids(m) \in Seq(Nat) /\ Len(Kids(m)) = 3 /\ KidSet(m) = {Kids(m)[i] : i \in 1 .. Len(Kids(m))}
    BY <2>1, Shape DEF Arity
  <2>3. KidSet(m) = {Kids(m)[i] : i \in 1 .. 3}
    BY <2>2
  <2>4. KidSet(m) = {Kids(m)[1], Kids(m)[2], Kids(m)[3]}
    BY <2>3
  <2>5. KidSet(m) = {Kid(m, 1), Kid(m, 2), Kid(m, 3)}
    BY <2>4 DEF Kid, Kids
  <2> QED
    BY <2>1, <2>5, KidIsLater
<1>4. ~Wrapped(c) => b = m
  BY <1>1, <1>2 DEF Body
<1>5. b \in Nodes
  BY <1>3, <1>4
<1>6. Op(b) \in {"add", "put"} /\ Op(Kid(b, 1)) = "ident"
  BY <1>2 DEF Specialised, IsAppend, IsInsert, IsAccu
<1>7. Len(Kids(b)) \in Arity(Op(b)) /\ Kids(b) \in Seq(Nodes)
  BY <1>5, Shape, KidsMember
<1>8. (Op(b) = "add" => Len(Kids(b)) = 2) /\ Len(Kids(b)) \in {2, 3}
  BY <1>6, <1>7 DEF Arity
<1>9. 1 \in 1 .. Len(Kids(b)) /\ 2 \in 1 .. Len(Kids(b)) /\ Len(Kids(b)) \in Nat /\ Len(Kids(b)) >= 2
  BY <1>8
<1>10. Kids(b)[1] \in KidSet(b) /\ Kids(b)[2] \in KidSet(b)
  BY <1>5, <1>9, KidsInOrder
<1>11. Kid(b, 1) \in KidSet(b) /\ Kid(b, 2) \in KidSet(b) /\ Kid(b, 2) \in Nodes
  <2>1. Kid(b, 1) \in KidSet(b) /\ Kid(b, 2) \in KidSet(b)
    BY <1>10 DEF Kid, Kids
  <2> QED
    BY <1>5, <2>1, KidIsLater
<1>12. IsAppend(c, b) => Op(b) = "add"
  BY DEF IsAppend
<1> QED
  BY <1>1, <1>2, <1>3, <1>4, <1>5, <1>6, <1>7, <1>8, <1>9, <1>11, <1>12

\* Two and two, the entries of a map are all of them.
LEMMA PairsHave ==
    ASSUME NEW T, NEW s \in Seq(T), Even(Len(s)), NEW ss,
           ss = [i \in 1 .. (Len(s) \div 2) |-> SubSeq(s, 2 * i - 1, 2 * i)]
    PROVE  ss \in Seq(Seq(T)) /\ \A x \in ToSet(s) : x \in ToSet(FlattenSeq(ss))
<1>1. PICK l \in Nat : l = Len(s)
  OBVIOUS
<1>2. PICK h \in Nat : h = l \div 2
  BY <1>1
<1>3. l = 2 * h
  <2>1. l % 2 = 0
    BY <1>1 DEF Even
  <2> QED
    BY <1>2, <2>1
<1>4. ASSUME NEW i \in 1 .. h
      PROVE  /\ ss[i] \in Seq(T) /\ ToSet(ss[i]) = {s[2 * i - 1], s[2 * i]}
  <2>1. PICK a \in Nat : a = 2 * i - 1
    OBVIOUS
  <2>2. PICK d \in Nat : d = 2 * i
    OBVIOUS
  <2>3. a >= 1 /\ d <= l /\ d = a + 1
    BY <1>3, <2>1, <2>2
  <2>4. PICK r : r = SubSeq(s, a, d)
    OBVIOUS
  <2>5. r \in Seq(T) /\ Len(r) = 2 /\ r[1] = s[a] /\ r[2] = s[d]
    BY <1>1, <2>3, <2>4
  <2>6. DOMAIN r = {1, 2}
    BY <2>5
  <2>7. ToSet(r) = {s[a], s[d]}
    BY <2>5, <2>6 DEF ToSet
  <2>8. ss[i] = r
    BY <1>1, <1>2, <2>1, <2>2, <2>4
  <2> QED
    BY <2>1, <2>2, <2>5, <2>7, <2>8
<1>5. ss \in Seq(Seq(T)) /\ Len(ss) = h
  <2>1. ss = [i \in 1 .. h |-> SubSeq(s, 2 * i - 1, 2 * i)]
    BY <1>1, <1>2
  <2>2. DOMAIN ss = 1 .. h /\ ss = [i \in 1 .. h |-> ss[i]]
    BY <2>1
  <2> QED
    BY <1>4, <2>2
<1>6. ASSUME NEW x \in ToSet(s) PROVE x \in ToSet(FlattenSeq(ss))
  <2>1. PICK j \in 1 .. l : x = s[j]
    BY <1>1 DEF ToSet
  <2>2. PICK i \in 1 .. h : j = 2 * i - 1 \/ j = 2 * i
    <3>1. PICK i \in Nat : i = (j + 1) \div 2
      OBVIOUS
    <3>2. i \in 1 .. h /\ (j = 2 * i - 1 \/ j = 2 * i)
      BY <1>3, <3>1
    <3> QED
      BY <3>2
  <2>3. x \in ToSet(ss[i])
    BY <1>4, <2>1, <2>2
  <2> QED
    BY <1>5, <2>3, FlattenHas
<1> QED
  BY <1>5, <1>6

\* What the specialised steps run: all the operands, and nothing else.
LEMMA OpensFact ==
    ASSUME tree \in Trees, NEW c \in Nodes, Op(c) = "comp", Specialised(c)
    PROVE  LET b == Body(c) IN
           /\ FlattenSeq(Updates(c)) \in Seq(Below(LoopBody(c)))
           /\ Wrapped(c) => Kid(LoopBody(c), 1) \in Opens(c)
           /\ TakenApart(c) => KidSet(Kid(b, 2)) \subseteq Opens(c) /\ KidSet(b) = {Kid(b, 1), Kid(b, 2)}
           /\ ~TakenApart(c) => KidSet(b) \subseteq {Kid(b, 1)} \cup Opens(c)
           /\ Opens(c) \subseteq (IF TakenApart(c) THEN KidSet(Kid(b, 2)) ELSE KidSet(b)) \cup
                                 (IF Wrapped(c) THEN {Kid(LoopBody(c), 1)} ELSE {})
<1>1. PICK b \in Nodes : b = Body(c)
  BY BodyShape
<1>2. PICK m \in Nodes : m = LoopBody(c)
  BY BodyShape
<1>3. PICK k \in Nodes : k = Kid(b, 2)
  BY <1>1, BodyShape
<1>4. PICK q : q = Pred(c)
  OBVIOUS
<1>5. q \in Seq(Nodes) /\ ToSet(q) = (IF Wrapped(c) THEN {Kid(m, 1)} ELSE {}) /\ (~Wrapped(c) => q = <<>>)
  <2>1. CASE Wrapped(c)
    <3>1. Kid(m, 1) \in Nodes
      BY <1>2, <2>1, BodyShape, KidIsLater
    <3>2. q = <<Kid(m, 1)>>
      BY <1>2, <1>4, <2>1 DEF Pred
    <3>3. <<Kid(m, 1)>> \in Seq(Nodes) /\ ToSet(<<Kid(m, 1)>>) = {Kid(m, 1)}
      BY <3>1 DEF ToSet
    <3> QED
      BY <2>1, <3>2, <3>3
  <2>2. CASE ~Wrapped(c)
    <3>1. q = <<>>
      BY <1>4, <2>2 DEF Pred
    <3>2. ToSet(q) = {}
      BY <3>1 DEF ToSet
    <3> QED
      BY <2>2, <3>1, <3>2
  <2> QED
    BY <2>1, <2>2
<1>6. PICK entries : entries = Kids(k)
  OBVIOUS
<1>7. entries \in Seq(Nodes) /\ ToSet(entries) = KidSet(k)
  BY <1>3, <1>6, KidsMember DEF KidSet
<1>8. PICK tail : tail = Tail(Kids(b))
  OBVIOUS
<1>9. tail \in Seq(Nodes) /\ KidSet(b) = {Kid(b, 1)} \cup ToSet(tail)
  <2>1. PICK ks : ks = Kids(b)
    OBVIOUS
  <2>2. PICK l \in Nat : l = Len(ks)
    BY <1>1, <2>1, BodyShape
  <2>3. ks \in Seq(Nodes) /\ l >= 2 /\ KidSet(b) = ToSet(ks)
    BY <1>1, <2>1, <2>2, BodyShape DEF KidSet
  <2>4. tail \in Seq(Nodes) /\ Len(tail) = l - 1 /\ \A i \in 1 .. (l - 1) : tail[i] = ks[i + 1]
    BY <1>8, <2>1, <2>2, <2>3
  <2>5. ToSet(ks) = {ks[i] : i \in 1 .. l} /\ ToSet(tail) = {tail[i] : i \in 1 .. (l - 1)}
    BY <2>2, <2>3, <2>4 DEF ToSet
  <2>6. \A i \in 1 .. l : i = 1 \/ (i - 1 \in 1 .. (l - 1) /\ tail[i - 1] = ks[i])
    BY <2>2, <2>4
  <2>7. \A i \in 1 .. (l - 1) : i + 1 \in 1 .. l
    BY <2>2
  <2>8. ToSet(ks) = {ks[1]} \cup ToSet(tail)
    <3>1. \A i \in 1 .. l : ks[i] \in {ks[1]} \cup ToSet(tail)
      BY <2>5, <2>6
    <3>2. \A i \in 1 .. (l - 1) : tail[i] \in ToSet(ks)
      BY <2>4, <2>5, <2>7
    <3>3. ks[1] \in ToSet(ks)
      BY <2>2, <2>3, <2>5
    <3> QED
      BY <2>5, <3>1, <3>2, <3>3
  <2>9. ks[1] = Kid(b, 1)
    BY <2>1 DEF Kid, Kids
  <2> QED
    BY <2>3, <2>4, <2>8, <2>9
<1>10. FlattenSeq(Updates(c)) \in Seq(Below(m))
  <2>1. Updates(c) \in Seq(Rows(m))
    BY <1>2, LoopUpdates
  <2>2. \A ks \in Rows(m) : ks \in Seq(Below(m))
    <3>1. TAKE ks \in Rows(m)
    <3>2. ks \in Seq(Nodes) /\ \A i \in DOMAIN ks : ks[i] \in Below(m)
      BY DEF Rows, ToSet
    <3> QED
      BY <3>2
  <2>3. Updates(c) \in Seq(Seq(Below(m)))
    BY <2>1, <2>2
  <2> QED
    BY <2>3, FlattenAny
<1>11. PICK u : u = Updates(c)
  OBVIOUS
<1>12. ASSUME NEW es \in Seq(Nodes), u = <<q \o es>> PROVE Opens(c) = ToSet(q) \cup ToSet(es)
  <2>1. q \o es \in Seq(Nodes) /\ ToSet(q \o es) = ToSet(q) \cup ToSet(es)
    BY <1>5, JoinParts
  <2>2. FlattenSeq(u) = q \o es
    BY <1>12, <2>1, FlattenOne
  <2> QED
    BY <1>11, <2>1, <2>2 DEF Opens
<1>13. (IsAppend(c, b) => ~IsInsert(c, b)) /\ (IsAppend(c, b) \/ IsInsert(c, b))
  <2>1. IsAppend(c, b) => ~IsInsert(c, b)
    BY DEF IsAppend, IsInsert
  <2> QED
    BY <1>1, <2>1 DEF Specialised
<1>14. TakenApart(c) => KidSet(b) = {Kid(b, 1), k}
  <2>1. SUFFICES ASSUME TakenApart(c) PROVE KidSet(b) = {Kid(b, 1), k}
    OBVIOUS
  <2>2. Len(Kids(b)) = 2
    BY <1>1, <2>1, BodyShape DEF TakenApart, Literal
  <2>3. KidSet(b) = {Kids(b)[i] : i \in 1 .. Len(Kids(b))}
    BY <1>1, Shape
  <2>4. 1 .. Len(Kids(b)) = {1, 2}
    BY <2>2
  <2>5. KidSet(b) = {Kids(b)[1], Kids(b)[2]}
    BY <2>3, <2>4
  <2> QED
    BY <1>3, <2>5 DEF Kid, Kids
<1>15. CASE TakenApart(c) /\ ~(IsInsert(c, b) /\ Literal(b) /\ ~Wrapped(c))
  <2>1. u = <<q \o entries>>
    BY <1>1, <1>3, <1>4, <1>6, <1>11, <1>13, <1>15 DEF TakenApart, Updates
  <2>2. Opens(c) = ToSet(q) \cup KidSet(k)
    BY <1>7, <1>12, <2>1
  <2> QED
    BY <1>1, <1>2, <1>3, <1>5, <1>10, <1>14, <1>15, <2>2
<1>16. CASE IsInsert(c, b) /\ Literal(b) /\ ~Wrapped(c)
  <2>1. u = [i \in 1 .. (Len(entries) \div 2) |-> SubSeq(entries, 2 * i - 1, 2 * i)]
    BY <1>1, <1>3, <1>4, <1>6, <1>11, <1>13, <1>16 DEF Updates
  <2>2. Op(k) = "map"
    BY <1>3, <1>16 DEF Literal
  <2>3. Even(Len(entries))
    BY <1>6, <2>2, Shape DEF Arity, Even
  <2>4. \A i \in 1 .. Len(entries) : entries[i] \in KidSet(k)
    BY <1>7 DEF ToSet
  <2>5. entries \in Seq(KidSet(k))
    BY <1>7, <2>4
  <2>6. u \in Seq(Seq(KidSet(k))) /\ \A x \in ToSet(entries) : x \in ToSet(FlattenSeq(u))
    BY <2>1, <2>3, <2>5, PairsHave
  <2>7. FlattenSeq(u) \in Seq(KidSet(k))
    BY <2>6, FlattenAny
  <2>8. Opens(c) \subseteq KidSet(k)
    BY <1>11, <2>7 DEF Opens, ToSet
  <2>9. KidSet(k) \subseteq Opens(c)
    BY <1>7, <1>11, <2>6 DEF Opens
  <2>10. TakenApart(c)
    BY <1>1, <1>16 DEF TakenApart
  <2> QED
    BY <1>1, <1>2, <1>3, <1>10, <1>14, <1>16, <2>8, <2>9, <2>10
<1>17. CASE ~TakenApart(c)
  <2>1. u = <<q \o tail>>
    BY <1>1, <1>3, <1>4, <1>8, <1>11, <1>13, <1>17 DEF TakenApart, Updates
  <2>2. Opens(c) = ToSet(q) \cup ToSet(tail)
    BY <1>9, <1>12, <2>1
  <2> QED
    BY <1>1, <1>2, <1>3, <1>5, <1>9, <1>10, <1>17, <2>2
<1> QED
  BY <1>15, <1>16, <1>17

\* The nodes emitted below a node.
LEMMA EmitsFact ==
    ASSUME tree \in Trees, NEW n \in Nodes
    PROVE  /\ EmittedFirst(n) \in Seq(Nodes) /\ EmittedThen(n) \in Seq(Nodes)
           /\ \A k \in Emits(n) : k \in Nodes /\ k > n
           /\ Op(n) # "comp" => Emits(n) = KidSet(n)
           /\ Op(n) = "comp" => Emits(n) = {IterRange(n), AccuInit(n), Result(n)} \cup
                                           (IF Specialised(n) THEN Opens(n) ELSE {LoopBody(n)})
<1>1. n \in Nat /\ \A k \in KidSet(n) : k \in Nodes /\ k > n /\ k \in Nat
  BY KidIsLater, NodeNat
<1>2. CASE Op(n) # "comp"
  <2>1. PICK none : none = <<>>
    OBVIOUS
  <2>2. none \in Seq(Nodes) /\ ToSet(none) = {}
    BY <2>1 DEF ToSet
  <2>3. EmittedFirst(n) = none /\ EmittedThen(n) = Kids(n)
    BY <1>2, <2>1 DEF EmittedFirst, EmittedThen
  <2>4. Kids(n) \in Seq(Nodes) /\ ToSet(Kids(n)) = KidSet(n)
    BY KidsMember DEF KidSet
  <2>5. Emits(n) = KidSet(n)
    BY <2>2, <2>3, <2>4 DEF Emits
  <2> QED
    BY <1>1, <1>2, <2>2, <2>3, <2>4, <2>5
<1>3. CASE Op(n) = "comp"
  <2>1. PICK r : r = IterRange(n)
    OBVIOUS
  <2>2. PICK i : i = AccuInit(n)
    OBVIOUS
  <2>3. PICK m : m = LoopBody(n)
    OBVIOUS
  <2>4. PICK x : x = Result(n)
    OBVIOUS
  <2>5. {r, i, m, x} \subseteq KidSet(n)
    BY <1>3, <2>1, <2>2, <2>3, <2>4, CompKids
  <2>6. {r, i, m, x} \subseteq Nodes /\ \A k \in {r, i, m, x} : k > n
    BY <1>1, <2>5
  <2>7. PICK a : a = <<r, i>>
    OBVIOUS
  <2>8. a \in Seq(Nodes) /\ ToSet(a) = {r, i}
    <3>1. DOMAIN a = {1, 2} /\ a[1] = r /\ a[2] = i
      BY <2>7
    <3> QED
      BY <2>6, <2>7, <3>1 DEF ToSet
  <2>9. \A k \in Nodes : \E one \in Seq(Nodes) : one = <<k>> /\ ToSet(one) = {k}
    <3>1. TAKE k \in Nodes
    <3>2. <<k>> \in Seq(Nodes) /\ ToSet(<<k>>) = {k}
      BY DEF ToSet
    <3> QED
      BY <3>2
  <2>10. PICK sx \in Seq(Nodes) : sx = <<x>> /\ ToSet(sx) = {x}
    BY <2>6, <2>9
  <2>11. PICK sm \in Seq(Nodes) : sm = <<m>> /\ ToSet(sm) = {m}
    BY <2>6, <2>9
  <2>12. PICK b : b = IF Specialised(n) THEN FlattenSeq(Updates(n)) ELSE sm
    OBVIOUS
  <2>13. /\ b \in Seq(Nodes) /\ ToSet(b) = (IF Specialised(n) THEN Opens(n) ELSE {m})
         /\ \A k \in ToSet(b) : k > n
    <3>1. CASE Specialised(n)
      <4>1. b \in Seq(Below(m))
        BY <1>3, <2>3, <2>12, <3>1, OpensFact
      <4>2. Below(m) \subseteq Nodes /\ \A k \in Below(m) : k >= m
        BY <2>6, BelowSelf
      <4>3. \A k \in ToSet(b) : k \in Below(m)
        BY <4>1 DEF ToSet
      <4>4. \A k \in Below(m) : k > n
        <5>1. m > n /\ m \in Nat
          BY <1>1, <2>5, <2>6
        <5> QED
          BY <1>1, <4>2, <5>1, NodeNat
      <4>5. b \in Seq(Nodes)
        BY <4>1, <4>2
      <4> QED
        BY <2>12, <3>1, <4>3, <4>4, <4>5 DEF Opens
    <3>2. CASE ~Specialised(n)
      BY <2>6, <2>11, <2>12, <3>2
    <3> QED
      BY <3>1, <3>2
  <2>14. PICK t : t = b \o sx
    OBVIOUS
  <2>15. t \in Seq(Nodes) /\ ToSet(t) = ToSet(b) \cup ToSet(sx)
    BY <2>13, <2>14, JoinParts
  <2>16. EmittedFirst(n) = a /\ EmittedThen(n) = t
    BY <1>3, <2>1, <2>2, <2>3, <2>4, <2>7, <2>10, <2>11, <2>12, <2>14 DEF EmittedFirst, EmittedThen
  <2>17. Emits(n) = {r, i, x} \cup ToSet(b)
    BY <2>8, <2>10, <2>15, <2>16 DEF Emits
  <2>18. \A k \in Emits(n) : k \in Nodes /\ k > n
    <3>1. \A k \in ToSet(b) : k \in Nodes
      BY <2>13 DEF ToSet
    <3> QED
      BY <2>6, <2>13, <2>17, <3>1
  <2> QED
    BY <1>3, <2>1, <2>2, <2>3, <2>4, <2>8, <2>13, <2>15, <2>16, <2>17, <2>18
<1> QED
  BY <1>2, <1>3

Lowered(of) ==
    of = [n \in Nodes |->
            FirstFailure(<<EntryCheck(n)>> \o [i \in DOMAIN EmittedFirst(n) |-> of[EmittedFirst(n)[i]]] \o
                         <<LoopCheck(n)>> \o [i \in DOMAIN EmittedThen(n) |-> of[EmittedThen(n)[i]]] \o
                         <<ExitCheck(n)>>)]

\* Outcome is what its definition says: what it reads comes later in the tree.
LEMMA OutcomeUnfolds ==
    ASSUME tree \in Trees
    PROVE  \A n \in Nodes : Outcome[n] = Coming(Outcome, n)
<1>1. PICK l \in Nat : l = Len(tree.op) /\ Nodes = 1 .. l
  BY NodeNat
<1> DEFINE Good(f, i) == f = [n \in Nodes |-> f[n]] /\ \A n \in Nodes : n > i => f[n] = Coming(f, n)
<1> DEFINE Reached == {i \in 0 .. l : \E f : Good(f, i)}
<1>2. l \in Reached
  <2>1. PICK f : f = [n \in Nodes |-> "ok"]
    OBVIOUS
  <2>2. f = [n \in Nodes |-> f[n]]
    BY <2>1
  <2>3. Good(f, l)
    BY <1>1, <2>2
  <2> QED
    BY <1>1, <2>3
<1>3. PICK i \in Reached : \A j \in Reached : i <= j
  <2>1. PICK r : r = Reached
    OBVIOUS
  <2>2. r \subseteq Nat /\ r # {}
    BY <1>2, <2>1
  <2>3. \E i \in r : \A j \in r : i <= j
    BY <2>2, LeastIndex
  <2> QED
    BY <2>1, <2>3
<1>4. i = 0
  <2>1. SUFFICES ASSUME i # 0 PROVE FALSE
    OBVIOUS
  <2>2. i \in Nodes /\ i - 1 \in 0 .. l /\ i \in Nat
    BY <1>1, <1>3, <2>1
  <2>3. PICK f : Good(f, i)
    BY <1>3
  <2>4. PICK g : g = [n \in Nodes |-> IF n = i THEN Coming(f, i) ELSE f[n]]
    OBVIOUS
  <2>5. g[i] = Coming(f, i) /\ \A n \in Nodes : n # i => g[n] = f[n]
    BY <2>2, <2>4
  <2>6. ASSUME NEW n \in Nodes, n >= i PROVE Coming(g, n) = Coming(f, n)
    <3>1. \A k \in Emits(n) : k \in Nodes /\ k > n
      BY EmitsFact
    <3>2. n \in Nat /\ \A k \in Nodes : k > n => k # i
      BY <1>1, <2>2, <2>6
    <3>3. \A k \in Emits(n) : g[k] = f[k]
      BY <2>5, <3>1, <3>2
    <3> QED
      BY <3>3, ComingSame
  <2>7. ASSUME NEW n \in Nodes, n > i - 1 PROVE g[n] = Coming(g, n)
    <3>1. n >= i /\ n \in Nat
      BY <1>1, <2>2, <2>7
    <3>2. Coming(g, n) = Coming(f, n)
      BY <2>6, <3>1
    <3>3. CASE n = i
      BY <2>5, <3>2, <3>3
    <3>4. CASE n # i
      <4>1. n > i
        BY <2>2, <3>1, <3>4
      <4> QED
        BY <2>3, <2>5, <3>2, <3>4, <4>1
    <3> QED
      BY <3>3, <3>4
  <2>8. g = [n \in Nodes |-> g[n]]
    BY <2>4
  <2>9. Good(g, i - 1)
    BY <2>7, <2>8
  <2> QED
    BY <1>3, <2>2, <2>9
<1>5. PICK f : Good(f, 0)
  BY <1>3, <1>4
<1>6. f = [n \in Nodes |-> Coming(f, n)]
  BY <1>1, <1>5
<1>7. Lowered(f)
  BY <1>6 DEF Lowered, Coming
<1>8. PICK h : h = CHOOSE g : Lowered(g)
  OBVIOUS
<1>9. Lowered(h)
  BY <1>7, <1>8
<1>10. h = [n \in Nodes |-> Coming(h, n)]
  BY <1>9 DEF Lowered, Coming
<1>11. Outcome = h
  BY <1>8 DEF Outcome, Lowered
<1> QED
  BY <1>10, <1>11

-----------------------------------------------------------------------------
(* A failure of the lowering comes from the tree, and every fault of the   *)
(* tree makes it fail.                                                     *)

\* Not the step of a specialised loop, which has no code of its own.
Own(n) == \A c \in Comps : Specialised(c) => LoopBody(c) # n

\* The parts of a comprehension are distinct.
LEMMA PartsApart ==
    ASSUME tree \in Trees, NEW c \in Nodes, Op(c) = "comp"
    PROVE  LoopBody(c) \notin {IterRange(c), AccuInit(c), Result(c)}
<1>1. Kids(c) \in Seq(Nat) /\ Len(Kids(c)) = 5
  BY Shape DEF Arity
<1>2. \A i, j \in 1 .. 5 : Kids(c)[i] = Kids(c)[j] => i = j
  BY <1>1, KidsInOrder
<1>3. Kids(c)[4] # Kids(c)[1] /\ Kids(c)[4] # Kids(c)[2] /\ Kids(c)[4] # Kids(c)[5]
  BY <1>2
<1> QED
  BY <1>3 DEF IterRange, AccuInit, LoopBody, Result, Kid, Kids

\* What a kid of something else than a comprehension is.
LEMMA OwnKid ==
    ASSUME tree \in Trees, NEW q \in Nodes, Op(q) # "comp", NEW k \in KidSet(q)
    PROVE  Own(k)
<1>1. SUFFICES ASSUME NEW c \in Comps, LoopBody(c) = k PROVE FALSE
  BY DEF Own
<1>2. c \in Nodes /\ Op(c) = "comp" /\ k \in KidSet(c)
  BY <1>1, CompNode, CompKids
<1> QED
  BY <1>2, OneParent

\* Whatever is emitted for itself is the step of no specialised loop.
LEMMA EmitsOwn ==
    ASSUME tree \in Trees, NEW n \in Nodes, NEW k \in Emits(n)
    PROVE  Own(k)
<1>1. CASE Op(n) # "comp"
  BY <1>1, EmitsFact, OwnKid
<1>2. CASE Op(n) = "comp" /\ Specialised(n) /\ k \in Opens(n)
  <2>1. PICK b \in Nodes : b = Body(n) /\ Op(b) \in {"add", "put"}
    BY <1>2, BodyShape
  <2>2. PICK m \in Nodes : m = LoopBody(n)
    BY <1>2, BodyShape
  <2>3. PICK d \in Nodes : d = Kid(b, 2)
    BY <1>2, <2>1, BodyShape
  <2>4. k \in (IF TakenApart(n) THEN KidSet(d) ELSE KidSet(b)) \/ (Wrapped(n) /\ k = Kid(m, 1))
    BY <1>2, <2>1, <2>2, <2>3, OpensFact
  <2>5. CASE k \in KidSet(b)
    BY <2>1, <2>5, OwnKid
  <2>6. CASE Wrapped(n) /\ k = Kid(m, 1)
    <3>1. Op(m) = "cond" /\ k \in KidSet(m)
      BY <1>2, <2>2, <2>6, BodyShape
    <3> QED
      BY <3>1, OwnKid
  <2>7. CASE TakenApart(n) /\ k \in KidSet(d)
    <3>1. Op(d) # "comp"
      BY <2>1, <2>3, <2>7 DEF TakenApart, IsAppend, Literal
    <3> QED
      BY <2>7, <3>1, OwnKid
  <2> QED
    BY <2>4, <2>5, <2>6, <2>7
<1>3. CASE Op(n) = "comp" /\ (k \in {IterRange(n), AccuInit(n), Result(n)} \/ (~Specialised(n) /\ k = LoopBody(n)))
  <2>1. SUFFICES ASSUME NEW c \in Comps, Specialised(c), LoopBody(c) = k PROVE FALSE
    BY DEF Own
  <2>2. c \in Nodes /\ Op(c) = "comp" /\ k \in KidSet(c)
    BY <2>1, CompNode, CompKids
  <2>3. k \in KidSet(n)
    BY <1>3, CompKids
  <2>4. c = n
    BY <2>2, <2>3, OneParent
  <2> QED
    BY <1>3, <2>1, <2>4, PartsApart
<1> QED
  BY <1>1, <1>2, <1>3, EmitsFact

\* A crash of the lowering is a fault of the tree.
LEMMA CrashFault ==
    ASSUME tree \in Trees, \A m \in Nodes : Matches(m)
    PROVE  \A n \in Nodes : Outcome[n] = "crash" /\ Own(n) => Unplaced
<1> DEFINE Bad == {n \in Nodes : Outcome[n] = "crash" /\ Own(n)}
<1>1. SUFFICES ASSUME Bad # {} PROVE Unplaced
  OBVIOUS
<1>2. PICK l \in Nat : l = Len(tree.op) /\ Nodes = 1 .. l
  BY NodeNat
<1>3. PICK bad : bad = Bad
  OBVIOUS
<1>4. bad \subseteq 0 .. l /\ bad # {}
  BY <1>1, <1>2, <1>3
<1>5. PICK n \in bad : \A j \in bad : j <= n
  BY <1>4, GreatestIndex
<1>6. n \in Nodes /\ Outcome[n] = "crash" /\ Own(n)
  BY <1>3, <1>5
<1>7. Coming(Outcome, n) = "crash"
  BY <1>6, OutcomeUnfolds
<1>8. \/ "crash" \in {EntryCheck(n), LoopCheck(n), ExitCheck(n)}
      \/ \E k \in Emits(n) : Outcome[k] = "crash"
  <2>1. EmittedFirst(n) \in Seq(Nodes) /\ EmittedThen(n) \in Seq(Nodes)
    BY <1>6, EmitsFact
  <2>2. "crash" # "ok"
    OBVIOUS
  <2> QED
    BY <1>7, <2>1, <2>2, ComingFact
<1>9. CASE EntryCheck(n) = "crash"
  <2>1. Op(n) = "comp" /\ storage[AccuInit(n)].kind \notin {"rodata", "slot"}
    BY <1>9 DEF EntryCheck, InitAddressable
  <2>2. Matches(AccuInit(n))
    BY <1>6, <2>1, CompKids
  <2>3. Place[AccuInit(n)] \in {"variable", "nowhere"}
    BY <2>1, <2>2 DEF Matches
  <2> QED
    BY <1>6, <2>1, <2>3 DEF Unplaced
<1>10. CASE ExitCheck(n) = "crash"
  <2>1. Op(n) = "cond" /\ storage[Kid(n, 1)] = None
    BY <1>10 DEF ExitCheck, CondAddressable
  <2>2. Kid(n, 1) \in Nodes
    BY <1>6, <2>1, CondKid, KidIsLater
  <2>3. Place[Kid(n, 1)] = "nowhere"
    BY <2>1, <2>2 DEF Matches, None
  <2> QED
    BY <1>6, <2>1, <2>3 DEF Unplaced, Own
<1>11. LoopCheck(n) # "crash"
  BY DEF LoopCheck
<1>12. CASE \E k \in Emits(n) : Outcome[k] = "crash"
  <2>1. PICK k \in Emits(n) : Outcome[k] = "crash"
    BY <1>12
  <2>2. k \in Nodes /\ k > n /\ Own(k)
    BY <1>6, EmitsFact, EmitsOwn
  <2>3. k \in bad
    BY <1>3, <2>1, <2>2
  <2>4. k <= n /\ k \in Nat /\ n \in Nat
    BY <1>4, <1>5, <2>3
  <2> QED
    BY <2>2, <2>4
<1> QED
  BY <1>8, <1>9, <1>10, <1>11, <1>12

\* The loop conditions that are recognised hold nothing that could fail.
LEMMA ConditionOps ==
    ASSUME tree \in Trees, NEW c \in Nodes, Op(c) = "comp", ConditionRecognised(c),
           NEW n \in Below(Kid(c, 3))
    PROVE  Op(n) \in {"const", "call", "ident"}
<1>1. PICK k \in Nodes : k = Kid(c, 3)
  BY CompKids
<1>2. ASSUME NEW q \in Nodes, Op(q) \in {"const", "ident"} PROVE Below(q) = {q}
  <2>1. Kids(q) \in Seq(Nat) /\ Len(Kids(q)) = 0
    BY <1>2, Shape DEF Arity
  <2>2. KidSet(q) = {}
    <3>1. KidSet(q) = {Kids(q)[i] : i \in 1 .. Len(Kids(q))} /\ 1 .. 0 = {}
      BY Shape
    <3> QED
      BY <2>1, <3>1
  <2> QED
    BY <2>2, BelowSplit, BelowSelf
<1>3. ASSUME NEW q \in Nodes, Len(Kids(q)) = 1, NEW x \in Below(q), x # q
      PROVE  Kid(q, 1) \in Nodes /\ x \in Below(Kid(q, 1))
  <2>1. KidSet(q) = {Kids(q)[i] : i \in 1 .. Len(Kids(q))}
    BY Shape
  <2>2. KidSet(q) = {Kids(q)[i] : i \in 1 .. 1}
    BY <1>3, <2>1
  <2>3. KidSet(q) = {Kids(q)[1]}
    BY <2>2
  <2>4. PICK d \in KidSet(q) : x \in Below(d)
    BY <1>3, BelowSplit
  <2>5. d = Kid(q, 1)
    BY <2>3, <2>4 DEF Kid, Kids
  <2> QED
    BY <2>4, <2>5, KidIsLater
<1>4. ASSUME NEW q \in Nodes, OfAccu(c, q), NEW x \in Below(q) PROVE Op(x) \in {"call", "ident"}
  <2>1. Op(q) = "call" /\ Len(Kids(q)) = 1 /\ Op(Kid(q, 1)) = "ident"
    BY <1>4 DEF OfAccu, IsAccu
  <2>2. ASSUME x # q PROVE x = Kid(q, 1)
    <3>1. Kid(q, 1) \in Nodes /\ x \in Below(Kid(q, 1))
      BY <1>3, <1>4, <2>1, <2>2
    <3> QED
      BY <1>2, <2>1, <3>1
  <2> QED
    BY <2>1, <2>2
<1>5. CASE Op(k) = "const"
  BY <1>1, <1>2, <1>5
<1>6. CASE OfAccu(c, k)
  BY <1>1, <1>4, <1>6
<1>7. CASE Op(k) = "call" /\ Len(Kids(k)) = 1 /\ OfAccu(c, Kid(k, 1))
  <2>1. n \in Below(k)
    BY <1>1
  <2>2. ASSUME n # k PROVE Op(n) \in {"call", "ident"}
    <3>1. Kid(k, 1) \in Nodes /\ n \in Below(Kid(k, 1))
      BY <1>3, <1>7, <2>1, <2>2
    <3> QED
      BY <1>4, <1>7, <3>1
  <2> QED
    BY <1>7, <2>2
<1> QED
  BY <1>1, <1>5, <1>6, <1>7 DEF ConditionRecognised

\* The nodes of a specialised step that have no code of their own.
Skeleton(c) ==
    {LoopBody(c), Body(c)} \cup
    ((KidSet(Body(c)) \cup (IF Wrapped(c) THEN KidSet(LoopBody(c)) ELSE {})) \ Opens(c))

Silent(n) ==
    \E c \in Comps : \/ ConditionRecognised(c) /\ n \in Below(Kid(c, 3))
                     \/ Specialised(c) /\ n \in Skeleton(c)

\* What they are, and that their kids are emitted or silent again.
LEMMA SkeletonFact ==
    ASSUME tree \in Trees, NEW c \in Nodes, Op(c) = "comp", Specialised(c), NEW p \in Skeleton(c)
    PROVE  /\ p \in Nodes /\ Op(p) # "comp" /\ (Op(p) = "cond" => p = LoopBody(c))
           /\ p \in Below(LoopBody(c))
           /\ \A k \in KidSet(p) : k \in Opens(c) \/ k \in Skeleton(c)
<1>1. PICK b \in Nodes : b = Body(c) /\ Op(b) \in {"add", "put"}
  BY BodyShape
<1>2. PICK m \in Nodes : m = LoopBody(c)
  BY BodyShape
<1>3. m \in Below(m)
  BY <1>2, BelowSelf
<1>4. b \in Below(m)
  <2>1. CASE Wrapped(c)
    BY <1>1, <1>2, <1>3, <2>1, BodyShape, KidBelow
  <2>2. CASE ~Wrapped(c)
    BY <1>1, <1>2, <1>3, <2>2, BodyShape
  <2> QED
    BY <2>1, <2>2
<1>5. \A k \in KidSet(b) : k \in Opens(c) \/ k \in Skeleton(c)
  BY <1>1 DEF Skeleton
<1>6. CASE p = b
  BY <1>1, <1>2, <1>4, <1>5, <1>6
<1>7. CASE p = m /\ p # b
  <2>1. Wrapped(c) /\ Op(m) = "cond"
    BY <1>1, <1>2, <1>7, BodyShape
  <2>2. \A k \in KidSet(m) : k \in Opens(c) \/ k \in Skeleton(c)
    BY <1>2, <2>1 DEF Skeleton
  <2> QED
    BY <1>2, <1>3, <1>7, <2>1, <2>2
<1>8. ASSUME NEW q \in Nodes, Op(q) = "ident" PROVE KidSet(q) = {}
  <2>1. Kids(q) \in Seq(Nat) /\ Len(Kids(q)) = 0
    BY <1>8, Shape DEF Arity
  <2>2. KidSet(q) = {Kids(q)[i] : i \in 1 .. Len(Kids(q))} /\ 1 .. 0 = {}
    BY Shape
  <2> QED
    BY <2>1, <2>2
<1>9. CASE p # b /\ p \in KidSet(b) \ Opens(c)
  <2>1. p \in Nodes /\ p \in Below(m)
    BY <1>1, <1>2, <1>4, <1>9, KidIsLater, KidBelow
  <2>2. CASE p = Kid(b, 1)
    <3>1. Op(p) = "ident"
      BY <1>1, <2>2, BodyShape
    <3> QED
      BY <1>2, <1>8, <2>1, <3>1
  <2>3. CASE p # Kid(b, 1)
    <3>1. TakenApart(c)
      BY <1>1, <1>9, <2>3, OpensFact
    <3>2. p = Kid(b, 2) /\ KidSet(p) \subseteq Opens(c)
      BY <1>1, <1>9, <2>3, <3>1, OpensFact
    <3>3. Op(p) \in {"list", "map"}
      BY <1>1, <3>1, <3>2 DEF TakenApart, IsAppend, Literal
    <3> QED
      BY <1>2, <2>1, <3>2, <3>3
  <2> QED
    BY <2>2, <2>3
<1>10. CASE p # b /\ Wrapped(c) /\ p \in KidSet(m) \ Opens(c)
  <2>1. p \in Nodes /\ p \in Below(m)
    BY <1>2, <1>3, <1>10, KidIsLater, KidBelow
  <2>2. KidSet(m) = {Kid(m, 1), b, Kid(m, 3)} /\ Op(Kid(m, 3)) = "ident"
    BY <1>1, <1>2, <1>10, BodyShape
  <2>3. Kid(m, 1) \in Opens(c)
    BY <1>2, <1>10, OpensFact
  <2>4. Op(p) = "ident"
    BY <1>10, <2>2, <2>3
  <2> QED
    BY <1>2, <1>8, <2>1, <2>4
<1> QED
  BY <1>1, <1>2, <1>6, <1>7, <1>9, <1>10 DEF Skeleton

\* No comprehension is silent, nor a ternary that has its own code.
LEMMA SilentOps ==
    ASSUME tree \in Trees, NEW n \in Nodes, Silent(n)
    PROVE  Op(n) # "comp" /\ (Op(n) = "cond" => ~Own(n))
<1>1. PICK c \in Comps : \/ ConditionRecognised(c) /\ n \in Below(Kid(c, 3))
                         \/ Specialised(c) /\ n \in Skeleton(c)
  BY DEF Silent
<1>2. c \in Nodes /\ Op(c) = "comp"
  BY CompNode
<1>3. CASE ConditionRecognised(c) /\ n \in Below(Kid(c, 3))
  <2>1. Op(n) \in {"const", "call", "ident"}
    BY <1>2, <1>3, ConditionOps
  <2> QED
    BY <2>1
<1>4. CASE Specialised(c) /\ n \in Skeleton(c)
  <2>1. Op(n) # "comp" /\ (Op(n) = "cond" => n = LoopBody(c))
    BY <1>2, <1>4, SkeletonFact
  <2> QED
    BY <1>4, <2>1 DEF Own
<1> QED
  BY <1>1, <1>3, <1>4

\* What an ok node has checked, and that what it emits is ok.
LEMMA OkFact ==
    ASSUME tree \in Trees, NEW n \in Nodes, Outcome[n] = "ok"
    PROVE  /\ RangeSupported(n) /\ InitAddressable(n) /\ ConditionRecognised(n) /\ CondAddressable(n)
           /\ \A k \in Emits(n) : Outcome[k] = "ok"
<1>1. Coming(Outcome, n) = "ok"
  BY OutcomeUnfolds
<1>2. EmittedFirst(n) \in Seq(Nodes) /\ EmittedThen(n) \in Seq(Nodes)
  BY EmitsFact
<1>3. /\ EntryCheck(n) = "ok" /\ LoopCheck(n) = "ok" /\ ExitCheck(n) = "ok"
      /\ \A k \in Emits(n) : Outcome[k] = "ok"
  BY <1>1, <1>2, ComingFact
<1> QED
  BY <1>3 DEF EntryCheck, LoopCheck, ExitCheck

\* When the root is ok, every node is, or it is silent.
LEMMA OkOrSilent ==
    ASSUME tree \in Trees, Outcome[1] = "ok"
    PROVE  \A n \in Nodes : Outcome[n] = "ok" \/ Silent(n)
<1> DEFINE Bad == {n \in Nodes : ~(Outcome[n] = "ok" \/ Silent(n))}
<1>1. SUFFICES ASSUME Bad # {} PROVE FALSE
  OBVIOUS
<1>2. PICK bad : bad = Bad
  OBVIOUS
<1>3. bad \subseteq Nat /\ bad # {}
  BY <1>1, <1>2, NodeNat
<1>4. PICK n \in bad : \A j \in bad : n <= j
  BY <1>3, LeastIndex
<1>5. n \in Nodes /\ n \in Nat /\ Outcome[n] # "ok" /\ ~Silent(n)
  BY <1>2, <1>3, <1>4
<1>6. \A j \in Nodes : j < n => Outcome[j] = "ok" \/ Silent(j)
  <2>1. TAKE j \in Nodes
  <2>2. HAVE j < n
  <2>3. j \notin bad
    BY <1>4, <1>5, <2>2, NodeNat
  <2> QED
    BY <1>2, <2>3
<1>7. PICK p \in Nodes : p < n /\ n \in KidSet(p)
  BY <1>5, Rooted
<1>8. p \in Nat
  BY NodeNat
<1>9. CASE Outcome[p] = "ok" /\ Op(p) # "comp"
  <2>1. n \in Emits(p)
    BY <1>7, <1>9, EmitsFact
  <2> QED
    BY <1>5, <1>9, <2>1, OkFact
<1>10. CASE Outcome[p] = "ok" /\ Op(p) = "comp"
  <2>1. n \in {IterRange(p), AccuInit(p), Kid(p, 3), LoopBody(p), Result(p)}
    BY <1>7, <1>10, FiveKids
  <2>2. n \notin Emits(p)
    BY <1>5, <1>10, OkFact
  <2>3. p \in Comps
    BY <1>10 DEF Comps
  <2>4. n = Kid(p, 3) \/ (Specialised(p) /\ n = LoopBody(p))
    BY <1>10, <2>1, <2>2, EmitsFact
  <2>5. n # Kid(p, 3)
    <3>1. ConditionRecognised(p)
      BY <1>10, OkFact
    <3>2. n \in Below(n)
      BY <1>5, BelowSelf
    <3> QED
      BY <1>5, <2>3, <3>1, <3>2 DEF Silent
  <2> QED
    BY <1>5, <2>3, <2>4, <2>5 DEF Silent, Skeleton
<1>11. CASE Silent(p)
  <2>1. PICK c \in Comps : \/ ConditionRecognised(c) /\ p \in Below(Kid(c, 3))
                           \/ Specialised(c) /\ p \in Skeleton(c)
    BY <1>11 DEF Silent
  <2>2. c \in Nodes /\ Op(c) = "comp"
    BY CompNode
  <2>3. CASE ConditionRecognised(c) /\ p \in Below(Kid(c, 3))
    <3>1. n \in Below(Kid(c, 3))
      BY <1>7, <2>2, <2>3, CompKids, KidBelow
    <3> QED
      BY <1>5, <2>3, <3>1 DEF Silent
  <2>4. CASE Specialised(c) /\ p \in Skeleton(c)
    <3>1. p \in Below(LoopBody(c)) /\ (n \in Opens(c) \/ n \in Skeleton(c))
      BY <1>7, <2>2, <2>4, SkeletonFact
    <3>2. LoopBody(c) > c /\ c \in Nat /\ LoopBody(c) \in Nat /\ LoopBody(c) \in Nodes
      BY <2>2, CompKids, KidIsLater
    <3>3. p >= LoopBody(c)
      BY <3>1, <3>2, BelowSelf
    <3>4. c < n
      BY <1>5, <1>7, <1>8, <3>2, <3>3
    <3>5. Outcome[c] = "ok"
      BY <1>6, <2>2, <3>4, SilentOps
    <3>6. n \notin Opens(c)
      <4>1. Opens(c) \subseteq Emits(c)
        BY <2>2, <2>4, EmitsFact
      <4> QED
        BY <1>5, <2>2, <3>5, <4>1, OkFact
    <3> QED
      BY <1>5, <2>4, <3>1, <3>6 DEF Silent
  <2> QED
    BY <2>1, <2>3, <2>4
<1> QED
  BY <1>6, <1>7, <1>9, <1>10, <1>11

\* So a module is emitted for no tree with a fault.
LEMMA OkFaultless ==
    ASSUME tree \in Trees, LaidInv, stage = "emit", \A m \in Nodes : Matches(m), Outcome[1] = "ok"
    PROVE  ~Unplaced
<1>1. \A n \in Nodes : Op(n) = "comp" \/ (Op(n) = "cond" /\ Own(n)) => Outcome[n] = "ok"
  BY OkOrSilent, SilentOps
<1>2. ASSUME NEW n \in Nodes, Op(n) = "comp", Place[AccuInit(n)] \in {"variable", "nowhere"} PROVE FALSE
  <2>1. storage[AccuInit(n)].kind \in {"rodata", "slot"}
    BY <1>1, <1>2, OkFact DEF InitAddressable
  <2>2. Matches(AccuInit(n))
    BY <1>2, CompKids
  <2> QED
    BY <1>2, <2>1, <2>2 DEF Matches, None
<1>3. ASSUME NEW n \in Nodes, Op(n) = "comp", Place[Result(n)] = "nowhere" PROVE FALSE
  <2>1. storage[Result(n)] # None
    BY <1>3 DEF LaidInv, Laid
  <2>2. Matches(Result(n))
    BY <1>3, ResultKid
  <2> QED
    BY <1>3, <2>1, <2>2 DEF Matches
<1>4. ASSUME NEW n \in Nodes, Op(n) = "cond", Place[Kid(n, 1)] = "nowhere",
             \A c \in Comps : Specialised(c) => LoopBody(c) # n
      PROVE  FALSE
  <2>1. Own(n)
    BY <1>4 DEF Own
  <2>2. storage[Kid(n, 1)] # None
    BY <1>1, <1>4, <2>1, OkFact DEF CondAddressable
  <2>3. Matches(Kid(n, 1))
    BY <1>4, CondKid
  <2> QED
    BY <1>4, <2>2, <2>3 DEF Matches
<1> QED
  BY <1>2, <1>3, <1>4 DEF Unplaced

\* Place and Unplaced are read off the tree.
LEMMA SameFaults ==
    ASSUME tree' = tree
    PROVE  Unplaced' <=> Unplaced
<1>1. Nodes' = Nodes /\ Comps' = Comps /\ \A n : Op(n)' = Op(n)
  BY SameTree
<1>2. \A n, i : Kid(n, i)' = Kid(n, i)
  BY DEF Kid
<1>3. \A n : AccuInit(n)' = AccuInit(n) /\ LoopBody(n)' = LoopBody(n) /\ Result(n)' = Result(n)
  BY <1>2 DEF AccuInit, LoopBody, Result
<1>4. Place' = Place
  BY DEF Place, Nodes, Op, Kid, Result
<1>5. \A c : Specialised(c)' <=> Specialised(c)
  BY DEF Specialised, IsAppend, IsInsert, IsAccu, Body, Wrapped, LoopBody, Op, Kid, Kids
<1> QED
  BY <1>1, <1>2, <1>3, <1>4, <1>5 DEF Unplaced

\* Only pass E and the lowering abort, and only the lowering starts the code.
LEMMA OtherSteps ==
    ASSUME [Next]_vars
    PROVE  /\ tree' = tree
           /\ stage' = stage \/ stage' \notin {"crash", "run"} \/ LocalsPost \/ Emit
<1>1. CASE UNCHANGED vars
  BY <1>1 DEF vars
<1>2. CASE ResolvePre \/ EnterScope \/ LeaveScope \/ ResolvePost \/ StartLayout
  BY <1>2 DEF ResolvePre, EnterScope, LeaveScope, ResolvePost, StartLayout, nameVars
<1>3. CASE SelectPre \/ SelectPost \/ AggregatePre \/ AggregatePost
  BY <1>3 DEF SelectPre, SelectPost, AggregatePre, AggregatePost, layoutVars, nameVars
<1>4. CASE LocalsPre \/ LocalsPost \/ Emit
  BY <1>4 DEF LocalsPre, LocalsPost, Emit, layoutVars, nameVars
<1>5. CASE NextPass
  BY <1>5 DEF NextPass, layoutVars, nameVars
<1>6. CASE RunStep
  BY <1>6, RunFrame DEF layoutVars, nameVars
<1>7. CASE Return
  BY <1>7 DEF Return, layoutVars, nameVars
<1> QED
  BY <1>1, <1>2, <1>3, <1>4, <1>5, <1>6, <1>7 DEF Next, RunStep

\* The compiler aborts on the expressions of AbortsExactly and on no other
\* (ResolveCompContext, EmitSlotBaseAddress, PostVisitComprehension).
THEOREM AbortsAlwaysExact == Spec => []AbortsExactly
<1>1. Init => AbortsExactly
  BY DEF Init, AbortsExactly
<1>2. ASSUME LayoutInv, PlaceInv, LaidInv, AbortsExactly, [Next]_vars PROVE AbortsExactly'
  <2>1. tree' = tree
    BY <1>2, OtherSteps
  <2>2. Unplaced' <=> Unplaced
    BY <2>1, SameFaults
  <2>3. CASE stage' = stage
    BY <1>2, <2>2, <2>3 DEF AbortsExactly
  <2>4. CASE LocalsPost
    <3>1. stage = "locals" /\ stage' \in {"locals", "crash"}
      BY <2>4 DEF LocalsPost, Doing
    <3> QED
      BY <1>2, <2>2, <2>4, <3>1, LocalsAbort DEF AbortsExactly
  <2>5. CASE Emit
    <3>1. tree \in Trees /\ stage = "emit"
      BY <1>2, <2>5 DEF LayoutInv, Typed, Emit
    <3>2. \A m \in Nodes : Matches(m)
      BY <1>2, <3>1, AllMatch
    <3>3. 1 \in Nodes /\ Own(1)
      <4>1. 1 \in Nodes
        BY <3>1, NodeNat
      <4>2. ASSUME NEW c \in Comps PROVE LoopBody(c) # 1
        <5>1. c \in Nodes /\ LoopBody(c) \in KidSet(c)
          BY <3>1, CompNode, CompKids
        <5>2. LoopBody(c) > c /\ c >= 1 /\ c \in Nat /\ LoopBody(c) \in Nat
          BY <3>1, <5>1, KidIsLater, NodeNat
        <5> QED
          BY <5>2
      <4> QED
        BY <4>1, <4>2 DEF Own
    <3>4. stage' = "crash" => Unplaced
      BY <2>5, <3>1, <3>2, <3>3, CrashFault DEF Emit
    <3>5. stage' = "run" => ~Unplaced
      BY <1>2, <2>5, <3>1, <3>2, OkFaultless DEF Emit
    <3> QED
      BY <2>2, <3>4, <3>5 DEF AbortsExactly
  <2>6. CASE stage' # stage /\ ~LocalsPost /\ ~Emit
    <3>1. stage' \notin {"crash", "run"}
      BY <1>2, <2>6, OtherSteps
    <3> QED
      BY <3>1 DEF AbortsExactly
  <2> QED
    BY <2>3, <2>4, <2>5, <2>6
<1> QED
  BY <1>1, <1>2, LayoutInvariant, PlaceInvariant, LaidInvariant, PTL DEF Spec

=============================================================================
