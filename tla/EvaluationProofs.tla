-------------------------- MODULE EvaluationProofs --------------------------
(***************************************************************************)
(* The marshal of any program, activation and sequence of calls: the slots *)
(* denote what is bound, the budget of the pre-pass suffices, a binder     *)
(* runs at most once, and the calls implement their contract.              *)
(***************************************************************************)
EXTENDS Evaluation, TLAPS

N == Len(VarSeq)
Reprs == {"scalar", "bytes"} \cup Tables
Contents == {x.content : x \in Values}

Slot == [kind : Reprs \cup {"unset", "unknown"}, at : Nat, size : Nat, content : Contents \cup {None}]
Span == [at : Nat, size : Nat, content : Contents \cup Vars]

TypeOK ==
    /\ repr \in [Vars -> Reprs]
    /\ bound \in [Vars -> Values \cup {Lazy, None}] /\ memo \in [Vars -> Values \cup {None}]
    /\ slots \in [Vars -> Slot]
    /\ refs \in [Tables -> Seq(Contents \cup {Built})]
    /\ opaque \in SUBSET Vars /\ bufs \in Seq(Nat) /\ bytes \in SUBSET Span
    /\ i \in 1 .. N + 1 /\ need \in Nat /\ cursor \in Nat
    /\ binderRuns \in [Vars -> Nat]

\* Which call is in which stage, and that only PartialEval has patterns.
Control ==
    /\ \/ pc = "idle" /\ call = "none"
       \/ pc \in {"prepass", "marshal"} /\ call \in {"eval", "partial"}
       \/ pc = "run" /\ call \in {"eval", "partial", "bare"}
    /\ call # "partial" => opaque = {}

\* The value variable v has in this call, if it has one by now.
Current(v) == IF bound[v] = Lazy THEN memo[v] ELSE bound[v]

\* A binder's run and its memo go together while a call lasts.
BindersInv ==
    /\ \A v \in Vars : binderRuns[v] <= 1 /\ (v \in opaque => binderRuns[v] = 0)
    /\ pc \in {"prepass", "marshal"} \/ (pc = "run" /\ call # "bare") =>
         \A v \in Vars : /\ binderRuns[v] = IF memo[v] = None THEN 0 ELSE 1
                         /\ v \in opaque => memo[v] = None

Known(v) == repr[v] = "bytes" /\ v \notin opaque /\ bound[v] = Lazy => memo[v] # None

\* The pre-pass has asked the binders of the byte payloads it has passed.
SizedInv ==
    /\ pc = "prepass" => \A k \in 1 .. i - 1 : Known(VarSeq[k])
    /\ pc = "marshal" => \A k \in 1 .. N : Known(VarSeq[k])

\* The bytes that the encoder of v takes of the buffer.
Cost(v) ==
    IF v \in opaque THEN DescriptorBytes
    ELSE IF repr[v] = "bytes" THEN AlignUp(PayloadBytes(Current(v))) ELSE 0

\* f has the running totals of the first n costs.
Ledger(f, n) ==
    /\ f \in [0 .. N -> Nat] /\ f[0] = 0
    /\ \A k \in 1 .. n : f[k] = f[k - 1] + Cost(VarSeq[k])
    /\ \A j, k \in 0 .. n : j <= k => f[j] <= f[k]
    /\ \A k \in 0 .. n : f[k] % Align = 0

\* The pre-pass has added up what the marshal will take, in the same order.
BudgetInv ==
    /\ pc = "prepass" => cursor = 0 /\ \E f : Ledger(f, i - 1) /\ need = f[i - 1]
    /\ pc = "marshal" => need <= Capacity /\ \E f : Ledger(f, N) /\ need = f[N] /\ cursor = f[i - 1]
    /\ outcome.status # "resource_exhausted"

\* What is in the buffer at an address is one thing.
BytesInv ==
    /\ \A o, w \in bytes : o.at = w.at /\ o.size = w.size => o = w
    /\ \A o \in bytes : o.size = 0 => \E x \in Values : HasBytes(x) /\ x.size = 0 /\ x.content = o.content

\* [at, at + size) of the buffer holds content, below limit.
Stored(at, size, content, limit) ==
    \E w \in bytes : w.at = at /\ w.size = size /\ w.content = content /\ w.at + w.size <= limit

\* The slot of v leads to what v is in this call.
Placed(v, limit) ==
    LET s == slots[v]
        x == Current(v)
    IN  IF v \in opaque THEN s.kind = "unknown" /\ Stored(s.at, DescriptorBytes, v, limit)
        ELSE /\ x \in Values
             /\ \/ s.kind = "scalar" /\ s.content = x.content
                \/ s.kind = "bytes" /\ Stored(s.at, s.size, x.content, limit)
                \/ s.kind \in Tables /\ s.at \in 1 .. Len(refs[s.kind]) /\ refs[s.kind][s.at] = x.content

PlacedInv ==
    /\ pc = "marshal" => \A k \in 1 .. i - 1 : Placed(VarSeq[k], cursor)
    /\ pc = "run" /\ call # "bare" => \A v \in Vars : Placed(v, cursor)

IInv == TypeOK /\ Control /\ BindersInv /\ SizedInv /\ BudgetInv /\ BytesInv /\ PlacedInv

-----------------------------------------------------------------------------
(* The operators *)

LEMMA VarFacts ==
    /\ N \in Nat
    /\ \A k \in 1 .. N : VarSeq[k] \in Vars
    /\ \A v \in Vars : \E k \in 1 .. N : v = VarSeq[k]
  BY EvaluationAssumption DEF N, Vars

LEMMA AlignFacts ==
    /\ \A n \in Nat : AlignUp(n) \in Nat /\ n <= AlignUp(n) /\ AlignUp(n) % Align = 0
    /\ \A m, n \in Nat : m % Align = 0 => AlignUp(m + n) = m + AlignUp(n)
    /\ \A m, n \in Nat : m % Align = 0 /\ n % Align = 0 => (m + n) % Align = 0
  BY DEF AlignUp, Align

LEMMA RoundUpCovers == \A n \in Nat : RoundUpTo4K(n) \in Nat /\ n <= RoundUpTo4K(n)
  <1> SUFFICES ASSUME NEW n \in Nat PROVE RoundUpTo4K(n) \in Nat /\ n <= RoundUpTo4K(n)
    OBVIOUS
  <1>1. Page \in Nat /\ Page > 0
    BY EvaluationAssumption
  <1> DEFINE m == n + Page - 1
             q == m \div Page
  <1>2. m \in Nat /\ q \in Nat /\ m = q * Page + (m % Page) /\ m % Page \in 0 .. Page - 1
    BY <1>1
  <1>3. q * Page \in Nat
    BY <1>1, <1>2
  <1> HIDE DEF q
  <1>4. n <= q * Page
    BY <1>1, <1>2, <1>3
  <1> QED BY <1>3, <1>4 DEF RoundUpTo4K, q

LEMMA ValueFacts ==
    /\ \A x \in Values : /\ x.content \in Contents /\ x.size \in Nat
                         /\ x.kind \in Reprs /\ x # None /\ x # Lazy
                         /\ x.content # None /\ x.content # Lazy
    /\ \A x \in Values \cup {None} : PayloadBytes(x) \in Nat
  BY EvaluationAssumption, MarkersAssumption DEF Contents, ValueType, PayloadBytes, Reprs

\* What a binding answers, and what asking leaves behind.
LEMMA ResolveFacts ==
    ASSUME TypeOK, BindersInv, pc \in {"prepass", "marshal"}, bound' = bound,
           NEW v \in Vars, v \notin opaque, NEW x \in Values \cup {None}, Resolve(v, x)
    PROVE  /\ memo' \in [Vars -> Values \cup {None}] /\ binderRuns' \in [Vars -> Nat]
           /\ Current(v)' = x
           /\ bound[v] = Lazy => x \in Values /\ memo'[v] # None
           /\ \A u \in Vars : u # v => memo'[u] = memo[u] /\ Current(u)' = Current(u)
           /\ \A u \in Vars : memo[u] # None => memo'[u] = memo[u] /\ Current(u)' = Current(u)
           /\ \A u \in Vars : /\ binderRuns'[u] = IF memo'[u] = None THEN 0 ELSE 1
                              /\ u \in opaque => memo'[u] = None
  <1>1. CASE bound[v] # Lazy
    BY <1>1 DEF Resolve, TypeOK, BindersInv, Current
  <1>2. CASE bound[v] = Lazy /\ memo[v] # None
    BY <1>2 DEF Resolve, TypeOK, BindersInv, Current
  <1>3. CASE bound[v] = Lazy /\ memo[v] = None
    <2>1. /\ x \in Values /\ memo' = [memo EXCEPT ![v] = x]
          /\ binderRuns' = [binderRuns EXCEPT ![v] = @ + 1]
      BY <1>3 DEF Resolve
    <2>2. memo' \in [Vars -> Values \cup {None}] /\ binderRuns' \in [Vars -> Nat]
      BY <2>1 DEF TypeOK
    <2>3. memo'[v] = x /\ x # None /\ binderRuns'[v] = 1 /\ Current(v)' = x
      BY <1>3, <2>1, ValueFacts DEF TypeOK, BindersInv, Current
    <2>4. \A u \in Vars : u # v => /\ memo'[u] = memo[u] /\ binderRuns'[u] = binderRuns[u]
                                   /\ Current(u)' = Current(u)
      BY <2>1 DEF TypeOK, Current
    <2> QED BY <1>3, <2>1, <2>2, <2>3, <2>4 DEF BindersInv
  <1> QED BY <1>1, <1>2, <1>3

\* A failing binder has run, and nothing else has changed.
LEMMA BinderFailsFacts ==
    ASSUME TypeOK, BindersInv, pc \in {"prepass", "marshal"},
           NEW v \in Vars, v \notin opaque, BinderFails(v)
    PROVE  /\ memo' = memo /\ binderRuns' \in [Vars -> Nat]
           /\ \A u \in Vars : binderRuns'[u] <= 1 /\ (u \in opaque => binderRuns'[u] = 0)
  BY DEF BinderFails, TypeOK, BindersInv

\* A write destroys what it overlaps and nothing below it.
LEMMA WriteFacts ==
    ASSUME TypeOK, BytesInv, NEW n \in Nat, NEW c \in Contents \cup Vars, Write(n, c),
           n = 0 => \E x \in Values : HasBytes(x) /\ x.size = 0 /\ x.content = c
    PROVE  /\ bytes' \in SUBSET Span /\ BytesInv'
           /\ \A w \in bytes : w.at + w.size <= cursor => w \in bytes'
           /\ \E w \in bytes' : w.at = cursor /\ w.size = n /\ w.content = c
  <1> DEFINE new == [at |-> cursor, size |-> n, content |-> c]
  <1>1. bytes' = {o \in bytes : o.at + o.size <= cursor \/ cursor + n <= o.at} \cup {new}
    BY DEF Write
  <1>2. new \in Span /\ new.at = cursor /\ new.size = n /\ new.content = c
    BY DEF TypeOK, Span
  <1>3. \A o \in bytes : o.at \in Nat /\ o.size \in Nat
    BY DEF TypeOK, Span
  <1> HIDE DEF new
  <1>4. bytes' \in SUBSET Span
    BY <1>1, <1>2 DEF TypeOK
  <1>5. \A o \in bytes' : o.at = cursor /\ o.size = n => o = new
    <2> SUFFICES ASSUME NEW o \in bytes, o \in bytes', o.at = cursor, o.size = n, o # new PROVE FALSE
      BY <1>1
    <2>1. cursor + n <= cursor
      BY <1>1, <1>3
    <2>2. n = 0
      BY <2>1 DEF TypeOK
    <2>3. PICK x \in Values : HasBytes(x) /\ x.size = 0 /\ x.content = c
      BY <2>2
    <2>4. PICK y \in Values : HasBytes(y) /\ y.size = 0 /\ y.content = o.content
      BY <2>2 DEF BytesInv
    <2>5. x.content = y.content
      BY <2>3, <2>4, EvaluationAssumption
    <2>6. o \in Span /\ o.content = c
      BY <2>3, <2>4, <2>5 DEF TypeOK
    <2>7. o = [at |-> o.at, size |-> o.size, content |-> o.content]
      BY <2>6 DEF Span
    <2> QED BY <2>6, <2>7 DEF new
  <1>6. BytesInv'
    <2>1. ASSUME NEW o \in bytes', NEW w \in bytes', o.at = w.at, o.size = w.size PROVE o = w
      BY <2>1, <1>1, <1>2, <1>5 DEF BytesInv
    <2>2. ASSUME NEW o \in bytes', o.size = 0
          PROVE  \E x \in Values : HasBytes(x) /\ x.size = 0 /\ x.content = o.content
      BY <2>2, <1>1, <1>2 DEF BytesInv
    <2> QED BY <2>1, <2>2 DEF BytesInv
  <1> QED BY <1>1, <1>2, <1>4, <1>6

\* What is placed stays placed when the buffer below the cursor, the tables'
\* entries, the slot and the value stay.
LEMMA PlacedFrame ==
    ASSUME TypeOK, NEW v \in Vars, NEW l \in Nat, NEW l2 \in Nat, l <= l2, Placed(v, l),
           slots'[v] = slots[v], Current(v)' = Current(v), opaque' = opaque,
           \A w \in bytes : w.at + w.size <= l => w \in bytes',
           \A t \in Tables : \A n \in 1 .. Len(refs[t]) :
               n \in 1 .. Len(refs'[t]) /\ refs'[t][n] = refs[t][n]
    PROVE  Placed(v, l2)'
  <1>1. \A w \in bytes : w.at \in Nat /\ w.size \in Nat
    BY DEF TypeOK, Span
  <1>2. ASSUME NEW at, NEW size, NEW c, Stored(at, size, c, l) PROVE Stored(at, size, c, l2)'
    <2>1. PICK w \in bytes : w.at = at /\ w.size = size /\ w.content = c /\ w.at + w.size <= l
      BY <1>2 DEF Stored
    <2>2. w \in bytes' /\ w.at + w.size <= l2
      BY <1>1, <2>1
    <2> QED BY <2>1, <2>2 DEF Stored
  <1>3. CASE v \in opaque
    BY <1>2, <1>3 DEF Placed
  <1>4. CASE v \notin opaque
    BY <1>2, <1>4 DEF Placed
  <1> QED BY <1>3, <1>4

-----------------------------------------------------------------------------
(* The steps that begin and end a call *)

LEMMA InitIInv == Init => IInv
  <1> SUFFICES ASSUME Init PROVE IInv
    OBVIOUS
  <1> USE DEF Init
  <1>1. TypeOK
    <2>1. Unset \in Slot
      BY DEF Unset, Slot
    <2>2. 1 \in 1 .. N + 1
      BY VarFacts
    <2>3. EmptyTable \in [Tables -> Seq(Contents \cup {Built})]
      BY DEF EmptyTable
    <2>4. repr \in [Vars -> Reprs]
      BY EvaluationAssumption DEF Reprs
    <2> QED BY <2>1, <2>2, <2>3, <2>4 DEF TypeOK
  <1>2. Control /\ BindersInv /\ SizedInv /\ BytesInv /\ PlacedInv
    BY DEF Control, BindersInv, SizedInv, BytesInv, PlacedInv
  <1>3. BudgetInv
    BY DEF BudgetInv, NoOutcome
  <1> QED BY <1>1, <1>2, <1>3 DEF IInv

\* Whatever ends a call, nothing of it is left that the next one relies on.
LEMMA EndIInv ==
    ASSUME IInv, NEW result, EndCall(result), result.status # "resource_exhausted",
           UNCHANGED <<repr, bound, slots, refs, bufs, bytes>>,
           memo' \in [Vars -> Values \cup {None}], binderRuns' \in [Vars -> Nat],
           \A v \in Vars : binderRuns'[v] <= 1 /\ (v \in opaque => binderRuns'[v] = 0)
    PROVE  IInv'
  <1>1. /\ pc' = "idle" /\ call' = "none" /\ i' = 1 /\ need' = 0 /\ cursor' = 0 /\ outcome' = result
        /\ opaque' = {}
    BY DEF EndCall, IInv, Control
  <1>2. TypeOK'
    BY <1>1, VarFacts DEF IInv, TypeOK
  <1>3. Control' /\ SizedInv' /\ BudgetInv' /\ PlacedInv'
    BY <1>1 DEF Control, SizedInv, BudgetInv, PlacedInv
  <1>4. BindersInv' /\ BytesInv'
    BY <1>1 DEF IInv, BindersInv, BytesInv
  <1> QED BY <1>2, <1>3, <1>4 DEF IInv

LEMMA BindIInv ==
    ASSUME IInv, NEW v \in Vars, NEW x \in Values \cup {Lazy}, pc = "idle",
           bound' = [bound EXCEPT ![v] = x], memo' = [memo EXCEPT ![v] = None],
           UNCHANGED <<instanceVars, callVars, outcome, binderRuns>>
    PROVE  IInv'
  <1> USE DEF instanceVars, callVars
  <1>1. TypeOK'
    BY DEF IInv, TypeOK
  <1>2. Control' /\ BindersInv' /\ SizedInv' /\ BudgetInv' /\ BytesInv' /\ PlacedInv'
    BY DEF IInv, Control, BindersInv, SizedInv, BudgetInv, BytesInv, PlacedInv
  <1> QED BY <1>1, <1>2 DEF IInv

LEMMA BeginIInv ==
    ASSUME IInv, NEW kind \in {"eval", "partial"}, NEW patterns \in SUBSET Vars,
           kind = "eval" => patterns = {}, BeginWith(kind, patterns)
    PROVE  IInv'
  <1> USE DEF BeginWith
  <1>1. TypeOK'
    BY VarFacts DEF IInv, TypeOK, EmptyTable
  <1>2. Control' /\ BindersInv' /\ BytesInv' /\ PlacedInv'
    BY DEF IInv, Control, BindersInv, BytesInv, PlacedInv
  <1>3. SizedInv'
    BY DEF SizedInv
  <1>4. BudgetInv'
    <2> DEFINE f == [k \in 0 .. N |-> 0]
    <2>1. f \in [0 .. N -> Nat] /\ f[0] = 0
      BY VarFacts
    <2>2. Ledger(f, 0)'
      BY <2>1, VarFacts DEF Ledger, Align
    <2>3. i' - 1 = 0 /\ need' = f[0]
      BY <2>1
    <2> HIDE DEF f
    <2> QED BY <2>2, <2>3 DEF BudgetInv, NoOutcome
  <1> QED BY <1>1, <1>2, <1>3, <1>4 DEF IInv

LEMMA BareIInv ==
    ASSUME IInv, BeginBareEval
    PROVE  IInv'
  <1> USE DEF BeginBareEval, instanceVars
  <1>1. TypeOK'
    BY DEF IInv, TypeOK
  <1>2. Control' /\ BindersInv' /\ SizedInv' /\ BytesInv' /\ PlacedInv'
    BY DEF IInv, Control, BindersInv, SizedInv, BytesInv, PlacedInv
  <1>3. BudgetInv'
    BY DEF BudgetInv, NoOutcome
  <1> QED BY <1>1, <1>2, <1>3 DEF IInv

\* The variable at hand.
LEMMA AtHand ==
    ASSUME TypeOK, i <= Len(VarSeq)
    PROVE  i \in 1 .. N /\ V = VarSeq[i] /\ V \in Vars /\ i + 1 \in 1 .. N + 1
  BY VarFacts DEF TypeOK, V, N

-----------------------------------------------------------------------------
(* The pre-pass *)

\* One variable more: what it will cost is what is added.
LEMMA PrepassIInv ==
    ASSUME IInv, pc = "prepass", i <= Len(VarSeq), UNCHANGED <<bound, instanceVars, pc, call, cursor, outcome>>,
           NEW v \in Vars, v = V, i' = i + 1, need' = need + Cost(v)',
           memo' \in [Vars -> Values \cup {None}], binderRuns' \in [Vars -> Nat],
           Current(v)' \in Values \cup {None}, Known(v)',
           \A u \in Vars : memo[u] # None => memo'[u] = memo[u],
           \A u \in Vars : u = v \/ memo'[u] = memo[u],
           \A u \in Vars : /\ binderRuns'[u] = IF memo'[u] = None THEN 0 ELSE 1
                           /\ u \in opaque => memo'[u] = None
    PROVE  IInv'
  <1> USE DEF instanceVars
  <1>1. i \in 1 .. N /\ v = VarSeq[i] /\ i + 1 \in 1 .. N + 1
    BY AtHand DEF IInv
  <1>2. N \in Nat /\ i \in Nat
    BY <1>1, VarFacts
  <1>3. \A k \in 1 .. i - 1 : /\ VarSeq[k] \in Vars /\ VarSeq[k] # v
                              /\ memo'[VarSeq[k]] = memo[VarSeq[k]]
    <2> SUFFICES ASSUME NEW k \in 1 .. i - 1
                 PROVE  /\ VarSeq[k] \in Vars /\ VarSeq[k] # v
                        /\ memo'[VarSeq[k]] = memo[VarSeq[k]]
      OBVIOUS
    <2>1. k \in 1 .. Len(VarSeq) /\ i \in 1 .. Len(VarSeq) /\ k # i
      BY <1>1, <1>2 DEF N
    <2>2. VarSeq[k] # v
      BY <1>1, <2>1, EvaluationAssumption
    <2> QED BY <2>1, <2>2, VarFacts DEF N
  <1>4. Cost(v)' \in Nat /\ Cost(v)' % Align = 0
    <2>1. PayloadBytes(Current(v)') \in Nat
      BY ValueFacts
    <2>2. AlignUp(PayloadBytes(Current(v)')) \in Nat /\ AlignUp(PayloadBytes(Current(v)')) % Align = 0
      BY <2>1, AlignFacts
    <2>3. AlignUp(PayloadBytes(Current(v)')) = AlignUp(PayloadBytes(Current(v)))'
      BY DEF AlignUp, PayloadBytes
    <2> QED BY <2>2, <2>3 DEF Cost, DescriptorBytes, Align
  <1>5. TypeOK'
    BY <1>1, <1>4 DEF IInv, TypeOK
  <1>6. Control' /\ BytesInv' /\ PlacedInv'
    BY DEF IInv, Control, BytesInv, PlacedInv
  <1>7. BindersInv'
    BY DEF IInv, BindersInv
  <1>8. SizedInv'
    <2>1. \A k \in 1 .. i : k = i \/ k \in 1 .. i - 1
      BY <1>2
    <2>2. \A k \in 1 .. i - 1 : Known(VarSeq[k])'
      BY <1>3 DEF IInv, SizedInv, Known
    <2>3. i' - 1 = i
      BY <1>2
    <2> QED BY <1>1, <2>1, <2>2, <2>3 DEF SizedInv
  <1>9. BudgetInv'
    <2>1. PICK f : Ledger(f, i - 1) /\ need = f[i - 1]
      BY DEF IInv, BudgetInv
    <2>n. PICK n \in Nat : n = i
      BY <1>2
    <2>g. PICK g : g = [f EXCEPT ![n] = need + Cost(v)']
      OBVIOUS
    <2>2. f \in [0 .. N -> Nat] /\ n \in 1 .. N /\ n \in 0 .. N /\ n - 1 \in 0 .. N /\ need \in Nat
      BY <1>1, <1>2, <2>1, <2>n DEF Ledger, IInv, TypeOK
    <2>3. /\ g \in [0 .. N -> Nat] /\ g[n] = need + Cost(v)'
          /\ \A k \in 0 .. n - 1 : g[k] = f[k]
      BY <1>2, <2>n, <1>4, <2>2, <2>g
    <2>4. \A k \in 1 .. n - 1 : Cost(VarSeq[k])' = Cost(VarSeq[k])
      BY <1>3, <2>n DEF Cost, Current, AlignUp, PayloadBytes
    <2>5. Ledger(g, n)'
      <3>1. g[0] = 0
        BY <1>2, <2>n, <2>1, <2>2, <2>3 DEF Ledger
      <3>2. \A k \in 1 .. n : g[k] = g[k - 1] + Cost(VarSeq[k])'
        <4> SUFFICES ASSUME NEW k \in 1 .. n PROVE g[k] = g[k - 1] + Cost(VarSeq[k])'
          OBVIOUS
        <4>1. CASE k = n
          <5>1. n - 1 \in 0 .. n - 1
            BY <1>2, <2>n
          <5> QED BY <1>1, <2>1, <2>n, <2>3, <4>1, <5>1
        <4>2. CASE k # n
          <5>1. k \in 1 .. n - 1 /\ k \in 0 .. n - 1 /\ k - 1 \in 0 .. n - 1
            BY <1>2, <2>n, <4>2
          <5> QED BY <2>1, <2>n, <2>3, <2>4, <5>1 DEF Ledger
        <4> QED BY <4>1, <4>2
      <3>3. \A j, k \in 0 .. n : j <= k => g[j] <= g[k]
        <4> SUFFICES ASSUME NEW j \in 0 .. n, NEW k \in 0 .. n, j <= k PROVE g[j] <= g[k]
          OBVIOUS
        <4>1. CASE k # n
          <5>1. k \in 0 .. n - 1 /\ j \in 0 .. n - 1
            BY <1>2, <2>n, <4>1
          <5> QED BY <2>1, <2>n, <2>3, <5>1 DEF Ledger
        <4>2. CASE k = n /\ j # n
          <5>1. j \in 0 .. n - 1 /\ n - 1 \in 0 .. n - 1 /\ j <= n - 1
            BY <1>2, <2>n, <4>2
          <5>2. f[j] <= need
            BY <2>1, <2>n, <5>1 DEF Ledger
          <5>3. f[j] \in Nat
            <6>1. j \in 0 .. N
              BY <1>2, <2>2
            <6> QED BY <2>2, <6>1
          <5> QED BY <1>4, <2>2, <2>3, <4>2, <5>1, <5>2, <5>3
        <4>3. CASE k = n /\ j = n
          <5>1. g[n] \in Nat
            BY <2>2, <2>3
          <5> QED BY <4>3, <5>1
        <4> QED BY <4>1, <4>2, <4>3
      <3>4. \A k \in 0 .. n : g[k] % Align = 0
        <4>1. need % Align = 0
          <5>1. n - 1 \in 0 .. n - 1
            BY <1>2, <2>2
          <5> QED BY <2>1, <2>n, <5>1 DEF Ledger
        <4>2. (need + Cost(v)') % Align = 0
          BY <1>4, <2>2, <4>1, AlignFacts
        <4>3. \A k \in 0 .. n : k = n \/ k \in 0 .. n - 1
          BY <1>2, <2>n
        <4> QED BY <2>1, <2>n, <2>3, <4>2, <4>3 DEF Ledger
      <3> QED BY <2>3, <3>1, <3>2, <3>3, <3>4 DEF Ledger
    <2>6. i' - 1 = n /\ need' = g[n]
      BY <1>2, <2>n, <2>3
    <2> QED BY <2>5, <2>6 DEF IInv, BudgetInv
  <1> QED BY <1>5, <1>6, <1>7, <1>8, <1>9 DEF IInv

LEMMA SkipIInv ==
    ASSUME IInv, PrepassSkip
    PROVE  IInv'
  <1> USE DEF PrepassSkip, instanceVars
  <1>1. V \in Vars
    BY AtHand DEF IInv
  <1>2. PICK v \in Vars : v = V
    BY <1>1
  <1>3. need' = need + Cost(v)'
    BY <1>2 DEF Cost, IInv, TypeOK, DescriptorBytes
  <1>4. Current(v)' \in Values \cup {None}
    BY DEF Current, IInv, TypeOK
  <1>5. Known(v)'
    BY <1>2 DEF Known
  <1>6. \A u \in Vars : /\ binderRuns'[u] = IF memo'[u] = None THEN 0 ELSE 1
                        /\ u \in opaque => memo'[u] = None
    BY DEF IInv, BindersInv
  <1>7. memo' = memo /\ memo' \in [Vars -> Values \cup {None}] /\ binderRuns' \in [Vars -> Nat]
    BY DEF IInv, TypeOK
  <1> QED BY <1>2, <1>3, <1>4, <1>5, <1>6, <1>7, PrepassIInv

LEMMA SizeIInv ==
    ASSUME IInv, PrepassSize
    PROVE  IInv'
  <1> USE DEF PrepassSize, instanceVars
  <1>1. V \in Vars
    BY AtHand DEF IInv
  <1>2. PICK v \in Vars : v = V
    BY <1>1
  <1>3. PICK x \in Values \cup {None} : Resolve(v, x) /\ need' = AlignUp(need + PayloadBytes(x))
    BY <1>2
  <1>4. repr[v] = "bytes" /\ v \notin opaque /\ pc = "prepass" /\ bound' = bound
    BY <1>2
  <1>5. /\ memo' \in [Vars -> Values \cup {None}] /\ binderRuns' \in [Vars -> Nat]
        /\ Current(v)' = x
        /\ bound[v] = Lazy => memo'[v] # None
        /\ \A u \in Vars : u # v => memo'[u] = memo[u]
        /\ \A u \in Vars : memo[u] # None => memo'[u] = memo[u]
        /\ \A u \in Vars : /\ binderRuns'[u] = IF memo'[u] = None THEN 0 ELSE 1
                           /\ u \in opaque => memo'[u] = None
    BY <1>3, <1>4, ResolveFacts DEF IInv
  <1>6. need \in Nat /\ need % Align = 0
    <2>1. PICK f : Ledger(f, i - 1) /\ need = f[i - 1]
      BY <1>4 DEF IInv, BudgetInv
    <2>2. i - 1 \in 0 .. i - 1
      BY DEF IInv, TypeOK
    <2> QED BY <2>1, <2>2 DEF Ledger, IInv, TypeOK
  <1>7. need' = need + Cost(v)'
    <2>1. need' = need + AlignUp(PayloadBytes(x))
      BY <1>3, <1>6, AlignFacts, ValueFacts
    <2>2. Cost(v)' = AlignUp(PayloadBytes(x))
      BY <1>4, <1>5 DEF Cost, AlignUp, PayloadBytes
    <2> QED BY <2>1, <2>2
  <1>8. Known(v)'
    BY <1>5 DEF Known
  <1> QED BY <1>2, <1>5, <1>7, <1>8, PrepassIInv

LEMMA PrepassFailsIInv ==
    ASSUME IInv, PrepassBinderFails
    PROVE  IInv'
  <1> USE DEF PrepassBinderFails
  <1>1. V \in Vars
    BY AtHand DEF IInv
  <1>2. /\ memo' = memo /\ binderRuns' \in [Vars -> Nat]
        /\ \A u \in Vars : binderRuns'[u] <= 1 /\ (u \in opaque => binderRuns'[u] = 0)
    BY <1>1, BinderFailsFacts DEF IInv
  <1>3. memo' \in [Vars -> Values \cup {None}] /\ Failed.status # "resource_exhausted"
    BY <1>2 DEF IInv, TypeOK, Failed
  <1> QED BY <1>2, <1>3, EndIInv

-----------------------------------------------------------------------------
(* The buffer *)

\* The pre-pass is through and the buffer holds what it has added up.
LEMMA EnsuredIInv ==
    ASSUME IInv, pc = "prepass", i > Len(VarSeq), pc' = "marshal", i' = 1,
           UNCHANGED <<repr, bound, memo, slots, refs, opaque, call, need, cursor, outcome, binderRuns>>,
           bufs' \in Seq(Nat), bytes' \in SUBSET Span, BytesInv', need <= Capacity'
    PROVE  IInv'
  <1>1. N \in Nat /\ i = N + 1
    BY VarFacts DEF IInv, TypeOK, N
  <1>2. TypeOK'
    BY <1>1 DEF IInv, TypeOK
  <1>3. Control' /\ BindersInv'
    BY DEF IInv, Control, BindersInv
  <1>4. i - 1 = N
    BY <1>1
  <1>5. SizedInv'
    BY <1>4 DEF IInv, SizedInv, Known
  <1>6. BudgetInv'
    <2>1. PICK f : Ledger(f, N) /\ need = f[N]
      BY <1>4 DEF IInv, BudgetInv
    <2>2. \A v : Cost(v)' = Cost(v)
      BY DEF Cost, Current, AlignUp, PayloadBytes
    <2>3. Ledger(f, N)'
      BY <2>1, <2>2 DEF Ledger
    <2>4. i' - 1 = 0 /\ f[0] = 0
      BY <2>1 DEF Ledger
    <2> QED BY <2>1, <2>3, <2>4 DEF IInv, BudgetInv
  <1>7. PlacedInv'
    BY DEF PlacedInv
  <1> QED BY <1>2, <1>3, <1>5, <1>6, <1>7 DEF IInv

LEMMA EnsureIInv ==
    ASSUME IInv, EnsureKeeps \/ EnsureGrows \/ EnsureFails
    PROVE  IInv'
  <1>1. CASE EnsureKeeps
    <2> USE <1>1 DEF EnsureKeeps, instanceVars
    <2>1. bufs' \in Seq(Nat) /\ bytes' \in SUBSET Span /\ BytesInv'
      BY DEF IInv, TypeOK, BytesInv
    <2>2. need <= Capacity'
      BY DEF Capacity
    <2> QED BY <2>1, <2>2, EnsuredIInv
  <1>2. CASE EnsureGrows
    <2> USE <1>2 DEF EnsureGrows
    <2>1. need \in Nat /\ bufs \in Seq(Nat)
      BY DEF IInv, TypeOK
    <2>2. PICK cap \in Nat : cap = RoundUpTo4K(need) /\ need <= cap
      BY <2>1, RoundUpCovers
    <2>3. bufs' = Append(bufs, cap)
      BY <2>2
    <2>4. bufs' \in Seq(Nat) /\ bufs' # <<>> /\ bufs'[Len(bufs')] = cap
      BY <2>1, <2>3
    <2>5. Capacity' = cap
      BY <2>4 DEF Capacity
    <2>6. bytes' \in SUBSET Span /\ BytesInv'
      BY DEF BytesInv
    <2> QED BY <2>2, <2>4, <2>5, <2>6, EnsuredIInv
  <1>3. CASE EnsureFails
    <2> USE <1>3 DEF EnsureFails
    <2>1. memo' \in [Vars -> Values \cup {None}] /\ binderRuns' \in [Vars -> Nat]
      BY DEF IInv, TypeOK
    <2>2. \A v \in Vars : binderRuns'[v] <= 1 /\ (v \in opaque => binderRuns'[v] = 0)
      BY DEF IInv, BindersInv
    <2>3. Failed.status # "resource_exhausted"
      BY DEF Failed
    <2> QED BY <2>1, <2>2, <2>3, EndIInv
  <1> QED BY <1>1, <1>2, <1>3

-----------------------------------------------------------------------------
(* Marshalling a variable *)

\* What the pre-pass has sized is there: no encoder runs out of the buffer.
LEMMA RoomSuffices ==
    ASSUME IInv, pc = "marshal", i <= Len(VarSeq), NEW v \in Vars, v = V
    PROVE  Cost(v) \in Nat /\ cursor + Cost(v) <= Capacity
  <1>1. i \in 1 .. N /\ v = VarSeq[i] /\ N \in Nat
    BY AtHand, VarFacts DEF IInv
  <1>2. PICK f : Ledger(f, N) /\ need = f[N] /\ cursor = f[i - 1]
    BY DEF IInv, BudgetInv
  <1>3. i \in 0 .. N /\ N \in 0 .. N /\ i <= N
    BY <1>1
  <1>4. f[i] = f[i - 1] + Cost(v) /\ f[i] <= f[N]
    BY <1>1, <1>2, <1>3 DEF Ledger
  <1>5. Cost(v) \in Nat
    <2>1. Current(v) \in Values \cup {None}
      BY DEF IInv, TypeOK, Current
    <2>2. PayloadBytes(Current(v)) \in Nat
      BY <2>1, ValueFacts
    <2> QED BY <2>2, AlignFacts DEF Cost, DescriptorBytes
  <1>6. need <= Capacity /\ need \in Nat /\ cursor \in Nat
    BY DEF IInv, TypeOK, BudgetInv
  <1>7. Capacity \in Nat
    BY DEF IInv, TypeOK, Capacity
  <1> QED BY <1>2, <1>4, <1>5, <1>6, <1>7

\* Asking a binding during the marshal changes no cost: the pre-pass has
\* already asked those that cost anything.
LEMMA CostsStand ==
    ASSUME IInv, pc = "marshal", NEW v \in Vars, UNCHANGED <<repr, bound, opaque>>,
           \A u \in Vars : memo[u] # None => memo'[u] = memo[u],
           \A u \in Vars : u = v \/ memo'[u] = memo[u]
    PROVE  \A u \in Vars : Cost(u)' = Cost(u) /\ (Known(u) => Known(u)')
  <1> SUFFICES ASSUME NEW u \in Vars PROVE Cost(u)' = Cost(u) /\ (Known(u) => Known(u)')
    OBVIOUS
  <1>1. Known(u)
    BY VarFacts DEF IInv, SizedInv
  <1>2. CASE memo'[u] = memo[u]
    BY <1>2 DEF Cost, Current, Known, AlignUp, PayloadBytes
  <1>3. CASE memo[u] = None
    BY <1>1, <1>3 DEF Cost, Current, Known, AlignUp, PayloadBytes
  <1> QED BY <1>2, <1>3

\* One variable more is in its slot, and what was placed before it stays.
LEMMA MarshalIInv ==
    ASSUME IInv, pc = "marshal", i <= Len(VarSeq), NEW v \in Vars, v = V,
           i' = i + 1, cursor' = cursor + Cost(v),
           UNCHANGED <<repr, bound, opaque, bufs, pc, call, need, outcome>>,
           memo' \in [Vars -> Values \cup {None}], binderRuns' \in [Vars -> Nat],
           \A u \in Vars : memo[u] # None => memo'[u] = memo[u],
           \A u \in Vars : u = v \/ memo'[u] = memo[u],
           \A u \in Vars : /\ binderRuns'[u] = IF memo'[u] = None THEN 0 ELSE 1
                           /\ u \in opaque => memo'[u] = None,
           slots' \in [Vars -> Slot], \A u \in Vars : u = v \/ slots'[u] = slots[u],
           refs' \in [Tables -> Seq(Contents \cup {Built})],
           \A t \in Tables : \A n \in 1 .. Len(refs[t]) :
               n \in 1 .. Len(refs'[t]) /\ refs'[t][n] = refs[t][n],
           bytes' \in SUBSET Span, BytesInv',
           \A w \in bytes : w.at + w.size <= cursor => w \in bytes',
           Placed(v, cursor)'
    PROVE  IInv'
  <1>1. i \in 1 .. N /\ v = VarSeq[i] /\ i + 1 \in 1 .. N + 1 /\ N \in Nat /\ i \in Nat
    BY AtHand, VarFacts DEF IInv
  <1>2. Cost(v) \in Nat /\ cursor \in Nat /\ cursor' \in Nat /\ cursor <= cursor'
    BY RoomSuffices DEF IInv, TypeOK
  <1>3. TypeOK'
    BY <1>1, <1>2 DEF IInv, TypeOK
  <1>4. Control' /\ BindersInv'
    BY DEF IInv, Control, BindersInv
  <1>5. \A u \in Vars : Cost(u)' = Cost(u) /\ (Known(u) => Known(u)')
    BY CostsStand
  <1>6. SizedInv'
    BY <1>5, VarFacts DEF IInv, SizedInv
  <1>7. BudgetInv'
    <2>1. PICK f : Ledger(f, N) /\ need = f[N] /\ cursor = f[i - 1]
      BY DEF IInv, BudgetInv
    <2>n. PICK n \in Nat : n = i
      BY <1>1
    <2>2. Ledger(f, N)'
      BY <1>5, <2>1, VarFacts DEF Ledger
    <2>3. f[n] = cursor + Cost(v)
      BY <1>1, <2>1, <2>n DEF Ledger
    <2>4. i' - 1 = n /\ Capacity' = Capacity
      BY <1>1, <2>n DEF Capacity
    <2> QED BY <2>1, <2>2, <2>3, <2>4 DEF IInv, BudgetInv
  <1>8. PlacedInv'
    <2> SUFFICES ASSUME NEW k \in 1 .. i PROVE Placed(VarSeq[k], cursor)'
      BY <1>1 DEF PlacedInv
    <2>1. CASE k = i
      <3>1. VarSeq[k] = v
        BY <1>1, <2>1
      <3> QED BY <3>1
    <2>2. CASE k # i
      <3>1. k \in 1 .. i - 1 /\ k \in 1 .. Len(VarSeq) /\ i \in 1 .. Len(VarSeq)
        BY <1>1, <2>2 DEF N
      <3>2. PICK u \in Vars : u = VarSeq[k]
        BY <3>1, VarFacts DEF N
      <3>3. u # v
        BY <1>1, <2>2, <3>1, <3>2, EvaluationAssumption
      <3>4. Placed(u, cursor)
        BY <3>1, <3>2 DEF IInv, PlacedInv
      <3>5. slots'[u] = slots[u] /\ Current(u)' = Current(u)
        BY <3>3 DEF Current
      <3>6. PICK l \in Nat, l2 \in Nat : l = cursor /\ l2 = cursor' /\ l <= l2
        BY <1>2
      <3>7. Placed(u, l2)'
        BY <3>4, <3>5, <3>6, PlacedFrame DEF IInv
      <3> QED BY <3>2, <3>6, <3>7
    <2> QED BY <2>1, <2>2
  <1> QED BY <1>3, <1>4, <1>6, <1>7, <1>8 DEF IInv

LEMMA MarshalUnknownIInv ==
    ASSUME IInv, MarshalUnknown
    PROVE  IInv'
  <1> USE DEF MarshalUnknown, Marshalling
  <1>1. V \in Vars
    BY AtHand DEF IInv
  <1>2. PICK v \in Vars : v = V
    BY <1>1
  <1>3. v \in opaque /\ Cost(v) = DescriptorBytes /\ DescriptorBytes \in Nat /\ DescriptorBytes # 0
    BY <1>2 DEF Cost, DescriptorBytes
  <1>4. Room(DescriptorBytes)
    BY <1>2, <1>3, RoomSuffices DEF Room
  <1>5. /\ Write(DescriptorBytes, v) /\ SetSlot("unknown", cursor, DescriptorBytes, None)
        /\ Advance(DescriptorBytes)
    BY <1>2, <1>4 DEF EncodeUnknownVariable
  <1>6. /\ bytes' \in SUBSET Span /\ BytesInv'
        /\ \A w \in bytes : w.at + w.size <= cursor => w \in bytes'
        /\ \E w \in bytes' : w.at = cursor /\ w.size = DescriptorBytes /\ w.content = v
    BY <1>3, <1>5, WriteFacts DEF IInv
  <1>7. PICK s \in Slot : s = [kind |-> "unknown", at |-> cursor, size |-> DescriptorBytes, content |-> None]
    BY <1>3 DEF Slot, IInv, TypeOK
  <1>8. slots' = [slots EXCEPT ![v] = s]
    BY <1>2, <1>5, <1>7 DEF SetSlot
  <1>9. slots' \in [Vars -> Slot] /\ slots'[v] = s /\ \A u \in Vars : u = v \/ slots'[u] = slots[u]
    BY <1>8 DEF IInv, TypeOK
  <1>10. i' = i + 1 /\ cursor' = cursor + Cost(v) /\ UNCHANGED <<opaque, pc, call, need, outcome>>
    BY <1>3, <1>5 DEF Advance
  <1>11. Placed(v, cursor)'
    <2>1. s.kind = "unknown" /\ s.at = cursor
      BY <1>7
    <2>2. PICK w \in bytes' : w.at = cursor /\ w.size = DescriptorBytes /\ w.content = v
      BY <1>6
    <2>3. w.at + w.size <= cursor'
      BY <1>3, <1>10, <2>2 DEF IInv, TypeOK
    <2> QED BY <1>3, <1>9, <1>10, <2>1, <2>2, <2>3 DEF Placed, Stored, DescriptorBytes
  <1>12. /\ memo' \in [Vars -> Values \cup {None}] /\ binderRuns' \in [Vars -> Nat]
         /\ refs' \in [Tables -> Seq(Contents \cup {Built})]
    BY DEF IInv, TypeOK
  <1>13. \A u \in Vars : /\ binderRuns'[u] = IF memo'[u] = None THEN 0 ELSE 1
                         /\ u \in opaque => memo'[u] = None
    BY DEF IInv, BindersInv
  <1> QED BY <1>2, <1>6, <1>9, <1>10, <1>11, <1>12, <1>13, MarshalIInv

\* A table entry stays where it is when another is interned.
LEMMA InternFacts ==
    ASSUME TypeOK, NEW t \in Tables, NEW c \in Contents
    PROVE  LET r == Intern(t, c) IN
           /\ r.refs \in [Tables -> Seq(Contents \cup {Built})]
           /\ \A u \in Tables : \A n \in 1 .. Len(refs[u]) :
                 n \in 1 .. Len(r.refs[u]) /\ r.refs[u][n] = refs[u][n]
           /\ r.slot \in 1 .. Len(r.refs[t]) /\ r.refs[t][r.slot] = c
  <1> DEFINE seen == {k \in 1 .. Len(refs[t]) : refs[t][k] = c}
             more == [refs EXCEPT ![t] = Append(@, c)]
  <1>1. refs[t] \in Seq(Contents \cup {Built}) /\ Len(refs[t]) \in Nat
    BY DEF TypeOK
  <1>2. CASE t = "message" /\ seen # {}
    <2>1. PICK k : k = CHOOSE j \in seen : TRUE
      OBVIOUS
    <2>2. k \in seen
      <3>1. \E j : j \in seen
        BY <1>2
      <3> HIDE DEF seen
      <3> QED BY <2>1, <3>1
    <2>3. k \in 1 .. Len(refs[t]) /\ refs[t][k] = c
      BY <2>2
    <2>4. Intern(t, c) = [refs |-> refs, slot |-> k]
      BY <1>2, <2>1 DEF Intern
    <2>5. Intern(t, c).refs = refs /\ Intern(t, c).slot = k
      BY <2>4
    <2> QED BY <2>3, <2>5 DEF TypeOK
  <1>3. CASE ~(t = "message" /\ seen # {})
    <2>1. Intern(t, c) = [refs |-> more, slot |-> Len(refs[t]) + 1]
      BY <1>3 DEF Intern
    <2>2. /\ Append(refs[t], c) \in Seq(Contents \cup {Built})
          /\ Len(Append(refs[t], c)) = Len(refs[t]) + 1
          /\ Append(refs[t], c)[Len(refs[t]) + 1] = c
          /\ \A n \in 1 .. Len(refs[t]) : Append(refs[t], c)[n] = refs[t][n]
      BY <1>1
    <2>3. more \in [Tables -> Seq(Contents \cup {Built})] /\ more[t] = Append(refs[t], c)
          /\ \A u \in Tables : u # t => more[u] = refs[u]
      BY <2>2 DEF TypeOK
    <2>4. \A u \in Tables : Len(refs[u]) \in Nat
      BY DEF TypeOK
    <2>5. \A u \in Tables : \A n \in 1 .. Len(refs[u]) :
             n \in 1 .. Len(more[u]) /\ more[u][n] = refs[u][n]
      BY <1>1, <2>2, <2>3, <2>4
    <2>6. Len(refs[t]) + 1 \in 1 .. Len(more[t]) /\ more[t][Len(refs[t]) + 1] = c
      BY <1>1, <2>2, <2>3
    <2>7. Intern(t, c).refs = more /\ Intern(t, c).slot = Len(refs[t]) + 1
      BY <2>1
    <2> HIDE DEF more
    <2> QED BY <2>3, <2>5, <2>6, <2>7
  <1> QED BY <1>2, <1>3

\* A byte payload costs what the pre-pass has said, so it fits.
LEMMA BytesFit ==
    ASSUME IInv, pc = "marshal", i <= Len(VarSeq), NEW v \in Vars, v = V, v \notin opaque,
           NEW x \in Values, Resolve(v, x), EncodeBytes(x), bound' = bound
    PROVE  Cost(v) = AlignUp(x.size) /\ cursor + AlignUp(x.size) <= Capacity
  <1>1. repr[v] = "bytes" /\ HasBytes(x)
    BY DEF EncodeBytes
  <1>2. Known(v)
    BY VarFacts DEF IInv, SizedInv
  <1>3. Current(v) = x
    BY <1>1, <1>2 DEF Known, Current, Resolve
  <1>4. Cost(v) = AlignUp(x.size)
    BY <1>1, <1>3, ValueFacts DEF Cost, PayloadBytes
  <1> QED BY <1>4, RoomSuffices

LEMMA EncodeIInv ==
    ASSUME IInv, Marshal
    PROVE  IInv'
  <1> USE DEF Marshal, Marshalling
  <1>1. V \in Vars
    BY AtHand DEF IInv
  <1>2. PICK v \in Vars : v = V
    BY <1>1
  <1>3. PICK x \in Values : Resolve(v, x) /\ (EncodeScalar(x) \/ EncodeBytes(x) \/ EncodeHandle(x))
    BY <1>2
  <1>4. v \notin opaque /\ pc = "marshal" /\ UNCHANGED <<repr, bound, bufs>>
    BY <1>2
  <1>5. /\ memo' \in [Vars -> Values \cup {None}] /\ binderRuns' \in [Vars -> Nat]
        /\ Current(v)' = x
        /\ \A u \in Vars : u = v \/ memo'[u] = memo[u]
        /\ \A u \in Vars : memo[u] # None => memo'[u] = memo[u] /\ Current(u)' = Current(u)
        /\ \A u \in Vars : /\ binderRuns'[u] = IF memo'[u] = None THEN 0 ELSE 1
                           /\ u \in opaque => memo'[u] = None
    BY <1>3, <1>4, ResolveFacts DEF IInv
  <1>6. x.content \in Contents /\ x.size \in Nat
    BY ValueFacts
  <1>7. CASE EncodeScalar(x)
    <2> USE <1>7 DEF EncodeScalar
    <2>1. PICK s \in Slot : s = [kind |-> "scalar", at |-> 0, size |-> 0, content |-> x.content]
      BY <1>6 DEF Slot, Reprs
    <2>2. slots' = [slots EXCEPT ![v] = s]
      BY <1>2, <2>1 DEF SetSlot
    <2>3. slots' \in [Vars -> Slot] /\ slots'[v] = s /\ \A u \in Vars : u = v \/ slots'[u] = slots[u]
      BY <2>2 DEF IInv, TypeOK
    <2>4. Cost(v) = 0
      BY <1>2, <1>4 DEF Cost
    <2>5. i' = i + 1 /\ cursor' = cursor + Cost(v) /\ UNCHANGED <<opaque, pc, call, need, outcome>>
      BY <2>4 DEF Advance
    <2>6. Placed(v, cursor)'
      BY <1>4, <1>5, <2>1, <2>3, <2>5 DEF Placed
    <2>7. /\ refs' \in [Tables -> Seq(Contents \cup {Built})] /\ refs' = refs
          /\ bytes' \in SUBSET Span /\ BytesInv' /\ bytes' = bytes
      BY DEF IInv, TypeOK, BytesInv
    <2> QED BY <1>2, <1>4, <1>5, <2>3, <2>5, <2>6, <2>7, MarshalIInv
  <1>8. CASE EncodeBytes(x)
    <2> USE <1>8 DEF EncodeBytes
    <2>1. repr[v] = "bytes" /\ HasBytes(x) /\ refs' = refs
      BY <1>2
    <2>2. Cost(v) = AlignUp(x.size) /\ cursor + AlignUp(x.size) <= Capacity
      BY <1>2, <1>3, <1>4, BytesFit
    <2>3. AlignUp(x.size) \in Nat /\ x.size <= AlignUp(x.size)
      BY <1>6, AlignFacts
    <2>4. Room(AlignUp(x.size))
      BY <2>2 DEF Room
    <2>5. Write(x.size, x.content) /\ SetSlot("bytes", cursor, x.size, None) /\ Advance(AlignUp(x.size))
      BY <2>4
    <2>6. /\ bytes' \in SUBSET Span /\ BytesInv'
          /\ \A w \in bytes : w.at + w.size <= cursor => w \in bytes'
          /\ \E w \in bytes' : w.at = cursor /\ w.size = x.size /\ w.content = x.content
      BY <1>6, <2>1, <2>5, WriteFacts DEF IInv
    <2>7. PICK s \in Slot : s = [kind |-> "bytes", at |-> cursor, size |-> x.size, content |-> None]
      BY <1>6 DEF Slot, Reprs, IInv, TypeOK
    <2>8. slots' = [slots EXCEPT ![v] = s]
      BY <1>2, <2>5, <2>7 DEF SetSlot
    <2>9. slots' \in [Vars -> Slot] /\ slots'[v] = s /\ \A u \in Vars : u = v \/ slots'[u] = slots[u]
      BY <2>8 DEF IInv, TypeOK
    <2>10. i' = i + 1 /\ cursor' = cursor + Cost(v) /\ UNCHANGED <<opaque, pc, call, need, outcome>>
      BY <2>2, <2>5 DEF Advance
    <2>11. Placed(v, cursor)'
      <3>1. PICK w \in bytes' : w.at = cursor /\ w.size = x.size /\ w.content = x.content
        BY <2>6
      <3>2. w.at + w.size <= cursor'
        BY <1>6, <2>2, <2>3, <2>10, <3>1 DEF IInv, TypeOK
      <3>3. s.kind = "bytes" /\ s.at = cursor /\ s.size = x.size
        BY <2>7
      <3> QED BY <1>4, <1>5, <2>9, <2>10, <3>1, <3>2, <3>3 DEF Placed, Stored
    <2>12. refs' \in [Tables -> Seq(Contents \cup {Built})]
      BY <2>1 DEF IInv, TypeOK
    <2> QED BY <1>2, <1>4, <1>5, <2>1, <2>6, <2>9, <2>10, <2>11, <2>12, MarshalIInv
  <1>9. CASE EncodeHandle(x)
    <2> USE <1>9 DEF EncodeHandle
    <2>1. PICK t \in Tables : t = repr[v]
      BY <1>2
    <2>2. PICK r : r = Intern(t, x.content)
      OBVIOUS
    <2>3. refs' = r.refs /\ SetSlot(t, r.slot, 0, None) /\ Advance(0) /\ bytes' = bytes
      BY <1>2, <2>1, <2>2
    <2>4. /\ refs' \in [Tables -> Seq(Contents \cup {Built})]
          /\ \A u \in Tables : \A n \in 1 .. Len(refs[u]) :
                n \in 1 .. Len(refs'[u]) /\ refs'[u][n] = refs[u][n]
          /\ r.slot \in 1 .. Len(refs'[t]) /\ refs'[t][r.slot] = x.content
      BY <1>6, <2>2, <2>3, InternFacts DEF IInv
    <2>5. r.slot \in Nat
      BY <2>4
    <2>6. PICK s \in Slot : s = [kind |-> t, at |-> r.slot, size |-> 0, content |-> None]
      BY <2>5 DEF Slot, Reprs
    <2>7. slots' = [slots EXCEPT ![v] = s]
      BY <1>2, <2>3, <2>6 DEF SetSlot
    <2>8. slots' \in [Vars -> Slot] /\ slots'[v] = s /\ \A u \in Vars : u = v \/ slots'[u] = slots[u]
      BY <2>7 DEF IInv, TypeOK
    <2>9. Cost(v) = 0
      BY <1>4, <2>1 DEF Cost, Tables
    <2>10. i' = i + 1 /\ cursor' = cursor + Cost(v) /\ UNCHANGED <<opaque, pc, call, need, outcome>>
      BY <2>3, <2>9 DEF Advance
    <2>11. Placed(v, cursor)'
      <3>1. s.kind = t /\ s.at = r.slot
        BY <2>6
      <3> QED BY <1>4, <1>5, <2>4, <2>8, <2>10, <3>1 DEF Placed
    <2>12. bytes' \in SUBSET Span /\ BytesInv'
      BY <2>3 DEF IInv, TypeOK, BytesInv
    <2> QED BY <1>2, <1>4, <1>5, <2>3, <2>4, <2>8, <2>10, <2>11, <2>12, MarshalIInv
  <1> QED BY <1>3, <1>7, <1>8, <1>9

LEMMA MarshalFailsIInv ==
    ASSUME IInv, MarshalFails
    PROVE  IInv'
  <1> USE DEF MarshalFails, Marshalling
  <1>1. V \in Vars
    BY AtHand DEF IInv
  <1>2. PICK v \in Vars : v = V
    BY <1>1
  <1>3. v \notin opaque /\ pc = "marshal" /\ EndCall(Failed) /\ bound' = bound
    BY <1>2
  <1>4. /\ memo' \in [Vars -> Values \cup {None}] /\ binderRuns' \in [Vars -> Nat]
        /\ \A u \in Vars : binderRuns'[u] <= 1 /\ (u \in opaque => binderRuns'[u] = 0)
    <2>1. CASE UNCHANGED <<memo, binderRuns>>
      BY <2>1 DEF IInv, TypeOK, BindersInv
    <2>2. CASE \E x \in Values : Resolve(v, x)
      <3>1. PICK x \in Values : Resolve(v, x)
        BY <2>2
      <3>2. /\ memo' \in [Vars -> Values \cup {None}] /\ binderRuns' \in [Vars -> Nat]
            /\ \A u \in Vars : /\ binderRuns'[u] = IF memo'[u] = None THEN 0 ELSE 1
                               /\ u \in opaque => memo'[u] = None
        BY <1>3, <3>1, ResolveFacts DEF IInv
      <3> QED BY <3>2
    <2>3. CASE BinderFails(v)
      BY <1>3, <2>3, BinderFailsFacts DEF IInv, TypeOK
    <2> QED BY <1>2, <2>1, <2>2, <2>3
  <1>5. Failed.status # "resource_exhausted"
    BY DEF Failed
  <1> QED BY <1>3, <1>4, <1>5, EndIInv

-----------------------------------------------------------------------------
(* $eval *)

LEMMA StartRunIInv ==
    ASSUME IInv, StartRun
    PROVE  IInv'
  <1> USE DEF StartRun, instanceVars
  <1>1. TypeOK' /\ N \in Nat /\ i = N + 1
    BY VarFacts DEF IInv, TypeOK, N
  <1>2. Control' /\ BindersInv' /\ SizedInv' /\ BudgetInv' /\ BytesInv'
    BY DEF IInv, Control, BindersInv, SizedInv, BudgetInv, BytesInv
  <1>3. PlacedInv'
    <2> SUFFICES ASSUME NEW v \in Vars PROVE Placed(v, cursor)'
      BY DEF PlacedInv
    <2>1. PICK k \in 1 .. N : v = VarSeq[k]
      BY VarFacts
    <2>2. k \in 1 .. i - 1
      BY <1>1
    <2>3. Placed(v, cursor)
      BY <2>1, <2>2 DEF IInv, PlacedInv
    <2> QED BY <2>3 DEF Placed, Stored, Current
  <1> QED BY <1>1, <1>2, <1>3 DEF IInv

LEMMA BodyInternsIInv ==
    ASSUME IInv, BodyInterns
    PROVE  IInv'
  <1> USE DEF BodyInterns, callVars
  <1>1. refs' \in [Tables -> Seq(Contents \cup {Built})]
    BY DEF IInv, TypeOK, Tables
  <1>2. \A t \in Tables : \A n \in 1 .. Len(refs[t]) :
            n \in 1 .. Len(refs'[t]) /\ refs'[t][n] = refs[t][n]
    <2>1. "message" \in Tables
      BY DEF Tables
    <2>2. \A t \in Tables : refs[t] \in Seq(Contents \cup {Built}) /\ Len(refs[t]) \in Nat
      BY DEF IInv, TypeOK
    <2>3. refs'["message"] = Append(refs["message"], Built) /\ \A t \in Tables : t = "message" \/ refs'[t] = refs[t]
      BY <2>1 DEF IInv, TypeOK
    <2>4. /\ Len(Append(refs["message"], Built)) = Len(refs["message"]) + 1
          /\ \A n \in 1 .. Len(refs["message"]) : Append(refs["message"], Built)[n] = refs["message"][n]
      BY <2>1, <2>2
    <2> QED BY <2>1, <2>2, <2>3, <2>4
  <1>3. TypeOK'
    BY <1>1 DEF IInv, TypeOK
  <1>4. Control' /\ BindersInv' /\ SizedInv' /\ BudgetInv' /\ BytesInv'
    BY DEF IInv, Control, BindersInv, SizedInv, BudgetInv, BytesInv
  <1>5. PlacedInv'
    <2> SUFFICES ASSUME NEW v \in Vars, call # "bare" PROVE Placed(v, cursor)'
      BY DEF PlacedInv
    <2>1. Placed(v, cursor) /\ slots'[v] = slots[v] /\ Current(v)' = Current(v)
      BY DEF IInv, PlacedInv, Current
    <2>2. PICK l \in Nat : l = cursor
      BY DEF IInv, TypeOK
    <2>3. Placed(v, l)'
      BY <1>2, <2>1, <2>2, PlacedFrame DEF IInv
    <2> QED BY <2>2, <2>3
  <1> QED BY <1>3, <1>4, <1>5 DEF IInv

LEMMA EndRunIInv ==
    ASSUME IInv, EndRun
    PROVE  IInv'
  <1> USE DEF EndRun
  <1>1. PICK result : EndCall(result) /\ result.status # "resource_exhausted"
    <2>1. CASE ReturnsComputed \/ Traps
      BY <2>1 DEF ReturnsComputed, Traps, Failed, Computed
    <2>2. CASE \E v \in Vars : ReturnsVariable(v)
      <3>1. PICK v \in Vars : ReturnsVariable(v)
        BY <2>2
      <3>2. PICK c : c = Decode(slots[v])
        OBVIOUS
      <3>3. CASE c = None
        BY <3>1, <3>2, <3>3 DEF ReturnsVariable, Failed
      <3>4. CASE c # None /\ slots[v].kind = "unknown"
        BY <3>1, <3>2, <3>4 DEF ReturnsVariable
      <3>5. CASE c # None /\ slots[v].kind # "unknown"
        BY <3>1, <3>2, <3>5 DEF ReturnsVariable
      <3> QED BY <3>3, <3>4, <3>5
    <2> QED BY <2>1, <2>2
  <1>2. memo' \in [Vars -> Values \cup {None}] /\ binderRuns' \in [Vars -> Nat]
    BY DEF IInv, TypeOK
  <1>3. \A v \in Vars : binderRuns'[v] <= 1 /\ (v \in opaque => binderRuns'[v] = 0)
    BY DEF IInv, BindersInv
  <1> QED BY <1>1, <1>2, <1>3, EndIInv

-----------------------------------------------------------------------------
(* The invariant holds in every state. *)

LEMMA NextIInv == IInv /\ [Next]_vars => IInv'
  <1> SUFFICES ASSUME IInv, [Next]_vars PROVE IInv'
    OBVIOUS
  <1>1. CASE UNCHANGED vars
    <2> USE <1>1 DEF vars
    <2>1. TypeOK' /\ Control' /\ BindersInv' /\ SizedInv' /\ BytesInv'
      BY DEF IInv, TypeOK, Control, BindersInv, SizedInv, Known, BytesInv
    <2>2. BudgetInv'
      BY DEF IInv, BudgetInv, Ledger, Cost, Current, Capacity, AlignUp, PayloadBytes
    <2>3. PlacedInv'
      BY DEF IInv, PlacedInv, Placed, Stored, Current
    <2> QED BY <2>1, <2>2, <2>3 DEF IInv
  <1>2. CASE \E v \in Vars, x \in Values : Bind(v, x)
    BY <1>2, BindIInv DEF Bind
  <1>3. CASE \E v \in Vars : BindLazy(v)
    BY <1>3, BindIInv DEF BindLazy
  <1>4. CASE BeginEval
    BY <1>4, BeginIInv DEF BeginEval
  <1>5. CASE BeginPartialEval
    <2>1. PICK p \in SUBSET Vars : BeginWith("partial", p)
      BY <1>5, EvaluationAssumption DEF BeginPartialEval
    <2> QED BY <2>1, BeginIInv
  <1>6. CASE BeginBareEval
    BY <1>6, BareIInv
  <1>7. CASE PrepassSkip \/ PrepassSize \/ PrepassBinderFails
    BY <1>7, SkipIInv, SizeIInv, PrepassFailsIInv
  <1>8. CASE EnsureKeeps \/ EnsureGrows \/ EnsureFails
    BY <1>8, EnsureIInv
  <1>9. CASE MarshalUnknown \/ Marshal \/ MarshalFails
    BY <1>9, MarshalUnknownIInv, EncodeIInv, MarshalFailsIInv
  <1>10. CASE StartRun \/ BodyInterns \/ EndRun
    BY <1>10, StartRunIInv, BodyInternsIInv, EndRunIInv
  <1> QED BY <1>1, <1>2, <1>3, <1>4, <1>5, <1>6, <1>7, <1>8, <1>9, <1>10 DEF Next, Caller, Step

\* For every program, activation and order of calls, the invariant holds.
THEOREM Invariance == Spec => []IInv
  BY InitIInv, NextIInv, PTL DEF Spec

-----------------------------------------------------------------------------
(* The properties of the runs *)

\* A slot that has been placed decodes to what it was placed for.
LEMMA DecodePlaced ==
    ASSUME TypeOK, BytesInv, NEW v \in Vars, NEW l \in Nat, Placed(v, l)
    PROVE  IF v \in opaque THEN slots[v].kind = "unknown" /\ Decode(slots[v]) = v
           ELSE slots[v].kind # "unknown" /\ Decode(slots[v]) = Denoted(v) /\ Denoted(v) \in Contents
  <1>s. PICK s : s = slots[v]
    OBVIOUS
  <1>x. PICK x : x = Current(v)
    OBVIOUS
  <1>1. ASSUME NEW at, NEW size, NEW c, Stored(at, size, c, l) PROVE Held(at, size) = c
    <2> DEFINE spans == {w \in bytes : w.at = at /\ w.size = size}
    <2>1. PICK w \in bytes : w.at = at /\ w.size = size /\ w.content = c
      BY <1>1 DEF Stored
    <2>2. spans = {w}
      BY <2>1 DEF BytesInv
    <2>3. (CHOOSE o \in spans : TRUE) = w /\ spans # {}
      BY <2>2
    <2> QED BY <2>1, <2>3 DEF Held
  <1>2. CASE v \in opaque
    <2>1. s.kind = "unknown" /\ Stored(s.at, DescriptorBytes, v, l)
      BY <1>2, <1>s DEF Placed
    <2>2. Held(s.at, DescriptorBytes) = v
      BY <1>1, <2>1
    <2>3. Decode(s) = v
      BY <2>1, <2>2 DEF Decode, Tables
    <2> QED BY <1>2, <1>s, <2>1, <2>3
  <1>3. CASE v \notin opaque
    <2>1. x \in Values /\ Denoted(v) = x.content /\ x.content \in Contents
      BY <1>3, <1>x, ValueFacts DEF Placed, Denoted, Current, ContentOf
    <2>2. CASE s.kind = "scalar" /\ s.content = x.content
      <3>1. Decode(s) = x.content
        BY <2>2 DEF Decode, Tables
      <3> QED BY <1>3, <1>s, <2>1, <2>2, <3>1
    <2>3. CASE s.kind = "bytes" /\ Stored(s.at, s.size, x.content, l)
      <3>1. Held(s.at, s.size) = x.content
        BY <1>1, <2>3
      <3>2. Decode(s) = x.content
        BY <2>3, <3>1 DEF Decode, Tables
      <3> QED BY <1>3, <1>s, <2>1, <2>3, <3>2
    <2>4. CASE s.kind \in Tables /\ s.at \in 1 .. Len(refs[s.kind]) /\ refs[s.kind][s.at] = x.content
      <3>1. s.kind \notin {"scalar", "bytes", "unknown"}
        BY <2>4 DEF Tables
      <3>2. Decode(s) = refs[s.kind][s.at]
        BY <2>4, <3>1 DEF Decode, Tables
      <3> QED BY <1>3, <1>s, <2>1, <2>4, <3>1, <3>2
    <2> QED BY <1>3, <1>s, <1>x, <2>2, <2>3, <2>4 DEF Placed
  <1> QED BY <1>2, <1>3

LEMMA SlotsDenoteFromIInv == IInv => SlotsDenote
  <1> SUFFICES ASSUME IInv, pc = "run", call # "bare", NEW v \in Vars
               PROVE  IF v \in opaque
                        THEN slots[v].kind = "unknown" /\ Decode(slots[v]) = v
                        ELSE slots[v].kind # "unknown" /\ Decode(slots[v]) = Denoted(v)
    BY DEF SlotsDenote
  <1>1. TypeOK /\ BytesInv /\ Placed(v, cursor) /\ cursor \in Nat
    BY DEF IInv, PlacedInv, TypeOK
  <1> QED BY <1>1, DecodePlaced

\* Whatever was evaluated before, with whatever failures, when $eval starts
\* each slot decodes to what the activation denotes in this call: the marshal
\* of MarshalActivation leaves no stale or overwritten slot behind.
THEOREM SlotsAlwaysDenote == Spec => []SlotsDenote
  BY Invariance, SlotsDenoteFromIInv, PTL

\* TotalHostStringBytes budgets, for every set of variables, values and
\* patterns, at least what the encoders take: their bounds check never fires.
THEOREM BudgetAlwaysSuffices == Spec => []BudgetSuffices
  <1>1. IInv => BudgetSuffices
    BY DEF IInv, BudgetInv, BudgetSuffices
  <1> QED BY <1>1, Invariance, PTL

\* Activation.Resolve asks a binder once in a call, however often its variable
\* is sized and marshalled, and never for a variable the caller made opaque.
THEOREM BinderAlwaysAtMostOnce == Spec => []BinderAtMostOnce
  <1>1. IInv => BinderAtMostOnce
    <2> SUFFICES ASSUME IInv PROVE BinderAtMostOnce
      OBVIOUS
    <2>1. \A v \in Vars : binderRuns[v] <= (IF v \in opaque THEN 0 ELSE 1)
      BY DEF IInv, BindersInv
    <2>2. ASSUME pc = "run", call # "bare", NEW v \in Vars \ opaque, bound[v] = Lazy
          PROVE  binderRuns[v] = 1
      <3>1. Placed(v, cursor)
        BY <2>2 DEF IInv, PlacedInv
      <3>2. memo[v] \in Values
        BY <2>2, <3>1 DEF Placed, Current
      <3> QED BY <2>2, <3>2, ValueFacts DEF IInv, BindersInv
    <2> QED BY <2>1, <2>2 DEF BinderAtMostOnce
  <1> QED BY <1>1, Invariance, PTL

-----------------------------------------------------------------------------
(* The calls implement their contract *)

\* What the contract sees.
AbsBound == [v \in Vars |-> IF bound[v] = Lazy THEN Lazy ELSE ContentOf(bound[v])]
AbsMemo == [v \in Vars |-> ContentOf(memo[v])]
AbsMode == IF pc = "idle" THEN "idle" ELSE IF call = "bare" THEN "bare" ELSE "busy"
AbsOutcome == IF outcome.status = "resource_exhausted" THEN Failed ELSE outcome

LEMMA AbsFacts ==
    ASSUME IInv
    PROVE  /\ \A v \in Vars : /\ AbsBound[v] = Lazy <=> bound[v] = Lazy
                              /\ AbsMemo[v] = None <=> memo[v] = None
                              /\ Denoted(v) = IF AbsBound[v] = Lazy THEN AbsMemo[v] ELSE AbsBound[v]
           /\ AbsOutcome = outcome
           /\ pc # "idle" /\ call # "bare" => (IF call = "partial" THEN {} ELSE opaque) = {}
  <1>1. ASSUME NEW v \in Vars
        PROVE  /\ AbsBound[v] = Lazy <=> bound[v] = Lazy
               /\ AbsMemo[v] = None <=> memo[v] = None
               /\ Denoted(v) = IF AbsBound[v] = Lazy THEN AbsMemo[v] ELSE AbsBound[v]
    <2>1. bound[v] \in Values \cup {Lazy, None} /\ memo[v] \in Values \cup {None} /\ Lazy # None
      BY MarkersAssumption DEF IInv, TypeOK
    <2>2. AbsBound[v] = (IF bound[v] = Lazy THEN Lazy ELSE ContentOf(bound[v])) /\ AbsMemo[v] = ContentOf(memo[v])
      BY DEF AbsBound, AbsMemo
    <2> QED BY <2>1, <2>2, ValueFacts DEF Denoted, ContentOf
  <1>2. AbsOutcome = outcome
    BY DEF AbsOutcome, IInv, BudgetInv
  <1> QED BY <1>1, <1>2 DEF IInv, Control

\* An answer of a binding is nothing new to the contract, or its binder's run.
LEMMA ResolveProduces ==
    ASSUME IInv, NEW v \in Vars, v \notin opaque, NEW x \in Values \cup {None}, Resolve(v, x)
    PROVE  AbsMemo' = AbsMemo \/ Contract!Produce
  <1>1. CASE memo' = memo
    BY <1>1 DEF AbsMemo, ContentOf
  <1>2. CASE bound[v] = Lazy /\ memo[v] = None /\ x \in Values /\ memo' = [memo EXCEPT ![v] = x]
    <2>1. AbsMemo' = [AbsMemo EXCEPT ![v] = x.content]
      <3>1. memo'[v] = x /\ \A u \in Vars : u # v => memo'[u] = memo[u]
        BY <1>2 DEF IInv, TypeOK
      <3>2. ContentOf(x) = x.content
        BY <1>2, ValueFacts DEF ContentOf
      <3> QED BY <3>1, <3>2 DEF AbsMemo, ContentOf
    <2>2. AbsBound[v] = Lazy /\ AbsMemo[v] = None
      BY <1>2, AbsFacts
    <2>3. v \in Vars \ opaque /\ x.content \in {y.content : y \in Values}
      BY <1>2
    <2> QED BY <2>1, <2>2, <2>3 DEF Contract!Produce, AbsMemo, AbsBound
  <1> QED BY <1>1, <1>2 DEF Resolve

\* Inside a call, a step that changes at most the memo is a binder's run or
\* none of the contract's concern.
LEMMA InsideStep ==
    ASSUME pc # "idle", pc' # "idle", call' = call, UNCHANGED <<bound, opaque, outcome>>,
           AbsMemo' = AbsMemo \/ (Contract!Produce /\ call # "bare")
    PROVE  [Contract!CNext]_(Contract!cvars)
  <1>1. AbsBound' = AbsBound /\ AbsMode' = AbsMode /\ AbsOutcome' = AbsOutcome
    BY DEF AbsBound, AbsMode, AbsOutcome, ContentOf, Failed
  <1>2. CASE AbsMemo' = AbsMemo
    BY <1>1, <1>2 DEF Contract!cvars, AbsBound, AbsMemo, AbsMode, AbsOutcome
  <1>3. CASE Contract!Produce /\ call # "bare"
    <2>1. AbsMode = "busy"
      BY <1>3 DEF AbsMode
    <2>2. Contract!RunBinder
      BY <1>1, <1>3, <2>1 DEF Contract!RunBinder, AbsBound, AbsMode, AbsOutcome
    <2> QED BY <2>2 DEF Contract!CNext
  <1> QED BY <1>2, <1>3

\* A call with an activation that fails is a failing call of the contract.
LEMMA FailStep ==
    ASSUME IInv, pc # "idle", call # "bare", EndCall(Failed), bound' = bound,
           AbsMemo' = AbsMemo \/ Contract!Produce
    PROVE  Contract!Fail
  <1>1. AbsMode = "busy" /\ AbsMode' = "idle" /\ AbsBound' = AbsBound /\ opaque' = {}
    BY AbsFacts DEF AbsMode, AbsBound, ContentOf, EndCall
  <1>2. AbsOutcome' = Contract!Failed
    BY DEF AbsOutcome, EndCall, Failed, Contract!Failed
  <1> QED BY <1>1, <1>2 DEF Contract!Fail, AbsMode, AbsBound, AbsMemo, AbsOutcome

\* Binding a name is the contract's rebinding.
LEMMA BindStep ==
    ASSUME IInv, NEW v \in Vars, NEW x \in Values \cup {Lazy}, pc = "idle",
           bound' = [bound EXCEPT ![v] = x], memo' = [memo EXCEPT ![v] = None],
           UNCHANGED <<instanceVars, callVars, outcome, binderRuns>>
    PROVE  Contract!Rebind
  <1> DEFINE c == IF x = Lazy THEN Lazy ELSE x.content
  <1>1. c \in {y.content : y \in Values} \cup {Lazy}
    OBVIOUS
  <1>2. /\ bound'[v] = x /\ \A u \in Vars : u # v => bound'[u] = bound[u]
        /\ memo'[v] = None /\ \A u \in Vars : u # v => memo'[u] = memo[u]
    BY DEF IInv, TypeOK
  <1>3. (IF x = Lazy THEN Lazy ELSE ContentOf(x)) = c /\ ContentOf(None) = None
    BY ValueFacts DEF ContentOf
  <1>4. AbsBound' = [AbsBound EXCEPT ![v] = c]
    <2>1. AbsBound' = [u \in Vars |-> AbsBound'[u]] /\ AbsBound = [u \in Vars |-> AbsBound[u]]
      BY DEF AbsBound
    <2>2. AbsBound'[v] = c /\ \A u \in Vars : u # v => AbsBound'[u] = AbsBound[u]
      BY <1>2, <1>3 DEF AbsBound, ContentOf
    <2> HIDE DEF c
    <2> QED BY <2>1, <2>2
  <1>5. AbsMemo' = [AbsMemo EXCEPT ![v] = None]
    <2>1. AbsMemo' = [u \in Vars |-> AbsMemo'[u]] /\ AbsMemo = [u \in Vars |-> AbsMemo[u]]
      BY DEF AbsMemo
    <2>2. AbsMemo'[v] = None /\ \A u \in Vars : u # v => AbsMemo'[u] = AbsMemo[u]
      BY <1>2, <1>3 DEF AbsMemo, ContentOf
    <2> QED BY <2>1, <2>2
  <1>6. AbsMode = "idle" /\ AbsMode' = AbsMode /\ AbsOutcome' = AbsOutcome /\ opaque' = opaque
    BY DEF AbsMode, AbsOutcome, Failed, callVars, instanceVars
  <1> HIDE DEF c
  <1> QED BY <1>1, <1>4, <1>5, <1>6 DEF Contract!Rebind, AbsBound, AbsMemo, AbsMode, AbsOutcome

LEMMA BeginStep ==
    ASSUME IInv, NEW kind \in {"eval", "partial"}, NEW patterns \in SUBSET Vars,
           BeginWith(kind, patterns)
    PROVE  Contract!Call
  <1> USE DEF BeginWith
  <1>1. AbsMode = "idle" /\ AbsMode' = "busy" /\ AbsBound' = AbsBound /\ opaque' \in SUBSET Vars
    BY DEF AbsMode, AbsBound, ContentOf
  <1>2. AbsMemo' = [v \in Vars |-> None]
    BY DEF AbsMemo, ContentOf
  <1>3. AbsOutcome' = Contract!NoOutcome
    BY DEF AbsOutcome, NoOutcome, Contract!NoOutcome
  <1> QED BY <1>1, <1>2, <1>3 DEF Contract!Call, AbsBound, AbsMemo, AbsMode, AbsOutcome

LEMMA BareStep ==
    ASSUME IInv, BeginBareEval
    PROVE  Contract!CallBare
  <1> USE DEF BeginBareEval, instanceVars
  <1>1. AbsMode = "idle" /\ AbsMode' = "bare" /\ AbsBound' = AbsBound /\ AbsMemo' = AbsMemo
    BY DEF AbsMode, AbsBound, AbsMemo, ContentOf
  <1>2. AbsOutcome' = Contract!NoOutcome
    BY DEF AbsOutcome, NoOutcome, Contract!NoOutcome
  <1> QED BY <1>1, <1>2 DEF Contract!CallBare, AbsBound, AbsMemo, AbsMode, AbsOutcome

\* What any slot, however stale, decodes to.
LEMMA DecodeType ==
    ASSUME TypeOK, NEW v \in Vars
    PROVE  Decode(slots[v]) \in Vars \cup Contents \cup {Built, None}
  <1>1. ASSUME NEW at, NEW size PROVE Held(at, size) \in Vars \cup Contents \cup {None}
    <2> DEFINE spans == {w \in bytes : w.at = at /\ w.size = size}
    <2>1. CASE spans = {}
      BY <2>1 DEF Held
    <2>2. CASE spans # {}
      <3>1. PICK o : o = CHOOSE w \in spans : TRUE
        OBVIOUS
      <3>2. o \in spans
        <4>1. \E w : w \in spans
          BY <2>2
        <4> HIDE DEF spans
        <4> QED BY <3>1, <4>1
      <3>3. o.content \in Vars \cup Contents
        BY <3>2 DEF TypeOK, Span
      <3> QED BY <2>2, <3>1, <3>3 DEF Held
    <2> QED BY <2>1, <2>2
  <1>2. PICK s \in Slot : s = slots[v]
    BY DEF TypeOK
  <1>3. CASE s.kind = "scalar"
    BY <1>2, <1>3 DEF Decode, Tables, Slot
  <1>4. CASE s.kind \in {"bytes", "unknown"}
    BY <1>1, <1>2, <1>4 DEF Decode, Tables
  <1>5. CASE s.kind \in Tables
    <2>1. Decode(s) = IF s.at \in 1 .. Len(refs[s.kind]) THEN refs[s.kind][s.at] ELSE None
      BY <1>5 DEF Decode, Tables
    <2>2. refs[s.kind] \in Seq(Contents \cup {Built})
      BY <1>5 DEF TypeOK
    <2> QED BY <1>2, <2>1, <2>2
  <1>6. CASE s.kind = "unset"
    BY <1>2, <1>6 DEF Decode, Tables
  <1> QED BY <1>2, <1>3, <1>4, <1>5, <1>6 DEF Slot, Reprs

\* $eval's end is the end of the contract's call.
LEMMA EndRunStep ==
    ASSUME IInv, EndRun
    PROVE  Contract!Return \/ Contract!Fail \/ Contract!ReturnBare
  <1> USE DEF EndRun
  <1>1. pc = "run" /\ UNCHANGED <<bound, memo>> /\ AbsBound' = AbsBound /\ AbsMemo' = AbsMemo
    BY DEF AbsBound, AbsMemo, ContentOf
  <1>2. PICK result : EndCall(result) /\ result.status # "resource_exhausted" /\
          \/ result = Computed \/ result = Failed
          \/ \E v \in Vars : /\ Decode(slots[v]) # None /\ slots[v].kind = "unknown"
                            /\ result = [status |-> "unknown", var |-> Decode(slots[v]), value |-> None]
          \/ \E v \in Vars : /\ Decode(slots[v]) # None /\ slots[v].kind # "unknown"
                            /\ result = [status |-> "ok", var |-> v, value |-> Decode(slots[v])]
    <2>1. CASE ReturnsComputed \/ Traps
      BY <2>1 DEF ReturnsComputed, Traps, Failed, Computed
    <2>2. CASE \E v \in Vars : ReturnsVariable(v)
      <3>1. PICK v \in Vars : ReturnsVariable(v)
        BY <2>2
      <3>2. PICK c : c = Decode(slots[v])
        OBVIOUS
      <3>3. CASE c = None
        <4>1. EndCall(Failed)
          BY <3>1, <3>2, <3>3 DEF ReturnsVariable
        <4>2. Failed.status # "resource_exhausted"
          BY DEF Failed
        <4> QED BY <4>1, <4>2
      <3>4. CASE c # None /\ slots[v].kind = "unknown"
        <4>1. PICK r : r = [status |-> "unknown", var |-> c, value |-> None]
          OBVIOUS
        <4>2. EndCall(r)
          BY <3>1, <3>2, <3>4, <4>1 DEF ReturnsVariable
        <4>3. r.status # "resource_exhausted"
          BY <4>1
        <4> QED BY <3>2, <3>4, <4>1, <4>2, <4>3
      <3>5. CASE c # None /\ slots[v].kind # "unknown"
        <4>1. PICK r : r = [status |-> "ok", var |-> v, value |-> c]
          OBVIOUS
        <4>2. EndCall(r)
          BY <3>1, <3>2, <3>5, <4>1 DEF ReturnsVariable
        <4>3. r.status # "resource_exhausted"
          BY <4>1
        <4> QED BY <3>2, <3>5, <4>1, <4>2, <4>3
      <3> QED BY <3>3, <3>4, <3>5
    <2> QED BY <2>1, <2>2
  <1>3. AbsMode' = "idle" /\ AbsOutcome' = result
    BY <1>2 DEF AbsMode, AbsOutcome, EndCall
  <1>4. CASE call = "bare"
    <2>1. AbsMode = "bare" /\ opaque' = opaque
      BY <1>1, <1>2, <1>4 DEF AbsMode, EndCall
    <2>2. \A v \in Vars : Decode(slots[v]) \in Vars \cup Contents \cup {Built, None}
      BY DecodeType DEF IInv
    <2>3. result \in [status : {"ok", "unknown", "error"}, var : Vars \cup Contents \cup {Built, None},
                      value : Vars \cup Contents \cup {Built, None}]
      BY <1>2, <2>2 DEF Computed, Failed
    <2>4. Contract!ReturnBare
      BY <1>1, <1>3, <2>1, <2>3 DEF Contract!ReturnBare, AbsBound, AbsMemo, AbsMode, AbsOutcome, Contents
    <2> QED BY <2>4
  <1>5. CASE call # "bare" /\ result = Failed
    <2>1. Contract!Fail
      BY <1>1, <1>2, <1>5, FailStep
    <2> QED BY <2>1
  <1>6. CASE call # "bare" /\ result # Failed
    <2>1. AbsMode = "busy" /\ opaque' = {}
      BY <1>1, <1>2, <1>6, AbsFacts DEF AbsMode, EndCall
    <2>2. \A v \in Vars : IF v \in opaque
                          THEN slots[v].kind = "unknown" /\ Decode(slots[v]) = v
                          ELSE slots[v].kind # "unknown" /\ Decode(slots[v]) = Denoted(v)
      BY <1>1, <1>6, SlotsDenoteFromIInv DEF SlotsDenote
    <2>3. \/ result = Contract!Computed
          \/ \E v \in opaque : result = [status |-> "unknown", var |-> v, value |-> None]
          \/ \E v \in Vars \ opaque :
                Denoted(v) # None /\ result = [status |-> "ok", var |-> v, value |-> Denoted(v)]
      BY <1>2, <1>6, <2>2 DEF Computed, Contract!Computed
    <2>4. \A v \in Vars : Denoted(v) = Contract!Denotes(v)
      BY AbsFacts DEF Contract!Denotes, AbsBound, AbsMemo
    <2>5. \/ result = Contract!Computed
          \/ \E v \in opaque : result = [status |-> "unknown", var |-> v, value |-> None]
          \/ \E v \in Vars \ opaque :
                /\ Contract!Denotes(v) # None
                /\ result = [status |-> "ok", var |-> v, value |-> Contract!Denotes(v)]
      BY <2>3, <2>4
    <2>6. Contract!Return
      BY <1>1, <1>3, <2>1, <2>5 DEF Contract!Return, AbsBound, AbsMemo, AbsMode, AbsOutcome
    <2> QED BY <2>6
  <1> QED BY <1>4, <1>5, <1>6

LEMMA ContractInit == Init => Contract!CInit
  BY DEF Init, Contract!CInit, ContentOf, NoOutcome, Contract!NoOutcome

LEMMA ContractStep == IInv /\ [Next]_vars => [Contract!CNext]_(Contract!cvars)
  <1> SUFFICES ASSUME IInv, [Next]_vars PROVE [Contract!CNext]_(Contract!cvars)
    OBVIOUS
  <1>c. pc \in {"prepass", "marshal"} => pc # "idle" /\ call # "bare"
    BY DEF IInv, Control
  <1>v. ASSUME i <= Len(VarSeq) PROVE V \in Vars
    BY <1>v, AtHand DEF IInv
  <1>1. CASE UNCHANGED vars
    BY <1>1 DEF vars, Contract!cvars, ContentOf, Failed
  <1>2. CASE \E v \in Vars, x \in Values : Bind(v, x)
    BY <1>2, BindStep DEF Bind, Contract!CNext
  <1>3. CASE \E v \in Vars : BindLazy(v)
    BY <1>3, BindStep DEF BindLazy, Contract!CNext
  <1>4. CASE BeginEval
    BY <1>4, BeginStep DEF BeginEval, Contract!CNext
  <1>5. CASE BeginPartialEval
    <2>1. PICK p \in SUBSET Vars : BeginWith("partial", p)
      BY <1>5, EvaluationAssumption DEF BeginPartialEval
    <2> QED BY <2>1, BeginStep DEF Contract!CNext
  <1>6. CASE BeginBareEval
    BY <1>6, BareStep DEF Contract!CNext
  <1>7. CASE PrepassSkip \/ EnsureKeeps \/ EnsureGrows \/ StartRun \/ BodyInterns
    <2>1. /\ pc # "idle" /\ pc' # "idle" /\ call' = call /\ memo' = memo
          /\ UNCHANGED <<bound, opaque, outcome>>
      BY <1>7 DEF PrepassSkip, EnsureKeeps, EnsureGrows, StartRun, BodyInterns, instanceVars, callVars
    <2>2. AbsMemo' = AbsMemo
      BY <2>1 DEF AbsMemo, ContentOf
    <2> QED BY <2>1, <2>2, InsideStep
  <1>8. CASE PrepassSize
    <2> USE <1>8 DEF PrepassSize, instanceVars
    <2>1. PICK v \in Vars : v = V
      BY <1>v
    <2>2. AbsMemo' = AbsMemo \/ Contract!Produce
      BY <2>1, ResolveProduces
    <2> QED BY <1>c, <2>2, InsideStep
  <1>9. CASE PrepassBinderFails \/ EnsureFails
    <2>1. /\ pc = "prepass" /\ EndCall(Failed) /\ memo' = memo /\ bound' = bound
      BY <1>9 DEF PrepassBinderFails, EnsureFails, BinderFails
    <2>2. AbsMemo' = AbsMemo
      BY <2>1 DEF AbsMemo, ContentOf
    <2> QED BY <1>c, <2>1, <2>2, FailStep DEF Contract!CNext
  <1>10. CASE MarshalUnknown
    <2> USE <1>10 DEF MarshalUnknown, Marshalling
    <2>1. PICK v \in Vars : v = V
      BY <1>v
    <2>2. Room(DescriptorBytes)
      BY <2>1, RoomSuffices DEF Room, Cost
    <2>3. Advance(DescriptorBytes)
      BY <2>2 DEF EncodeUnknownVariable
    <2>4. AbsMemo' = AbsMemo
      BY DEF AbsMemo, ContentOf
    <2> QED BY <1>c, <2>3, <2>4, InsideStep DEF Advance
  <1>11. CASE Marshal
    <2> USE <1>11 DEF Marshal, Marshalling
    <2>1. PICK v \in Vars : v = V
      BY <1>v
    <2>2. PICK x \in Values : Resolve(v, x) /\ (EncodeScalar(x) \/ EncodeBytes(x) \/ EncodeHandle(x))
      BY <2>1
    <2>3. AbsMemo' = AbsMemo \/ Contract!Produce
      BY <2>1, <2>2, ResolveProduces
    <2>4. \E n \in Nat : Advance(n)
      <3>1. CASE EncodeScalar(x) \/ EncodeHandle(x)
        BY <3>1 DEF EncodeScalar, EncodeHandle
      <3>2. CASE EncodeBytes(x)
        <4>1. cursor + AlignUp(x.size) <= Capacity
          BY <2>1, <2>2, <3>2, BytesFit
        <4>2. AlignUp(x.size) \in Nat
          BY ValueFacts, AlignFacts
        <4> QED BY <3>2, <4>1, <4>2 DEF EncodeBytes, Room
      <3> QED BY <2>2, <3>1, <3>2
    <2> QED BY <1>c, <2>3, <2>4, InsideStep DEF Advance
  <1>12. CASE MarshalFails
    <2> USE <1>12 DEF MarshalFails, Marshalling
    <2>1. PICK v \in Vars : v = V
      BY <1>v
    <2>2. AbsMemo' = AbsMemo \/ Contract!Produce
      <3>1. CASE memo' = memo
        BY <3>1 DEF AbsMemo, ContentOf
      <3>2. CASE \E x \in Values : Resolve(v, x)
        BY <2>1, <3>2, ResolveProduces
      <3> QED BY <2>1, <3>1, <3>2 DEF BinderFails
    <2> QED BY <1>c, <2>2, FailStep DEF Contract!CNext
  <1>13. CASE EndRun
    BY <1>13, EndRunStep DEF Contract!CNext
  <1> QED BY <1>1, <1>2, <1>3, <1>4, <1>5, <1>6, <1>7, <1>8, <1>9, <1>10, <1>11, <1>12, <1>13
          DEF Next, Caller, Step

\* Eval, PartialEval and the bare Eval, with their slots, buffers, budgets and
\* handle tables, do what the contract lets them do and nothing else: every
\* step of eval/instance.cc is a step of the contract or none of its concern.
THEOREM Refinement == Spec => ImplementsContract
  BY ContractInit, ContractStep, Invariance, PTL DEF Spec, ImplementsContract, Contract!CSpec
=============================================================================
