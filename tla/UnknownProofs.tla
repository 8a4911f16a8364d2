--------------------------- MODULE UnknownProofs ---------------------------
(***************************************************************************)
(* What the runtime promises of unknown values.  The kernels: a known      *)
(* answer is final, and an unknown names every attribute it depends on,    *)
(* with the exceptions ThreeValued records, for any number of slots,       *)
(* attributes, operations and arguments of a host call.  The merge walk    *)
(* under them: it returns the sorted union of its operands and stays in    *)
(* its buffer, for id arrays of any length.                                *)
(***************************************************************************)
EXTENDS ThreeValued, UnknownMerge, TLAPS

-----------------------------------------------------------------------------
(* Kernels *)


\* A known value is what every completion gives; two completions that agree
\* on U give the same.
Fin(v, d) == ~IsUnknown(v) => \A c \in Completion : d[c] = v.kind
Names(U, d) == \A c, e \in Completion : Agree(c, e, U) => d[c] = d[e]

\* What one slot owes to what it denotes, unless it goes back to an early error.
Final(v, d, e) == v.kind \in Plain \/ ~e => Fin(v, d)
NamesAll(v, d, e, D) == IsUnknown(v) /\ ~e => Names(v.ids \cup D, d)

Meanings == [Completion -> Concrete]

\* The kernels return CelValues.
LEMMA KernelTypes ==
    ASSUME NEW a \in CelValue, NEW b \in CelValue
    PROVE  /\ cel_and(a, b) \subseteq CelValue
           /\ cel_or(a, b) \subseteq CelValue
           /\ cel_not(a) \subseteq CelValue
           /\ absorb_3vl_binary(a, b) \subseteq CelValue
  BY DEF CelValue, cel_and, cel_or, cel_not, absorb_3vl_binary, Logic, logic_unknown_error_tail,
         cel_unknown_merge, Poison, Value, Unknown, Bool, IsUnknown, IsError, is_3vl_kind,
         Concrete, Plain

\* An error that no operand held, over an unknown operand (Raised, of values).
OverUnknown(v, a, b) ==
    IsError(v) /\ ~IsError(a) /\ ~IsError(b) /\ (IsUnknown(a) \/ IsUnknown(b))

\* The two logical operators: a known result that was not raised over an
\* unknown is what every completion gives.
LEMMA LogicFinal ==
    ASSUME NEW a \in CelValue, NEW b \in CelValue,
           NEW d \in Meanings, NEW e \in Meanings, Fin(a, d), Fin(b, e),
           NEW w \in {"true", "false"}, NEW v \in Logic(a, b, w), ~OverUnknown(v, a, b)
    PROVE  Fin(v, [c \in Completion |-> KnownLogic(d[c], e[c], w)])
  <1> SUFFICES ASSUME ~IsUnknown(v), NEW c \in Completion
               PROVE  KnownLogic(d[c], e[c], w) = v.kind
    BY DEF Fin
  <1>1. d[c] \in Concrete /\ e[c] \in Concrete
    BY DEF Meanings
  <1>2. CASE a.kind = w
    <2>1. d[c] = w
      BY <1>2 DEF Fin, IsUnknown
    <2> QED BY <1>2, <2>1 DEF Logic, KnownLogic, Value
  <1>3. CASE b.kind = w
    <2>1. e[c] = w
      BY <1>3 DEF Fin, IsUnknown
    <2> QED BY <1>3, <2>1 DEF Logic, KnownLogic, Value
  <1>4. CASE a.kind # w /\ b.kind # w
    <2>2. CASE IsUnknown(a) \/ IsUnknown(b)
      BY <1>1, <1>4, <2>2 DEF Logic, logic_unknown_error_tail, cel_unknown_merge, Poison, Value,
         Unknown, IsUnknown, IsError, is_3vl_kind, Plain, Fin, KnownLogic, CelValue, Concrete,
         OverUnknown
    <2>3. CASE ~IsUnknown(a) /\ ~IsUnknown(b)
      <3>1. d[c] = a.kind /\ e[c] = b.kind
        BY <2>3 DEF Fin
      <3> QED BY <1>4, <2>3, <3>1 DEF Logic, logic_unknown_error_tail, Poison, Value,
         IsUnknown, IsError, is_3vl_kind, Plain, KnownLogic, CelValue, Concrete
    <2> QED BY <2>2, <2>3
  <1> QED BY <1>2, <1>3, <1>4

\* A logical operator answers with a bool only on account of bools.
LEMMA LogicPlain ==
    ASSUME NEW a \in CelValue, NEW b \in CelValue,
           NEW d \in Meanings, NEW e \in Meanings,
           a.kind \in Plain => Fin(a, d), b.kind \in Plain => Fin(b, e),
           NEW w \in {"true", "false"}, NEW v \in Logic(a, b, w), v.kind \in Plain
    PROVE  Fin(v, [c \in Completion |-> KnownLogic(d[c], e[c], w)])
  <1>1. CASE a.kind = w
    BY <1>1 DEF Fin, IsUnknown, Logic, KnownLogic, Value, Plain
  <1>2. CASE b.kind = w
    BY <1>2 DEF Fin, IsUnknown, Logic, KnownLogic, Value, Plain
  <1>3. CASE a.kind # w /\ b.kind # w
    <2>1. a.kind \in Plain /\ b.kind \in Plain
      BY <1>3 DEF Logic, logic_unknown_error_tail, cel_unknown_merge, Poison, Value, Unknown,
         IsUnknown, IsError, is_3vl_kind, Plain, CelValue, Concrete
    <2>2. ~OverUnknown(v, a, b)
      BY <2>1 DEF OverUnknown, IsUnknown, Plain
    <2> QED BY <2>1, <2>2, LogicFinal
  <1> QED BY <1>1, <1>2, <1>3

\* The same for negation.
LEMMA NotFinal ==
    ASSUME NEW a \in CelValue, NEW d \in Meanings, NEW v \in cel_not(a),
           v.kind \in Plain \/ Fin(a, d), a.kind \in Plain => Fin(a, d)
    PROVE  Fin(v, [c \in Completion |-> KnownNot(d[c])])
  BY DEF Fin, cel_not, KnownNot, Bool, Value, Poison, IsUnknown, IsError, CelValue, Concrete,
         Plain, Meanings

\* A strict kernel's result is the absorbed value, or computed from two
\* operands that are neither errors nor unknowns.
LEMMA StrictCases ==
    ASSUME NEW a, NEW b, NEW f, NEW v \in Strict(f, a, b)
    PROVE  \/ v \in absorb_3vl_binary(a, b)
           \/ /\ ~IsError(a) /\ ~IsError(b) /\ ~IsUnknown(a) /\ ~IsUnknown(b)
              /\ v = Value(f[a.kind][b.kind])
  <1>1. CASE absorb_3vl_binary(a, b) # {}
    BY <1>1 DEF Strict
  <1>2. CASE absorb_3vl_binary(a, b) = {}
    <2>1. v = Value(f[a.kind][b.kind])
      BY <1>2 DEF Strict
    <2>2. cel_unknown_merge(a, b) # {} /\ {a} # {} /\ {b} # {}
      BY DEF cel_unknown_merge
    <2>3. ~IsError(a) /\ ~IsError(b) /\ ~IsUnknown(a) /\ ~IsUnknown(b)
      BY <1>2, <2>2 DEF absorb_3vl_binary
    <2> QED BY <2>1, <2>3
  <1> QED BY <1>1, <1>2

\* The same for a strict kernel: an error operand decides before an unknown,
\* and an ordinary result needs two ordinary operands.
LEMMA StrictFinal ==
    ASSUME NEW a \in CelValue, NEW b \in CelValue,
           NEW d \in Meanings, NEW e \in Meanings,
           a.kind \in Plain => Fin(a, d), b.kind \in Plain => Fin(b, e),
           NEW f \in [Plain -> [Plain -> Concrete]], NEW v \in Strict(f, a, b),
           v.kind \in Plain \/ (Fin(a, d) /\ Fin(b, e) /\ ~OverUnknown(v, a, b))
    PROVE  Fin(v, [c \in Completion |-> KnownStrict(f, d[c], e[c])])
  <1> SUFFICES ASSUME ~IsUnknown(v), NEW c \in Completion
               PROVE  KnownStrict(f, d[c], e[c]) = v.kind
    BY DEF Fin
  <1>1. CASE IsError(a) \/ IsError(b)
    <2>2. v \in absorb_3vl_binary(a, b)
      BY <1>1, StrictCases
    <2>3. v.kind = "error"
      BY <1>1, <2>2 DEF absorb_3vl_binary, IsError
    <2>1. d[c] = "error" \/ e[c] = "error"
      BY <1>1, <2>3 DEF Fin, IsError, IsUnknown, Plain
    <2> QED BY <2>1, <2>3 DEF KnownStrict
  <1>2. CASE ~IsError(a) /\ ~IsError(b)
    <2>1. ~IsUnknown(a) /\ ~IsUnknown(b)
      BY <1>2, StrictCases DEF absorb_3vl_binary, cel_unknown_merge, IsError, IsUnknown, Unknown,
         Poison, Value, OverUnknown, Plain
    <2>2. a.kind \in Plain /\ b.kind \in Plain
      BY <1>2, <2>1 DEF CelValue, Concrete, IsUnknown, IsError
    <2>3. d[c] = a.kind /\ e[c] = b.kind
      BY <2>1, <2>2 DEF Fin
    <2>4. v = Value(f[a.kind][b.kind])
      BY <1>2, <2>1, StrictCases DEF absorb_3vl_binary
    <2> QED BY <1>2, <2>3, <2>4 DEF KnownStrict, Value, IsError
  <1> QED BY <1>1, <1>2

\* An unknown result of a two-operand kernel names what its operands name.
LEMMA KernelIds ==
    ASSUME NEW a \in CelValue, NEW b \in CelValue, NEW w \in {"true", "false"},
           NEW f \in [Plain -> [Plain -> Concrete]],
           NEW v \in Logic(a, b, w) \cup Strict(f, a, b), IsUnknown(v)
    PROVE  /\ IsUnknown(a) => a.ids \subseteq v.ids
           /\ IsUnknown(b) => b.ids \subseteq v.ids
  <1>1. CASE v \in Logic(a, b, w)
    BY <1>1 DEF Logic, logic_unknown_error_tail, cel_unknown_merge, Poison, Value, Unknown,
       IsUnknown, IsError, is_3vl_kind, CelValue, Concrete, Plain
  <1>2. CASE v \in Strict(f, a, b)
    BY <1>2, StrictCases DEF absorb_3vl_binary, cel_unknown_merge, Poison, Value, Unknown,
       IsUnknown, IsError
  <1> QED BY <1>1, <1>2

\* The host trampoline hands on an argument, and an error before an unknown.
LEMMA HostAbsorbs ==
    ASSUME NEW n \in Nat, NEW in \in [1 .. n -> CelValue], NEW v \in AbsorbUnknownOrErrorArg(in)
    PROVE  /\ \E m \in 1 .. n : v = in[m]
           /\ IsError(v) \/ IsUnknown(v)
           /\ IsUnknown(v) => \A m \in 1 .. n : ~IsError(in[m])
  BY DEF AbsorbUnknownOrErrorArg, IsError, IsUnknown

-----------------------------------------------------------------------------
\* Every slot is typed, and what it holds is final or names what it depends on.
KInv ==
    /\ TypeOK
    /\ \A s \in Slots : /\ Final(slot[s], den[s], early[s])
                        /\ NamesAll(slot[s], den[s], early[s], dropped[s])

\* None of the operands goes back to an early error.
Clean(S) == \A s \in S : ~early[s]

\* Membership in the ids of several slots.
LEMMA NamedHas ==
    ASSUME NEW S
    PROVE  /\ \A s \in S : slot[s].ids \subseteq Named(S) /\ dropped[s] \subseteq Dropped(S)
           /\ \A id \in Named(S) : \E s \in S : id \in slot[s].ids
           /\ \A id \in Dropped(S) : \E s \in S : id \in dropped[s]
  BY DEF Named, Dropped

\* What a result with ids I, operands S and new losses D names and left out.
AllIds(I, S, D) == I \cup D \cup Dropped(S)

\* A result v that denotes d is settled: final if it is an ordinary value; and
\* if nothing early is behind it, final or naming what it depends on.
Settled(v, d, S, e, D) ==
    /\ v.kind \in Plain => Fin(v, d)
    /\ ~e /\ Clean(S) => Fin(v, d)
    /\ ~e /\ Clean(S) /\ IsUnknown(v) => Names(AllIds(v.ids, S, D), d)

\* Writing a typed value that is settled keeps the invariant.
LEMMA PutKInv ==
    ASSUME KInv, NEW out \in Slots, NEW v \in CelValue, NEW d \in Meanings,
           NEW S \in SUBSET Slots, NEW e \in BOOLEAN, NEW D \in SUBSET Ids, Put(out, v, d, S, e, D),
           Settled(v, d, S, e, D)
    PROVE  KInv'
  <1> DEFINE now == v.kind \notin Plain /\ (e \/ \E s \in S : early[s])
             lost == IF IsUnknown(v) THEN D \cup Dropped(S) ELSE {}
  <1>1. /\ slot' = [slot EXCEPT ![out] = v] /\ den' = [den EXCEPT ![out] = d]
        /\ early' = [early EXCEPT ![out] = now] /\ dropped' = [dropped EXCEPT ![out] = lost]
    BY DEF Put
  <1>2. /\ slot \in [Slots -> CelValue] /\ den \in [Slots -> Meanings]
        /\ early \in [Slots -> BOOLEAN] /\ dropped \in [Slots -> SUBSET Ids]
    BY DEF KInv, TypeOK, Meanings
  <1>3. now \in BOOLEAN /\ lost \in SUBSET Ids
    <2>1. \A s \in S : dropped[s] \in SUBSET Ids
      BY <1>2
    <2>2. Dropped(S) \in SUBSET Ids
      BY <2>1, NamedHas
    <2> QED BY <2>2
  <1>4. Final(v, d, now) /\ NamesAll(v, d, now, lost)
    <2> USE DEF Settled
    <2>1. CASE v.kind \in Plain
      BY <2>1 DEF Final, NamesAll, IsUnknown, Plain
    <2>2. CASE v.kind \notin Plain /\ ~e /\ Clean(S)
      <3>1. v.ids \cup lost = AllIds(v.ids, S, D) \/ ~IsUnknown(v)
        BY DEF AllIds
      <3> QED BY <2>2, <3>1 DEF Final, NamesAll
    <2>3. CASE v.kind \notin Plain /\ ~(~e /\ Clean(S))
      <3>1. now
        BY <2>3 DEF Clean
      <3> QED BY <2>3, <3>1 DEF Final, NamesAll
    <2> QED BY <2>1, <2>2, <2>3
  <1> HIDE DEF now, lost
  <1>5. ops' \in 0 .. MaxOps
    BY ThreeValuedAssumption DEF Put, KInv, TypeOK
  <1>6. TypeOK'
    BY <1>1, <1>2, <1>3, <1>5 DEF TypeOK, Meanings
  <1>7. ASSUME NEW s \in Slots
        PROVE  /\ Final(slot[s], den[s], early[s])'
               /\ NamesAll(slot[s], den[s], early[s], dropped[s])'
    <2>1. CASE s = out
      <3>1. slot'[s] = v /\ den'[s] = d /\ early'[s] = now /\ dropped'[s] = lost
        BY <1>1, <1>2, <2>1
      <3> QED BY <1>4, <3>1
    <2>2. CASE s # out
      <3>1. slot'[s] = slot[s] /\ den'[s] = den[s] /\ early'[s] = early[s] /\ dropped'[s] = dropped[s]
        BY <1>1, <1>2, <2>2
      <3> QED BY <3>1 DEF KInv
    <2> QED BY <2>1, <2>2
  <1> QED BY <1>6, <1>7 DEF KInv

\* Meanings are closed under the known operations.
LEMMA MeaningTypes ==
    ASSUME NEW d \in Meanings, NEW e \in Meanings, NEW f \in [Plain -> [Plain -> Concrete]]
    PROVE  /\ \A w \in {"true", "false"} :
                 [c \in Completion |-> KnownLogic(d[c], e[c], w)] \in Meanings
           /\ [c \in Completion |-> KnownNot(d[c])] \in Meanings
           /\ [c \in Completion |-> KnownStrict(f, d[c], e[c])] \in Meanings
  BY DEF Meanings, KnownLogic, KnownNot, KnownStrict, Concrete, Plain

\* Two operands, clean: the result of a logical or strict kernel is final, or
\* it names what it depends on.
LEMMA TwoNames ==
    ASSUME KInv, NEW a \in Slots, NEW b \in Slots, Clean({a, b}),
           NEW v, IsUnknown(slot[a]) => slot[a].ids \subseteq v.ids,
           IsUnknown(slot[b]) => slot[b].ids \subseteq v.ids
    PROVE  Names(AllIds(v.ids, {a, b}, {}), den[a]) /\ Names(AllIds(v.ids, {a, b}, {}), den[b])
  <1> DEFINE U == AllIds(v.ids, {a, b}, {})
  <1>0. \A s \in Slots : /\ slot[s] \in CelValue /\ den[s] \in Meanings
                        /\ Final(slot[s], den[s], early[s])
                        /\ NamesAll(slot[s], den[s], early[s], dropped[s])
    BY DEF KInv, TypeOK, Meanings
  <1>1. /\ IsUnknown(slot[a]) => slot[a].ids \subseteq v.ids
        /\ IsUnknown(slot[b]) => slot[b].ids \subseteq v.ids
    OBVIOUS
  <1>2. ASSUME NEW s \in {a, b}, NEW c \in Completion, NEW e \in Completion, Agree(c, e, U)
        PROVE  den[s][c] = den[s][e]
    <2>1. s \in Slots /\ ~early[s]
      BY <1>2 DEF Clean
    <2>2. Fin(slot[s], den[s]) /\ (IsUnknown(slot[s]) => Names(slot[s].ids \cup dropped[s], den[s]))
      BY <1>0, <2>1 DEF Final, NamesAll
    <2>3. IsUnknown(slot[s]) => slot[s].ids \cup dropped[s] \subseteq U
      BY <1>1, NamedHas DEF AllIds
    <2> HIDE DEF U
    <2>4. Agree(c, e, U)
      BY <1>2
    <2>5. CASE IsUnknown(slot[s])
      <3>1. Agree(c, e, slot[s].ids \cup dropped[s])
        BY <2>3, <2>4, <2>5 DEF Agree
      <3> QED BY <2>2, <2>5, <3>1 DEF Names
    <2>6. CASE ~IsUnknown(slot[s])
      BY <2>2, <2>6 DEF Fin
    <2> QED BY <2>5, <2>6
  <1> QED BY <1>2 DEF Names

\* Every operation keeps the invariant.
LEMMA NextKInv == ASSUME KInv, [Next]_vars PROVE KInv'
  <1>0. \A s \in Slots : /\ slot[s] \in CelValue /\ den[s] \in Meanings
                        /\ dropped[s] \in SUBSET Ids
                        /\ Final(slot[s], den[s], early[s])
                        /\ NamesAll(slot[s], den[s], early[s], dropped[s])
    BY DEF KInv, TypeOK, Meanings
  <1>p. \A s \in Slots : slot[s].kind \in Plain \/ ~early[s] => Fin(slot[s], den[s])
    BY <1>0 DEF Final
  <1>1. ASSUME NEW out \in Slots, NEW k \in Concrete, LoadKnown(out, k)
        PROVE  KInv'
    <2>1. Value(k) \in CelValue /\ Always(k) \in Meanings
      BY DEF Value, CelValue, Always, Meanings, Concrete, Plain
    <2>2. Settled(Value(k), Always(k), {}, FALSE, {})
      BY DEF Settled, Value, Always, Fin, IsUnknown, Concrete, Plain
    <2>3. Put(out, Value(k), Always(k), {}, FALSE, {})
      BY <1>1 DEF LoadKnown
    <2>4. {} \in SUBSET Slots /\ {} \in SUBSET Ids /\ FALSE \in BOOLEAN
      OBVIOUS
    <2> QED BY <2>1, <2>2, <2>3, <2>4, PutKInv
  <1>2. ASSUME NEW out \in Slots, NEW id \in Ids, LoadUnknown(out, id)
        PROVE  KInv'
    <2> DEFINE d == [c \in Completion |-> c[id]]
               v == Unknown({id})
    <2>1. /\ v \in CelValue /\ d \in Meanings /\ Fin(v, d) /\ v.kind \notin Plain
      BY DEF Unknown, CelValue, Completion, Fin, IsUnknown, Meanings, Plain
    <2>2. AllIds(v.ids, {}, {}) = {id}
      BY NamedHas DEF Unknown, AllIds
    <2>3. Names({id}, d)
      BY DEF Names, Agree
    <2>4. Put(out, v, d, {}, FALSE, {})
      BY <1>2 DEF LoadUnknown
    <2> HIDE DEF d, v
    <2>5. Settled(v, d, {}, FALSE, {})
      BY <2>1, <2>2, <2>3 DEF Settled
    <2>6. {} \in SUBSET Slots /\ {} \in SUBSET Ids /\ FALSE \in BOOLEAN
      OBVIOUS
    <2> QED BY <2>1, <2>4, <2>5, <2>6, PutKInv
  <1>3. ASSUME NEW out \in Slots, NEW a \in Slots, cel_copy_slot(out, a)
        PROVE  KInv'
    <2>1. Put(out, slot[a], den[a], {a}, FALSE, {})
      BY <1>3 DEF cel_copy_slot
    <2>2. slot[a].kind \in Plain \/ Clean({a}) => Fin(slot[a], den[a])
      BY <1>p DEF Clean
    <2>3. IsUnknown(slot[a]) /\ Clean({a}) =>
            Names(AllIds(slot[a].ids, {a}, {}), den[a])
      <3>1. AllIds(slot[a].ids, {a}, {}) = slot[a].ids \cup dropped[a]
        BY NamedHas DEF AllIds
      <3> QED BY <1>0, <3>1 DEF NamesAll, Clean
    <2>4. Settled(slot[a], den[a], {a}, FALSE, {})
      BY <2>2, <2>3 DEF Settled
    <2>5. {a} \in SUBSET Slots /\ {} \in SUBSET Ids /\ FALSE \in BOOLEAN
      OBVIOUS
    <2> QED BY <1>0, <2>1, <2>4, <2>5, PutKInv
  <1>4. ASSUME NEW out \in Slots, NEW a \in Slots, DoNot(out, a)
        PROVE  KInv'
    <2> DEFINE d == [c \in Completion |-> KnownNot(den[a][c])]
    <2>1. PICK v \in cel_not(slot[a]) : Put(out, v, d, {a}, FALSE, {})
      BY <1>4 DEF DoNot
    <2>2. v \in CelValue
      BY <1>0, <2>1, KernelTypes
    <2>3. v.kind \in Plain \/ Clean({a}) => Fin(v, d)
      BY <1>0, <1>p, <2>1, NotFinal DEF Clean
    <2>4. d \in Meanings
      BY <1>0 DEF KnownNot, Concrete, Plain, Meanings
    <2>5. ASSUME IsUnknown(v), Clean({a})
          PROVE  Names(AllIds(v.ids, {a}, {}), d)
      <3>1. v = slot[a]
        BY <2>1, <2>5 DEF cel_not, Bool, Value, Poison, IsUnknown
      <3>2. AllIds(v.ids, {a}, {}) = v.ids \cup dropped[a]
        BY NamedHas DEF AllIds
      <3>3. Names(v.ids \cup dropped[a], den[a])
        BY <1>0, <2>5, <3>1 DEF NamesAll, Clean
      <3> QED BY <3>2, <3>3 DEF Names
    <2> HIDE DEF d
    <2>6. Settled(v, d, {a}, FALSE, {})
      BY <2>3, <2>5 DEF Settled
    <2>7. {a} \in SUBSET Slots /\ {} \in SUBSET Ids /\ FALSE \in BOOLEAN
      OBVIOUS
    <2> QED BY <2>1, <2>2, <2>4, <2>6, <2>7, PutKInv
  <1>5. ASSUME NEW out \in Slots, NEW a \in Slots, NEW b \in Slots, NEW w \in {"true", "false"},
               DoLogic(out, a, b, w, Logic(slot[a], slot[b], w))
        PROVE  KInv'
    <2> DEFINE d == [c \in Completion |-> KnownLogic(den[a][c], den[b][c], w)]
    <2>1. PICK v \in Logic(slot[a], slot[b], w) : Put(out, v, d, {a, b}, Raised(v, a, b), {})
      BY <1>5 DEF DoLogic
    <2>2. v \in CelValue
      BY <1>0, <2>1, KernelTypes DEF cel_and, cel_or
    <2>3. d \in Meanings
      BY <1>0 DEF KnownLogic, Concrete, Meanings
    <2>4. v.kind \in Plain => Fin(v, d)
      BY <1>0, <1>p, <2>1, LogicPlain
    <2>5. ASSUME ~Raised(v, a, b), Clean({a, b}) PROVE Fin(v, d)
      <3>1. ~OverUnknown(v, slot[a], slot[b]) /\ Fin(slot[a], den[a]) /\ Fin(slot[b], den[b])
        BY <1>p, <2>5 DEF Raised, OverUnknown, Clean
      <3> QED BY <1>0, <2>1, <3>1, LogicFinal
    <2>6. ASSUME IsUnknown(v), Clean({a, b})
          PROVE  Names(AllIds(v.ids, {a, b}, {}), d)
      <3>0. [x \in Plain |-> [y \in Plain |-> "other"]] \in [Plain -> [Plain -> Concrete]]
        BY DEF Concrete, Plain
      <3>1. /\ IsUnknown(slot[a]) => slot[a].ids \subseteq v.ids
            /\ IsUnknown(slot[b]) => slot[b].ids \subseteq v.ids
        BY <1>0, <2>1, <2>6, <3>0, KernelIds
      <3>2. Names(AllIds(v.ids, {a, b}, {}), den[a]) /\ Names(AllIds(v.ids, {a, b}, {}), den[b])
        BY <2>6, <3>1, TwoNames
      <3> QED BY <3>2 DEF Names
    <2>7. Raised(v, a, b) \in BOOLEAN
      BY DEF Raised, IsError, IsUnknown
    <2> HIDE DEF d
    <2>8. Settled(v, d, {a, b}, Raised(v, a, b), {})
      BY <2>4, <2>5, <2>6 DEF Settled
    <2>9. {a, b} \in SUBSET Slots /\ {} \in SUBSET Ids
      OBVIOUS
    <2> QED BY <2>1, <2>2, <2>3, <2>7, <2>8, <2>9, PutKInv
  <1>6. ASSUME NEW out \in Slots, NEW a \in Slots, NEW b \in Slots, DoStrict(out, a, b)
        PROVE  KInv'
    <2>1. PICK f \in StrictOps : \E v \in Strict(f, slot[a], slot[b]) :
            Put(out, v, [c \in Completion |-> KnownStrict(f, den[a][c], den[b][c])],
                {a, b}, Raised(v, a, b), {})
      BY <1>6 DEF DoStrict
    <2>2. f \in [Plain -> [Plain -> Concrete]]
      BY ThreeValuedAssumption
    <2> DEFINE d == [c \in Completion |-> KnownStrict(f, den[a][c], den[b][c])]
    <2>3. PICK v \in Strict(f, slot[a], slot[b]) : Put(out, v, d, {a, b}, Raised(v, a, b), {})
      BY <2>1
    <2>4. v \in CelValue
      <3>1. CASE v \in absorb_3vl_binary(slot[a], slot[b])
        BY <1>0, <3>1, KernelTypes
      <3>2. CASE v \notin absorb_3vl_binary(slot[a], slot[b])
        <4>1. slot[a].kind \in Plain /\ slot[b].kind \in Plain
          BY <1>0, <2>3, <3>2, StrictCases DEF IsUnknown, IsError, CelValue, Concrete
        <4>2. v = Value(f[slot[a].kind][slot[b].kind])
          BY <2>3, <3>2, StrictCases
        <4> QED BY <2>2, <4>1, <4>2 DEF Value, CelValue
      <3> QED BY <3>1, <3>2
    <2>5. d \in Meanings
      BY <1>0, <2>2, MeaningTypes
    <2>6. v.kind \in Plain => Fin(v, d)
      <3>1. /\ slot[a] \in CelValue /\ slot[b] \in CelValue
            /\ den[a] \in Meanings /\ den[b] \in Meanings
            /\ slot[a].kind \in Plain => Fin(slot[a], den[a])
            /\ slot[b].kind \in Plain => Fin(slot[b], den[b])
        BY <1>0, <1>p
      <3> QED BY <2>2, <2>3, <3>1, StrictFinal
    <2>7. ASSUME ~Raised(v, a, b), Clean({a, b}) PROVE Fin(v, d)
      <3>1. ~OverUnknown(v, slot[a], slot[b]) /\ Fin(slot[a], den[a]) /\ Fin(slot[b], den[b])
        BY <1>p, <2>7 DEF Raised, OverUnknown, Clean
      <3> QED BY <1>0, <2>2, <2>3, <3>1, StrictFinal
    <2>8. ASSUME IsUnknown(v), Clean({a, b})
          PROVE  Names(AllIds(v.ids, {a, b}, {}), d)
      <3>1. /\ IsUnknown(slot[a]) => slot[a].ids \subseteq v.ids
            /\ IsUnknown(slot[b]) => slot[b].ids \subseteq v.ids
        BY <1>0, <2>2, <2>3, <2>8, KernelIds
      <3>2. Names(AllIds(v.ids, {a, b}, {}), den[a]) /\ Names(AllIds(v.ids, {a, b}, {}), den[b])
        BY <2>8, <3>1, TwoNames
      <3> QED BY <3>2 DEF Names
    <2>9. Raised(v, a, b) \in BOOLEAN
      BY DEF Raised, IsError, IsUnknown
    <2> HIDE DEF d
    <2>10. Settled(v, d, {a, b}, Raised(v, a, b), {})
      BY <2>6, <2>7, <2>8 DEF Settled
    <2>11. {a, b} \in SUBSET Slots /\ {} \in SUBSET Ids
      OBVIOUS
    <2> QED BY <2>3, <2>4, <2>5, <2>9, <2>10, <2>11, PutKInv
  <1>7. ASSUME NEW out \in Slots, NEW n \in 0 .. HostArity, NEW args \in [1 .. n -> Slots],
               DoHost(out, args)
        PROVE  KInv'
    <2> DEFINE in == [m \in 1 .. Len(args) |-> slot[args[m]]]
               known(c) == [m \in 1 .. Len(args) |-> den[args[m]][c]]
               d == [c \in Completion |-> KnownHost(known(c))]
               S == {args[m] : m \in 1 .. Len(args)}
    <2>0. n \in Nat /\ Len(args) = n
      BY ThreeValuedAssumption
    <2>1. in \in [1 .. n -> CelValue] /\ S \in SUBSET Slots
      BY <1>0, <2>0
    <2>2. d \in Meanings
      BY DEF KnownHost, Concrete, Plain, Meanings
    <2>3. \A c \in Completion : d[c] = IF \E m \in 1 .. n : den[args[m]][c] = "error"
                                     THEN "error" ELSE "other"
      BY <2>0 DEF KnownHost
    <2>4. CASE /\ \A m \in 1 .. n : in[m].kind \in Plain
               /\ Put(out, Value("other"), d, S, FALSE, {})
      <3>1. \A m \in 1 .. n : ~IsUnknown(slot[args[m]]) /\ slot[args[m]].kind # "error"
        BY <2>0, <2>4 DEF Plain, IsUnknown
      <3>2. \A m \in 1 .. n, c \in Completion : den[args[m]][c] # "error"
        BY <1>p, <2>0, <2>4, <3>1 DEF Fin
      <3>3. Fin(Value("other"), d)
        BY <2>3, <3>2 DEF Fin, Value
      <3>4. Value("other") \in CelValue /\ ~IsUnknown(Value("other"))
        BY DEF Value, CelValue, Concrete, Plain, IsUnknown
      <3> HIDE DEF d, S
      <3>5. Settled(Value("other"), d, S, FALSE, {})
        BY <3>3, <3>4 DEF Settled
      <3>6. {} \in SUBSET Ids /\ FALSE \in BOOLEAN
        OBVIOUS
      <3> QED BY <2>1, <2>2, <2>4, <3>4, <3>5, <3>6, PutKInv
    <2>5. CASE \E v \in AbsorbUnknownOrErrorArg(in) :
                 Put(out, v, d, S, FALSE, Named(S) \ v.ids)
      <3>1. PICK v \in AbsorbUnknownOrErrorArg(in) :
              Put(out, v, d, S, FALSE, Named(S) \ v.ids)
        BY <2>5
      <3> DEFINE D == Named(S) \ v.ids
      <3>2. PICK m \in 1 .. n : v = slot[args[m]]
        BY <2>0, <2>1, <3>1, HostAbsorbs
      <3>3. (IsError(v) \/ IsUnknown(v)) /\ v.kind \notin Plain
        <4>1. IsError(v) \/ IsUnknown(v)
          BY <2>0, <2>1, <3>1, HostAbsorbs
        <4> QED BY <4>1 DEF IsError, IsUnknown, Plain
      <3>4. ASSUME Clean(S) PROVE Fin(v, d)
        <4>1. args[m] \in S /\ args[m] \in Slots
          BY <2>0
        <4>2. Fin(v, den[args[m]])
          BY <1>p, <3>2, <3>4, <4>1 DEF Clean
        <4> QED BY <2>3, <3>2, <3>3, <4>2 DEF Fin, IsError, IsUnknown
      <3>5. v \in CelValue
        BY <1>0, <3>2
      <3>6. D \in SUBSET Ids
        <4>1. \A s \in S : slot[s].ids \in SUBSET Ids
          BY <1>0, <2>1 DEF CelValue
        <4> QED BY <4>1, NamedHas
      <3>7. ASSUME IsUnknown(v), Clean(S)
            PROVE  Names(AllIds(v.ids, S, D), d)
        <4> DEFINE U == AllIds(v.ids, S, D)
        <4>1. \A s \in S : slot[s].ids \cup dropped[s] \subseteq U
          BY NamedHas DEF AllIds
        <4> HIDE DEF U
        <4>2. ASSUME NEW c \in Completion, NEW e \in Completion, Agree(c, e, U), NEW k \in 1 .. n
              PROVE  den[args[k]][c] = den[args[k]][e]
          <5>1. args[k] \in S /\ args[k] \in Slots
            BY <2>0
          <5>2. /\ Fin(slot[args[k]], den[args[k]])
                /\ IsUnknown(slot[args[k]]) =>
                     Names(slot[args[k]].ids \cup dropped[args[k]], den[args[k]])
            BY <1>0, <1>p, <3>7, <5>1 DEF Clean, NamesAll
          <5>3. slot[args[k]].ids \cup dropped[args[k]] \subseteq U
            BY <4>1, <5>1
          <5>4. CASE IsUnknown(slot[args[k]])
            <6>1. Agree(c, e, slot[args[k]].ids \cup dropped[args[k]])
              BY <4>2, <5>3 DEF Agree
            <6> QED BY <5>2, <5>4, <6>1 DEF Names
          <5>5. CASE ~IsUnknown(slot[args[k]])
            BY <5>2, <5>5 DEF Fin
          <5> QED BY <5>4, <5>5
        <4>3. \A c, e \in Completion : Agree(c, e, U) => d[c] = d[e]
          BY <2>3, <4>2
        <4> QED BY <4>3 DEF Names, U
      <3> HIDE DEF d, S, D
      <3>8. Put(out, v, d, S, FALSE, D)
        BY <3>1 DEF D
      <3>9. Settled(v, d, S, FALSE, D)
        BY <3>3, <3>4, <3>7 DEF Settled
      <3>10. FALSE \in BOOLEAN
        OBVIOUS
      <3> QED BY <2>1, <2>2, <3>5, <3>6, <3>8, <3>9, <3>10, PutKInv
    <2>6. \/ /\ \A m \in 1 .. Len(args) : in[m].kind \in Plain
             /\ Put(out, Value("other"), d, S, FALSE, {})
          \/ \E v \in AbsorbUnknownOrErrorArg(in) :
               Put(out, v, d, S, FALSE, Named(S) \ v.ids)
      BY <1>7, Zenon DEF DoHost
    <2> HIDE DEF d, S
    <2> QED BY <2>0, <2>4, <2>5, <2>6
  <1>8. CASE UNCHANGED vars
    BY <1>8 DEF KInv, TypeOK, vars
  <1>9. ASSUME NEW out \in Slots, NEW a \in Slots, NEW b \in Slots,
               DoAnd(out, a, b) \/ DoOr(out, a, b)
        PROVE  KInv'
    BY <1>5, <1>9 DEF DoAnd, DoOr, cel_and, cel_or
  <1> QED BY <1>1, <1>2, <1>3, <1>4, <1>6, <1>7, <1>8, <1>9 DEF Next

\* Initially every slot holds a known value.
LEMMA InitKInv == Init => KInv
  BY ThreeValuedAssumption DEF Init, KInv, TypeOK, Final, Fin, NamesAll, Always, Value, CelValue,
     Concrete, Plain, IsUnknown

\* TypeOK holds in every reachable state: the kernels write CelValues only.
THEOREM TypeCorrect == Spec => []TypeOK
  <1>1. KInv => TypeOK
    BY DEF KInv
  <1> QED BY <1>1, InitKInv, NextKInv, PTL DEF Spec

\* cel_and, cel_or, cel_not, the strict kernels and the host trampoline never
\* answer too early: a bool or another ordinary value is what the program
\* gives however the withheld attributes turn out, and so is an error, unless
\* it goes back to one that was raised over an unknown operand.
THEOREM KnownAnswersAreFinal == Spec => []KnownIsFinal
  <1>1. KInv => KnownIsFinal
    BY DEF KInv, KnownIsFinal, Final, Fin, IsError, IsUnknown, Plain
  <1> QED BY <1>1, InitKInv, NextKInv, PTL DEF Spec

\* An unknown, with what host calls left out of it, names all the attributes
\* its value depends on, whatever the number of arguments of a host function.
THEOREM UnknownsNameAll == Spec => []UnknownNamesAll
  <1>1. KInv => UnknownNamesAll
    BY DEF KInv, UnknownNamesAll, NamesAll, Names
  <1> QED BY <1>1, InitKInv, NextKInv, PTL DEF Spec

\* In a program whose host functions take at most one argument no id is ever
\* left out.
LEMMA NothingDroppedStep ==
    ASSUME HostArity <= 1, TypeOK, \A s \in Slots : dropped[s] = {}, [Next]_vars
    PROVE  \A s \in Slots : dropped'[s] = {}
  <1>1. ASSUME NEW out \in Slots, NEW v, NEW S \in SUBSET Slots,
               dropped' = [dropped EXCEPT ![out] =
                  IF IsUnknown(v) THEN {} \cup Dropped(S) ELSE {}]
        PROVE  \A s \in Slots : dropped'[s] = {}
    <2>1. Dropped(S) = {}
      BY NamedHas
    <2> QED BY <1>1, <2>1 DEF TypeOK
  <1>2. ASSUME NEW out \in Slots, NEW n \in 0 .. HostArity, NEW args \in [1 .. n -> Slots],
               DoHost(out, args)
        PROVE  \A s \in Slots : dropped'[s] = {}
    <2> DEFINE in == [m \in 1 .. Len(args) |-> slot[args[m]]]
               d == [c \in Completion |-> KnownHost([m \in 1 .. Len(args) |-> den[args[m]][c]])]
               S == {args[m] : m \in 1 .. Len(args)}
    <2>0. n \in {0, 1} /\ Len(args) = n /\ S \in SUBSET Slots
      BY ThreeValuedAssumption
    <2>1. CASE Put(out, Value("other"), d, S, FALSE, {})
      <3> HIDE DEF d, S
      <3> QED BY <1>1, <2>0, <2>1 DEF Put
    <2>2. CASE \E v \in AbsorbUnknownOrErrorArg(in) :
                 Put(out, v, d, S, FALSE, Named(S) \ v.ids)
      <3>1. PICK v \in AbsorbUnknownOrErrorArg(in) :
              Put(out, v, d, S, FALSE, Named(S) \ v.ids)
        BY <2>2
      <3>2. in \in [1 .. n -> CelValue]
        BY <2>0 DEF TypeOK
      <3>3. PICK m \in 1 .. n : v = in[m]
        BY <2>0, <3>1, <3>2, HostAbsorbs
      <3>4. n = 1 /\ m = 1 /\ v = slot[args[1]] /\ S = {args[1]}
        BY <2>0, <3>3
      <3>5. Named(S) \ v.ids = {}
        <4> HIDE DEF S, d
        <4>1. \A s \in S : slot[s].ids \subseteq v.ids
          BY <3>4
        <4> QED BY <4>1, NamedHas
      <3> HIDE DEF d, S
      <3> QED BY <1>1, <2>0, <3>1, <3>5 DEF Put
    <2> QED BY <1>2, <2>1, <2>2 DEF DoHost
  <1>3. ASSUME NEW out \in Slots,
               \/ \E k \in Concrete : LoadKnown(out, k)
               \/ \E id \in Ids : LoadUnknown(out, id)
               \/ \E a \in Slots : cel_copy_slot(out, a) \/ DoNot(out, a)
               \/ \E a, b \in Slots : DoAnd(out, a, b) \/ DoOr(out, a, b) \/ DoStrict(out, a, b)
        PROVE  \A s \in Slots : dropped'[s] = {}
    <2>1. CASE \E k \in Concrete : LoadKnown(out, k)
      BY <1>1, <2>1 DEF LoadKnown, Put
    <2>2. CASE \E id \in Ids : LoadUnknown(out, id)
      BY <1>1, <2>2 DEF LoadUnknown, Put
    <2>3. ASSUME NEW a \in Slots, cel_copy_slot(out, a) \/ DoNot(out, a)
          PROVE  \A s \in Slots : dropped'[s] = {}
      BY <1>1, <2>3 DEF cel_copy_slot, DoNot, Put
    <2>4. ASSUME NEW a \in Slots, NEW b \in Slots,
                 DoAnd(out, a, b) \/ DoOr(out, a, b) \/ DoStrict(out, a, b)
          PROVE  \A s \in Slots : dropped'[s] = {}
      <3> DEFINE new(v) == [dropped EXCEPT ![out] =
                              IF IsUnknown(v) THEN {} \cup Dropped({a, b}) ELSE {}]
      <3>1. ASSUME NEW w, NEW R, DoLogic(out, a, b, w, R) PROVE \E v : dropped' = new(v)
        BY <3>1 DEF DoLogic, Put
      <3>2. ASSUME DoStrict(out, a, b) PROVE \E v : dropped' = new(v)
        BY <3>2 DEF DoStrict, Put
      <3>3. PICK v : dropped' = new(v)
        BY <2>4, <3>1, <3>2 DEF DoAnd, DoOr
      <3>4. {a, b} \in SUBSET Slots
        OBVIOUS
      <3> QED BY <1>1, <3>3, <3>4
    <2> QED BY <1>3, <2>1, <2>2, <2>3, <2>4
  <1>4. CASE UNCHANGED vars
    BY <1>4 DEF vars
  <1> QED BY <1>2, <1>3, <1>4 DEF Next

\* What instance.h promises of PartialEval holds for these programs as it
\* stands: whoever learns the ids that the unknown itself carries knows the
\* result.
THEOREM UnaryHostCallsDropNothing ==
    ASSUME HostArity <= 1
    PROVE  Spec => [](UnknownNamesAll /\ \A s \in Slots : dropped[s] = {})
  <1>1. Init => \A s \in Slots : dropped[s] = {}
    BY DEF Init
  <1>2. KInv /\ (\A s \in Slots : dropped[s] = {}) /\ [Next]_vars => (\A s \in Slots : dropped[s] = {})'
    BY NothingDroppedStep DEF KInv
  <1>3. KInv => UnknownNamesAll
    BY DEF KInv, UnknownNamesAll, NamesAll, Names
  <1> QED BY <1>1, <1>2, <1>3, InitKInv, NextKInv, PTL DEF Spec

-----------------------------------------------------------------------------
(* The merge walk *)


Ascending == {s \in Seq(AttributeId) : Sorted(s)}

\* What is written is what has been read, in order, and below all that is left.
Walked ==
    /\ IdsOf(dst) = {ids_a[n] : n \in 1 .. i} \cup {ids_b[n] : n \in 1 .. j}
    /\ \A n \in 1 .. Len(dst) :
         /\ \A m \in (i + 1) .. Len(ids_a) : dst[n] < ids_a[m]
         /\ \A m \in (j + 1) .. Len(ids_b) : dst[n] < ids_b[m]
    /\ Len(dst) <= i + j

IInv ==
    /\ ids_a \in Ascending /\ ids_b \in Ascending /\ dst \in Ascending
    /\ room = Room(ids_a, ids_b)
    /\ pc \in {"walk", "done"}
    /\ i \in 0 .. Len(ids_a) /\ j \in 0 .. Len(ids_b)
    /\ pc = "walk" => Walked
    /\ pc = "done" => /\ IdsOf(dst) = IdsOf(ids_a) \cup IdsOf(ids_b)
                      /\ Len(dst) <= Len(ids_a) + Len(ids_b)

\* Appending an id above all others keeps a sequence sorted.
LEMMA AppendSorted ==
    ASSUME NEW s \in Ascending, NEW id \in AttributeId, \A n \in 1 .. Len(s) : s[n] < id
    PROVE  /\ Append(s, id) \in Ascending
           /\ IdsOf(Append(s, id)) = IdsOf(s) \cup {id}
           /\ Len(Append(s, id)) = Len(s) + 1
           /\ \A n \in 1 .. Len(Append(s, id)) : Append(s, id)[n] \in {s[m] : m \in 1 .. Len(s)} \cup {id}
  <1>1. s \in Seq(AttributeId) /\ Sorted(s)
    BY DEF Ascending
  <1>2. Append(s, id) \in Seq(AttributeId) /\ Len(Append(s, id)) = Len(s) + 1
    BY <1>1
  <1>3. \A n \in 1 .. Len(s) + 1 : Append(s, id)[n] = IF n = Len(s) + 1 THEN id ELSE s[n]
    BY <1>1
  <1>4. Sorted(Append(s, id))
    <2> DEFINE t == Append(s, id)
    <2>1. ASSUME NEW m \in 1 .. Len(t), NEW n \in 1 .. Len(t), m < n PROVE t[m] < t[n]
      <3>1. m \in 1 .. Len(s) /\ t[m] = s[m]
        BY <1>1, <1>2, <1>3, <2>1
      <3>2. CASE n = Len(s) + 1
        BY <1>1, <1>2, <1>3, <3>1, <3>2
      <3>3. CASE n # Len(s) + 1
        BY <1>1, <1>2, <1>3, <2>1, <3>1, <3>3 DEF Sorted
      <3> QED BY <3>2, <3>3
    <2> QED BY <2>1 DEF Sorted
  <1>5. IdsOf(Append(s, id)) = IdsOf(s) \cup {id}
    <2>1. 1 .. Len(s) + 1 = (1 .. Len(s)) \cup {Len(s) + 1}
      BY <1>1
    <2> QED BY <1>1, <1>2, <1>3, <2>1 DEF IdsOf
  <1> QED BY <1>1, <1>2, <1>3, <1>4, <1>5 DEF Ascending

\* The initial state.
LEMMA InitIInv == MergeInit => IInv
  BY UnknownMergeAssumption DEF MergeInit, IInv, Ascending, IdsOf, Sorted

\* Starting a walk over two ascending arrays.
LEMMA StartIInv ==
    ASSUME NEW x \in Ascending, NEW y \in Ascending, Start(x, y)
    PROVE  IInv'
  <1>1. <<>> \in Ascending /\ IdsOf(<<>>) = {} /\ Len(<<>>) = 0
    BY DEF Ascending, Sorted, IdsOf
  <1>2. Len(x) \in Nat /\ Len(y) \in Nat
    BY DEF Ascending
  <1> QED BY <1>1, <1>2 DEF Start, IInv, Walked

\* One more id is written: the next of a, of b, or of both.
LEMMA TakeIInv ==
    ASSUME IInv, pc = "walk", NEW u \in {0, 1}, NEW v \in {0, 1}, NEW id,
           u + v > 0,
           u = 1 => i < Len(ids_a) /\ id = ids_a[i + 1],
           v = 1 => j < Len(ids_b) /\ id = ids_b[j + 1],
           u = 0 => \A m \in (i + 1) .. Len(ids_a) : id < ids_a[m],
           v = 0 => \A m \in (j + 1) .. Len(ids_b) : id < ids_b[m],
           Take(id, u, v)
    PROVE  IInv'
  <1>1. /\ ids_a \in Seq(AttributeId) /\ ids_b \in Seq(AttributeId) /\ dst \in Seq(AttributeId) /\ Sorted(ids_a) /\ Sorted(ids_b)
        /\ i \in Nat /\ j \in Nat /\ i <= Len(ids_a) /\ j <= Len(ids_b) /\ Walked
    BY DEF IInv, Ascending
  <1>2. id \in AttributeId
    BY <1>1
  <1>3. \A n \in 1 .. Len(dst) : dst[n] < id
    <2>1. CASE u = 1
      <3>1. i + 1 \in (i + 1) .. Len(ids_a) /\ id = ids_a[i + 1]
        BY <1>1, <2>1
      <3> QED BY <1>1, <3>1 DEF Walked
    <2>2. CASE v = 1
      <3>1. j + 1 \in (j + 1) .. Len(ids_b) /\ id = ids_b[j + 1]
        BY <1>1, <2>2
      <3> QED BY <1>1, <3>1 DEF Walked
    <2> QED BY <2>1, <2>2
  <1>4. /\ dst' \in Ascending /\ IdsOf(dst') = IdsOf(dst) \cup {id}
        /\ Len(dst') = Len(dst) + 1
        /\ \A n \in 1 .. Len(dst') : dst'[n] \in {dst[m] : m \in 1 .. Len(dst)} \cup {id}
    BY <1>2, <1>3, AppendSorted DEF IInv, Take
  <1>5. i' = i + u /\ j' = j + v /\ ids_a' = ids_a /\ ids_b' = ids_b /\ room' = room /\ pc' = pc
    BY DEF Take
  <1>6. \A m \in (i' + 1) .. Len(ids_a) : id < ids_a[m] /\ m \in (i + 1) .. Len(ids_a)
    <2>1. CASE u = 1
      <3> SUFFICES ASSUME NEW m \in (i + 2) .. Len(ids_a)
                   PROVE  id < ids_a[m] /\ m \in (i + 1) .. Len(ids_a)
        BY <1>1, <1>5, <2>1
      <3>1. i + 1 \in 1 .. Len(ids_a) /\ m \in 1 .. Len(ids_a) /\ i + 1 < m
        BY <1>1
      <3>2. ids_a[i + 1] < ids_a[m]
        BY <1>1, <3>1 DEF Sorted
      <3> QED BY <1>1, <2>1, <3>1, <3>2
    <2>2. CASE u = 0
      <3>1. i' = i
        BY <1>1, <1>5, <2>2
      <3> QED BY <2>2, <3>1
    <2> QED BY <2>1, <2>2
  <1>7. \A m \in (j' + 1) .. Len(ids_b) : id < ids_b[m] /\ m \in (j + 1) .. Len(ids_b)
    <2>1. CASE v = 1
      <3> SUFFICES ASSUME NEW m \in (j + 2) .. Len(ids_b)
                   PROVE  id < ids_b[m] /\ m \in (j + 1) .. Len(ids_b)
        BY <1>1, <1>5, <2>1
      <3>1. j + 1 \in 1 .. Len(ids_b) /\ m \in 1 .. Len(ids_b) /\ j + 1 < m
        BY <1>1
      <3>2. ids_b[j + 1] < ids_b[m]
        BY <1>1, <3>1 DEF Sorted
      <3> QED BY <1>1, <2>1, <3>1, <3>2
    <2>2. CASE v = 0
      <3>1. j' = j
        BY <1>1, <1>5, <2>2
      <3> QED BY <2>2, <3>1
    <2> QED BY <2>1, <2>2
  <1>8. {ids_a[n] : n \in 1 .. i'} = {ids_a[n] : n \in 1 .. i} \cup (IF u = 1 THEN {id} ELSE {})
    <2>1. CASE u = 1
      <3>1. 1 .. i + 1 = (1 .. i) \cup {i + 1}
        BY <1>1
      <3>2. i' = i + 1 /\ id = ids_a[i + 1]
        BY <1>5, <2>1
      <3>3. {ids_a[n] : n \in 1 .. i'} = {ids_a[n] : n \in (1 .. i) \cup {i + 1}}
        BY <3>1, <3>2
      <3>4. {ids_a[n] : n \in (1 .. i) \cup {i + 1}} = {ids_a[n] : n \in 1 .. i} \cup {id}
        BY <3>2, Zenon
      <3> QED BY <2>1, <3>3, <3>4
    <2>2. CASE u = 0
      BY <1>1, <1>5, <2>2
    <2> QED BY <2>1, <2>2
  <1>9. {ids_b[n] : n \in 1 .. j'} = {ids_b[n] : n \in 1 .. j} \cup (IF v = 1 THEN {id} ELSE {})
    <2>1. CASE v = 1
      <3>1. 1 .. j + 1 = (1 .. j) \cup {j + 1}
        BY <1>1
      <3>2. j' = j + 1 /\ id = ids_b[j + 1]
        BY <1>5, <2>1
      <3>3. {ids_b[n] : n \in 1 .. j'} = {ids_b[n] : n \in (1 .. j) \cup {j + 1}}
        BY <3>1, <3>2
      <3>4. {ids_b[n] : n \in (1 .. j) \cup {j + 1}} = {ids_b[n] : n \in 1 .. j} \cup {id}
        BY <3>2, Zenon
      <3> QED BY <2>1, <3>3, <3>4
    <2>2. CASE v = 0
      BY <1>1, <1>5, <2>2
    <2> QED BY <2>1, <2>2
  <1>10. Walked'
    <2>1. IdsOf(dst') = {ids_a'[n] : n \in 1 .. i'} \cup {ids_b'[n] : n \in 1 .. j'}
      <3>1. IdsOf(dst') = {ids_a[n] : n \in 1 .. i} \cup {ids_b[n] : n \in 1 .. j} \cup {id}
        BY <1>1, <1>4 DEF Walked
      <3>2. u = 1 \/ v = 1
        OBVIOUS
      <3>3. {ids_a[n] : n \in 1 .. i'} \cup {ids_b[n] : n \in 1 .. j'} =
              {ids_a[n] : n \in 1 .. i} \cup {ids_b[n] : n \in 1 .. j} \cup {id}
        BY <1>8, <1>9, <3>2
      <3> QED BY <1>5, <3>1, <3>3
    <2>2. \A n \in 1 .. Len(dst') :
            /\ \A m \in (i' + 1) .. Len(ids_a') : dst'[n] < ids_a'[m]
            /\ \A m \in (j' + 1) .. Len(ids_b') : dst'[n] < ids_b'[m]
      BY <1>1, <1>4, <1>5, <1>6, <1>7 DEF Walked
    <2>3. Len(dst') <= i' + j'
      BY <1>1, <1>4, <1>5 DEF Walked
    <2> QED BY <2>1, <2>2, <2>3 DEF Walked
  <1>11. i' \in 0 .. Len(ids_a') /\ j' \in 0 .. Len(ids_b')
    BY <1>1, <1>5
  <1> QED BY <1>4, <1>5, <1>10, <1>11 DEF IInv

\* Every iteration, return and new merge keeps the invariant.
LEMMA NextIInv == ASSUME IInv, [MergeNext]_mergeVars PROVE IInv'
  <1>0. /\ ids_a \in Seq(AttributeId) /\ ids_b \in Seq(AttributeId) /\ dst \in Seq(AttributeId) /\ Sorted(ids_a) /\ Sorted(ids_b)
        /\ i \in Nat /\ j \in Nat /\ i <= Len(ids_a) /\ j <= Len(ids_b)
    BY DEF IInv, Ascending
  <1>1. CASE TakeLeft
    <2>1. \A m \in (j + 1) .. Len(ids_b) : ids_a[i + 1] < ids_b[m]
      <3> SUFFICES ASSUME NEW m \in (j + 1) .. Len(ids_b)
                   PROVE  ids_a[i + 1] < ids_b[m]
        OBVIOUS
      <3>1. /\ i + 1 \in 1 .. Len(ids_a) /\ j + 1 \in 1 .. Len(ids_b) /\ m \in 1 .. Len(ids_b)
            /\ ids_a[i + 1] < ids_b[j + 1]
        BY <1>0, <1>1 DEF TakeLeft, Both
      <3>2. ids_a[i + 1] \in Nat /\ ids_b[j + 1] \in Nat /\ ids_b[m] \in Nat
        <4>1. ids_a[i + 1] \in AttributeId /\ ids_b[j + 1] \in AttributeId /\ ids_b[m] \in AttributeId
          BY <1>0, <3>1
        <4> QED BY <4>1 DEF AttributeId
      <3>3. m = j + 1 \/ ids_b[j + 1] < ids_b[m]
        BY <1>0, <3>1 DEF Sorted
      <3> QED BY <3>1, <3>2, <3>3
    <2> QED BY <1>0, <1>1, <2>1, TakeIInv DEF TakeLeft, Both
  <1>2. CASE TakeRight
    <2>1. \A m \in (i + 1) .. Len(ids_a) : ids_b[j + 1] < ids_a[m]
      <3> SUFFICES ASSUME NEW m \in (i + 1) .. Len(ids_a)
                   PROVE  ids_b[j + 1] < ids_a[m]
        OBVIOUS
      <3>1. /\ j + 1 \in 1 .. Len(ids_b) /\ i + 1 \in 1 .. Len(ids_a) /\ m \in 1 .. Len(ids_a)
            /\ ids_b[j + 1] < ids_a[i + 1]
        BY <1>0, <1>2 DEF TakeRight, Both
      <3>2. ids_b[j + 1] \in Nat /\ ids_a[i + 1] \in Nat /\ ids_a[m] \in Nat
        <4>1. ids_b[j + 1] \in AttributeId /\ ids_a[i + 1] \in AttributeId /\ ids_a[m] \in AttributeId
          BY <1>0, <3>1
        <4> QED BY <4>1 DEF AttributeId
      <3>3. m = i + 1 \/ ids_a[i + 1] < ids_a[m]
        BY <1>0, <3>1 DEF Sorted
      <3> QED BY <3>1, <3>2, <3>3
    <2> QED BY <1>0, <1>2, <2>1, TakeIInv DEF TakeRight, Both
  <1>3. CASE TakeEqual
    BY <1>0, <1>3, TakeIInv DEF TakeEqual, Both
  <1>4. CASE DrainLeft
    BY <1>0, <1>4, TakeIInv DEF DrainLeft
  <1>5. CASE DrainRight
    BY <1>0, <1>5, TakeIInv DEF DrainRight
  <1>6. CASE Finish
    <2>1. IdsOf(dst) = IdsOf(ids_a) \cup IdsOf(ids_b) /\ Len(dst) <= Len(ids_a) + Len(ids_b)
      BY <1>6 DEF Finish, IInv, Walked, IdsOf
    <2> QED BY <1>6, <2>1 DEF Finish, IInv
  <1>7. ASSUME NEW x \in Inputs, MergeWith(x) PROVE IInv'
    <2>1. x \in Ascending /\ dst \in Ascending
      BY UnknownMergeAssumption DEF Ascending, IInv
    <2> QED BY <1>7, <2>1, StartIInv DEF MergeWith
  <1>8. CASE UNCHANGED mergeVars
    BY <1>8 DEF mergeVars, IInv, Walked
  <1> QED BY <1>1, <1>2, <1>3, <1>4, <1>5, <1>6, <1>7, <1>8 DEF MergeNext, Step

\* cel_unknown_merge returns the sorted, deduplicated union of its operands,
\* whatever merges produced them.
THEOREM MergeIsUnion == MergeSpec => []MergedIsUnion
  <1>1. IInv => MergedIsUnion
    BY DEF IInv, MergedIsUnion, Ascending
  <1>2. IInv /\ [MergeNext]_mergeVars => IInv'
    BY NextIInv
  <1> QED BY <1>1, <1>2, InitIInv, PTL DEF MergeSpec

\* merge_sorted_id_arrays never writes past the buffer that
\* merge_unknown_descriptors allocates before the walk.
THEOREM MergeStaysInBuffer == MergeSpec => []WithinBuffer
  <1>1. IInv => WithinBuffer
    BY DEF IInv, WithinBuffer, Walked, Room, Ascending
  <1>2. IInv /\ [MergeNext]_mergeVars => IInv'
    BY NextIInv
  <1> QED BY <1>1, <1>2, InitIInv, PTL DEF MergeSpec

\* Unknowns with the ids of s.
Naming(s) == Unknown(IdsOf(s))

\* The ids that a finished walk leaves are those which the kernels of ThreeValued
\* give the merge of its operands (write_unknown_at ends cel_unknown_merge).
THEOREM MergeIsTheKernels ==
    MergeSpec => [][pc = "walk" /\ pc' = "done" =>
                      Naming(dst') \in cel_unknown_merge(Naming(ids_a), Naming(ids_b))]_mergeVars
  <1>1. IInv /\ [MergeNext]_mergeVars => IInv'
    BY NextIInv
  <1>2. ASSUME IInv, IInv', [MergeNext]_mergeVars, pc = "walk", pc' = "done"
        PROVE  Naming(dst') \in cel_unknown_merge(Naming(ids_a), Naming(ids_b))
    <2>1. Finish
      BY <1>2 DEF MergeNext, Step, MergeWith, Start, TakeLeft, TakeRight, TakeEqual,
                  DrainLeft, DrainRight, Take, Both, mergeVars
    <2>2. ids_a' = ids_a /\ ids_b' = ids_b /\ IdsOf(dst') = IdsOf(ids_a') \cup IdsOf(ids_b')
      BY <1>2, <2>1 DEF Finish, IInv
    <2> QED
      BY <2>2 DEF cel_unknown_merge, Naming, Unknown, IsUnknown
  <1>3. IInv /\ IInv' /\ [MergeNext]_mergeVars =>
          [pc = "walk" /\ pc' = "done" =>
             Naming(dst') \in cel_unknown_merge(Naming(ids_a), Naming(ids_b))]_mergeVars
    BY <1>2
  <1> QED
    BY <1>1, <1>3, InitIInv, PTL DEF MergeSpec

=============================================================================
