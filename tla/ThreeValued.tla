---------------------------- MODULE ThreeValued ----------------------------
(***************************************************************************)
(* The operators that meet errors and unknowns: cel_and, cel_or, cel_not,  *)
(* cel_unknown_merge and cel_copy_slot of runtime/cel_3vl.c, the absorption*)
(* every strict kernel starts with (absorb_3vl_unary, absorb_3vl_binary of *)
(* runtime/cel_internal.h), and the one the trampoline of a host function  *)
(* starts with (AbsorbUnknownOrErrorArg of eval/engine.cc).                *)
(*                                                                         *)
(* A program is any sequence of these operations over a few CelValue slots,*)
(* the output slot possibly one of the operands.  Next to each slot the    *)
(* model keeps what it denotes: the value the same operations give once    *)
(* every unknown attribute is known, for every way to know them, with all  *)
(* the memory they need.  Two things set a slot apart from what it denotes *)
(* and are recorded where they happen: an error raised over an unknown     *)
(* operand (early), and ids an unknown lost in a host call (dropped).      *)
(***************************************************************************)
EXTENDS UnknownSet, FiniteSets

CONSTANTS
    Ids,        \* the unknown attributes
    Slots,      \* CelValue slots of the workspace
    StrictOps,  \* what strict kernels compute from two ordinary values
    HostArity,  \* how many arguments a host function takes at most
    MaxOps      \* bound on the operations of a program

Plain    == {"true", "false", "other"}   \* "other": any value that is no bool
Concrete == Plain \cup {"error"}

\* A way to know every attribute.
Completion == [Ids -> Concrete]

ASSUME ThreeValuedAssumption ==
    /\ StrictOps \subseteq [Plain -> [Plain -> Concrete]]
    /\ HostArity \in Nat
    /\ MaxOps \in Nat

VARIABLES
    slot,       \* the CelValue in each slot
    den,        \* history: what it is once the attributes are known
    early,      \* history: does it stem from an error raised over an unknown
    dropped,    \* history: the ids that host calls left out of it
    ops         \* history: operations so far

vars == <<slot, den, early, dropped, ops>>

\* A CelValue: plain values and errors have no ids, an unknown has its UnknownSet.
CelValue == [kind : Concrete \cup {"unknown"}, ids : SUBSET Ids]
Value(k) == [kind |-> k, ids |-> {}]
Unknown(U) == [kind |-> "unknown", ids |-> U]
Bool(b) == Value(IF b THEN "true" ELSE "false")

IsUnknown(x) == x.kind = "unknown"
IsError(x) == x.kind = "error"
is_3vl_kind(x) == x.kind # "other"

-----------------------------------------------------------------------------
(* Kernels: the set of results, more than one where the arena may run out *)

\* poison(out, CEL_ERR_...)
Poison == Value("error")

\* Mutant: the right operand's ids are dropped.
MergeKeepsLeft(a, b) == {a}

\* Two UnknownSets become their union, unless the arena is exhausted; an
\* empty one contributes nothing and needs no allocation.
cel_unknown_merge(a, b) ==
    IF ~IsUnknown(a) \/ ~IsUnknown(b) THEN {Poison}
    ELSE IF a.ids = {} \/ b.ids = {} THEN {Unknown(a.ids \cup b.ids)}
    ELSE {Unknown(a.ids \cup b.ids), Poison}

\* Mutant: an error wins over an unknown, as it does in the strict kernels.
TailErrorFirst(a, b) ==
    IF IsError(a) THEN {a} ELSE IF IsError(b) THEN {b} ELSE cel_unknown_merge(a, b)

\* Neither side is a bool: unknown before error, left error before right.
logic_unknown_error_tail(a, b) ==
    IF IsUnknown(a) /\ IsUnknown(b) THEN cel_unknown_merge(a, b)
    ELSE IF IsUnknown(a) THEN {a}
    ELSE IF IsUnknown(b) THEN {b}
    ELSE {a}

\* cel_and (absorbing = "false") and cel_or (absorbing = "true").
Logic(a, b, absorbing) ==
    IF a.kind = absorbing \/ b.kind = absorbing THEN {Value(absorbing)}
    ELSE IF ~is_3vl_kind(a) \/ ~is_3vl_kind(b) THEN {Poison}
    ELSE IF a.kind \in Plain THEN {b}
    ELSE IF b.kind \in Plain THEN {a}
    ELSE logic_unknown_error_tail(a, b)

cel_and(a, b) == Logic(a, b, "false")
cel_or(a, b)  == Logic(a, b, "true")

cel_not(a) ==
    IF a.kind \in {"true", "false"} THEN {Bool(a.kind = "false")}
    ELSE IF IsUnknown(a) \/ IsError(a) THEN {a}
    ELSE {Poison}

\* The value that replaces the result of a strict kernel, or {} for none.
absorb_3vl_binary(a, b) ==
    IF IsError(a) THEN {a}
    ELSE IF IsError(b) THEN {b}
    ELSE IF IsUnknown(a) /\ IsUnknown(b) THEN cel_unknown_merge(a, b)
    ELSE IF IsUnknown(a) THEN {a}
    ELSE IF IsUnknown(b) THEN {b}
    ELSE {}

\* A strict kernel that computes f.
Strict(f, a, b) ==
    IF absorb_3vl_binary(a, b) # {} THEN absorb_3vl_binary(a, b)
    ELSE {Value(f[a.kind][b.kind])}

\* The first error among the arguments, else the first unknown, else none.
AbsorbUnknownOrErrorArg(args) ==
    LET errors   == {i \in 1 .. Len(args) : IsError(args[i])}
        unknowns == {i \in 1 .. Len(args) : IsUnknown(args[i])}
        bad      == IF errors # {} THEN errors ELSE unknowns
    IN  {args[i] : i \in {k \in bad : \A j \in bad : k <= j}}

-----------------------------------------------------------------------------
(* What the operations mean on known values *)

KnownLogic(x, y, absorbing) ==
    IF x = absorbing \/ y = absorbing THEN absorbing
    ELSE IF x \in {"error", "other"} \/ y \in {"error", "other"} THEN "error"
    ELSE x

KnownNot(x) ==
    IF x = "true" THEN "false" ELSE IF x = "false" THEN "true" ELSE "error"

KnownStrict(f, x, y) == IF x = "error" \/ y = "error" THEN "error" ELSE f[x][y]

\* A host function here is the constant one: what matters is its arguments.
KnownHost(xs) == IF \E i \in 1 .. Len(xs) : xs[i] = "error" THEN "error" ELSE "other"

Always(k) == [c \in Completion |-> k]

-----------------------------------------------------------------------------
Init ==
    /\ slot = [s \in Slots |-> Value("other")]
    /\ den = [s \in Slots |-> Always("other")]
    /\ early = [s \in Slots |-> FALSE]
    /\ dropped = [s \in Slots |-> {}]
    /\ ops = 0

\* The ids that the slots of S name, and those that were left out of them.
Named(S) == UNION {slot[s].ids : s \in S}
Dropped(S) == UNION {dropped[s] : s \in S}

\* v, which denotes d, goes to slot out.  Its history is that of the operands:
\* an ordinary value has none, and e and D are what this operation adds.
Put(out, v, d, operands, e, D) ==
    /\ ops < MaxOps
    /\ slot' = [slot EXCEPT ![out] = v]
    /\ den' = [den EXCEPT ![out] = d]
    /\ early' = [early EXCEPT ![out] =
                   v.kind \notin Plain /\ (e \/ \E s \in operands : early[s])]
    /\ dropped' = [dropped EXCEPT ![out] =
                     IF IsUnknown(v) THEN D \cup Dropped(operands) ELSE {}]
    /\ ops' = ops + 1

LoadKnown(out, k) == Put(out, Value(k), Always(k), {}, FALSE, {})
LoadUnknown(out, id) == Put(out, Unknown({id}), [c \in Completion |-> c[id]], {}, FALSE, {})
cel_copy_slot(dst, src) == Put(dst, slot[src], den[src], {src}, FALSE, {})

\* An error that no operand held, raised while one of them was unknown: the
\* merge of two unknowns found the arena exhausted, or the other operand of a
\* logical operator is no bool.
Raised(v, a, b) ==
    /\ IsError(v) /\ ~IsError(slot[a]) /\ ~IsError(slot[b])
    /\ IsUnknown(slot[a]) \/ IsUnknown(slot[b])

DoLogic(out, a, b, absorbing, results) ==
    \E v \in results :
        Put(out, v, [c \in Completion |-> KnownLogic(den[a][c], den[b][c], absorbing)],
            {a, b}, Raised(v, a, b), {})

DoAnd(out, a, b) == DoLogic(out, a, b, "false", cel_and(slot[a], slot[b]))
DoOr(out, a, b)  == DoLogic(out, a, b, "true", cel_or(slot[a], slot[b]))

DoNot(out, a) ==
    \E v \in cel_not(slot[a]) :
        Put(out, v, [c \in Completion |-> KnownNot(den[a][c])], {a}, FALSE, {})

DoStrict(out, a, b) ==
    \E f \in StrictOps : \E v \in Strict(f, slot[a], slot[b]) :
        Put(out, v, [c \in Completion |-> KnownStrict(f, den[a][c], den[b][c])],
            {a, b}, Raised(v, a, b), {})

\* HostCallbackTrampoline: the callback runs only if nothing is absorbed.  The
\* first unknown argument stands for all of them; their ids are not merged.
DoHost(out, args) ==
    LET in == [i \in 1 .. Len(args) |-> slot[args[i]]]
        d  == [c \in Completion |-> KnownHost([i \in 1 .. Len(args) |-> den[args[i]][c]])]
        S  == {args[i] : i \in 1 .. Len(args)}
    IN  \/ /\ \A i \in 1 .. Len(args) : in[i].kind \in Plain
           /\ Put(out, Value("other"), d, S, FALSE, {})
        \/ \E v \in AbsorbUnknownOrErrorArg(in) :
              Put(out, v, d, S, FALSE, Named(S) \ v.ids)

Next ==
    \E out \in Slots :
        \/ \E k \in Concrete : LoadKnown(out, k)
        \/ \E id \in Ids : LoadUnknown(out, id)
        \/ \E a \in Slots : cel_copy_slot(out, a) \/ DoNot(out, a)
        \/ \E a, b \in Slots : DoAnd(out, a, b) \/ DoOr(out, a, b) \/ DoStrict(out, a, b)
        \/ \E n \in 0 .. HostArity : \E args \in [1 .. n -> Slots] : DoHost(out, args)

Spec == Init /\ [][Next]_vars

-----------------------------------------------------------------------------
TypeOK ==
    /\ slot \in [Slots -> CelValue]
    /\ den \in [Slots -> [Completion -> Concrete]]
    /\ early \in [Slots -> BOOLEAN]
    /\ dropped \in [Slots -> SUBSET Ids]
    /\ ops \in 0 .. MaxOps

\* An answer that is not unknown is final: whatever the attributes that were
\* withheld turn out to be, the program would have given the same value, or
\* an error where it gave an error.  In particular neither the absorbing bool
\* nor the opposite precedences of errors and unknowns in logical and strict
\* operations ever decides too early.  The exception is an error that goes
\* back to one raised over an unknown operand: `other && unknown` poisons at
\* once (the comment on cel_and has it), though the unknown may turn out
\* false, and so does a merge without memory.  A bool, or any other ordinary
\* value, is final without exception.
KnownIsFinal ==
    \A s \in Slots : slot[s].kind \in Plain \/ (IsError(slot[s]) /\ ~early[s]) =>
        \A c \in Completion : den[s][c] = slot[s].kind

\* Agreement of two completions on a set of ids.
Agree(c, d, U) == \A id \in U : c[id] = d[id]

\* Whoever learns the attributes an unknown names, and those that host calls
\* with several unknown arguments left out of it, knows the result.  For the
\* programs without such a call this is instance.h on PartialEval, "A result
\* that depends on SEVERAL unknown attributes decodes as ONE unknown Value
\* carrying the merged identity set"; AbsorbUnknownOrErrorArg calls the rest
\* its known residual.
UnknownNamesAll ==
    \A s \in Slots : IsUnknown(slot[s]) /\ ~early[s] =>
        \A c, d \in Completion :
            Agree(c, d, slot[s].ids \cup dropped[s]) => den[s][c] = den[s][d]

=============================================================================
