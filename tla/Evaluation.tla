----------------------------- MODULE Evaluation -----------------------------
(***************************************************************************)
(* One Instance (eval/instance.cc) and one Activation (eval/activation.cc):*)
(* the calls Eval(activation), PartialEval(activation, unknowns) and Eval()*)
(* in any order, with the caller rebinding variables in between and every  *)
(* step of a call able to fail.                                            *)
(*                                                                         *)
(* A call with an activation clears the memoized lazy values, sizes the    *)
(* byte payloads (the pre-pass), grows the activation buffer, writes one   *)
(* CelValue per declared variable into its workspace slot and runs $eval.  *)
(* The body of $eval is any program: it may read slots, intern messages it *)
(* builds, trap, and return a slot or something it computed.               *)
(***************************************************************************)
EXTENDS Naturals, Sequences, FiniteSets

CONSTANTS
    VarSeq,      \* abi.variables(), in order
    Programs,    \* the representations a program may declare for them
    Values,      \* the Values the caller binds and the binders produce
    Patterns,    \* the variable sets that PartialEval's patterns fully match
    Page,        \* the rounding of RoundUpTo4K
    MaxIntern,   \* bound on what one $eval run interns
    Lazy,        \* marks a name that BindLazy has bound
    None         \* no value

Vars == {VarSeq[i] : i \in 1 .. Len(VarSeq)}
Align == 8
DescriptorBytes == 16      \* kUnknownDescriptorBytes
Built == "built"           \* a message the body of $eval constructs
Tables == {"message", "map", "list"}

\* A Value: its kind, its content, what a message wraps and how many bytes.
ValueType == [kind : {"scalar", "bytes"} \cup Tables, content : STRING,
              wraps : {"none", "scalar", "bytes"}, size : Nat]

\* A string, bytes, a type, or a message that wraps one.
HasBytes(x) == x.kind = "bytes" \/ x.wraps = "bytes"

\* An empty payload has no content of its own.
ASSUME EvaluationAssumption ==
    /\ VarSeq \in Seq(STRING)
    /\ \A j, k \in 1 .. Len(VarSeq) : VarSeq[j] = VarSeq[k] => j = k
    /\ Programs \subseteq [Vars -> {"scalar", "bytes"} \cup Tables]
    /\ Values \subseteq ValueType
    /\ \A x \in Values : x.wraps # "none" => x.kind = "message"
    /\ \A x, y \in Values : x.size = 0 /\ y.size = 0 /\ HasBytes(x) /\ HasBytes(y) =>
                              x.content = y.content
    /\ Patterns \subseteq SUBSET Vars
    /\ Page \in Nat /\ Page > 0 /\ Page % Align = 0
    /\ MaxIntern \in Nat

\* The two markers are no values, no contents and no names.
ASSUME MarkersAssumption ==
    /\ Lazy # None /\ Built # None
    /\ \A x \in Values : x \notin {Lazy, None} /\ x.content \notin {Lazy, None}
    /\ \A v \in Vars : v # None

VARIABLES
    repr,       \* the representation of each variable in the program
    \* Activation
    bound,      \* bindings_ and lazy_: a value, Lazy, or None
    memo,       \* lazy_cache_
    \* InstanceImpl
    slots,      \* the workspace slot of each variable
    refs,       \* the externref table: three sequences of contents
    opaque,     \* host_env.bindings.unknown_patterns
    bufs,       \* capacities of the activation buffers malloc'd so far
    bytes,      \* what has been written into the current buffer
    \* the call in progress
    pc, call, i, need, cursor,
    outcome,
    binderRuns  \* history: binder invocations of this call, per variable

instanceVars == <<repr, slots, refs, opaque, bufs, bytes>>
callVars == <<pc, call, i, need, cursor>>
vars == <<repr, bound, memo, slots, refs, opaque, bufs, bytes, pc, call, i, need, cursor,
          outcome, binderRuns>>

AlignUp(n) == ((n + 7) \div Align) * Align
RoundUpTo4K(n) == ((n + Page - 1) \div Page) * Page
Capacity == IF bufs = <<>> THEN 0 ELSE bufs[Len(bufs)]

\* A slot's CelValue: a kind and a payload (an offset into the activation
\* buffer, a handle, or an inline scalar).
Unset == [kind |-> "unset", at |-> 0, size |-> 0, content |-> None]

NoOutcome == [status |-> "none", var |-> None, value |-> None]
Failed    == [status |-> "error", var |-> None, value |-> None]
Computed  == [status |-> "ok", var |-> None, value |-> None]

EmptyTable == [t \in Tables |-> <<>>]

Init ==
    /\ repr \in Programs
    /\ bound = [v \in Vars |-> None] /\ memo = [v \in Vars |-> None]
    /\ slots = [v \in Vars |-> Unset]
    /\ refs = EmptyTable /\ opaque = {} /\ bufs = <<>> /\ bytes = {}
    /\ pc = "idle" /\ call = "none" /\ i = 1 /\ need = 0 /\ cursor = 0
    /\ outcome = NoOutcome
    /\ binderRuns = [v \in Vars |-> 0]

-----------------------------------------------------------------------------
(* Activation *)

\* Bind replaces a lazy binding of the name and the value it may have produced.
Bind(v, x) ==
    /\ pc = "idle"
    /\ bound' = [bound EXCEPT ![v] = x]
    /\ memo' = [memo EXCEPT ![v] = None]
    /\ UNCHANGED <<instanceVars, callVars, outcome, binderRuns>>

BindLazy(v) ==
    /\ pc = "idle"
    /\ bound' = [bound EXCEPT ![v] = Lazy]
    /\ memo' = [memo EXCEPT ![v] = None]
    /\ UNCHANGED <<instanceVars, callVars, outcome, binderRuns>>

\* Mutant: what the binder produces is not memoized.
ResolveWithoutMemo(v, x) ==
    \/ bound[v] # Lazy /\ x = bound[v] /\ UNCHANGED <<memo, binderRuns>>
    \/ /\ bound[v] = Lazy /\ x \in Values
       /\ binderRuns' = [binderRuns EXCEPT ![v] = @ + 1]
       /\ UNCHANGED memo

\* Resolve(v) answers with x: eagerly bound, memoized, or produced by the
\* binder now and memoized.  x is None when the name has no binding.
Resolve(v, x) ==
    \/ /\ bound[v] # Lazy
       /\ x = bound[v]
       /\ UNCHANGED <<memo, binderRuns>>
    \/ /\ bound[v] = Lazy /\ memo[v] # None
       /\ x = memo[v]
       /\ UNCHANGED <<memo, binderRuns>>
    \/ /\ bound[v] = Lazy /\ memo[v] = None
       /\ x \in Values
       /\ memo' = [memo EXCEPT ![v] = x]
       /\ binderRuns' = [binderRuns EXCEPT ![v] = @ + 1]

\* The binder fails: nothing is memoized and the call aborts.
BinderFails(v) ==
    /\ bound[v] = Lazy /\ memo[v] = None
    /\ binderRuns' = [binderRuns EXCEPT ![v] = @ + 1]
    /\ UNCHANGED memo

-----------------------------------------------------------------------------
(* The calls *)

\* refs.Reset(), the pattern set, then MarshalActivation's ClearLazyCache.
BeginWith(kind, patterns) ==
    /\ pc = "idle"
    /\ refs' = EmptyTable
    /\ opaque' = patterns
    /\ memo' = [v \in Vars |-> None]
    /\ pc' = "prepass" /\ call' = kind /\ i' = 1 /\ need' = 0 /\ cursor' = 0
    /\ binderRuns' = [v \in Vars |-> 0]
    /\ outcome' = NoOutcome
    /\ UNCHANGED <<repr, bound, slots, bufs, bytes>>

BeginEval == BeginWith("eval", {})
BeginPartialEval == \E p \in Patterns : BeginWith("partial", p)

\* Eval(): $eval runs at once, on the slots, handles and patterns it finds.
BeginBareEval ==
    /\ pc = "idle"
    /\ pc' = "run" /\ call' = "bare"
    /\ outcome' = NoOutcome
    /\ UNCHANGED <<bound, memo, instanceVars, i, need, cursor, binderRuns>>

\* A call ends; PartialEval leaves no pattern behind, on any path.
EndCall(result) ==
    /\ pc' = "idle" /\ call' = "none" /\ i' = 1
    /\ need' = 0 /\ cursor' = 0
    /\ opaque' = IF call = "partial" THEN {} ELSE opaque
    /\ outcome' = result

-----------------------------------------------------------------------------
(* The sizing pre-pass *)

V == VarSeq[i]

\* Mutant: the bytes of a wrapper message are not budgeted.
PayloadWithoutWrapper(x) == IF x # None /\ x.kind = "bytes" THEN x.size ELSE 0

\* Bytes the encoder of a byte-payload variable will copy for value x: the
\* payload itself or a wrapper message's inner payload.
PayloadBytes(x) ==
    IF x # None /\ HasBytes(x) THEN x.size ELSE 0

\* TotalHostStringBytes, one variable: only byte payloads that are not blanked.
PrepassSkip ==
    /\ pc = "prepass" /\ i <= Len(VarSeq)
    /\ repr[V] # "bytes" \/ V \in opaque
    /\ i' = i + 1
    /\ need' = need + (IF V \in opaque THEN DescriptorBytes ELSE 0)
    /\ UNCHANGED <<bound, memo, instanceVars, pc, call, cursor, outcome, binderRuns>>

PrepassSize ==
    /\ pc = "prepass" /\ i <= Len(VarSeq)
    /\ repr[V] = "bytes" /\ V \notin opaque
    /\ \E x \in Values \cup {None} :
         Resolve(V, x) /\ need' = AlignUp(need + PayloadBytes(x))
    /\ i' = i + 1
    /\ UNCHANGED <<bound, instanceVars, pc, call, cursor, outcome>>

PrepassBinderFails ==
    /\ pc = "prepass" /\ i <= Len(VarSeq)
    /\ repr[V] = "bytes" /\ V \notin opaque
    /\ BinderFails(V)
    /\ EndCall(Failed)
    /\ UNCHANGED <<repr, bound, slots, refs, bufs, bytes>>

\* EnsureActivationBuffer keeps a buffer that is large enough and otherwise
\* replaces it; the old one is not freed.
EnsureKeeps ==
    /\ pc = "prepass" /\ i > Len(VarSeq)
    /\ need <= Capacity
    /\ pc' = "marshal" /\ i' = 1
    /\ UNCHANGED <<bound, memo, instanceVars, call, need, cursor, outcome, binderRuns>>

EnsureGrows ==
    /\ pc = "prepass" /\ i > Len(VarSeq)
    /\ need > Capacity
    /\ bufs' = Append(bufs, RoundUpTo4K(need))
    /\ bytes' = {}
    /\ pc' = "marshal" /\ i' = 1
    /\ UNCHANGED <<repr, bound, memo, slots, refs, opaque, call, need, cursor, outcome, binderRuns>>

\* Mutant: the call starts over when malloc fails.
EnsureRetries ==
    /\ pc = "prepass" /\ i > Len(VarSeq)
    /\ need > Capacity
    /\ i' = 1 /\ need' = 0
    /\ UNCHANGED <<bound, memo, instanceVars, pc, call, cursor, outcome, binderRuns>>

\* malloc traps or returns NULL.
EnsureFails ==
    /\ pc = "prepass" /\ i > Len(VarSeq)
    /\ need > Capacity
    /\ EndCall(Failed)
    /\ UNCHANGED <<repr, bound, memo, slots, refs, bufs, bytes, binderRuns>>

-----------------------------------------------------------------------------
(* Marshalling one variable into its slot *)

\* Copy n bytes of content to the buffer at the cursor.
Write(n, content) ==
    LET w == [at |-> cursor, size |-> n, content |-> content] IN
    bytes' = {o \in bytes : o.at + o.size <= w.at \/ w.at + w.size <= o.at} \cup {w}

\* Intern(backing): a message already in the table keeps its slot, maps and
\* lists always get a new one.
Intern(table, content) ==
    LET seen == {k \in 1 .. Len(refs[table]) : refs[table][k] = content} IN
    IF table = "message" /\ seen # {}
      THEN [refs |-> refs, slot |-> CHOOSE k \in seen : TRUE]
      ELSE [refs |-> [refs EXCEPT ![table] = Append(@, content)],
            slot |-> Len(refs[table]) + 1]

SetSlot(kind, at, size, content) ==
    slots' = [slots EXCEPT ![V] = [kind |-> kind, at |-> at, size |-> size, content |-> content]]

Marshalling == pc = "marshal" /\ i <= Len(VarSeq)

\* The variable is done: the next one starts n bytes further.
Advance(n) ==
    /\ i' = i + 1
    /\ cursor' = cursor + n
    /\ UNCHANGED <<opaque, pc, call, need, outcome>>

\* The encoders' own bounds check against the buffer.
Room(n) == cursor + n <= Capacity
Exhausted ==
    /\ EndCall([Failed EXCEPT !.status = "resource_exhausted"])
    /\ UNCHANGED <<slots, bytes>>

\* EncodeUnknownVariable: a one-element UnknownSet descriptor in the buffer.
EncodeUnknownVariable ==
    IF Room(DescriptorBytes)
      THEN /\ Write(DescriptorBytes, V)
           /\ SetSlot("unknown", cursor, DescriptorBytes, None)
           /\ Advance(DescriptorBytes)
      ELSE Exhausted

MarshalUnknown ==
    /\ Marshalling
    /\ V \in opaque
    /\ EncodeUnknownVariable
    /\ UNCHANGED <<repr, bound, memo, refs, bufs, binderRuns>>

\* EncodeBool .. EncodeTimestamp: an inline payload, wrappers peeled.
EncodeScalar(x) ==
    /\ repr[V] = "scalar"
    /\ x.kind = "scalar" \/ x.wraps = "scalar"
    /\ SetSlot("scalar", 0, 0, x.content)
    /\ Advance(0)
    /\ UNCHANGED <<refs, bytes>>

\* Mutant: the cursor stays where it was.
EncodeBytesKeepsCursor(x) ==
    /\ repr[V] = "bytes"
    /\ HasBytes(x)
    /\ Write(x.size, x.content)
    /\ SetSlot("bytes", cursor, x.size, None)
    /\ Advance(0)
    /\ UNCHANGED refs

\* EncodeStringOrBytes / EncodeType.
EncodeBytes(x) ==
    /\ repr[V] = "bytes"
    /\ HasBytes(x)
    /\ IF Room(AlignUp(x.size))
         THEN /\ Write(x.size, x.content)
              /\ SetSlot("bytes", cursor, x.size, None)
              /\ Advance(AlignUp(x.size))
         ELSE Exhausted
    /\ UNCHANGED refs

\* EncodeMessage / EncodeMap / EncodeList: intern the backing, store the handle.
EncodeHandle(x) ==
    /\ repr[V] \in Tables
    /\ x.kind = repr[V]
    /\ LET r == Intern(repr[V], x.content) IN
         refs' = r.refs /\ SetSlot(repr[V], r.slot, 0, None)
    /\ Advance(0)
    /\ UNCHANGED bytes

Marshal ==
    /\ Marshalling
    /\ V \notin opaque
    /\ \E x \in Values :
         /\ Resolve(V, x)
         /\ EncodeScalar(x) \/ EncodeBytes(x) \/ EncodeHandle(x)
    /\ UNCHANGED <<repr, bound, bufs>>

Mismatch(x) ==
    CASE repr[V] = "scalar" -> x.kind # "scalar" /\ x.wraps # "scalar"
      [] repr[V] = "bytes"  -> ~HasBytes(x)
      [] OTHER              -> x.kind # repr[V]

\* An unbound variable, a value of the wrong kind, or a failing binder.
MarshalFails ==
    /\ Marshalling
    /\ V \notin opaque
    /\ \/ bound[V] = None /\ UNCHANGED <<memo, binderRuns>>
       \/ \E x \in Values : Resolve(V, x) /\ Mismatch(x)
       \/ BinderFails(V)
    /\ EndCall(Failed)
    /\ UNCHANGED <<repr, bound, slots, refs, bufs, bytes>>

StartRun ==
    /\ pc = "marshal" /\ i > Len(VarSeq)
    /\ pc' = "run"
    /\ UNCHANGED <<bound, memo, instanceVars, call, i, need, cursor, outcome, binderRuns>>

-----------------------------------------------------------------------------
(* $eval *)

\* The content of [at, at + size) of the buffer.
Held(at, size) ==
    LET spans == {w \in bytes : w.at = at /\ w.size = size} IN
    IF spans = {} THEN None ELSE (CHOOSE w \in spans : TRUE).content

\* What a slot decodes to: Value content, or None when the handle is dangling.
Decode(s) ==
    CASE s.kind = "scalar"  -> s.content
      [] s.kind = "bytes"   -> Held(s.at, s.size)
      [] s.kind = "unknown" -> Held(s.at, DescriptorBytes)
      [] s.kind \in Tables  ->
           IF s.at \in 1 .. Len(refs[s.kind]) THEN refs[s.kind][s.at] ELSE None
      [] OTHER -> None

\* The body builds a message and interns it (cel_make_message).
BodyInterns ==
    /\ pc = "run"
    /\ Len(refs["message"]) < MaxIntern
    /\ refs' = [refs EXCEPT !["message"] = Append(@, Built)]
    /\ UNCHANGED <<repr, bound, memo, slots, opaque, bufs, bytes, callVars, outcome, binderRuns>>

\* Mutant: an unknown decodes as a value of the variable.
ReturnsUnknownAsValue(v) ==
    /\ slots[v].kind # "unset"
    /\ LET c == Decode(slots[v]) IN
       EndCall(IF c = None THEN Failed ELSE [status |-> "ok", var |-> v, value |-> c])

\* The body returns the value of a declared variable.
ReturnsVariable(v) ==
    /\ slots[v].kind # "unset"
    /\ LET c == Decode(slots[v]) IN
       EndCall(IF c = None THEN Failed
               ELSE IF slots[v].kind = "unknown" THEN [status |-> "unknown", var |-> c, value |-> None]
               ELSE [status |-> "ok", var |-> v, value |-> c])

\* The body returns something it computed, an error value, or traps.
ReturnsComputed == EndCall(Computed)
Traps == EndCall(Failed)

EndRun ==
    /\ pc = "run"
    /\ (\E v \in Vars : ReturnsVariable(v)) \/ ReturnsComputed \/ Traps
    /\ UNCHANGED <<repr, bound, memo, slots, refs, bufs, bytes, binderRuns>>

-----------------------------------------------------------------------------
Caller ==
    \/ \E v \in Vars, x \in Values : Bind(v, x)
    \/ \E v \in Vars : BindLazy(v)
    \/ BeginEval \/ BeginPartialEval \/ BeginBareEval

Step ==
    \/ PrepassSkip \/ PrepassSize \/ PrepassBinderFails
    \/ EnsureKeeps \/ EnsureGrows \/ EnsureFails
    \/ MarshalUnknown \/ Marshal \/ MarshalFails
    \/ StartRun \/ BodyInterns \/ EndRun

Next == Caller \/ Step

\* A call runs to its end: the code is sequential and CEL bodies terminate.
Spec == Init /\ [][Next]_vars /\ WF_vars(Step)

-----------------------------------------------------------------------------
(* What a call promises *)

ContentOf(x) == IF x = None THEN None ELSE x.content

\* When $eval starts, the slot of every variable decodes, through the buffer
\* and the handle tables as they are now, to what the activation denotes in
\* this call: nothing of an earlier call, of an aborted marshal or of a
\* payload written later in the same marshal shows through.
Denoted(v) == IF bound[v] = Lazy THEN ContentOf(memo[v]) ELSE ContentOf(bound[v])
SlotsDenote ==
    pc = "run" /\ call # "bare" =>
        \A v \in Vars :
            IF v \in opaque
              THEN slots[v].kind = "unknown" /\ Decode(slots[v]) = v
              ELSE slots[v].kind # "unknown" /\ Decode(slots[v]) = Denoted(v)

\* The pre-pass budgets for everything the marshal copies: the encoders' own
\* "host string arena OOM" branch is never taken.
BudgetSuffices == outcome.status # "resource_exhausted"

\* A lazy binder runs at most once per call, never for a variable the caller
\* declared opaque, and has run for every other lazy variable when $eval starts.
BinderAtMostOnce ==
    /\ \A v \in Vars : binderRuns[v] <= (IF v \in opaque THEN 0 ELSE 1)
    /\ pc = "run" /\ call # "bare" =>
         \A v \in Vars \ opaque : bound[v] = Lazy => binderRuns[v] = 1

\* Every call comes to an end.
CallsEnd == pc # "idle" ~> pc = "idle"

\* Eval and PartialEval implement their contract.
Contract == INSTANCE EvalContract WITH
    Values <- {x.content : x \in Values},
    bound <- [v \in Vars |-> IF bound[v] = Lazy THEN Lazy ELSE ContentOf(bound[v])],
    memo <- [v \in Vars |-> ContentOf(memo[v])],
    mode <- IF pc = "idle" THEN "idle" ELSE IF call = "bare" THEN "bare" ELSE "busy",
    outcome <- IF outcome.status = "resource_exhausted" THEN Failed ELSE outcome
ImplementsContract == Contract!CSpec

=============================================================================
