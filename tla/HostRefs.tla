------------------------------ MODULE HostRefs ------------------------------
(***************************************************************************)
(* The handle table between $eval and the host's proto messages            *)
(* (HostExternrefTable of eval/internal/cel_host_wasmtime.cc), with the    *)
(* lifetimes that its dedup by address relies on: messages are allocated   *)
(* and destroyed at addresses that are used again, by the caller between   *)
(* evaluations and by $eval, whose own messages live as long as the table  *)
(* holds their owning backing.                                             *)
(*                                                                         *)
(* A message has one nested message, which is also the only element of its *)
(* one repeated field.                                                     *)
(***************************************************************************)
EXTENDS Naturals, Sequences, FiniteSets

CONSTANTS
    Addrs,      \* addresses of messages
    MaxBirths,  \* bound on the messages allocated in a behaviour
    MaxSlots    \* bound on the handles of each table

ASSUME HostRefsAssumption == MaxBirths \in Nat /\ MaxSlots \in Nat

VARIABLES
    program,    \* "bound" declares a message variable, "free" declares none
    msgs,       \* the messages alive
    births,     \* messages allocated so far
    boundMsg,   \* what the activation binds: a set of at most one message
    backings,   \* backings_ past the sentinel
    lists,      \* list_backings_ past the sentinel
    msgSlots,   \* msg_slots_
    listSlots,  \* list_field_slots_
    pc,         \* "idle", "marshal" or "run"
    handles,    \* history: the handles this $eval got and what for
    results     \* history: what the Values returned to the caller point into

tableVars == <<backings, lists, msgSlots, listSlots>>
vars == <<program, msgs, births, boundMsg, backings, lists, msgSlots, listSlots,
          pc, handles, results>>

\* A message: its address, that of its nested message, and who destroys it.
\* The id tells a message from a later one at the same address.
Message == [id : 1 .. MaxBirths, at : Addrs, sub : Addrs, owner : {"caller", "table", "result"}]

Places(ms) == {m.at : m \in ms} \cup {m.sub : m \in ms}

\* What is at address p now: <<id, part>>, or nothing if p is not in use.
At(p) == {<<m.id, "msg">> : m \in {x \in msgs : x.at = p}} \cup
         {<<m.id, "sub">> : m \in {x \in msgs : x.sub = p}}

Empty == [p \in {} |-> 0]

\* try_emplace: f with p recorded at slot n.
Record(f, p, n) == [q \in DOMAIN f \cup {p} |-> IF q = p THEN n ELSE f[q]]

Init ==
    /\ program \in {"bound", "free"}
    /\ msgs = {} /\ births = 0 /\ boundMsg = {}
    /\ backings = <<>> /\ lists = <<>> /\ msgSlots = Empty /\ listSlots = Empty
    /\ pc = "idle" /\ handles = {} /\ results = {}

\* The messages that can be allocated now, where the allocator sees fit.
Allocate(owner, alive) ==
    {m \in Message : /\ births < MaxBirths /\ m.id = births + 1 /\ m.owner = owner
                     /\ m.at # m.sub /\ {m.at, m.sub} \cap Places(alive) = {}}

-----------------------------------------------------------------------------
(* The table *)

\* Intern(backing) of a message at address p, owning message m or none ({}).
Intern(p, m) ==
    IF p \in DOMAIN msgSlots
      THEN [backings |-> backings, msgSlots |-> msgSlots, slot |-> msgSlots[p], drops |-> m]
      ELSE LET n == Len(backings) + 1 IN
           [backings |-> Append(backings, [at |-> p, owns |-> m]),
            msgSlots |-> Record(msgSlots, p, n), slot |-> n, drops |-> {}]

\* InternProtoListField (and InternProtoMapField, its twin): the repeated
\* field of the message at p.
InternProtoListField(p) ==
    IF p \in DOMAIN listSlots
      THEN [lists |-> lists, listSlots |-> listSlots, slot |-> listSlots[p]]
      ELSE LET n == Len(lists) + 1 IN
           [lists |-> Append(lists, p), listSlots |-> Record(listSlots, p, n), slot |-> n]

\* The messages that go with the backings.
Owned == UNION {backings[n].owns : n \in 1 .. Len(backings)}

\* Mutant: the dedup index survives.
ResetKeepsIndex ==
    /\ backings' = <<>> /\ lists' = <<>>
    /\ msgs' = msgs \ Owned
    /\ UNCHANGED <<msgSlots, listSlots>>

\* Reset drops the backings and with them the messages they own.
Reset ==
    /\ backings' = <<>> /\ lists' = <<>> /\ msgSlots' = Empty /\ listSlots' = Empty
    /\ msgs' = msgs \ Owned

-----------------------------------------------------------------------------
(* The caller, between evaluations *)

CallerBinds ==
    /\ pc = "idle" /\ program = "bound" /\ boundMsg = {}
    /\ \E m \in Allocate("caller", msgs) :
         msgs' = msgs \cup {m} /\ boundMsg' = {m}
    /\ births' = births + 1
    /\ UNCHANGED <<program, tableVars, pc, handles, results>>

\* Value::Message: the caller keeps the message for the duration of an Eval only.
CallerFrees ==
    /\ pc = "idle" /\ boundMsg # {}
    /\ msgs' = msgs \ boundMsg
    /\ boundMsg' = {}
    /\ results' = {r \in results : r.kind = "element" => \A m \in boundMsg : r.of[1] # m.id}
    /\ UNCHANGED <<program, births, tableVars, pc, handles>>

\* Eval(activation): Reset, then the marshal.
BeginEval ==
    /\ pc = "idle"
    /\ Reset
    /\ pc' = (IF program = "bound" THEN "marshal" ELSE "run") /\ handles' = {}
    /\ UNCHANGED <<program, births, boundMsg, results>>

\* EncodeMessage of the variable.
Marshal ==
    /\ pc = "marshal"
    /\ pc' = "run"
    /\ \E m \in boundMsg :
         LET r == Intern(m.at, {}) IN
         /\ backings' = r.backings /\ msgSlots' = r.msgSlots
         /\ handles' = handles \cup {[table |-> "msg", slot |-> r.slot, of |-> <<m.id, "msg">>]}
    /\ UNCHANGED <<program, msgs, births, boundMsg, lists, listSlots, results>>

\* The variable has no binding: the call ends here.
MarshalFails ==
    /\ pc = "marshal" /\ boundMsg = {}
    /\ pc' = "idle"
    /\ UNCHANGED <<program, msgs, births, boundMsg, tableVars, handles, results>>

\* Eval() of a program that declares no variable: no Reset.
BeginBareEval ==
    /\ pc = "idle" /\ program = "free"
    /\ pc' = "run" /\ handles' = {}
    /\ UNCHANGED <<program, msgs, births, boundMsg, tableVars, results>>

-----------------------------------------------------------------------------
(* $eval *)

\* cel_make_message: a new message in an owning backing.
CelMakeMessage ==
    /\ pc = "run" /\ Len(backings) < MaxSlots
    /\ \E m \in Allocate("table", msgs) :
         LET r == Intern(m.at, {m}) IN
         /\ backings' = r.backings /\ msgSlots' = r.msgSlots
         /\ msgs' = (msgs \cup {m}) \ r.drops
         /\ handles' = handles \cup {[table |-> "msg", slot |-> r.slot, of |-> <<m.id, "msg">>]}
    /\ births' = births + 1
    /\ UNCHANGED <<program, boundMsg, lists, listSlots, pc, results>>

\* The messages a handle leads to: Lookup, then the address of the backing.
Lookup(h) ==
    {m \in msgs : h.table = "msg" /\ h.slot <= Len(backings) /\ m.at = backings[h.slot].at}

\* InternProtoMessage: the index is consulted, then Intern.
InternProtoMessage(p) == Intern(p, {})

\* cel_get_field of the nested message.
SelectNested ==
    /\ pc = "run" /\ Len(backings) < MaxSlots
    /\ \E h \in handles : \E m \in Lookup(h) :
         LET r == InternProtoMessage(m.sub) IN
         /\ backings' = r.backings /\ msgSlots' = r.msgSlots
         /\ handles' = handles \cup {[table |-> "msg", slot |-> r.slot, of |-> <<m.id, "sub">>]}
    /\ UNCHANGED <<program, msgs, births, boundMsg, lists, listSlots, pc, results>>

\* cel_get_field of the repeated field.
SelectList ==
    /\ pc = "run" /\ Len(lists) < MaxSlots
    /\ \E h \in handles : \E m \in Lookup(h) :
         LET r == InternProtoListField(m.at) IN
         /\ lists' = r.lists /\ listSlots' = r.listSlots
         /\ handles' = handles \cup {[table |-> "list", slot |-> r.slot, of |-> <<m.id, "msg">>]}
    /\ UNCHANGED <<program, msgs, births, boundMsg, backings, msgSlots, pc, results>>

\* The result is a scalar.
ReturnScalar ==
    /\ pc = "run"
    /\ pc' = "idle"
    /\ UNCHANGED <<program, msgs, births, boundMsg, tableVars, handles, results>>

\* Mutant: the Value refers to the message behind the handle.
DecodeBorrowing(p, copy) ==
    [kind |-> "message", at |-> p, of |-> CHOOSE x \in At(p) : TRUE]

\* DecodeHostMessageAt of the message at p: the Value owns a fresh copy.
DecodeHostMessageAt(p, copy) ==
    [kind |-> "message", at |-> copy.at, of |-> <<copy.id, "msg">>]

\* The result is a message.
ReturnMessage ==
    /\ pc = "run"
    /\ \E h \in handles : \E copy \in Allocate("result", msgs) :
         /\ h.table = "msg"
         /\ msgs' = msgs \cup {copy}
         /\ results' = results \cup {DecodeHostMessageAt(backings[h.slot].at, copy)}
    /\ births' = births + 1
    /\ pc' = "idle"
    /\ UNCHANGED <<program, boundMsg, tableVars, handles>>

\* The result is a list: DecodeHostListAt collects what ForEach yields, which
\* for a message is a borrowed ProtoBacking.
ReturnList ==
    /\ pc = "run"
    /\ \E h \in handles : \E m \in msgs :
         /\ h.table = "list" /\ m.at = lists[h.slot]
         /\ results' = results \cup {[kind |-> "element", at |-> m.sub, of |-> <<m.id, "sub">>]}
    /\ pc' = "idle"
    /\ UNCHANGED <<program, msgs, births, boundMsg, tableVars, handles>>

\* The caller is done with the Values it was given.
CallerDropsResults ==
    /\ pc = "idle" /\ results # {}
    /\ results' = {}
    /\ msgs' = {m \in msgs : m.owner # "result"}
    /\ UNCHANGED <<program, births, boundMsg, tableVars, pc, handles>>

Next ==
    \/ CallerBinds \/ CallerFrees \/ CallerDropsResults
    \/ BeginEval \/ BeginBareEval \/ Marshal \/ MarshalFails
    \/ CelMakeMessage \/ SelectNested \/ SelectList
    \/ ReturnScalar \/ ReturnMessage \/ ReturnList

Spec == Init /\ [][Next]_vars

-----------------------------------------------------------------------------
\* The addresses a handle stands for: one, or none if its slot is past the end.
Targets(h) ==
    IF h.table = "msg" THEN {backings[n].at : n \in {h.slot} \cap DOMAIN backings}
    ELSE {lists[n] : n \in {h.slot} \cap DOMAIN lists}

\* A handle that $eval holds leads to the message it was issued for, alive: no
\* address that was freed and used again makes an old entry answer for a new
\* message, within an evaluation or across evaluations.
HandlesResolve ==
    pc = "run" => \A h \in handles : UNION {At(a) : a \in Targets(h)} = {h.of}

\* The comment on DecodeHostMessageAt: the backing goes away on Reset, "so the
\* decoded `Value` must own its message".  A message the caller was given stays
\* the message it was, whatever later evaluations, and the caller's own frees,
\* destroy or put at the same addresses.
MessageResultsOwned ==
    \A r \in results : r.kind = "message" => At(r.at) = {r.of}

=============================================================================
