--------------------------- MODULE HostRefsProofs ---------------------------
(***************************************************************************)
(* A handle leads to the message it was issued for, and a returned message *)
(* stays what it was, for any addresses and any number of messages,        *)
(* handles and evaluations.                                                *)
(***************************************************************************)
EXTENDS HostRefs, TLAPS

Apart(m, n) == m.at # n.at /\ m.at # n.sub /\ m.sub # n.at /\ m.sub # n.sub

\* What is alive lies at addresses of its own.
MessagesApart ==
    /\ msgs \subseteq Message /\ births \in Nat
    /\ \A m \in msgs : m.at # m.sub
    /\ \A m, n \in msgs : m # n => Apart(m, n)

\* The caller's message is alive, and there is one at most, of a program that
\* declares a variable.
BoundAlive ==
    /\ boundMsg \subseteq msgs
    /\ \A m \in boundMsg : m.owner = "caller"
    /\ boundMsg # {} => program = "bound"

Backing == [at : Addrs, owns : SUBSET Message]

\* The two indexes lead back to the address they are asked for.
IndexCoherent ==
    /\ backings \in Seq(Backing) /\ lists \in Seq(Addrs)
    /\ \A n \in DOMAIN backings : \A m \in backings[n].owns : m.owner = "table"
    /\ \A p \in DOMAIN msgSlots : msgSlots[p] \in DOMAIN backings /\ backings[msgSlots[p]].at = p
    /\ \A p \in DOMAIN listSlots : listSlots[p] \in DOMAIN lists /\ lists[listSlots[p]] = p

\* What the index of messages knows is alive, and no result of the caller's,
\* in an evaluation; between two evaluations if nothing is bound.
IndexAlive ==
    pc = "run" \/ program = "free" =>
        \A p \in DOMAIN msgSlots : \E m \in msgs : m.owner # "result" /\ p \in {m.at, m.sub}

\* Handle h was issued for m.
Issued(h, m) ==
    \/ /\ h.table = "msg" /\ h.slot \in DOMAIN backings
       /\ \/ h.of = <<m.id, "msg">> /\ backings[h.slot].at = m.at
          \/ h.of = <<m.id, "sub">> /\ backings[h.slot].at = m.sub
    \/ /\ h.table = "list" /\ h.slot \in DOMAIN lists
       /\ h.of = <<m.id, "msg">> /\ lists[h.slot] = m.at

HandlesIssued ==
    pc = "run" => \A h \in handles : \E m \in msgs : m.owner # "result" /\ Issued(h, m)

ResultsAlive ==
    \A r \in results : r.kind = "message" =>
        \E m \in msgs : m.owner = "result" /\ r.at = m.at /\ r.of = <<m.id, "msg">>

IInv ==
    /\ program \in {"bound", "free"} /\ pc \in {"idle", "marshal", "run"}
    /\ (pc = "marshal" => msgSlots = Empty /\ handles = {} /\ program = "bound")
    /\ MessagesApart /\ BoundAlive /\ IndexCoherent /\ IndexAlive /\ HandlesIssued /\ ResultsAlive

-----------------------------------------------------------------------------
(* The operators *)

\* An address in use is one part of one message.
LEMMA AtUnique ==
    ASSUME MessagesApart, NEW m \in msgs
    PROVE  At(m.at) = {<<m.id, "msg">>} /\ At(m.sub) = {<<m.id, "sub">>}
  <1>1. {x \in msgs : x.at = m.at} = {m} /\ {x \in msgs : x.sub = m.at} = {}
    BY DEF MessagesApart, Apart
  <1>2. {x \in msgs : x.sub = m.sub} = {m} /\ {x \in msgs : x.at = m.sub} = {}
    BY DEF MessagesApart, Apart
  <1> QED BY <1>1, <1>2 DEF At

\* A fresh message lies apart from what is alive.
LEMMA AllocateApart ==
    ASSUME MessagesApart, NEW owner, NEW m \in Allocate(owner, msgs)
    PROVE  /\ m \in Message /\ m.owner = owner /\ m.at # m.sub
           /\ m.at \notin Places(msgs) /\ m.sub \notin Places(msgs)
           /\ \A n \in msgs : n # m /\ Apart(m, n) /\ Apart(n, m)
  <1>1. /\ m \in Message /\ m.owner = owner /\ m.at # m.sub
        /\ m.at \notin Places(msgs) /\ m.sub \notin Places(msgs)
    BY DEF Allocate
  <1>2. \A n \in msgs : n.at \in Places(msgs) /\ n.sub \in Places(msgs)
    BY DEF Places
  <1> QED BY <1>1, <1>2 DEF Apart

\* Interning yields a slot of the address, moves nothing that is there, and
\* drops what it was given only if the address is known.
LEMMA InternFacts ==
    ASSUME IndexCoherent, NEW p \in Addrs, NEW o \in SUBSET Message,
           \A m \in o : m.owner = "table"
    PROVE  LET r == Intern(p, o) IN
           /\ r.backings \in Seq(Backing)
           /\ r.slot \in DOMAIN r.backings /\ r.backings[r.slot].at = p
           /\ \A n \in DOMAIN backings : n \in DOMAIN r.backings /\ r.backings[n] = backings[n]
           /\ \A n \in DOMAIN r.backings : \A m \in r.backings[n].owns : m.owner = "table"
           /\ DOMAIN r.msgSlots = DOMAIN msgSlots \cup {p}
           /\ \A q \in DOMAIN r.msgSlots :
                r.msgSlots[q] \in DOMAIN r.backings /\ r.backings[r.msgSlots[q]].at = q
           /\ p \notin DOMAIN msgSlots => r.drops = {}
  <1> DEFINE r == Intern(p, o)
  <1>1. CASE p \in DOMAIN msgSlots
    <2>1. /\ r.backings = backings /\ r.msgSlots = msgSlots /\ r.slot = msgSlots[p]
      BY <1>1 DEF Intern
    <2> QED BY <1>1, <2>1 DEF IndexCoherent
  <1>2. CASE p \notin DOMAIN msgSlots
    <2> DEFINE b == [at |-> p, owns |-> o]
               n1 == Len(backings) + 1
    <2>1. /\ r.backings = Append(backings, b) /\ r.msgSlots = Record(msgSlots, p, n1)
          /\ r.slot = n1 /\ r.drops = {}
      BY <1>2 DEF Intern
    <2>2. b \in Backing /\ backings \in Seq(Backing)
      BY DEF Backing, IndexCoherent
    <2>3. /\ Append(backings, b) \in Seq(Backing)
          /\ DOMAIN Append(backings, b) = 1 .. n1 /\ DOMAIN backings = 1 .. Len(backings)
          /\ Len(backings) \in Nat
          /\ \A n \in 1 .. Len(backings) : Append(backings, b)[n] = backings[n]
          /\ Append(backings, b)[n1] = b
      BY <2>2
    <2>4. \A n \in 1 .. n1 : n = n1 \/ n \in 1 .. Len(backings)
      BY <2>3
    <2>5. /\ DOMAIN Record(msgSlots, p, n1) = DOMAIN msgSlots \cup {p}
          /\ Record(msgSlots, p, n1)[p] = n1
          /\ \A q \in DOMAIN msgSlots : Record(msgSlots, p, n1)[q] = msgSlots[q]
      BY <1>2 DEF Record
    <2>6. \A n \in 1 .. n1 : \A m \in Append(backings, b)[n].owns : m.owner = "table"
      BY <2>3, <2>4 DEF IndexCoherent
    <2>7. \A q \in DOMAIN msgSlots \cup {p} :
            /\ Record(msgSlots, p, n1)[q] \in 1 .. n1
            /\ Append(backings, b)[Record(msgSlots, p, n1)[q]].at = q
      BY <2>3, <2>5 DEF IndexCoherent
    <2> HIDE DEF b, n1
    <2>8. n1 \in 1 .. n1 /\ Append(backings, b)[n1].at = p
      BY <2>3 DEF n1, b
    <2>9. \A n \in DOMAIN backings : n \in 1 .. n1 /\ Append(backings, b)[n] = backings[n]
      BY <2>3 DEF n1
    <2> HIDE DEF r
    <2> QED BY <2>1, <2>3, <2>5, <2>6, <2>7, <2>8, <2>9 DEF r
  <1> QED BY <1>1, <1>2

\* The same of a repeated field.
LEMMA InternListFacts ==
    ASSUME IndexCoherent, NEW p \in Addrs
    PROVE  LET r == InternProtoListField(p) IN
           /\ r.lists \in Seq(Addrs)
           /\ r.slot \in DOMAIN r.lists /\ r.lists[r.slot] = p
           /\ \A n \in DOMAIN lists : n \in DOMAIN r.lists /\ r.lists[n] = lists[n]
           /\ \A q \in DOMAIN r.listSlots :
                r.listSlots[q] \in DOMAIN r.lists /\ r.lists[r.listSlots[q]] = q
  <1> DEFINE r == InternProtoListField(p)
  <1>1. CASE p \in DOMAIN listSlots
    <2>1. r.lists = lists /\ r.listSlots = listSlots /\ r.slot = listSlots[p]
      BY <1>1 DEF InternProtoListField
    <2> QED BY <1>1, <2>1 DEF IndexCoherent
  <1>2. CASE p \notin DOMAIN listSlots
    <2> DEFINE n1 == Len(lists) + 1
    <2>1. r.lists = Append(lists, p) /\ r.listSlots = Record(listSlots, p, n1) /\ r.slot = n1
      BY <1>2 DEF InternProtoListField
    <2>2. lists \in Seq(Addrs)
      BY DEF IndexCoherent
    <2>3. /\ Append(lists, p) \in Seq(Addrs)
          /\ DOMAIN Append(lists, p) = 1 .. n1 /\ DOMAIN lists = 1 .. Len(lists)
          /\ \A n \in 1 .. Len(lists) : Append(lists, p)[n] = lists[n] /\ n \in 1 .. n1
          /\ Append(lists, p)[n1] = p /\ n1 \in 1 .. n1
      BY <2>2
    <2>4. /\ DOMAIN Record(listSlots, p, n1) = DOMAIN listSlots \cup {p}
          /\ Record(listSlots, p, n1)[p] = n1
          /\ \A q \in DOMAIN listSlots : Record(listSlots, p, n1)[q] = listSlots[q]
      BY <1>2 DEF Record
    <2> HIDE DEF n1
    <2>5. \A q \in DOMAIN listSlots \cup {p} :
            /\ Record(listSlots, p, n1)[q] \in 1 .. n1
            /\ Append(lists, p)[Record(listSlots, p, n1)[q]] = q
      BY <2>3, <2>4 DEF IndexCoherent
    <2> HIDE DEF r
    <2> QED BY <2>1, <2>3, <2>4, <2>5 DEF r
  <1> QED BY <1>1, <1>2

-----------------------------------------------------------------------------
(* The steps *)

LEMMA InitIInv == Init => IInv
  <1> SUFFICES ASSUME Init PROVE IInv
    OBVIOUS
  <1>1. DOMAIN Empty = {}
    BY DEF Empty
  <1>2. MessagesApart /\ BoundAlive /\ ResultsAlive
    BY DEF Init, MessagesApart, BoundAlive, ResultsAlive
  <1>3. IndexCoherent /\ IndexAlive /\ HandlesIssued
    BY <1>1 DEF Init, IndexCoherent, IndexAlive, HandlesIssued
  <1> QED BY <1>2, <1>3 DEF Init, IInv

\* Reset forgets the table and destroys what it owns, nothing else.
LEMMA ResetFacts ==
    ASSUME IInv, Reset, boundMsg' = boundMsg, births' = births, results' = results,
           program' = program
    PROVE  /\ msgSlots' = Empty
           /\ MessagesApart' /\ BoundAlive' /\ IndexCoherent' /\ IndexAlive' /\ ResultsAlive'
  <1>1. DOMAIN Empty = {} /\ msgSlots' = Empty /\ listSlots' = Empty
    BY DEF Empty, Reset
  <1>2. \A m \in Owned : m.owner = "table"
    BY DEF Owned, IInv, IndexCoherent
  <1>3. msgs' = msgs \ Owned
    BY DEF Reset
  <1>4. MessagesApart'
    BY <1>3 DEF IInv, MessagesApart, Apart
  <1>5. BoundAlive'
    BY <1>2, <1>3 DEF IInv, BoundAlive
  <1>6. IndexCoherent'
    BY <1>1 DEF Reset, IndexCoherent
  <1>7. IndexAlive'
    BY <1>1 DEF IndexAlive
  <1>8. ResultsAlive'
    BY <1>2, <1>3 DEF IInv, ResultsAlive
  <1> QED BY <1>1, <1>4, <1>5, <1>6, <1>7, <1>8

\* The message part at p is interned and its handle given to $eval.
Interned(p, o, m, part) ==
    LET r == Intern(p, o) IN
    /\ backings' = r.backings /\ msgSlots' = r.msgSlots
    /\ handles' = handles \cup {[table |-> "msg", slot |-> r.slot, of |-> <<m.id, part>>]}

\* A message that $eval, or the marshal, interns: m itself or its nested one,
\* alive already or allocated now.
LEMMA InternStep ==
    ASSUME IInv, NEW m \in Message, m.owner # "result",
           NEW p, NEW part, (p = m.at /\ part = "msg") \/ (p = m.sub /\ part = "sub"),
           NEW o, o \subseteq {m}, \A x \in o : x.owner = "table",
           m \in msgs \/ (p \notin DOMAIN msgSlots /\ pc = "run" /\ MessagesApart'),
           pc \in {"marshal", "run"}, pc' = "run",
           msgs' = msgs \cup {m},
           Interned(p, o, m, part),
           births' \in Nat,
           UNCHANGED <<program, boundMsg, lists, listSlots, results>>
    PROVE  IInv'
  <1> DEFINE r == Intern(p, o)
  <1>1. p \in Addrs /\ o \in SUBSET Message
    BY DEF Message
  <1>2. /\ r.backings \in Seq(Backing)
        /\ r.slot \in DOMAIN r.backings /\ r.backings[r.slot].at = p
        /\ \A n \in DOMAIN backings : n \in DOMAIN r.backings /\ r.backings[n] = backings[n]
        /\ \A n \in DOMAIN r.backings : \A x \in r.backings[n].owns : x.owner = "table"
        /\ DOMAIN r.msgSlots = DOMAIN msgSlots \cup {p}
        /\ \A q \in DOMAIN r.msgSlots :
             r.msgSlots[q] \in DOMAIN r.backings /\ r.backings[r.msgSlots[q]].at = q
    BY <1>1, InternFacts DEF IInv
  <1> HIDE DEF r
  <1>3. backings' = r.backings /\ msgSlots' = r.msgSlots
    BY DEF r, Interned
  <1>4. handles' = handles \cup {[table |-> "msg", slot |-> r.slot, of |-> <<m.id, part>>]}
    BY DEF r, Interned
  <1>5. MessagesApart'
    <2>1. CASE m \in msgs
      <3>1. msgs' = msgs
        BY <2>1
      <3> QED BY <3>1 DEF IInv, MessagesApart, Apart
    <2> QED BY <2>1
  <1>6. BoundAlive'
    BY DEF IInv, BoundAlive
  <1>7. IndexCoherent'
    BY <1>2, <1>3 DEF IInv, IndexCoherent
  <1>8. IndexAlive'
    <2>1. \A q \in DOMAIN msgSlots : \E x \in msgs : x.owner # "result" /\ q \in {x.at, x.sub}
      BY DEF IInv, IndexAlive, Empty
    <2>2. m \in msgs' /\ m.owner # "result" /\ p \in {m.at, m.sub}
      OBVIOUS
    <2>3. DOMAIN msgSlots' = DOMAIN msgSlots \cup {p}
      BY <1>2, <1>3
    <2> QED BY <2>1, <2>2, <2>3 DEF IndexAlive
  <1>9. HandlesIssued'
    <2> SUFFICES ASSUME NEW h \in handles' PROVE \E x \in msgs' : x.owner # "result" /\ Issued(h, x)'
      BY DEF HandlesIssued
    <2>1. CASE h \in handles
      <3>1. pc = "run"
        BY <2>1 DEF IInv
      <3>2. PICK x \in msgs : x.owner # "result" /\ Issued(h, x)
        BY <2>1, <3>1 DEF IInv, HandlesIssued
      <3>3. Issued(h, x)'
        BY <3>2, <1>2, <1>3 DEF Issued
      <3> QED BY <3>2, <3>3
    <2>2. CASE h = [table |-> "msg", slot |-> r.slot, of |-> <<m.id, part>>]
      <3>1. h.table = "msg" /\ h.slot = r.slot /\ h.of = <<m.id, part>>
        BY <2>2
      <3>2. Issued(h, m)'
        BY <3>1, <1>2, <1>3 DEF Issued
      <3> QED BY <3>2
    <2> QED BY <2>1, <2>2, <1>4
  <1>10. ResultsAlive'
    BY DEF IInv, ResultsAlive
  <1> QED BY <1>5, <1>6, <1>7, <1>8, <1>9, <1>10 DEF IInv

\* The caller's steps and the calls' beginnings and ends.
LEMMA CallerIInv ==
    ASSUME IInv, CallerBinds \/ CallerFrees \/ CallerDropsResults
    PROVE  IInv'
  <1> USE DEF IInv
  <1>1. CASE CallerBinds
    <2>1. PICK m \in Allocate("caller", msgs) : msgs' = msgs \cup {m} /\ boundMsg' = {m}
      BY <1>1 DEF CallerBinds
    <2>2. MessagesApart'
      BY <1>1, <2>1, AllocateApart DEF CallerBinds, MessagesApart, Apart
    <2>3. BoundAlive'
      BY <1>1, <2>1, AllocateApart DEF CallerBinds, BoundAlive
    <2>4. IndexCoherent' /\ IndexAlive' /\ HandlesIssued' /\ ResultsAlive'
      BY <1>1, <2>1 DEF CallerBinds, tableVars, IndexCoherent, IndexAlive, HandlesIssued, ResultsAlive
    <2> QED BY <1>1, <2>2, <2>3, <2>4 DEF CallerBinds, tableVars
  <1>2. CASE CallerFrees
    <2>1. MessagesApart' /\ BoundAlive'
      BY <1>2 DEF CallerFrees, MessagesApart, BoundAlive, Apart
    <2>2. IndexCoherent' /\ IndexAlive' /\ HandlesIssued'
      BY <1>2 DEF CallerFrees, tableVars, IndexCoherent, IndexAlive, HandlesIssued, BoundAlive
    <2>3. ResultsAlive'
      BY <1>2 DEF CallerFrees, ResultsAlive, BoundAlive
    <2> QED BY <1>2, <2>1, <2>2, <2>3 DEF CallerFrees, tableVars
  <1>3. CASE CallerDropsResults
    <2>1. MessagesApart' /\ BoundAlive'
      BY <1>3 DEF CallerDropsResults, MessagesApart, BoundAlive, Apart
    <2>2. IndexCoherent' /\ IndexAlive' /\ HandlesIssued' /\ ResultsAlive'
      BY <1>3 DEF CallerDropsResults, tableVars, IndexCoherent, IndexAlive, HandlesIssued, ResultsAlive
    <2> QED BY <1>3, <2>1, <2>2 DEF CallerDropsResults, tableVars
  <1> QED BY <1>1, <1>2, <1>3

LEMMA BeginIInv ==
    ASSUME IInv, BeginEval \/ BeginBareEval \/ MarshalFails
    PROVE  IInv'
  <1>1. CASE BeginEval
    <2>1. MessagesApart' /\ BoundAlive' /\ IndexCoherent' /\ IndexAlive' /\ ResultsAlive' /\ msgSlots' = Empty
      BY <1>1, ResetFacts DEF BeginEval
    <2>2. handles' = {} /\ program' = program
      BY <1>1 DEF BeginEval
    <2>3. HandlesIssued'
      BY <2>2 DEF HandlesIssued
    <2>4. (pc' = "marshal" /\ program = "bound") \/ pc' = "run"
      BY <1>1 DEF BeginEval
    <2> QED BY <2>1, <2>2, <2>3, <2>4 DEF IInv
  <1>2. CASE BeginBareEval
    <2>1. MessagesApart' /\ BoundAlive' /\ IndexCoherent' /\ ResultsAlive'
      BY <1>2 DEF BeginBareEval, tableVars, IInv, MessagesApart, Apart, BoundAlive, IndexCoherent, ResultsAlive
    <2>2. IndexAlive' /\ HandlesIssued'
      BY <1>2 DEF BeginBareEval, tableVars, IInv, IndexAlive, HandlesIssued
    <2> QED BY <1>2, <2>1, <2>2 DEF BeginBareEval, tableVars, IInv
  <1>3. CASE MarshalFails
    <2>1. MessagesApart' /\ BoundAlive' /\ IndexCoherent' /\ ResultsAlive'
      BY <1>3 DEF MarshalFails, tableVars, IInv, MessagesApart, Apart, BoundAlive, IndexCoherent, ResultsAlive
    <2>2. IndexAlive' /\ HandlesIssued'
      BY <1>3 DEF MarshalFails, tableVars, IInv, IndexAlive, HandlesIssued
    <2> QED BY <1>3, <2>1, <2>2 DEF MarshalFails, tableVars, IInv
  <1> QED BY <1>1, <1>2, <1>3

LEMMA MarshalIInv ==
    ASSUME IInv, Marshal
    PROVE  IInv'
  <1>1. PICK m \in boundMsg : Interned(m.at, {}, m, "msg")
    BY DEF Marshal, Interned
  <1>2. m \in msgs /\ m \in Message /\ m.owner # "result"
    BY DEF IInv, BoundAlive, MessagesApart
  <1>3. msgs' = msgs \cup {m} /\ births' \in Nat
    BY <1>2 DEF Marshal, IInv, MessagesApart
  <1>4. pc = "marshal" /\ pc' = "run" /\ UNCHANGED <<program, boundMsg, lists, listSlots, results>>
    BY DEF Marshal
  <1>5. {} \subseteq {m} /\ \A x \in {} : x.owner = "table"
    OBVIOUS
  <1> QED BY <1>1, <1>2, <1>3, <1>4, <1>5, InternStep

\* A fresh message lies at no address the table knows: it gets a slot of its
\* own and is not dropped.
LEMMA MakeIInv ==
    ASSUME IInv, CelMakeMessage
    PROVE  IInv'
  <1>1. PICK m \in Allocate("table", msgs) :
          Interned(m.at, {m}, m, "msg") /\ msgs' = (msgs \cup {m}) \ Intern(m.at, {m}).drops
    BY DEF CelMakeMessage, Interned
  <1>2. /\ m \in Message /\ m.owner = "table" /\ m.at # m.sub
        /\ m.at \notin Places(msgs)
        /\ \A n \in msgs : n # m /\ Apart(m, n) /\ Apart(n, m)
    BY AllocateApart DEF IInv
  <1>3. m.at \notin DOMAIN msgSlots
    BY <1>2 DEF CelMakeMessage, IInv, IndexAlive, Places
  <1>4. msgs' = msgs \cup {m}
    <2>1. Intern(m.at, {m}).drops = {}
      BY <1>3 DEF Intern
    <2> QED BY <1>1, <2>1
  <1>5. births' \in Nat
    BY DEF CelMakeMessage, IInv, MessagesApart
  <1>6. MessagesApart'
    BY <1>2, <1>4, <1>5 DEF IInv, MessagesApart, Apart
  <1> QED BY <1>1, <1>2, <1>3, <1>4, <1>5, <1>6, InternStep DEF CelMakeMessage

\* What a handle of the messages leads to is what it was issued for.
LEMMA LookupIssued ==
    ASSUME IInv, pc = "run", NEW h \in handles, NEW m \in Lookup(h)
    PROVE  m \in msgs /\ m \in Message /\ m.owner # "result"
  <1>1. PICK n \in msgs : n.owner # "result" /\ Issued(h, n)
    BY DEF IInv, HandlesIssued
  <1>2. m \in msgs /\ h.table = "msg" /\ m.at = backings[h.slot].at
    BY DEF Lookup
  <1>3. m.at \in {n.at, n.sub}
    BY <1>1, <1>2 DEF Issued
  <1>4. m = n
    BY <1>1, <1>2, <1>3 DEF IInv, MessagesApart, Apart
  <1> QED BY <1>1, <1>2, <1>4 DEF IInv, MessagesApart

LEMMA SelectNestedIInv ==
    ASSUME IInv, SelectNested
    PROVE  IInv'
  <1>1. PICK h \in handles : \E m \in Lookup(h) : Interned(m.sub, {}, m, "sub")
    BY DEF SelectNested, InternProtoMessage, Interned
  <1>2. PICK m \in Lookup(h) : Interned(m.sub, {}, m, "sub")
    BY <1>1
  <1>3. m \in msgs /\ m \in Message /\ m.owner # "result" /\ m.at # m.sub
    BY LookupIssued DEF SelectNested, IInv, MessagesApart
  <1>4. msgs' = msgs \cup {m} /\ births' \in Nat
    BY <1>3 DEF SelectNested, IInv, MessagesApart
  <1> QED BY <1>2, <1>3, <1>4, InternStep DEF SelectNested

LEMMA SelectListIInv ==
    ASSUME IInv, SelectList
    PROVE  IInv'
  <1>1. PICK h \in handles : \E m \in Lookup(h) :
          LET r == InternProtoListField(m.at) IN
          /\ lists' = r.lists /\ listSlots' = r.listSlots
          /\ handles' = handles \cup {[table |-> "list", slot |-> r.slot, of |-> <<m.id, "msg">>]}
    BY DEF SelectList
  <1>2. PICK m \in Lookup(h) :
          LET r == InternProtoListField(m.at) IN
          /\ lists' = r.lists /\ listSlots' = r.listSlots
          /\ handles' = handles \cup {[table |-> "list", slot |-> r.slot, of |-> <<m.id, "msg">>]}
    BY <1>1
  <1>3. m \in msgs /\ m \in Message /\ m.owner # "result" /\ m.at \in Addrs
    BY LookupIssued DEF SelectList, Message
  <1> DEFINE r == InternProtoListField(m.at)
  <1>4. /\ r.lists \in Seq(Addrs)
        /\ r.slot \in DOMAIN r.lists /\ r.lists[r.slot] = m.at
        /\ \A n \in DOMAIN lists : n \in DOMAIN r.lists /\ r.lists[n] = lists[n]
        /\ \A q \in DOMAIN r.listSlots :
             r.listSlots[q] \in DOMAIN r.lists /\ r.lists[r.listSlots[q]] = q
    BY <1>3, InternListFacts DEF IInv
  <1>5. /\ lists' = r.lists /\ listSlots' = r.listSlots
        /\ handles' = handles \cup {[table |-> "list", slot |-> r.slot, of |-> <<m.id, "msg">>]}
    BY <1>2
  <1> HIDE DEF r
  <1>6. MessagesApart' /\ BoundAlive' /\ IndexAlive' /\ ResultsAlive'
    BY DEF SelectList, IInv, MessagesApart, Apart, BoundAlive, IndexAlive, ResultsAlive
  <1>7. IndexCoherent'
    BY <1>4, <1>5 DEF SelectList, IInv, IndexCoherent
  <1>8. HandlesIssued'
    <2> SUFFICES ASSUME NEW g \in handles' PROVE \E x \in msgs' : x.owner # "result" /\ Issued(g, x)'
      BY DEF HandlesIssued
    <2>1. CASE g \in handles
      <3>1. PICK x \in msgs : x.owner # "result" /\ Issued(g, x)
        BY <2>1 DEF SelectList, IInv, HandlesIssued
      <3>2. Issued(g, x)'
        BY <3>1, <1>4, <1>5 DEF SelectList, Issued
      <3> QED BY <3>1, <3>2 DEF SelectList
    <2>2. CASE g = [table |-> "list", slot |-> r.slot, of |-> <<m.id, "msg">>]
      <3>1. Issued(g, m)'
        BY <2>2, <1>4, <1>5 DEF Issued
      <3> QED BY <3>1, <1>3 DEF SelectList
    <2> QED BY <2>1, <2>2, <1>5
  <1> QED BY <1>6, <1>7, <1>8 DEF SelectList, IInv

LEMMA ReturnIInv ==
    ASSUME IInv, ReturnScalar \/ ReturnMessage \/ ReturnList
    PROVE  IInv'
  <1>1. CASE ReturnScalar
    <2>1. MessagesApart' /\ BoundAlive' /\ IndexCoherent' /\ ResultsAlive'
      BY <1>1 DEF ReturnScalar, tableVars, IInv, MessagesApart, Apart, BoundAlive, IndexCoherent, ResultsAlive
    <2>2. IndexAlive' /\ HandlesIssued'
      BY <1>1 DEF ReturnScalar, tableVars, IInv, IndexAlive, HandlesIssued
    <2> QED BY <1>1, <2>1, <2>2 DEF ReturnScalar, tableVars, IInv
  <1>2. CASE ReturnMessage
    <2>1. PICK h \in handles : \E copy \in Allocate("result", msgs) :
            /\ msgs' = msgs \cup {copy}
            /\ results' = results \cup {DecodeHostMessageAt(backings[h.slot].at, copy)}
      BY <1>2 DEF ReturnMessage
    <2>2. PICK copy \in Allocate("result", msgs) :
            /\ msgs' = msgs \cup {copy}
            /\ results' = results \cup {DecodeHostMessageAt(backings[h.slot].at, copy)}
      BY <2>1
    <2>3. MessagesApart'
      BY <1>2, <2>2, AllocateApart DEF ReturnMessage, IInv, MessagesApart, Apart
    <2>4. BoundAlive' /\ IndexCoherent' /\ IndexAlive' /\ HandlesIssued'
      BY <1>2, <2>2 DEF ReturnMessage, tableVars, IInv, BoundAlive, IndexCoherent, IndexAlive, HandlesIssued
    <2>5. ResultsAlive'
      <3>1. copy \in msgs' /\ copy.owner = "result"
        BY <2>2, AllocateApart DEF IInv
      <3> QED BY <2>2, <3>1 DEF IInv, ResultsAlive, DecodeHostMessageAt
    <2> QED BY <1>2, <2>3, <2>4, <2>5 DEF ReturnMessage, tableVars, IInv
  <1>3. CASE ReturnList
    <2>1. MessagesApart' /\ BoundAlive' /\ IndexCoherent'
      BY <1>3 DEF ReturnList, tableVars, IInv, MessagesApart, Apart, BoundAlive, IndexCoherent
    <2>2. IndexAlive' /\ HandlesIssued'
      BY <1>3 DEF ReturnList, tableVars, IInv, IndexAlive, HandlesIssued
    <2>3. ResultsAlive'
      BY <1>3 DEF ReturnList, IInv, ResultsAlive
    <2> QED BY <1>3, <2>1, <2>2, <2>3 DEF ReturnList, tableVars, IInv
  <1> QED BY <1>1, <1>2, <1>3

LEMMA NextIInv == IInv /\ [Next]_vars => IInv'
  <1> SUFFICES ASSUME IInv, [Next]_vars PROVE IInv'
    OBVIOUS
  <1>1. CASE UNCHANGED vars
    <2>1. MessagesApart' /\ BoundAlive' /\ IndexCoherent' /\ ResultsAlive'
      BY <1>1 DEF vars, IInv, MessagesApart, Apart, BoundAlive, IndexCoherent, ResultsAlive
    <2>2. IndexAlive' /\ HandlesIssued'
      BY <1>1 DEF vars, IInv, IndexAlive, HandlesIssued, Issued
    <2> QED BY <1>1, <2>1, <2>2 DEF vars, IInv
  <1> QED
    BY <1>1, CallerIInv, BeginIInv, MarshalIInv, MakeIInv, SelectNestedIInv, SelectListIInv, ReturnIInv
    DEF Next

-----------------------------------------------------------------------------
(* The theorems *)

\* The inductive invariant holds of HostExternrefTable, the messages and the
\* caller's results in every behaviour: what is indexed is alive and indexed
\* under its own address, and addresses of live messages are apart.
THEOREM Invariance == Spec => []IInv
  BY InitIInv, NextIInv, PTL DEF Spec

\* In every evaluation of every behaviour, a handle leads to the message it was
\* issued for: the dedup by address of HostExternrefTable never answers with a
\* stale entry.
THEOREM HandlesAlwaysResolve == Spec => []HandlesResolve
  <1>1. IInv => HandlesResolve
    <2> SUFFICES ASSUME IInv, pc = "run", NEW h \in handles
                 PROVE  UNION {At(a) : a \in Targets(h)} = {h.of}
      BY DEF HandlesResolve
    <2>1. PICK m \in msgs : Issued(h, m)
      BY DEF IInv, HandlesIssued
    <2>2. At(m.at) = {<<m.id, "msg">>} /\ At(m.sub) = {<<m.id, "sub">>}
      BY AtUnique DEF IInv
    <2>3. \/ Targets(h) = {m.at} /\ h.of = <<m.id, "msg">>
          \/ Targets(h) = {m.sub} /\ h.of = <<m.id, "sub">>
      BY <2>1 DEF Issued, Targets
    <2> QED BY <2>2, <2>3
  <1> QED BY <1>1, Invariance, PTL

\* A message returned to the caller is the caller's: no later Reset and no free
\* of a bound message touches it (DecodeHostMessageAt copies).
THEOREM ResultsStayOwned == Spec => []MessageResultsOwned
  <1>1. IInv => MessageResultsOwned
    BY AtUnique DEF IInv, ResultsAlive, MessageResultsOwned
  <1> QED BY <1>1, Invariance, PTL
=============================================================================
