---------------------------- MODULE MCSlotLayout ----------------------------
(* Expressions for SlotLayout: every combination of the constructors up to  *)
(* two levels, with the macros expanded as cel-cpp expands them, and        *)
(* expressions that use a name twice.                                       *)
EXTENDS SlotLayout

\* A node with op o and name nm over the trees ts.
Named(o, nm, ts) ==
    FoldLeft(LAMBDA acc, t :
               LET d == Len(acc.op) IN
               [op |-> acc.op \o t.op,
                name |-> acc.name \o t.name,
                kids |-> <<Append(acc.kids[1], d + 1)>> \o Tail(acc.kids) \o
                         [i \in 1 .. Len(t.kids) |->
                            [j \in 1 .. Len(t.kids[i]) |-> t.kids[i][j] + d]]],
             [op |-> <<o>>, name |-> <<nm>>, kids |-> <<<<>>>>], ts)
Mk(o, ts) == Named(o, <<>>, ts)

Const   == Mk("const", <<>>)
Var(nm) == Named("ident", <<nm>>, <<>>)
Ident   == Var("w")
Iter    == Var("v")
Accu    == Var("@result")
MapVar  == Var("m")
Global  == Named("ident", <<".", "v">>, <<>>)

Source(r) == IF r.op[1] = "map" \/ r = MapVar THEN "map" ELSE "list"
Comp(i1, i2, a, r, i, c, s, x) ==
    Named("comp", [iter |-> i1, iter2 |-> i2, accu |-> a, source |-> Source(r)], <<r, i, c, s, x>>)
One(r, i, c, s, x) == Comp("v", "", "@result", r, i, c, s, x)
Two(r, i, c, s, x) == Comp("k", "v", "@result", r, i, c, s, x)
Guarded(p, b) == Mk("cond", <<p, b, Accu>>)

Exists(r, p) == One(r, Const, Mk("call", <<Mk("call", <<Accu>>)>>), Mk("call", <<Accu, p>>), Accu)
ExistsOne(r, p) ==
    One(r, Const, Const, Guarded(p, Mk("add", <<Accu, Const>>)), Mk("call", <<Accu, Const>>))
MapEach(r, e) == One(r, Mk("list", <<>>), Const, Mk("add", <<Accu, Mk("list", <<e>>)>>), Accu)
Filter(r, p) ==
    One(r, Mk("list", <<>>), Const, Guarded(p, Mk("add", <<Accu, Mk("list", <<Iter>>)>>)), Accu)
TransformMap(r, p, e) ==
    Two(r, Mk("map", <<>>), Const, Guarded(p, Mk("put", <<Accu, Var("k"), e>>)), Accu)
TransformEntry(r, k, e) ==
    Two(r, Mk("map", <<>>), Const, Mk("put", <<Accu, Mk("map", <<k, e, e, k>>)>>), Accu)
TransformEntryIf(r, p, e) ==
    Two(r, Mk("map", <<>>), Const, Guarded(p, Mk("put", <<Accu, e>>)), Accu)
\* cel.bind(v, x, b)
Bind(x, b) == Comp("#unused", "", "v", Mk("list", <<>>), x, Const, Iter, b)

\* Scalars and messages, lists, and maps, one level above S and L.
Scalars(S, L) ==
    {Mk("select", <<s>>) : s \in S} \cup {Mk("dyn", <<s>>) : s \in S} \cup
    {Mk("call", <<s, t>>) : s \in S, t \in S} \cup
    {Mk("cond", <<s, t, Mk("select", <<Ident>>)>>) : s \in S, t \in S} \cup
    {Mk("struct", <<s, t>>) : s \in S, t \in S} \cup
    {Mk("call", <<l, s>>) : l \in L, s \in S} \cup
    {Exists(l, s) : l \in L, s \in S} \cup {ExistsOne(l, s) : l \in L, s \in S} \cup
    {Bind(s, Mk("call", <<Iter, t>>)) : s \in S, t \in S}
Lists(S, L) ==
    {Mk("list", <<s, t>>) : s \in S, t \in S} \cup
    {MapEach(l, s) : l \in L, s \in S} \cup {Filter(l, s) : l \in L, s \in S} \cup
    {Bind(l, Iter) : l \in L}
Maps(S, L) ==
    {Mk("map", <<s, t>>) : s \in S, t \in S} \cup
    {TransformMap(l, s, t) : l \in L, s \in S, t \in S} \cup
    {TransformEntry(l, s, t) : l \in L, s \in S, t \in S} \cup
    {TransformEntryIf(l, s, Mk("map", <<s, t>>)) : l \in L, s \in S, t \in S} \cup
    {TransformEntryIf(l, s, Mk("call", <<t>>)) : l \in L, s \in S, t \in S} \cup
    {TransformEntryIf(l, s, Mk("map", <<>>)) : l \in L, s \in S}

S1 == Scalars({Ident}, {Ident})
L1 == Lists({Const}, {Ident}) \cup Lists({Ident}, {Ident}) \cup {MapVar}

\* Two levels of every constructor but the map macros, and those over one level.
TwoLevels == Scalars(S1, L1) \cup Lists(S1, L1) \cup
             Maps({Iter, Mk("select", <<Ident>>), Mk("call", <<Var("k"), Iter>>)}, L1)

\* Inner and outer variables of one name, read inside, between and outside.
Both == {Iter, Global, Mk("call", <<Iter, Global>>)}
Shadowing ==
    LET inner == {Exists(r, b) : r \in {Iter, MapVar}, b \in Both} \cup
                 {Bind(Mk("select", <<Iter>>), b) : b \in Both} \cup
                 {MapEach(Iter, Mk("call", <<Iter, Accu>>))}
    IN  {Mk("call", <<f, Iter>>) : f \in
            {Exists(r, Mk("call", <<Iter, e>>)) : r \in {Iter, MapVar}, e \in inner} \cup
            {Bind(Mk("select", <<Iter>>), Mk("call", <<e, Iter>>)) : e \in inner} \cup
            {ExistsOne(MapVar, Mk("call", <<e, Iter>>)) : e \in inner}}

\* A loop condition that no macro makes.
Odd == {One(r, Const, Mk("call", <<Iter>>), Mk("call", <<Accu, Iter>>), x) :
          r \in {Ident, Mk("dyn", <<Exists(Ident, Iter)>>)}, x \in {Accu, Mk("dyn", <<Exists(Ident, Iter)>>)}}

Expressions == TwoLevels \cup Shadowing \cup Odd

=============================================================================
