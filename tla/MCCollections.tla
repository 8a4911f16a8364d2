---------------------------- MODULE MCCollections ----------------------------
(* Bounds: integers of 4 bits and doubles of 2 bits of precision, so that 5  *)
(* is no double and equals 4.0 under ==; groups of 2 slots and an index from *)
(* 2 entries on, so that probes collide, wrap and go to further groups; a    *)
(* mixer that is any function to two starting slots and two control bytes; *)
(* arenas with room for everything and with room for parts of it.           *)
EXTENDS Collections

MCKeys == {AnInt(1), AnUint(1), AnInt(5), AString("a"), ADouble(2)}
MCQueries == {AnInt(1), AnInt(5), AString("a"), ADouble(2), ADouble(3), ADouble(8)}
MCVals == {AnInt(0), AnInt(1), Unknown}
MCPreds == {ABool(TRUE), ABool(FALSE), AnErr("pred")}

ArenaMap(e) == [kind |-> "map", origin |-> "arena", e |-> e]
HostMap(e) == [kind |-> "map", origin |-> "host", e |-> e]
E1 == Entry(AnInt(1), AnInt(0))
E5 == Entry(AnInt(5), AnInt(1))
MCSources ==
    {Unknown, AnErr("range")}
      \cup {[kind |-> "list", origin |-> o, e |-> e] :
              o \in {"arena", "host"}, e \in {<<>>, <<AnInt(0), AnInt(1)>>}}
      \cup {[kind |-> "map", origin |-> o, e |-> e] :
              o \in {"arena", "host"}, e \in {<<>>, <<E1, E5>>}}
MCMerged == {AnErr("entry"), Null, ArenaMap(<<>>), ArenaMap(<<E5, E1>>), HostMap(<<E1, E5>>)}

\* Small and indexed ones, some with keys that agree or are no keys.
MCConstants ==
    {[i \in 1 .. Len(ks) |-> Entry(ks[i], AnInt(IF i = 1 THEN 0 ELSE 1))] :
       ks \in {<<AnInt(1)>>, <<AnInt(1), AnUint(1)>>, <<AString("a"), AnUint(1)>>, <<ADouble(2), AnInt(5)>>,
              <<AnInt(5), AString("a"), AnInt(1)>>, <<AnInt(1), AnInt(5), AString("a")>>}}

MCRooms == {16, 40, 112, 1000}

Stored == {<<"int", 1>>, <<"int", 5>>, <<"string", "a">>}
Asked == {<<"int", 4>>, Sentinel}
MCHashes ==
    LET H == {[h1 |-> a, h2 |-> b] : a \in {0, 7}, b \in {0, 1}}
    IN  {[t \in Stored \cup Asked |-> IF t \in Stored THEN f[t] ELSE g] :
            f \in [Stored -> H], g \in {[h1 |-> 7, h2 |-> 1]}}
=============================================================================
