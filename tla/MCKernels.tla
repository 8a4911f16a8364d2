------------------------------ MODULE MCKernels ------------------------------
(* Bounds: 6-bit integers and doubles of 4 bits of precision, every pair of *)
(* operands near the limits, every text of up to three digits; times of     *)
(* quarter seconds around both limits and the epoch, in every form a slot   *)
(* can hold; every day of years around leap years, centuries, eras and both *)
(* ends of the range.                                                       *)
EXTENDS Kernels

Edges == {-33, -32, -31, -17, -1, 0, 1, 2, 7, 8, 9, 15, 16, 17, 18, 29, 30, 31,
          32, 33, 59, 60, 61, 62, 63}

MCOperands ==
    {AnInt(n) : n \in Edges \cap Int64} \cup {AnUint(n) : n \in Edges \cap Uint64}
      \cup {ADouble(d) : d \in Doubles}

MCTriples ==
    {AnInt(16), AnInt(17), AnInt(18), AnUint(17), AnUint(19), ADouble(32), ADouble(36)}

MCTexts ==
    [kind : {"text"}, sign : {"", "-", "+"},
     digits : UNION {[1 .. n -> {0, 2, 3, 4, 5, 6, 10}] : n \in 0 .. 3}]

MCTsMin == -5
MCMoments == -22 .. 34

\* Around 1970, with every sign of the fraction, and fractions of more than a
\* second; and beyond both limits, where no check is made.
MCFields ==
    (-2 .. 1) \X {-5, -3, -2, 0, 1, 2, 3, 6} \cup {<<-6, 1>>, <<7, 3>>, <<8, -1>>}

MCZones ==
    {[form |-> "utc"], [form |-> "name", offsets |-> {}], [form |-> "name", offsets |-> {3600}]}
      \cup [form : {"hh:mm"}, sign : {-1, 1}, h : {0, 1, 23, 24}, m : {0, 30, 59, 60}]
MCClocks == {0, 1, 59, 60, 3599, 3600, 86399}
MCLengths == {-7200, -3601, -3600, -3599, -61, -60, -59, -1, 0, 1, 59, 60, 3599, 3600, 7199}

MCYears == {1, 2, 4, 100, 101, 399, 400, 401, 1600, 1900, 1969, 1970, 1972, 1999, 2000,
            2001, 2100, 9999}

\* Values that round to each other, a NaN, times before 1970, messages that are
\* packed, foreign and corrupt, and lists and maps of them, two levels deep.
Scalars ==
    {AnInt(1), AnUint(1), ADouble(2), AnInt(31), ADouble(64), ADouble(NaN), ABool(TRUE),
     NativeTime("timestamp", -2), NativeTime("timestamp", 3), NativeTime("duration", -2),
     [kind |-> "null"], [kind |-> "type", s |-> "int"],
     AMessage("T", "b", FALSE), AMessage("T", "b", TRUE), AMessage("T", "corrupt", TRUE),
     AMessage("custom", "b", FALSE)}
Lists == {AList("any", s) : s \in {<<>>} \cup {<<x>> : x \in Scalars}
                                    \cup {<<AnInt(1), AnUint(1)>>, <<AnInt(1), ADouble(NaN)>>}}
Maps ==
    {AMap("any", e) : e \in
       {<<>>, <<[k |-> AnInt(1), v |-> AnInt(1)]>>, <<[k |-> AnUint(1), v |-> ADouble(2)]>>,
        <<[k |-> AnInt(1), v |-> AnInt(1)], [k |-> ABool(TRUE), v |-> AnInt(31)]>>,
        <<[k |-> ABool(TRUE), v |-> ADouble(64)], [k |-> AnUint(1), v |-> AnInt(1)]>>}}
MCContents ==
    Scalars \cup Lists \cup Maps
      \cup {AList("any", <<l>>) : l \in {AList("any", <<AnInt(1)>>), AList("any", <<AnUint(1)>>)}}
      \cup {AList("any", <<m>>) : m \in Maps}
      \cup {AMap("any", <<[k |-> AnInt(1), v |-> AList("any", <<AnInt(1)>>)]>>)}
      \cup {AnOptional(<<>>), AnOptional(<<AnInt(1)>>), AnOptional(<<ADouble(2)>>),
            AnOptional(<<AMessage("custom", "b", FALSE)>>),
            AList("any", <<AnOptional(<<AnInt(1)>>)>>)}
=============================================================================
