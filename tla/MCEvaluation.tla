---------------------------- MODULE MCEvaluation ----------------------------
(***************************************************************************)
(* Two programs: one declares a string and a message, one an int and a     *)
(* list.                                                                   *)
(***************************************************************************)
EXTENDS Evaluation

Val(kind, content, wraps, size) ==
    [kind |-> kind, content |-> content, wraps |-> wraps, size |-> size]

MCVarSeq == <<"a", "b">>
Declares(ra, rb) == [v \in {"a", "b"} |-> IF v = "a" THEN ra ELSE rb]
MCPrograms == {Declares("bytes", "message"), Declares("scalar", "list")}
MCValues == {Val("bytes", "abc", "none", 3), Val("message", "wrapped", "bytes", 9),
             Val("message", "boxed7", "scalar", 0), Val("list", "xs", "none", 0)}
MCPatterns == {{}, {"b"}, {"a", "b"}}

=============================================================================
