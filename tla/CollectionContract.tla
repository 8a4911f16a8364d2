-------------------------- MODULE CollectionContract --------------------------
(***************************************************************************)
(* What the construction of a collection promises: a dictionary from keys  *)
(* to values or a sequence of items is filled, one step at a time, and     *)
(* answers questions once it is complete.  A failure replaces the          *)
(* collection for good, and a key given twice is one: that is what a       *)
(* literal does and what the repository's test asserts of a comprehension. *)
(* The code departs from it outside plain literals, in the step            *)
(* KnownBugCELW0011, which a strict dictionary does not take.              *)
(***************************************************************************)
EXTENDS Integers, Sequences, FiniteSets

VARIABLES stage, strict, content, answer

vars == <<stage, strict, content, answer>>

Dict(f) == [is |-> "dict", at |-> f]
Items(s) == [is |-> "items", of |-> s]
Failure(p) == [is |-> "failure", by |-> p]
NoAnswer == [q |-> "none", n |-> 0]
EmptyDict == Dict([n \in {} |-> n])

\* The value a dictionary has for a name, as a set of at most one.
ValueOf(f, n) == IF n \in DOMAIN f THEN {f[n]} ELSE {}

Init ==
    /\ stage = "none" /\ strict \in BOOLEAN
    /\ content = Items(<<>>) /\ answer = NoAnswer

Begin ==
    /\ stage = "none" /\ stage' \in {"open", "closed"}
    /\ content' \in {EmptyDict, Items(<<>>)} \/ content'.is = "failure"
    /\ UNCHANGED <<strict, answer>>

\* A constant is there whole.
Given ==
    /\ stage = "none" /\ stage' = "closed" /\ content'.is \in {"dict", "items"}
    /\ UNCHANGED <<strict, answer>>

\* New entries go under new names; no entry changes.
Put ==
    /\ stage = "open" /\ content.is = "dict" /\ content'.is = "dict"
    /\ DOMAIN content.at \subseteq DOMAIN content'.at
    /\ \A n \in DOMAIN content.at : content'.at[n] = content.at[n]
    /\ UNCHANGED <<stage, strict, answer>>

\* The departure.  A second value under a name should be a failure
\* (src/e2e/known_bugs_test.cc:522-555, which is skipped); in the entries of
\* comprehensions and in optional entries it silently replaces the first.
KnownBugCELW0011 ==
    /\ ~strict /\ stage = "open" /\ content.is = "dict" /\ content'.is = "dict"
    /\ DOMAIN content.at \subseteq DOMAIN content'.at
    /\ \E n \in DOMAIN content.at : content'.at[n] # content.at[n]
    /\ UNCHANGED <<stage, strict, answer>>

Add ==
    /\ stage = "open" /\ content.is = "items" /\ content'.is = "items"
    /\ Len(content'.of) = Len(content.of) + 1
    /\ \A i \in 1 .. Len(content.of) : content'.of[i] = content.of[i]
    /\ UNCHANGED <<stage, strict, answer>>

Fail ==
    /\ stage = "open" /\ content.is # "failure" /\ content'.is = "failure"
    /\ stage' \in {"open", "closed"} /\ UNCHANGED <<strict, answer>>

Close == stage = "open" /\ stage' = "closed" /\ UNCHANGED <<strict, content, answer>>

\* Nothing but the content decides an answer, and asking does not change it.
AskDict(n) ==
    /\ stage = "closed" /\ content.is = "dict"
    /\ answer' = [q |-> "key", n |-> n, found |-> ValueOf(content.at, n),
                  size |-> Cardinality(DOMAIN content.at)]
    /\ UNCHANGED <<stage, strict, content>>

AskItems(i) ==
    /\ stage = "closed" /\ content.is = "items"
    /\ answer' = [q |-> "at", n |-> i,
                  found |-> IF i \in 1 .. Len(content.of) THEN {content.of[i]} ELSE {},
                  size |-> Len(content.of)]
    /\ UNCHANGED <<stage, strict, content>>

Next ==
    \/ Begin \/ Given \/ Put \/ KnownBugCELW0011 \/ Add \/ Fail \/ Close
    \/ AskDict(answer'.n) \/ AskItems(answer'.n)

Spec == Init /\ [][Next]_vars
=============================================================================
