---------------------------- MODULE EvalContract ----------------------------
(***************************************************************************)
(* What Instance::Eval(activation) and Instance::PartialEval promise an    *)
(* embedder, with no slots, buffers, handle tables or budgets: a call sees *)
(* the values the activation denotes now, each lazy binder produces at     *)
(* most one value per call, an opaque variable is unknown, and nothing of  *)
(* an earlier call shows.                                                  *)
(***************************************************************************)
EXTENDS Naturals

CONSTANTS
    Vars,      \* the variables the program declares
    Built,     \* what a program builds itself
    Values,    \* what the caller binds and the binders produce
    Lazy,      \* the name has a lazy binder
    None       \* no value

VARIABLES
    bound,     \* name -> the value bound, Lazy, or None
    memo,      \* name -> what its binder produced in this call, or None
    mode,      \* "idle", "busy" (with an activation) or "bare" (without)
    opaque,    \* the variables this call's patterns blank
    outcome    \* what the last call returned, while none is in progress

cvars == <<bound, memo, mode, opaque, outcome>>

\* What a variable denotes in the current call.
Denotes(v) == IF bound[v] = Lazy THEN memo[v] ELSE bound[v]

NoOutcome == [status |-> "none", var |-> None, value |-> None]
Failed    == [status |-> "error", var |-> None, value |-> None]
Computed  == [status |-> "ok", var |-> None, value |-> None]

CInit ==
    /\ bound = [v \in Vars |-> None] /\ memo = [v \in Vars |-> None]
    /\ mode = "idle" /\ opaque = {} /\ outcome = NoOutcome

Rebind ==
    /\ mode = "idle"
    /\ \E v \in Vars, x \in Values \cup {Lazy} :
         bound' = [bound EXCEPT ![v] = x] /\ memo' = [memo EXCEPT ![v] = None]
    /\ UNCHANGED <<mode, opaque, outcome>>

Call ==
    /\ mode = "idle"
    /\ mode' = "busy"
    /\ opaque' \in SUBSET Vars
    /\ memo' = [v \in Vars |-> None]
    /\ outcome' = NoOutcome
    /\ UNCHANGED bound

CallBare ==
    /\ mode = "idle"
    /\ mode' = "bare"
    /\ outcome' = NoOutcome
    /\ UNCHANGED <<bound, memo, opaque>>

\* The binder of a lazy variable that is not opaque produces its value.
Produce ==
    \E v \in Vars \ opaque, x \in Values :
        bound[v] = Lazy /\ memo[v] = None /\ memo' = [memo EXCEPT ![v] = x]

RunBinder ==
    /\ mode = "busy"
    /\ Produce
    /\ UNCHANGED <<bound, mode, opaque, outcome>>

\* The result is a variable's value, an unknown, or something computed.
Return ==
    /\ mode = "busy"
    /\ mode' = "idle"
    /\ opaque' = {}
    /\ \/ outcome' = Computed
       \/ \E v \in opaque : outcome' = [status |-> "unknown", var |-> v, value |-> None]
       \/ \E v \in Vars \ opaque :
            /\ Denotes(v) # None
            /\ outcome' = [status |-> "ok", var |-> v, value |-> Denotes(v)]
    /\ UNCHANGED <<bound, memo>>

\* The call fails, perhaps on what a binder has just produced.
Fail ==
    /\ mode = "busy"
    /\ mode' = "idle"
    /\ opaque' = {}
    /\ outcome' = Failed
    /\ Produce \/ UNCHANGED memo
    /\ UNCHANGED bound

\* Eval() finds the slots as the last marshal left them and the buffer they
\* point into as later ones did: nothing is promised, not even that an unknown
\* names a variable.
ReturnBare ==
    /\ mode = "bare"
    /\ mode' = "idle"
    /\ outcome' \in [status : {"ok", "unknown", "error"}, var : Vars \cup Values \cup {Built, None},
                     value : Vars \cup Values \cup {Built, None}]
    /\ UNCHANGED <<bound, memo, opaque>>

CNext == Rebind \/ Call \/ CallBare \/ RunBinder \/ Return \/ Fail \/ ReturnBare

CSpec == CInit /\ [][CNext]_cvars

=============================================================================
