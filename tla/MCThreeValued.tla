--------------------------- MODULE MCThreeValued ---------------------------
(***************************************************************************)
(* cel_3vl.c for TLC.  A behaviour is a program over the kernels, or a     *)
(* chain of merges taken iteration by iteration: the kernels see of a merge*)
(* only its result, so the two never have to be interleaved.               *)
(***************************************************************************)
EXTENDS ThreeValued, UnknownMerge, SequencesExt

CONSTANT MergeIds   \* the ids that merges are tried with

\* Strict kernels: equality, and one that wants no bool.
Equals == [x \in Plain |-> [y \in Plain |-> IF x = y THEN "true" ELSE "false"]]
Adds == [x \in Plain |-> [y \in Plain |-> IF x = "other" /\ y = "other" THEN "other" ELSE "error"]]
MCStrictOps == {Equals, Adds}

\* Every sorted id array.
MCInputs == {SetToSortSeq(S, <) : S \in SUBSET MergeIds}

NoMerge == pc = "done" /\ ids_a = <<>> /\ ids_b = <<>>

RunInit == Init /\ MergeInit
RunNext ==
    \/ NoMerge /\ Next /\ UNCHANGED mergeVars
    \/ ops = 0 /\ MergeNext /\ UNCHANGED vars

RunSpec == RunInit /\ [][RunNext]_<<vars, mergeVars>> /\ WF_mergeVars(Step)

=============================================================================
