------------------------------ MODULE MergeRules -------------------------------
(***************************************************************************)
(* merge_to_main with the two texts it reads, conflicts in the cumulative  *)
(* document and the reviewers' verdicts: what must be so whatever state    *)
(* the servers are in, looked at in the first one.                         *)
(***************************************************************************)
EXTENDS MergeToMain, CumulativeMd, VerdictFile

(* A conflict of rows that no branch edited, once resolved, has what either *)
(* branch added and nothing else, is the same document whichever branch is  *)
(* rebased on the other, and leaves the protected head and foot alone       *)
(* (cumulative_md.rs 82-188).                                               *)
MdKeepsBothSides == Init => ResolutionsKeep

(* What the gates learn of a verdict file is what its frontmatter says last, *)
(* whatever its body quotes; a finding counts only under its heading and not *)
(* in a fenced excerpt ("excerpts of someone else's code, not findings",     *)
(* extract-verdict.sh 207-217).                                              *)
VerdictsReadAsWritten == Init => ReadingsMean
==============================================================================
