------------------------------ MODULE MCClangd -------------------------------
(* A compile database that lists one file twice and has more files than one *)
(* batch, and than one build may open.                                      *)
EXTENDS ClangdSession

CONSTANTS f1, f2, f3, f4

Listed == <<f1, f2, f1, f3, f4>>
==============================================================================
