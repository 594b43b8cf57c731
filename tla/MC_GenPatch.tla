----------------------------- MODULE MC_GenPatch -----------------------------
(* Two vendored files and two commits; the file at commit c2 is a content *)
(* a vendored file may be edited to, so that a commit move or an edit can *)
(* make a file equal to its upstream.                                     *)
EXTENDS GenPatch

MCFileSeq == <<"f1", "f2">>

MCUpstream(v) == IF v = "c1" THEN "up1" ELSE "up2"

=============================================================================
