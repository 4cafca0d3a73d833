----------------------------- MODULE MCSourceGet -----------------------------
(* Two projects and a package of two files.                                *)
EXTENDS SourceGet

CONSTANTS p1, p2, u1, u2, n1, n2

MCProjects == {p1, p2}
MCUrls     == {u1, u2}
MCNames    == {n1, n2}
MCDistinct == [u \in MCUrls |-> IF u = u1 THEN n1 ELSE n2]
=============================================================================
