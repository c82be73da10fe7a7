--------------------------- MODULE MCPaperSearch ---------------------------
(***************************************************************************)
(* Small instances of PaperSearch.                                         *)
(***************************************************************************)
EXTENDS PaperSearch

CONSTANTS p1, p2, p3, q1, q2

MCPapers3 == {p1, p2, p3}
MCPapers2 == {p1, p2}
MCQueries1 == {q1}
MCQueries2 == {q1, q2}
MCAbstractless == {p3}
=============================================================================
