---------------------------- MODULE MCSourceFiles ----------------------------
(* Small instance of SourceFiles: one file is on every path, the other only on *)
(* the path the user may change to.                                            *)
EXTENDS SourceFiles

CONSTANTS f1, f2, p1, p2

MCExists == {<<f1, p1>>, <<f1, p2>>, <<f2, p2>>}
MCNone == {}
MCOneBad == {f1}
==============================================================================
