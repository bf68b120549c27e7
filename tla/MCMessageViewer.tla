--------------------------- MODULE MCMessageViewer ---------------------------
(* Two messages, one with a traceback over two files, one without, for TLC. *)
EXTENDS MessageViewer

MCNoFile == ""
MCFiles == {"a.c", "gone.c"}
MCMissing == {"gone.c"}
A == [file |-> "a.c", line |-> 1]
B == [file |-> "gone.c", line |-> 1]
C == [file |-> "a.c", line |-> 2]

MCPriority(site) == IF site.line = 2 THEN 1 ELSE 0

\* A folder that appears late, before others; one in grey, not selected by default.
MCDeclarations == {<<"hide", "disable", "show">>}

MCTexts == {[lines |-> 1, traceback |-> << A >>], [lines |-> 2, traceback |-> << B, C >>]}
=============================================================================
