---------------------------- MODULE MCSearchPath ----------------------------
(* A file system for SearchPath.  Directory A holds S and a link "al" back to  *)
(* A; S holds T, a second link "asl" to T, and L under a name too long to be   *)
(* looked at; "dot" is another name of S, as "." is.                           *)
EXTENDS SearchPath

MCNames == {"a", "as", "al", "ast", "asl", "long", "dot"}
MCDirs == {"A", "S", "T", "L"}

MCReal == [n \in MCNames |-> CASE n \in {"a", "al"} -> "A"
                               [] n \in {"as", "dot"} -> "S"
                               [] n \in {"ast", "asl"} -> "T"
                               [] n = "long" -> "L"]

MCSubdirs == [d \in MCDirs |-> CASE d = "A" -> <<"as", "al">>
                                 [] d = "S" -> <<"ast", "asl", "long">>
                                 [] d \in {"T", "L"} -> << >>]

MCBufLen == 9
MCLength == [n \in MCNames |-> IF n = "long" THEN 10 ELSE 5]
Entries == [dir : {"a", "as", "ast", "dot"}, recursive : BOOLEAN]
AllLists == UNION {[1..k -> Entries] : k \in 0..2}
OrderlyLists == {l \in AllLists : Orderly(l)}
==============================================================================
