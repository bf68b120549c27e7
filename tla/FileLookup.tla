------------------------------ MODULE FileLookup ------------------------------
(* What a search path promises to the code that looks for a file: the file is  *)
(* taken from the first entry of the path that leads to it, it is reported      *)
(* missing only when no entry does, and the search ends early only when the     *)
(* user cancelled it.  SearchPath implements this specification.                *)
EXTENDS Naturals, Sequences

CONSTANTS Lists,            \* the search paths that may be set
          Holds(_, _, _)    \* Holds(h, list, i): entry i of list leads to the file

VARIABLES list,    \* the entries of the search path
          holds,   \* the directories that hold the file
          outcome  \* [end, entry] of the search, end = "running" before it is over

Running == [end |-> "running", entry |-> 0]

Init == list \in Lists /\ outcome = Running

Leading == {i \in DOMAIN list : Holds(holds, list, i)}

Find == \E i \in Leading : /\ \A j \in Leading : i <= j
                           /\ outcome' = [end |-> "found", entry |-> i]
Miss == Leading = {} /\ outcome' = [end |-> "missing", entry |-> 0]
Cancel == outcome' = [end |-> "canceled", entry |-> 0]

Next == /\ outcome = Running
        /\ Find \/ Miss \/ Cancel
        /\ UNCHANGED <<list, holds>>

Spec == Init /\ [][Next]_<<list, holds, outcome>>
===============================================================================
