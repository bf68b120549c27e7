------------------------------ MODULE SearchPath ------------------------------
(* The search for a source file along the user's search path: findFile and      *)
(* findFileInPath of Utils/search_path.cpp, a depth-first search of the file     *)
(* system whose recursion is the call stack of the program.                      *)
(*                                                                               *)
(* A directory has one canonical name and may have others, through symbolic      *)
(* links; Real says which directory a name leads to.  getSubdirs lists the       *)
(* names of a directory's subdirectories: the canonical name of the directory    *)
(* followed by the name of the entry, which may itself be a link.                *)
EXTENDS Naturals, Sequences, FiniteSets

CONSTANTS Names,       \* names of directories
          Dirs,        \* directories
          Real,        \* name |-> directory
          Subdirs,     \* directory |-> sequence of names, in readdir's order
          Lists,       \* search paths: sequences of entries [dir, recursive]
          Length,      \* name |-> length of "name/file"
          BufLen       \* the size of the caller's buffer

PathEntry == [dir : Names, recursive : BOOLEAN]

ASSUME PathAssumption ==
    /\ Real \in [Names -> Dirs]
    /\ Subdirs \in [Dirs -> Seq(Names)]
    /\ Lists \subseteq Seq(PathEntry)
    /\ Length \in [Names -> Nat]
    /\ BufLen \in Nat

VARIABLES
    list,     \* the search path
    holds,    \* the directories that hold the file
    frames,   \* the calls of findFileInPath: what is left of each one's list
    pc,       \* the last call is about to "look" at a node, or to "descend"
    seen,     \* the names in dirs_seen
    looked,   \* the names passed to stat, in order
    outcome   \* how the search ended and at which entry of the list

vars == <<list, holds, frames, pc, seen, looked, outcome>>

Running == [end |-> "running", entry |-> 0]

\* The nodes setPath makes from a list of subdirectories: none is marked
\* recursive, the recursion goes on because allrecur is passed down.
NodesOf(names) == [i \in 1..Len(names) |-> [dir |-> names[i], recursive |-> FALSE]]

Init ==
    /\ list \in Lists
    /\ holds \in SUBSET Dirs
    /\ frames = <<[todo |-> list, allrecur |-> FALSE]>>
    /\ pc = "look"
    /\ seen = {}
    /\ looked = << >>
    /\ outcome = Running

Frame == frames[Len(frames)]
Callers == SubSeq(frames, 1, Len(frames) - 1)
Node == Frame.todo[1]
NodeDone == Append(Callers, [todo |-> Tail(Frame.todo), allrecur |-> Frame.allrecur])

\* The entry of the search path the search is at, or below.
Entry == Len(list) - Len(frames[1].todo) + (IF Len(frames) = 1 THEN 1 ELSE 0)

AtNode(where) == outcome = Running /\ pc = where /\ Frame.todo # << >>

\* Mutant: "continue" does not advance to the next node.
SkipSeenStays ==
    /\ AtNode("look")
    /\ Node.dir \in seen
    /\ UNCHANGED vars
\* A name in dirs_seen is skipped, and so is everything below it.
SkipSeen ==
    /\ AtNode("look")
    /\ Node.dir \in seen
    /\ frames' = NodeDone
    /\ UNCHANGED <<list, holds, pc, seen, looked, outcome>>

\* A name too long for the buffer is skipped without being remembered.
SkipLong ==
    /\ AtNode("look")
    /\ Node.dir \notin seen
    /\ Length[Node.dir] > BufLen
    /\ frames' = NodeDone
    /\ UNCHANGED <<list, holds, pc, seen, looked, outcome>>

Looks == /\ AtNode("look")
         /\ Node.dir \notin seen
         /\ Length[Node.dir] <= BufLen
         /\ looked' = Append(looked, Node.dir)

\* stat says whether the file is there; snprintf cuts a name that exactly fills
\* the buffer, and stat may then say anything.
StatSays(there) == Length[Node.dir] < BufLen => there = (Real[Node.dir] \in holds)

\* stat finds the file: every call returns, up to findFile.
Found ==
    /\ Looks
    /\ StatSays(TRUE)
    /\ outcome' = [end |-> "found", entry |-> Entry]
    /\ UNCHANGED <<list, holds, frames, pc, seen>>

\* Mutant: the name is not remembered.
Forget(name) == seen
\* STRING_add_symbol: the name has been seen in this search.
Remember(name) == seen \cup {name}

\* The file is not here, and the node is not searched recursively.
NotHere ==
    /\ Looks
    /\ StatSays(FALSE)
    /\ ~(Node.recursive \/ Frame.allrecur)
    /\ seen' = Remember(Node.dir)
    /\ frames' = NodeDone
    /\ UNCHANGED <<list, holds, pc, outcome>>

\* The file is not here; the subdirectories come next.
NotHereRecursive ==
    /\ Looks
    /\ StatSays(FALSE)
    /\ Node.recursive \/ Frame.allrecur
    /\ seen' = Remember(Node.dir)
    /\ pc' = "descend"
    /\ UNCHANGED <<list, holds, frames, outcome>>

\* Before a descent the callback reports that the user has cancelled: every
\* call returns CANCEL_SEARCH.
CancelSearch ==
    /\ AtNode("descend")
    /\ outcome' = [end |-> "canceled", entry |-> 0]
    /\ UNCHANGED <<list, holds, frames, pc, seen, looked>>

\* The recursive call of findFileInPath for a list of subdirectories.
Below(names) == [todo |-> NodesOf(names), allrecur |-> TRUE]

\* Mutant: the subdirectories are not looked at before they are descended into.
DescendBlindly ==
    /\ AtNode("descend")
    /\ frames' = LET names == Subdirs[Real[Node.dir]] IN
                 IF names = << >> THEN NodeDone
                 ELSE Append(NodeDone, Below(names))
    /\ UNCHANGED <<list, holds, pc, seen, looked, outcome>>
\* The callback lets the search go on, into the subdirectories if there are any.
Descend ==
    /\ AtNode("descend")
    /\ frames' = LET names == Subdirs[Real[Node.dir]] IN
                 IF names = << >> THEN NodeDone
                 ELSE Append(NodeDone, Below(names))
    /\ pc' = "look"
    /\ UNCHANGED <<list, holds, seen, looked, outcome>>

\* Mutant: a subtree without the file ends the search of the caller's list.
ReturnToCallerEnds ==
    /\ outcome = Running /\ Frame.todo = << >> /\ Len(frames) > 1
    /\ frames' = <<[frames[1] EXCEPT !.todo = << >>]>>
    /\ UNCHANGED <<list, holds, pc, seen, looked, outcome>>
\* A call returns NOT_FOUND and its caller goes on with its own list.
ReturnToCaller ==
    /\ outcome = Running /\ Frame.todo = << >> /\ Len(frames) > 1
    /\ frames' = Callers
    /\ UNCHANGED <<list, holds, pc, seen, looked, outcome>>

\* The whole path has been searched.
NotFound ==
    /\ outcome = Running /\ Frame.todo = << >> /\ Len(frames) = 1
    /\ outcome' = [end |-> "missing", entry |-> 0]
    /\ UNCHANGED <<list, holds, frames, pc, seen, looked>>

Next == \/ SkipSeen \/ SkipLong \/ Found \/ NotHere \/ NotHereRecursive
        \/ CancelSearch \/ Descend \/ ReturnToCaller \/ NotFound

Spec == Init /\ [][Next]_vars

(* A search is one call: it runs until it returns.                             *)
FairSpec == Spec /\ WF_vars(Next)

-------------------------------------------------------------------------------
(* What a search path leads to.                                                *)

Fits(name) == Length[name] <= BufLen

\* A name too long to be looked at is not searched below either.
Children(name) == {n \in {Subdirs[Real[name]][i] : i \in DOMAIN Subdirs[Real[name]]} :
                      Fits(name)}

\* The names below and including a name: in every set that has the name and,
\* with each name, its children.
Tree(name) == {n \in Names : \A S \in SUBSET Names :
                  name \in S /\ (\A m \in S : Children(m) \subseteq S) => n \in S}

Covers(entry) == IF entry.recursive THEN Tree(entry.dir) ELSE {entry.dir}

LeadsTo(h, l, i) == \E n \in Covers(l[i]) : Fits(n) /\ Real[n] \in h

\* Every flat entry comes after the recursive entries whose tree it is in.
Orderly(l) == \A i, j \in DOMAIN l :
                  i < j /\ ~l[i].recursive /\ l[j].recursive => l[i].dir \notin Tree(l[j].dir)

-------------------------------------------------------------------------------
(* Properties.                                                                 *)

\* Type invariant of the recursion.
TypeOK ==
    /\ list \in Lists
    /\ holds \subseteq Dirs
    /\ frames \in Seq([todo : Seq(PathEntry), allrecur : BOOLEAN])
    /\ Len(frames) >= 1
    /\ \A i \in DOMAIN frames : frames[i].allrecur = (i > 1)
    /\ Len(frames[1].todo) <= Len(list)
    /\ pc \in {"look", "descend"}
    /\ seen \subseteq Names
    /\ looked \in Seq(Names)
    /\ outcome \in [end : {"running", "found", "missing", "canceled"}, entry : 0..Len(list)]

\* The search holds at most as many calls as there are names: the recursion of
\* a search over linked directories is bounded.
BoundedRecursion == Len(frames) <= Cardinality(seen) + 1

\* No name is looked at twice in a search, whatever the links.
LookedOnce == \A i, j \in DOMAIN looked : looked[i] = looked[j] => i = j

\* What the two rest on: a search that goes on remembers every name it looked at,
\* and between the look at a node and the descent below it there is one name
\* more than there are calls.
CallsSound ==
    /\ TypeOK
    /\ IsFiniteSet(seen)
    /\ LookedOnce
    /\ outcome = Running => \A i \in DOMAIN looked : looked[i] \in seen
    /\ BoundedRecursion
    /\ outcome = Running /\ pc = "descend" => Len(frames) <= Cardinality(seen)

\* The first call goes through the list, ...
RestOfList ==
    \A k \in DOMAIN frames[1].todo :
        frames[1].todo[k] = list[Len(list) - Len(frames[1].todo) + k]

\* ... and the others through what is below the entry it is at.
Pending(name) ==
    \E k \in 2..Len(frames) : \E m \in DOMAIN frames[k].todo : frames[k].todo[m].dir = name

BelowEntry ==
    /\ pc = "descend" =>
           /\ Frame.todo # << >> /\ Node.dir \in seen
           /\ Len(frames) = 1 => Node.recursive
    /\ Len(frames) > 1 =>
           /\ Entry \in DOMAIN list /\ list[Entry].recursive /\ list[Entry].dir \in seen
           /\ \A name \in Names : Pending(name) => name \in Tree(list[Entry].dir)

\* A name that has been seen does not have the file, unless it was cut.
NotThere ==
    \A name \in seen : Fits(name) /\ (Length[name] < BufLen => Real[name] \notin holds)

\* Below it all has been seen or is on some call's list, unless it was an entry that is
\* not searched recursively.
Explored ==
    \A name \in seen :
        \/ \E i \in DOMAIN list : i < Entry /\ ~list[i].recursive /\ list[i].dir = name
        \/ pc = "descend" /\ name = Node.dir
        \/ \A child \in Children(name) : Fits(child) => child \in seen \/ Pending(child)

\* All that the entries before this one lead to has been seen.
Covered ==
    Orderly(list) =>
        \A i \in DOMAIN list : i < Entry => \A name \in Covers(list[i]) : Fits(name) => name \in seen

Searched == RestOfList /\ BelowEntry /\ NotThere /\ Explored /\ Covered

IInv == CallsSound /\ Searched

Lookup == INSTANCE FileLookup WITH Holds <- LeadsTo

\* The search implements FileLookup: first entry that leads to the file, missing
\* only if none does.
ImplementsLookup == Lookup!Spec

\* A search ends, also over a file system whose links form cycles.
Terminates == <>(outcome # Running)

-------------------------------------------------------------------------------
(* What comments say and the code does not do.                                 *)

\* Entries marked * "will be searched recursively": a file below one is found.
RecursiveEntriesSearched ==
    outcome.end = "missing" => \A i \in DOMAIN list : ~LeadsTo(holds, list, i)
===============================================================================
