-------------------------- MODULE SearchPath_proofs --------------------------
(* Theorems about SearchPath, for every file system, search path and buffer     *)
(* size: no name is looked at twice, the recursion is never deeper than the      *)
(* names it has remembered, and the search implements FileLookup when the path   *)
(* is orderly.  The inductive invariant is IInv.                                 *)
EXTENDS SearchPath, SequenceTheorems, FiniteSetTheorems, TLAPS

Calls == [todo : Seq(PathEntry), allrecur : BOOLEAN]

\* Arithmetic of the entries, apart from the sequences it is about.
LEMMA OneOrMore == ASSUME NEW n \in Nat, n >= 1 PROVE n = 1 \/ n > 1
  OBVIOUS

LEMMA EntryArithmetic ==
    ASSUME NEW a \in Nat, NEW b \in Nat
    PROVE  /\ a - b + 0 \in Int /\ a - b + 1 \in Int
           /\ a - (b - 1) + 1 = a - b + 1 + 1
           /\ a - (b - 1) + 0 = a - b + 1
           /\ a - b + 1 = a - b + 0 + 1
  OBVIOUS

LEMMA Shift ==
    ASSUME NEW a \in Nat, NEW b \in Nat, NEW c \in Nat
    PROVE  a - b + (c + 1) = a - (b - 1) + c
  OBVIOUS

LEMMA OneLess == ASSUME NEW n \in Nat, n > 1 PROVE n - 1 = 1 <=> n = 2
  OBVIOUS

LEMMA TwoOrMore == ASSUME NEW n \in Nat, n > 1 PROVE n # 1
  OBVIOUS

LEMMA OneMore == ASSUME NEW n \in Nat, n >= 1 PROVE n + 1 # 1
  OBVIOUS

LEMMA EntryIs ==
    /\ Len(frames) = 1 => Entry = Len(list) - Len(frames[1].todo) + 1
    /\ Len(frames) # 1 => Entry = Len(list) - Len(frames[1].todo) + 0
  BY Zenon DEF Entry

LEMMA EntryWillBe ==
    ASSUME list' = list
    PROVE  /\ Len(frames') = 1 => Entry' = Len(list) - Len(frames'[1].todo) + 1
           /\ Len(frames') # 1 => Entry' = Len(list) - Len(frames'[1].todo) + 0
  BY Zenon DEF Entry

\* The frames below the last one are frames.
LEMMA CallersFacts ==
    ASSUME NEW s \in Seq(Calls), Len(s) >= 1
    PROVE  /\ SubSeq(s, 1, Len(s) - 1) \in Seq(Calls)
           /\ Len(SubSeq(s, 1, Len(s) - 1)) = Len(s) - 1
           /\ \A i \in 1..(Len(s) - 1) : SubSeq(s, 1, Len(s) - 1)[i] = s[i]
  <1>1. Len(s) \in Nat /\ Len(s) >= 1
    BY LenProperties
  <1>2. \A i \in 1..(Len(s) - 1) : s[i] \in Calls
    BY <1>1, ElementOfSeq
  <1>3. \A i \in 1..(Len(s) - 1) : 1 + i - 1 = i /\ i \in 1..((Len(s) - 1) - 1 + 1)
    BY <1>1
  <1>4. Len(s) - 1 \in Int /\ 1 \in Int
    BY <1>1
  <1>5. /\ SubSeq(s, 1, Len(s) - 1) \in Seq(Calls)
        /\ Len(SubSeq(s, 1, Len(s) - 1)) = IF 1 <= Len(s) - 1 THEN (Len(s) - 1) - 1 + 1 ELSE 0
        /\ \A i \in 1..((Len(s) - 1) - 1 + 1) : SubSeq(s, 1, Len(s) - 1)[i] = s[1 + i - 1]
    BY <1>2, <1>4, SubSeqProperties
  <1>6. Len(SubSeq(s, 1, Len(s) - 1)) = Len(s) - 1
    <2>1. CASE Len(s) = 1
      <3>1. ~ (1 <= Len(s) - 1) /\ Len(s) - 1 = 0
        BY <2>1
      <3> QED
        BY <1>5, <3>1
    <2>2. CASE Len(s) > 1
      <3>1. 1 <= Len(s) - 1 /\ (Len(s) - 1) - 1 + 1 = Len(s) - 1
        BY <1>1, <2>2
      <3> QED
        BY <1>5, <3>1
    <2>3. \A k \in Nat : k >= 1 => k = 1 \/ k > 1
      OBVIOUS
    <2>4. Len(s) = 1 \/ Len(s) > 1
      BY <1>1, <2>3
    <2> QED
      BY <2>1, <2>2, <2>4
  <1>7. \A i \in 1..(Len(s) - 1) : SubSeq(s, 1, Len(s) - 1)[i] = s[i]
    BY <1>3, <1>5
  <1> QED
    BY <1>5, <1>6, <1>7

\* A frame is replaced by itself without its first node.
LEMMA NodeDoneFacts ==
    ASSUME TypeOK, Frame.todo # << >>
    PROVE  /\ Node \in PathEntry
           /\ Node.dir \in Names
           /\ NodeDone \in Seq(Calls)
           /\ Len(NodeDone) = Len(frames)
           /\ \A i \in DOMAIN NodeDone : NodeDone[i].allrecur = (i > 1)
           /\ Len(NodeDone[1].todo) <= Len(list)
  <1> DEFINE n == Len(frames)
             last == [todo |-> Tail(Frame.todo), allrecur |-> Frame.allrecur]
  <1>1. frames \in Seq(Calls) /\ n \in Nat /\ n >= 1 /\ n \in DOMAIN frames /\ 1 \in DOMAIN frames
    BY LenProperties DEF TypeOK, Calls
  <1>2. Frame \in Calls /\ Frame.todo \in Seq(PathEntry) /\ Frame.allrecur = (n > 1)
    <2>1. Frame \in Calls
      <3>1. frames[n] \in Calls
        BY <1>1, ElementOfSeq
      <3> QED
        BY <3>1 DEF Frame
    <2>2. Frame.todo \in Seq(PathEntry)
      BY <2>1 DEF Calls
    <2>3. Frame.allrecur = (n > 1)
      BY <1>1 DEF Frame, TypeOK
    <2> QED
      BY <2>1, <2>2, <2>3
  <1>3. Len(Frame.todo) \in Nat /\ Len(Frame.todo) >= 1
    BY <1>2, EmptySeq, LenProperties
  <1>4. Node \in PathEntry /\ Node.dir \in Names
    <2>1. 1 \in 1..Len(Frame.todo)
      BY <1>3
    <2>2. Frame.todo[1] \in PathEntry
      BY <1>2, <2>1, ElementOfSeq
    <2> QED
      BY <2>2 DEF Node, PathEntry
  <1>5. Tail(Frame.todo) \in Seq(PathEntry) /\ Len(Tail(Frame.todo)) = Len(Frame.todo) - 1
    BY <1>2, HeadTailProperties
  <1>6. last \in Calls /\ last.allrecur = (n > 1) /\ last.todo = Tail(Frame.todo)
    BY <1>2, <1>5 DEF Calls
  <1>7. /\ Callers \in Seq(Calls) /\ Len(Callers) = n - 1
        /\ \A i \in 1..(n - 1) : Callers[i] = frames[i]
    BY <1>1, CallersFacts DEF Callers
  <1>8. /\ NodeDone \in Seq(Calls) /\ Len(NodeDone) = n
        /\ \A i \in 1..(n - 1) : NodeDone[i] = frames[i]
        /\ NodeDone[n] = last
    BY <1>1, <1>6, <1>7, AppendProperties DEF NodeDone
  <1>9. ASSUME NEW i \in DOMAIN NodeDone PROVE NodeDone[i].allrecur = (i > 1)
    <2>1. i \in 1..n /\ DOMAIN frames = 1..n
      BY <1>1, <1>8, LenProperties
    <2>2. CASE i = n
      BY <1>6, <1>8, <2>2
    <2>3. CASE i < n
      <3>1. i \in 1..(n - 1)
        BY <1>1, <2>1, <2>3
      <3>2. NodeDone[i] = frames[i]
        BY <1>8, <3>1
      <3> QED
        BY <2>1, <3>2 DEF TypeOK
    <2> QED
      BY <1>1, <2>1, <2>2, <2>3
  <1>10. Len(NodeDone[1].todo) <= Len(list)
    <2>1. Len(list) \in Nat
      BY PathAssumption, LenProperties DEF TypeOK
    <2>2. CASE n = 1
      BY <1>3, <1>5, <1>6, <1>8, <2>1, <2>2 DEF Frame, TypeOK
    <2>3. CASE n > 1
      <3>1. 1 \in 1..(n - 1)
        BY <1>1, <2>3
      <3>2. NodeDone[1] = frames[1]
        BY <1>8, <3>1
      <3> QED
        BY <3>2 DEF TypeOK
    <2> QED
      BY <1>1, <2>2, <2>3
  <1> QED
    BY <1>4, <1>8, <1>9, <1>10

\* A look at a name that has not been seen keeps the names looked at distinct.
LEMMA LookFacts ==
    ASSUME CallsSound, Looks
    PROVE  /\ looked' \in Seq(Names)
           /\ LookedOnce'
           /\ \A i \in DOMAIN looked' : looked'[i] \in seen \cup {Node.dir}
           /\ outcome = Running /\ pc = "look" /\ Node.dir \notin seen
           /\ Node.dir \in Names
  <1>1. Node.dir \in Names /\ Node.dir \notin seen /\ outcome = Running /\ pc = "look"
    BY NodeDoneFacts DEF CallsSound, Looks, AtNode
  <1>2. looked \in Seq(Names) /\ looked' = Append(looked, Node.dir) /\ Len(looked) \in Nat
    BY LenProperties DEF CallsSound, TypeOK, Looks
  <1>3. /\ looked' \in Seq(Names) /\ Len(looked') = Len(looked) + 1
        /\ \A i \in 1..Len(looked) : looked'[i] = looked[i]
        /\ looked'[Len(looked) + 1] = Node.dir
    BY <1>1, <1>2, AppendProperties
  <1>4. DOMAIN looked = 1..Len(looked) /\ DOMAIN looked' = 1..(Len(looked) + 1)
    BY <1>2, <1>3, LenProperties
  <1>5. \A i \in 1..Len(looked) : looked[i] \in seen
    BY <1>1, <1>4 DEF CallsSound
  <1>6. \A i \in DOMAIN looked' : looked'[i] \in seen \cup {Node.dir}
    BY <1>2, <1>3, <1>4, <1>5
  <1>7. LookedOnce'
    <2> SUFFICES ASSUME NEW i \in 1..(Len(looked) + 1), NEW j \in 1..(Len(looked) + 1),
                        looked'[i] = looked'[j]
                 PROVE  i = j
      BY <1>4 DEF LookedOnce
    <2>1. CASE i \in 1..Len(looked) /\ j \in 1..Len(looked)
      BY <1>3, <1>4, <2>1 DEF CallsSound, LookedOnce
    <2>2. CASE i = Len(looked) + 1 /\ j = Len(looked) + 1
      BY <2>2
    <2>3. CASE i \in 1..Len(looked) /\ j = Len(looked) + 1
      BY <1>1, <1>3, <1>5, <2>3
    <2>4. CASE i = Len(looked) + 1 /\ j \in 1..Len(looked)
      BY <1>1, <1>3, <1>5, <2>4
    <2> QED
      BY <1>2, <2>1, <2>2, <2>3, <2>4
  <1> QED
    BY <1>1, <1>3, <1>6, <1>7

\* The initial state.
LEMMA InitCalls == Init => CallsSound
  <1> SUFFICES ASSUME Init PROVE CallsSound
    OBVIOUS
  <1>1. list \in Seq(PathEntry) /\ Len(list) \in Nat
    BY PathAssumption, LenProperties DEF Init
  <1>2. [todo |-> list, allrecur |-> FALSE] \in Calls
    BY <1>1 DEF Calls
  <1>3. /\ frames \in Seq(Calls) /\ Len(frames) = 1
        /\ frames[1] = [todo |-> list, allrecur |-> FALSE]
        /\ DOMAIN frames = {1}
    BY <1>2 DEF Init
  <1>4. looked \in Seq(Names) /\ Len(looked) = 0 /\ DOMAIN looked = {}
    BY EmptySeq DEF Init
  <1>5. IsFiniteSet(seen) /\ Cardinality(seen) = 0
    BY FS_EmptySet DEF Init
  <1>6. outcome \in [end : {"running", "found", "missing", "canceled"}, entry : 0..Len(list)]
    BY <1>1 DEF Init, Running
  <1>7. frames[1].allrecur = FALSE /\ frames[1].todo = list
    BY <1>3
  <1>8. \A i \in DOMAIN frames : frames[i].allrecur = (i > 1)
    <2>1. (1 > 1) = FALSE
      OBVIOUS
    <2> QED
      BY <1>3, <1>7, <2>1
  <1>9. TypeOK
    <2>1. list \in Lists /\ holds \subseteq Dirs /\ pc \in {"look", "descend"} /\ seen \subseteq Names
      BY DEF Init
    <2>2. Len(frames) >= 1 /\ Len(frames[1].todo) <= Len(list)
      BY <1>1, <1>3, <1>7
    <2> QED
      BY <1>3, <1>4, <1>6, <1>8, <2>1, <2>2 DEF TypeOK, Calls
  <1> QED
    BY <1>3, <1>4, <1>5, <1>9 DEF CallsSound, LookedOnce, BoundedRecursion, Init

\* The nodes made from names are flat entries.
LEMMA NodesFacts ==
    ASSUME NEW names \in Seq(Names)
    PROVE  Below(names) \in Calls /\ Below(names).allrecur
  <1>1. \A i \in 1..Len(names) : names[i] \in Names
    BY ElementOfSeq
  <1>2. Len(names) \in Nat
    BY LenProperties
  <1>3. NodesOf(names) \in [1..Len(names) -> PathEntry]
    BY <1>1 DEF NodesOf, PathEntry
  <1>4. NodesOf(names) \in Seq(PathEntry)
    BY <1>2, <1>3
  <1> QED
    BY <1>4 DEF Below, Calls

\* Every step keeps the types.
LEMMA NextTypeOK == ASSUME CallsSound, [Next]_vars PROVE TypeOK'
  <1>1. TypeOK /\ frames \in Seq(Calls) /\ Len(frames) \in Nat
    BY LenProperties DEF CallsSound, TypeOK, Calls
  <1>2. ASSUME AtNode("look") \/ AtNode("descend"), frames' = NodeDone,
               UNCHANGED <<list, holds, outcome>>,
               pc' \in {"look", "descend"}, seen' \subseteq Names, looked' \in Seq(Names)
        PROVE  TypeOK'
    BY <1>1, <1>2, NodeDoneFacts DEF TypeOK, AtNode, Calls
  <1>3. CASE SkipSeen
    BY <1>1, <1>2, <1>3 DEF SkipSeen, TypeOK
  <1>4. CASE SkipLong
    BY <1>1, <1>2, <1>4 DEF SkipLong, TypeOK
  <1>5. CASE Found
    <2>1. Frame.todo # << >> /\ looked' \in Seq(Names)
      BY <1>5, LookFacts DEF Found, Looks, AtNode
    <2>2. Len(list) \in Nat /\ Len(frames[1].todo) \in Nat
      BY <1>1, PathAssumption, ElementOfSeq, LenProperties DEF TypeOK, Calls
    <2>3. Len(frames) = 1 => Len(frames[1].todo) >= 1
      <3>1. frames[1].todo \in Seq(PathEntry)
        <4>1. 1 \in 1..Len(frames)
          BY <1>1 DEF TypeOK
        <4>2. frames[1] \in Calls
          BY <1>1, <4>1, ElementOfSeq
        <4> QED
          BY <4>2 DEF Calls
      <3> QED
        BY <2>1, <2>2, <3>1, EmptySeq, LenProperties DEF Frame
    <2>4. Entry \in 0..Len(list)
      BY <1>1, <2>2, <2>3 DEF Entry, TypeOK
    <2> QED
      BY <1>1, <1>5, <2>1, <2>4 DEF Found, TypeOK
  <1>6. CASE NotHere
    <2>1. seen' \subseteq Names /\ looked' \in Seq(Names) /\ AtNode("look")
      BY <1>1, <1>6, LookFacts DEF NotHere, Remember, TypeOK, Looks
    <2> QED
      BY <1>1, <1>2, <1>6, <2>1 DEF NotHere, TypeOK
  <1>7. CASE NotHereRecursive
    <2>1. seen' \subseteq Names /\ looked' \in Seq(Names)
      BY <1>1, <1>7, LookFacts DEF NotHereRecursive, Remember, TypeOK
    <2> QED
      BY <1>1, <1>7, <2>1 DEF NotHereRecursive, TypeOK
  <1>8. CASE CancelSearch
    <2>1. Len(list) \in Nat
      BY <1>1, PathAssumption, LenProperties DEF TypeOK
    <2> QED
      BY <1>1, <1>8, <2>1 DEF CancelSearch, TypeOK
  <1>9. CASE Descend
    <2> DEFINE names == Subdirs[Real[Node.dir]]
    <2>1. Frame.todo # << >> /\ names \in Seq(Names)
      BY <1>1, <1>9, NodeDoneFacts, PathAssumption DEF Descend, AtNode
    <2>2. CASE names = << >>
      BY <1>1, <1>2, <1>9, <2>2 DEF Descend, TypeOK
    <2>3. CASE names # << >>
      <3>1. /\ NodeDone \in Seq(Calls) /\ Len(NodeDone) = Len(frames)
            /\ \A i \in DOMAIN NodeDone : NodeDone[i].allrecur = (i > 1)
            /\ Len(NodeDone[1].todo) <= Len(list)
        BY <1>1, <2>1, NodeDoneFacts
      <3>2. Below(names) \in Calls /\ Below(names).allrecur
        BY <2>1, NodesFacts
      <3>3. frames' = Append(NodeDone, Below(names))
        BY <1>9, <2>3 DEF Descend
      <3>4. /\ frames' \in Seq(Calls) /\ Len(frames') = Len(frames) + 1
            /\ \A i \in 1..Len(frames) : frames'[i] = NodeDone[i]
            /\ frames'[Len(frames) + 1] = Below(names)
        BY <3>1, <3>2, <3>3, AppendProperties
      <3>5. Len(frames) >= 1 /\ DOMAIN NodeDone = 1..Len(frames)
              /\ DOMAIN frames' = 1..(Len(frames) + 1)
        BY <1>1, <3>1, <3>4, LenProperties DEF TypeOK
      <3>6. ASSUME NEW i \in DOMAIN frames' PROVE frames'[i].allrecur = (i > 1)
        <4>1. CASE i = Len(frames) + 1
          <5>1. i > 1
            BY <1>1, <3>5, <4>1
          <5>2. frames'[i] = Below(names)
            BY <3>4, <4>1
          <5>3. Below(names).allrecur = TRUE
            BY DEF Below
          <5>4. (i > 1) = TRUE
            BY <5>1
          <5> QED
            BY <5>2, <5>3, <5>4
        <4>2. CASE i \in 1..Len(frames)
          BY <3>1, <3>4, <3>5, <4>2
        <4> QED
          BY <1>1, <3>5, <4>1, <4>2
      <3>7. frames'[1] = NodeDone[1]
        BY <1>1, <3>4, <3>5
      <3>8. frames' \in Seq(Calls) /\ Len(frames') >= 1
        BY <3>4, <3>5
      <3>9. Len(frames'[1].todo) <= Len(list)
        BY <3>1, <3>7
      <3>10. UNCHANGED <<list, holds, seen, looked, outcome>> /\ pc' = "look"
        BY <1>9 DEF Descend
      <3> HIDE DEF names
      <3> QED
        BY <1>1, <3>6, <3>8, <3>9, <3>10 DEF TypeOK, Calls
    <2> QED
      BY <2>2, <2>3
  <1>10. CASE ReturnToCaller
    <2>1. /\ frames' \in Seq(Calls) /\ Len(frames') = Len(frames) - 1 /\ Len(frames') >= 1
          /\ \A i \in 1..(Len(frames) - 1) : frames'[i] = frames[i]
      BY <1>1, <1>10, CallersFacts DEF ReturnToCaller, Callers
    <2>2. 1 \in 1..(Len(frames) - 1) /\ DOMAIN frames' = 1..(Len(frames) - 1)
              /\ DOMAIN frames = 1..Len(frames)
      BY <1>1, <2>1, LenProperties
    <2>3. frames'[1] = frames[1]
      BY <2>1, <2>2
    <2>4. ASSUME NEW i \in DOMAIN frames' PROVE frames'[i].allrecur = (i > 1)
      <3>1. i \in 1..(Len(frames) - 1) /\ i \in DOMAIN frames
        BY <1>1, <2>2
      <3>2. frames'[i] = frames[i]
        BY <2>1, <3>1
      <3> QED
        BY <1>1, <3>1, <3>2 DEF TypeOK
    <2> QED
      BY <1>1, <1>10, <2>1, <2>3, <2>4 DEF ReturnToCaller, TypeOK, Calls
  <1>11. CASE NotFound
    <2>1. Len(list) \in Nat
      BY <1>1, PathAssumption, LenProperties DEF TypeOK
    <2>2. outcome' \in [end : {"running", "found", "missing", "canceled"}, entry : 0..Len(list)]
      BY <1>11, <2>1 DEF NotFound
    <2> QED
      BY <1>1, <1>11, <2>2 DEF NotFound, TypeOK
  <1>12. CASE UNCHANGED vars
    BY <1>1, <1>12 DEF vars, TypeOK
  <1> QED
    BY <1>3, <1>4, <1>5, <1>6, <1>7, <1>8, <1>9, <1>10, <1>11, <1>12 DEF Next

\* Steps that look at nothing and do not go deeper keep the rest of CallsSound.
LEMMA QuietStep ==
    ASSUME CallsSound, TypeOK', UNCHANGED <<looked, seen>>,
           Len(frames') <= Len(frames),
           outcome' = Running => outcome = Running /\ pc' = pc
    PROVE  CallsSound'
  <1>1. Len(frames) \in Nat /\ Len(frames') \in Nat
    BY LenProperties DEF CallsSound, TypeOK
  <1>2. Cardinality(seen) \in Nat
    BY FS_CardinalityType DEF CallsSound
  <1> QED
    BY <1>1, <1>2 DEF CallsSound, LookedOnce, BoundedRecursion

\* Every step keeps the inductive invariant.
LEMMA NextCalls == CallsSound /\ [Next]_vars => CallsSound'
  <1> SUFFICES ASSUME CallsSound, [Next]_vars PROVE CallsSound'
    OBVIOUS
  <1>1. TypeOK /\ TypeOK'
    BY NextTypeOK DEF CallsSound
  <1>2. /\ frames \in Seq(Calls) /\ Len(frames) \in Nat /\ Len(frames') \in Nat
        /\ Len(frames) >= 1
    BY <1>1, LenProperties DEF TypeOK, Calls
  <1>3. Frame.todo # << >> => Len(NodeDone) = Len(frames)
    BY <1>1, NodeDoneFacts
  <1>4. Cardinality(seen) \in Nat /\ Len(frames) <= Cardinality(seen) + 1
    BY FS_CardinalityType DEF CallsSound, BoundedRecursion
  <1>5. ASSUME Looks, seen' = seen \cup {Node.dir}
        PROVE  /\ IsFiniteSet(seen') /\ Cardinality(seen') = Cardinality(seen) + 1
               /\ LookedOnce'
               /\ \A i \in DOMAIN looked' : looked'[i] \in seen'
    BY <1>5, LookFacts, FS_AddElement DEF CallsSound
  <1>6. CASE SkipSeen \/ SkipLong
    BY <1>1, <1>2, <1>3, <1>6, QuietStep DEF SkipSeen, SkipLong, AtNode
  <1>7. CASE Found
    <2>1. LookedOnce' /\ outcome' # Running
      BY <1>7, LookFacts DEF Found, Running
    <2> QED
      BY <1>1, <1>7, <2>1 DEF Found, CallsSound, BoundedRecursion
  <1>8. CASE NotHere
    <2>1. /\ Len(frames') = Len(frames) /\ pc' = "look"
      BY <1>3, <1>8, LookFacts DEF NotHere, Looks, AtNode
    <2> QED
      BY <1>1, <1>2, <1>4, <1>5, <1>8, <2>1
         DEF NotHere, Remember, CallsSound, BoundedRecursion
  <1>9. CASE NotHereRecursive
    BY <1>1, <1>2, <1>4, <1>5, <1>9
       DEF NotHereRecursive, Remember, CallsSound, BoundedRecursion
  <1>10. CASE CancelSearch
    BY <1>1, <1>2, <1>10, QuietStep DEF CancelSearch, Running
  <1>11. CASE Descend
    <2>1. /\ Len(frames) <= Cardinality(seen)
          /\ outcome = Running /\ pc' = "look" /\ UNCHANGED <<seen, looked, outcome>>
      BY <1>11 DEF Descend, AtNode, CallsSound
    <2>2. Len(frames') <= Len(frames) + 1
      <3>1. Frame.todo # << >> /\ NodeDone \in Seq(Calls) /\ Len(NodeDone) = Len(frames)
        BY <1>1, <1>11, NodeDoneFacts DEF Descend, AtNode
      <3>2. Subdirs[Real[Node.dir]] \in Seq(Names)
        BY <1>1, <3>1, NodeDoneFacts, PathAssumption
      <3>3. Below(Subdirs[Real[Node.dir]]) \in Calls
        BY <3>2, NodesFacts
      <3>4. Len(Append(NodeDone, Below(Subdirs[Real[Node.dir]]))) = Len(frames) + 1
        BY <3>1, <3>3, AppendProperties
      <3> QED
        BY <1>2, <1>11, <3>1, <3>4 DEF Descend
    <2> QED
      BY <1>1, <1>2, <1>4, <2>1, <2>2 DEF CallsSound, LookedOnce, BoundedRecursion
  <1>12. CASE ReturnToCaller
    <2>1. Len(frames') <= Len(frames)
      BY <1>2, <1>12, CallersFacts DEF ReturnToCaller, Callers
    <2> QED
      BY <1>1, <1>12, <2>1, QuietStep DEF ReturnToCaller
  <1>13. CASE NotFound
    BY <1>1, <1>2, <1>13, QuietStep DEF NotFound, Running
  <1>14. CASE UNCHANGED vars
    BY <1>1, <1>2, <1>14, QuietStep DEF vars
  <1> QED
    BY <1>6, <1>7, <1>8, <1>9, <1>10, <1>11, <1>12, <1>13, <1>14 DEF Next

(* ----------------------- what a search has covered ----------------------- *)

\* The calls in a state, and the list they go through.
LEMMA FrameFacts ==
    ASSUME TypeOK
    PROVE  /\ frames \in Seq(Calls) /\ Len(frames) \in Nat /\ Len(frames) >= 1
           /\ DOMAIN frames = 1..Len(frames)
           /\ list \in Seq(PathEntry) /\ Len(list) \in Nat /\ DOMAIN list = 1..Len(list)
           /\ \A k \in 1..Len(frames) :
                  /\ frames[k].todo \in Seq(PathEntry) /\ Len(frames[k].todo) \in Nat
                  /\ DOMAIN frames[k].todo = 1..Len(frames[k].todo)
                  /\ frames[k].allrecur = (k > 1)
           /\ Len(frames[1].todo) <= Len(list)
  <1>1. frames \in Seq(Calls) /\ Len(frames) \in Nat /\ DOMAIN frames = 1..Len(frames)
    BY LenProperties DEF TypeOK, Calls
  <1>2. list \in Seq(PathEntry) /\ Len(list) \in Nat /\ DOMAIN list = 1..Len(list)
    BY PathAssumption, LenProperties DEF TypeOK
  <1>3. ASSUME NEW k \in 1..Len(frames)
        PROVE  /\ frames[k].todo \in Seq(PathEntry) /\ Len(frames[k].todo) \in Nat
               /\ DOMAIN frames[k].todo = 1..Len(frames[k].todo)
    <2>1. frames[k] \in Calls
      BY <1>1, ElementOfSeq
    <2>2. frames[k].todo \in Seq(PathEntry)
      BY <2>1 DEF Calls
    <2> QED
      BY <2>2, LenProperties
  <1>4. \A k \in 1..Len(frames) : frames[k].allrecur = (k > 1)
    BY <1>1 DEF TypeOK
  <1> QED
    BY <1>1, <1>2, <1>3, <1>4 DEF TypeOK

\* The node that is looked at is the entry of the list, or below it.
LEMMA AtEntry ==
    ASSUME TypeOK, RestOfList, Frame.todo # << >>
    PROVE  /\ Node \in PathEntry /\ Node.dir \in Names
           /\ Len(frames) = 1 => Entry \in DOMAIN list /\ Node = list[Entry]
           /\ Len(frames) > 1 => Pending(Node.dir)
  <1>1. Node \in PathEntry /\ Node.dir \in Names
    BY NodeDoneFacts
  <1>2. Frame.todo \in Seq(PathEntry) /\ Len(Frame.todo) \in Nat /\ Len(Frame.todo) >= 1
    <2>1. Frame.todo \in Seq(PathEntry)
      BY FrameFacts DEF Frame
    <2> QED
      BY <2>1, EmptySeq, LenProperties
  <1>3. ASSUME Len(frames) = 1
        PROVE  Entry \in DOMAIN list /\ Node = list[Entry]
    <2>1. Frame = frames[1] /\ Entry = Len(list) - Len(frames[1].todo) + 1
      BY <1>3 DEF Frame, Entry
    <2>2. /\ DOMAIN frames[1].todo = 1..Len(frames[1].todo) /\ Len(frames[1].todo) \in Nat
          /\ Len(frames[1].todo) <= Len(list)
          /\ Len(list) \in Nat /\ DOMAIN list = 1..Len(list)
      BY <1>3, FrameFacts
    <2>3. 1 \in DOMAIN frames[1].todo
      BY <1>2, <2>1, <2>2
    <2>4. frames[1].todo[1] = list[Len(list) - Len(frames[1].todo) + 1]
      BY <2>3 DEF RestOfList
    <2> QED
      BY <1>2, <2>1, <2>2, <2>4 DEF Node
  <1>4. ASSUME Len(frames) > 1
        PROVE  Pending(Node.dir)
    <2>1. Len(frames) \in 2..Len(frames) /\ Len(frames) \in 1..Len(frames)
      BY <1>4, FrameFacts
    <2>2. 1 \in DOMAIN frames[Len(frames)].todo
      BY <1>2, <2>1, FrameFacts DEF Frame
    <2>3. frames[Len(frames)].todo[1].dir = Node.dir
      BY DEF Node, Frame
    <2> QED
      BY <2>1, <2>2, <2>3 DEF Pending
  <1> QED
    BY <1>1, <1>3, <1>4

\* A node is done with: the lists before and after.
LEMMA NodeDoneIs ==
    ASSUME TypeOK, Frame.todo # << >>
    PROVE  /\ NodeDone \in Seq(Calls) /\ Len(NodeDone) = Len(frames)
           /\ \A k \in 1..(Len(frames) - 1) : NodeDone[k] = frames[k]
           /\ Len(NodeDone[Len(frames)].todo) = Len(frames[Len(frames)].todo) - 1
           /\ DOMAIN NodeDone[Len(frames)].todo = 1..(Len(frames[Len(frames)].todo) - 1)
           /\ \A m \in 1..(Len(frames[Len(frames)].todo) - 1) :
                  NodeDone[Len(frames)].todo[m] = frames[Len(frames)].todo[m + 1]
  <1> DEFINE n == Len(frames)
             last == [todo |-> Tail(Frame.todo), allrecur |-> Frame.allrecur]
  <1>1. frames \in Seq(Calls) /\ n \in Nat /\ n >= 1
    BY FrameFacts
  <1>2. Frame \in Calls /\ Frame.todo \in Seq(PathEntry)
    <2>1. n \in 1..n
      BY <1>1
    <2>2. Frame \in Calls
      BY <1>1, <2>1, ElementOfSeq DEF Frame
    <2> QED
      BY <2>2 DEF Calls
  <1>3. /\ Tail(Frame.todo) \in Seq(PathEntry) /\ Len(Tail(Frame.todo)) = Len(Frame.todo) - 1
        /\ \A m \in 1..(Len(Frame.todo) - 1) : Tail(Frame.todo)[m] = Frame.todo[m + 1]
        /\ DOMAIN Tail(Frame.todo) = 1..(Len(Frame.todo) - 1)
    <2>1. /\ Tail(Frame.todo) \in Seq(PathEntry) /\ Len(Tail(Frame.todo)) = Len(Frame.todo) - 1
          /\ \A m \in 1..Len(Tail(Frame.todo)) : Tail(Frame.todo)[m] = Frame.todo[m + 1]
      BY <1>2, HeadTailProperties
    <2> QED
      BY <2>1, LenProperties
  <1>4. last \in Calls /\ last.todo = Tail(Frame.todo)
    BY <1>2, <1>3 DEF Calls
  <1>5. /\ Callers \in Seq(Calls) /\ Len(Callers) = n - 1
        /\ \A i \in 1..(n - 1) : Callers[i] = frames[i]
    BY <1>1, CallersFacts DEF Callers
  <1>6. /\ NodeDone \in Seq(Calls) /\ Len(NodeDone) = n
        /\ \A i \in 1..(n - 1) : NodeDone[i] = frames[i]
        /\ NodeDone[n] = last
    BY <1>1, <1>4, <1>5, AppendProperties DEF NodeDone
  <1>7. Frame.todo = frames[n].todo
    BY DEF Frame
  <1> HIDE DEF last
  <1> QED
    BY <1>3, <1>4, <1>6, <1>7

\* What a list of calls is about to look at below the entry of the first one.
PendingIn(calls, name) ==
    \E k \in 2..Len(calls) : \E m \in DOMAIN calls[k].todo : calls[k].todo[m].dir = name

\* The search goes on to the next node: to the next entry, or what is pending is
\* the same without the node's name.
LEMMA Advance ==
    ASSUME TypeOK, Frame.todo # << >>
    PROVE  /\ \A name : PendingIn(NodeDone, name) => Pending(name)
           /\ \A name : Pending(name) => PendingIn(NodeDone, name) \/ name = Node.dir
           /\ Len(frames) = 1 => Len(NodeDone[1].todo) = Len(frames[1].todo) - 1
           /\ Len(frames) > 1 => NodeDone[1] = frames[1]
           /\ RestOfList => \A k \in DOMAIN NodeDone[1].todo :
                  NodeDone[1].todo[k] = list[Len(list) - Len(NodeDone[1].todo) + k]
  <1> DEFINE n == Len(frames)
             G == NodeDone
  <1>1. /\ n \in Nat /\ n >= 1
        /\ \A k \in 1..n : /\ Len(frames[k].todo) \in Nat
                           /\ DOMAIN frames[k].todo = 1..Len(frames[k].todo)
        /\ Len(list) \in Nat
    BY FrameFacts
  <1>2. /\ Len(G) = n /\ \A k \in 1..(n - 1) : G[k] = frames[k]
        /\ Len(G[n].todo) = Len(frames[n].todo) - 1
        /\ DOMAIN G[n].todo = 1..(Len(frames[n].todo) - 1)
        /\ \A m \in 1..(Len(frames[n].todo) - 1) : G[n].todo[m] = frames[n].todo[m + 1]
    BY NodeDoneIs
  <1>3. Node = frames[n].todo[1]
    BY DEF Node, Frame
  <1> HIDE DEF G
  <1>4. ASSUME NEW name, PendingIn(G, name)
        PROVE  Pending(name)
    <2>1. PICK k \in 2..n : \E m \in DOMAIN G[k].todo : G[k].todo[m].dir = name
      BY <1>2, <1>4 DEF PendingIn
    <2>2. PICK m \in DOMAIN G[k].todo : G[k].todo[m].dir = name
      BY <2>1
    <2>3. CASE k < n
      <3>1. k \in 1..(n - 1)
        BY <1>1, <2>1, <2>3
      <3> QED
        BY <1>2, <2>1, <2>2, <3>1 DEF Pending
    <2>4. CASE k = n
      <3>1. m \in 1..(Len(frames[n].todo) - 1) /\ n \in 1..n /\ Len(frames[n].todo) \in Nat
        BY <1>1, <1>2, <2>2, <2>4
      <3>2. m + 1 \in DOMAIN frames[n].todo
        <4>1. m + 1 \in 1..Len(frames[n].todo)
          BY <3>1
        <4> QED
          BY <1>1, <3>1, <4>1
      <3>3. frames[n].todo[m + 1].dir = name
        BY <1>2, <2>2, <2>4, <3>1
      <3> QED
        BY <2>1, <2>4, <3>2, <3>3 DEF Pending
    <2> QED
      BY <1>1, <2>1, <2>3, <2>4
  <1>5. ASSUME NEW name, Pending(name), name # Node.dir
        PROVE  PendingIn(G, name)
    <2>1. PICK k \in 2..n : \E m \in DOMAIN frames[k].todo : frames[k].todo[m].dir = name
      BY <1>5 DEF Pending
    <2>2. PICK m \in DOMAIN frames[k].todo : frames[k].todo[m].dir = name
      BY <2>1
    <2>3. CASE k < n
      <3>1. k \in 1..(n - 1)
        BY <1>1, <2>1, <2>3
      <3> QED
        BY <1>2, <2>1, <2>2, <3>1 DEF PendingIn
    <2>4. CASE k = n
      <3>1. n \in 1..n /\ Len(frames[n].todo) \in Nat /\ m \in 1..Len(frames[n].todo)
        BY <1>1, <2>2, <2>4
      <3>2. m # 1
        BY <1>3, <1>5, <2>2, <2>4
      <3>3. PICK l \in 1..(Len(frames[n].todo) - 1) : m = l + 1
        <4>1. m - 1 \in 1..(Len(frames[n].todo) - 1) /\ m = (m - 1) + 1
          BY <3>1, <3>2
        <4> QED
          BY <4>1
      <3>4. G[n].todo[l].dir = name /\ l \in DOMAIN G[n].todo
        BY <1>2, <2>2, <2>4, <3>3
      <3> QED
        BY <1>2, <2>1, <2>4, <3>4 DEF PendingIn
    <2> QED
      BY <1>1, <2>1, <2>3, <2>4
  <1>6. n > 1 => G[1] = frames[1]
    BY <1>1, <1>2
  <1>7. ASSUME RestOfList, NEW k \in DOMAIN G[1].todo
        PROVE  G[1].todo[k] = list[Len(list) - Len(G[1].todo) + k]
    <2>1. CASE n = 1
      <3> DEFINE t == Len(frames[1].todo)
      <3>1. t \in Nat /\ k \in 1..(t - 1) /\ Len(G[1].todo) = t - 1
            /\ DOMAIN frames[1].todo = 1..t
        BY <1>1, <1>2, <1>7, <2>1
      <3>2. G[1].todo[k] = frames[1].todo[k + 1]
        BY <1>2, <2>1, <3>1
      <3>3. k + 1 \in DOMAIN frames[1].todo
        BY <3>1
      <3>4. frames[1].todo[k + 1] = list[Len(list) - t + (k + 1)]
        BY <1>7, <3>3 DEF RestOfList
      <3>5. Len(list) - t + (k + 1) = Len(list) - (t - 1) + k
        <4>1. Len(list) \in Nat /\ t \in Nat /\ k \in Nat
          BY <1>1, <3>1
        <4> QED
          BY <4>1, Shift
      <3> HIDE DEF t
      <3> QED
        BY <3>1, <3>2, <3>4, <3>5
    <2>2. CASE n > 1
      BY <1>6, <1>7, <2>2 DEF RestOfList
    <2>3. n = 1 \/ n > 1
      BY <1>1, OneOrMore
    <2> QED
      BY <2>1, <2>2, <2>3
  <1> QED
    BY <1>2, <1>4, <1>5, <1>6, <1>7 DEF G

\* The calls that a search makes of the subdirectories look at each of them.
LEMMA Deeper ==
    ASSUME TypeOK, Frame.todo # << >>, NEW names \in Seq(Names)
    PROVE  LET G == Append(NodeDone, Below(names))
           IN  /\ Len(G) = Len(frames) + 1 /\ G[1] = NodeDone[1]
               /\ \A name : PendingIn(G, name) <=>
                      PendingIn(NodeDone, name) \/ \E i \in DOMAIN names : names[i] = name
  <1> DEFINE n == Len(frames)
             G == Append(NodeDone, Below(names))
  <1>1. n \in Nat /\ n >= 1 /\ NodeDone \in Seq(Calls) /\ Len(NodeDone) = n
    BY FrameFacts, NodeDoneIs
  <1>2. Below(names) \in Calls
    BY NodesFacts
  <1>3. /\ G \in Seq(Calls) /\ Len(G) = n + 1
        /\ \A k \in 1..n : G[k] = NodeDone[k]
        /\ G[n + 1] = Below(names)
    BY <1>1, <1>2, AppendProperties
  <1>4. G[n + 1].todo = [i \in 1..Len(names) |-> [dir |-> names[i], recursive |-> FALSE]]
    BY <1>3 DEF Below, NodesOf
  <1>5. DOMAIN names = 1..Len(names)
    BY LenProperties
  <1> HIDE DEF G
  <1>6. ASSUME NEW name, PendingIn(G, name)
        PROVE  PendingIn(NodeDone, name) \/ \E i \in DOMAIN names : names[i] = name
    <2>1. PICK k \in 2..(n + 1) : \E m \in DOMAIN G[k].todo : G[k].todo[m].dir = name
      BY <1>3, <1>6 DEF PendingIn
    <2>2. CASE k = n + 1
      BY <1>4, <1>5, <2>1, <2>2
    <2>3. CASE k \in 2..n
      <3>1. k \in 1..n
        BY <1>1, <2>3
      <3>2. G[k] = NodeDone[k]
        BY <1>3, <3>1
      <3> QED
        BY <1>1, <2>1, <2>3, <3>2 DEF PendingIn
    <2> QED
      BY <1>1, <2>1, <2>2, <2>3
  <1>7. ASSUME NEW name, PendingIn(NodeDone, name)
        PROVE  PendingIn(G, name)
    <2>1. PICK k \in 2..n : \E m \in DOMAIN NodeDone[k].todo : NodeDone[k].todo[m].dir = name
      BY <1>1, <1>7 DEF PendingIn
    <2>2. k \in 1..n /\ k \in 2..(n + 1)
      BY <1>1, <2>1
    <2>3. G[k] = NodeDone[k]
      BY <1>3, <2>2
    <2> QED
      BY <1>3, <2>1, <2>2, <2>3 DEF PendingIn
  <1>8. ASSUME NEW name, \E i \in DOMAIN names : names[i] = name
        PROVE  PendingIn(G, name)
    <2>1. PICK i \in 1..Len(names) : names[i] = name
      BY <1>5, <1>8
    <2>2. i \in DOMAIN G[n + 1].todo /\ G[n + 1].todo[i].dir = name
      BY <1>4, <2>1
    <2>3. n + 1 \in 2..(n + 1)
      BY <1>1
    <2> QED
      BY <1>3, <2>2, <2>3 DEF PendingIn
  <1>9. G[1] = NodeDone[1]
    BY <1>1, <1>3
  <1> QED
    BY <1>3, <1>6, <1>7, <1>8, <1>9 DEF G

\* A call that has nothing more to look at leaves the same names pending.
LEMMA Back ==
    ASSUME TypeOK, Frame.todo = << >>, Len(frames) > 1
    PROVE  /\ Len(Callers) = Len(frames) - 1 /\ Callers[1] = frames[1]
           /\ \A name : PendingIn(Callers, name) <=> Pending(name)
  <1> DEFINE n == Len(frames)
  <1>1. n \in Nat /\ n > 1 /\ frames \in Seq(Calls)
    BY FrameFacts
  <1>2. /\ Len(Callers) = n - 1
        /\ \A i \in 1..(n - 1) : Callers[i] = frames[i]
    BY <1>1, CallersFacts DEF Callers
  <1>3. DOMAIN frames[n].todo = {}
    BY DEF Frame
  <1>4. \A k \in 2..n : k = n \/ k \in 2..(n - 1)
    BY <1>1
  <1>5. \A k \in 2..(n - 1) : k \in 1..(n - 1) /\ k \in 2..n
    BY <1>1
  <1>6. ASSUME NEW name
        PROVE  PendingIn(Callers, name) <=> Pending(name)
    <2>1. PendingIn(Callers, name) => Pending(name)
      BY <1>2, <1>5 DEF PendingIn, Pending
    <2>2. Pending(name) => PendingIn(Callers, name)
      BY <1>2, <1>3, <1>4, <1>5 DEF PendingIn, Pending
    <2> QED
      BY <2>1, <2>2
  <1>7. Callers[1] = frames[1]
    BY <1>1, <1>2
  <1> QED
    BY <1>2, <1>6, <1>7

\* A tree has its root, and what is below each name in it.
LEMMA TreeFacts ==
    ASSUME NEW d \in Names
    PROVE  /\ d \in Tree(d)
           /\ \A n \in Tree(d) : n \in Names /\ Children(n) \subseteq Tree(d)
  <1>1. d \in Tree(d)
    BY DEF Tree
  <1>2. ASSUME NEW n \in Tree(d), NEW c \in Children(n)
        PROVE  c \in Tree(d)
    <2>1. n \in Names
      BY DEF Tree
    <2>2. c \in Names
      <3>1. Real[n] \in Dirs /\ Subdirs[Real[n]] \in Seq(Names)
        BY <2>1, PathAssumption
      <3>2. PICK i \in DOMAIN Subdirs[Real[n]] : c = Subdirs[Real[n]][i]
        BY DEF Children
      <3>3. i \in 1..Len(Subdirs[Real[n]])
        BY <3>1, <3>2, LenProperties
      <3> QED
        BY <3>1, <3>2, <3>3, ElementOfSeq
    <2>3. ASSUME NEW S \in SUBSET Names, d \in S, \A m \in S : Children(m) \subseteq S
          PROVE  c \in S
      <3>1. n \in S
        BY <2>3 DEF Tree
      <3> QED
        BY <2>3, <3>1
    <2> QED
      BY <2>2, <2>3 DEF Tree
  <1>3. \A n \in Tree(d) : n \in Names
    BY DEF Tree
  <1> QED
    BY <1>1, <1>2, <1>3

\* Once the entry's own name has been seen, and of each name seen what is below it,
\* all that the entry leads to has been seen.  An earlier entry that was not searched
\* recursively is in no tree of an orderly list.
LEMMA CoveredFrom ==
    ASSUME NEW l \in Seq(PathEntry), Orderly(l), NEW S \in SUBSET Names, NEW e \in DOMAIN l,
           Fits(l[e].dir) => l[e].dir \in S,
           \A n \in S : \/ \E i \in DOMAIN l : i <= e /\ ~l[i].recursive /\ l[i].dir = n
                        \/ \A c \in Children(n) : Fits(c) => c \in S
    PROVE  \A n \in Covers(l[e]) : Fits(n) => n \in S
  <1> DEFINE d == l[e].dir
             T == {n \in Tree(d) : Fits(n) => n \in S}
  <1>1. l[e] \in PathEntry /\ d \in Names /\ DOMAIN l = 1..Len(l) /\ Len(l) \in Nat
    <2>1. DOMAIN l = 1..Len(l) /\ Len(l) \in Nat /\ l \in [1..Len(l) -> PathEntry]
      BY LenProperties
    <2>2. l[e] \in PathEntry
      BY <2>1
    <2> QED
      BY <2>1, <2>2 DEF PathEntry
  <1>2. CASE ~l[e].recursive
    BY <1>2 DEF Covers
  <1>3. CASE l[e].recursive
    <2>1. d \in T /\ T \in SUBSET Names
      BY <1>1, TreeFacts
    <2>2. ASSUME NEW m \in T, NEW c \in Children(m)
          PROVE  c \in T
      <3>1. c \in Tree(d) /\ Fits(m)
        BY <1>1, TreeFacts DEF Children
      <3>2. ~ \E i \in DOMAIN l : i <= e /\ ~l[i].recursive /\ l[i].dir = m
        <4> SUFFICES ASSUME NEW i \in DOMAIN l, i <= e, ~l[i].recursive, l[i].dir = m
                     PROVE  FALSE
          OBVIOUS
        <4>1. i # e
          BY <1>3
        <4>2. i < e
          BY <1>1, <4>1
        <4> QED
          BY <1>3, <4>2 DEF Orderly
      <3>3. m \in S
        BY <3>1
      <3> QED
        BY <3>1, <3>2, <3>3
    <2>3. Tree(d) \subseteq T
      BY <2>1, <2>2 DEF Tree
    <2> QED
      BY <1>3, <2>3 DEF Covers
  <1> QED
    BY <1>2, <1>3

\* The search goes on to the next entry of the list.
LEMMA NextEntry ==
    ASSUME TypeOK', Covered, list' = list, seen \subseteq seen', list \in Seq(PathEntry),
           Explored', pc' = "look", Len(frames') = 1, Entry \in DOMAIN list, Entry' = Entry + 1,
           Fits(list[Entry].dir) => list[Entry].dir \in seen'
    PROVE  Covered'
  <1> SUFFICES ASSUME Orderly(list), NEW i \in DOMAIN list, i < Entry + 1,
                      NEW name \in Covers(list[i]), Fits(name)
               PROVE  name \in seen'
    BY DEF Covered
  <1>1. DOMAIN list = 1..Len(list) /\ Len(list) \in Nat
    BY LenProperties
  <1>2. CASE i < Entry
    BY <1>2 DEF Covered
  <1>3. CASE i = Entry
    <2>1. \A n : ~Pending(n)'
      BY DEF Pending
    <2>2. ASSUME NEW n \in seen'
          PROVE  \/ \E j \in DOMAIN list : j <= Entry /\ ~list[j].recursive /\ list[j].dir = n
                 \/ \A c \in Children(n) : Fits(c) => c \in seen'
      <3>1. \/ \E j \in DOMAIN list : j < Entry + 1 /\ ~list[j].recursive /\ list[j].dir = n
            \/ \A c \in Children(n) : Fits(c) => c \in seen'
        BY <2>1, <2>2 DEF Explored
      <3>2. \A j \in DOMAIN list : j < Entry + 1 => j <= Entry
        BY <1>1
      <3> QED
        BY <3>1, <3>2
    <2>3. seen' \in SUBSET Names
      BY DEF TypeOK
    <2>4. \A n \in Covers(list[Entry]) : Fits(n) => n \in seen'
      BY <2>2, <2>3, CoveredFrom
    <2> QED
      BY <1>3, <2>4
  <1> QED
    BY <1>1, <1>2, <1>3

\* The search stays below its entry.
LEMMA SameEntry ==
    ASSUME Covered, list' = list, seen \subseteq seen', Entry' = Entry
    PROVE  Covered'
  BY DEF Covered

\* A node that has been seen, or need not be, is done with.
LEMMA AdvanceKeeps ==
    ASSUME TypeOK, TypeOK', Searched, NotThere', Frame.todo # << >>,
           frames' = NodeDone, list' = list, pc' = "look", seen \subseteq seen',
           \A name \in seen' : name \in seen \/ name = Node.dir,
           Fits(Node.dir) => Node.dir \in seen',
           Node.dir \notin seen /\ Node.dir \in seen' => Len(frames) = 1 /\ ~Node.recursive,
           pc = "descend" => Children(Node.dir) = {}
    PROVE  Searched'
  <1>1. /\ Len(frames) \in Nat /\ Len(frames) >= 1 /\ list \in Seq(PathEntry)
        /\ Len(list) \in Nat /\ DOMAIN list = 1..Len(list) /\ Len(frames[1].todo) \in Nat
    BY FrameFacts
  <1>2. /\ Node.dir \in Names
        /\ Len(frames) = 1 => Entry \in DOMAIN list /\ Node = list[Entry]
        /\ Len(frames) > 1 => Pending(Node.dir)
    BY AtEntry DEF Searched
  <1>3. Len(frames') = Len(frames)
    BY NodeDoneIs
  <1>4. /\ \A name : Pending(name)' => Pending(name)
        /\ \A name : Pending(name) => Pending(name)' \/ name = Node.dir
    <2>1. \A name : Pending(name)' <=> PendingIn(NodeDone, name)
      BY DEF Pending, PendingIn
    <2> QED
      BY <2>1, Advance
  <1>5. Entry \in Int /\ Entry' = IF Len(frames) = 1 THEN Entry + 1 ELSE Entry
    <2>1. CASE Len(frames) = 1
      <3>1. Len(frames'[1].todo) = Len(frames[1].todo) - 1
        BY <2>1, Advance
      <3>2. /\ Entry = Len(list) - Len(frames[1].todo) + 1
            /\ Entry' = Len(list) - (Len(frames[1].todo) - 1) + 1
        BY <1>3, <2>1, <3>1, EntryIs, EntryWillBe, Zenon
      <3> QED
        BY <1>1, <2>1, <3>2, EntryArithmetic, Zenon
    <2>2. CASE Len(frames) # 1
      <3>1. Len(frames) > 1
        BY <1>1, <2>2, OneOrMore
      <3>2. frames'[1] = frames[1]
        BY <3>1, Advance
      <3> QED
        BY <1>1, <1>3, <2>2, <3>2, EntryIs, EntryWillBe, EntryArithmetic, Zenon
    <2> QED
      BY <2>1, <2>2
  <1>6. RestOfList'
    BY Advance DEF Searched, RestOfList
  <1>7. BelowEntry'
    <2> SUFFICES ASSUME Len(frames') > 1
                 PROVE  /\ Entry' \in DOMAIN list /\ list[Entry'].recursive
                        /\ list[Entry'].dir \in seen'
                        /\ \A name \in Names : Pending(name)' => name \in Tree(list[Entry'].dir)
      BY DEF BelowEntry
    <2>1. Entry' = Entry /\ Len(frames) > 1
      BY <1>3, <1>5
    <2> QED
      BY <1>4, <2>1 DEF Searched, BelowEntry
  <1>8. Explored'
    <2> SUFFICES ASSUME NEW name \in seen'
                 PROVE  \/ \E i \in DOMAIN list : i < Entry' /\ ~list[i].recursive
                                                  /\ list[i].dir = name
                        \/ \A child \in Children(name) :
                               Fits(child) => child \in seen' \/ Pending(child)'
      BY DEF Explored
    <2>1. CASE name \notin seen
      <3>1. name = Node.dir /\ Len(frames) = 1 /\ ~Node.recursive
        BY <2>1
      <3>2. Entry \in DOMAIN list /\ Node = list[Entry] /\ Entry < Entry'
        BY <1>2, <1>5, <3>1
      <3> QED
        BY <3>1, <3>2
    <2>2. CASE name \in seen
      <3>1. \/ \E i \in DOMAIN list : i < Entry /\ ~list[i].recursive /\ list[i].dir = name
            \/ pc = "descend" /\ name = Node.dir
            \/ \A child \in Children(name) : Fits(child) => child \in seen \/ Pending(child)
        BY <2>2 DEF Searched, Explored
      <3>2. \A i \in DOMAIN list : i < Entry => i < Entry'
        BY <1>1, <1>5
      <3>3. \A child : Fits(child) /\ (child \in seen \/ Pending(child))
                           => child \in seen' \/ Pending(child)'
        BY <1>4
      <3> QED
        BY <3>1, <3>2, <3>3
    <2> QED
      BY <2>1, <2>2
  <1>9. Covered'
    <2>1. CASE Len(frames) = 1
      <3>1. Entry \in DOMAIN list /\ Entry' = Entry + 1 /\ Len(frames') = 1
        BY <1>2, <1>3, <1>5, <2>1
      <3>2. Fits(list[Entry].dir) => list[Entry].dir \in seen'
        BY <1>2, <2>1
      <3>3. Covered
        BY DEF Searched
      <3> QED
        BY <1>1, <1>8, <3>1, <3>2, <3>3, NextEntry
    <2>2. CASE Len(frames) # 1
      BY <1>5, <2>2, SameEntry DEF Searched
    <2> QED
      BY <2>1, <2>2
  <1> QED
    BY <1>6, <1>7, <1>8, <1>9 DEF Searched

\* The file is not where stat did not find it.
LEMMA LookedKeepsNotThere ==
    ASSUME CallsSound, NotThere, Looks, StatSays(FALSE), seen' = seen \cup {Node.dir},
           holds' = holds
    PROVE  NotThere'
  <1>1. Fits(Node.dir)
    BY DEF Looks, Fits
  <1>2. Length[Node.dir] < BufLen => Real[Node.dir] \notin holds
    BY DEF StatSays
  <1> QED
    BY <1>1, <1>2 DEF NotThere

LEMMA NotHereSearched == ASSUME IInv, TypeOK', NotHere PROVE Searched'
  <1>1. /\ TypeOK /\ Searched /\ Looks /\ StatSays(FALSE) /\ pc = "look" /\ Frame.todo # << >>
        /\ Node.dir \notin seen
        /\ frames' = NodeDone /\ list' = list /\ holds' = holds /\ pc' = "look"
        /\ seen' = seen \cup {Node.dir}
        /\ ~Node.recursive /\ ~Frame.allrecur
    BY DEF IInv, CallsSound, NotHere, Looks, AtNode, Remember
  <1>2. NotThere'
    BY <1>1, LookedKeepsNotThere DEF IInv, Searched
  <1>3. Len(frames) = 1
    <2>1. Len(frames) \in Nat /\ Len(frames) >= 1 /\ Frame.allrecur = (Len(frames) > 1)
      BY <1>1, FrameFacts DEF Frame
    <2>2. ~(Len(frames) > 1)
      BY <1>1, <2>1
    <2> QED
      BY <2>1, <2>2, OneOrMore
  <1>4. /\ seen \subseteq seen' /\ \A name \in seen' : name \in seen \/ name = Node.dir
        /\ Node.dir \in seen' /\ pc # "descend"
    BY <1>1
  <1> QED
    BY <1>1, <1>2, <1>3, <1>4, AdvanceKeeps

LEMMA SkipSearched == ASSUME IInv, TypeOK', SkipSeen \/ SkipLong PROVE Searched'
  <1>1. /\ TypeOK /\ Searched /\ pc = "look" /\ Frame.todo # << >>
        /\ frames' = NodeDone /\ list' = list /\ holds' = holds /\ pc' = "look" /\ seen' = seen
    BY DEF IInv, CallsSound, SkipSeen, SkipLong, AtNode
  <1>2. NotThere'
    BY <1>1 DEF Searched, NotThere
  <1>3. Fits(Node.dir) => Node.dir \in seen'
    <2>1. CASE SkipSeen
      BY <1>1, <2>1 DEF SkipSeen
    <2>2. CASE SkipLong
      <3>1. Node.dir \in Names
        BY <1>1, NodeDoneFacts
      <3>2. Length[Node.dir] \in Nat /\ BufLen \in Nat /\ Length[Node.dir] > BufLen
        BY <2>2, <3>1, PathAssumption DEF SkipLong
      <3> QED
        BY <3>2 DEF Fits
    <2> QED
      BY <2>1, <2>2
  <1>4. pc # "descend"
    BY <1>1
  <1> QED
    BY <1>1, <1>2, <1>3, <1>4, AdvanceKeeps

\* The node has been looked at; its subdirectories come next.
LEMMA NotHereRecursiveSearched == ASSUME IInv, TypeOK', NotHereRecursive PROVE Searched'
  <1>1. /\ TypeOK /\ Searched /\ Looks /\ StatSays(FALSE) /\ pc = "look" /\ Frame.todo # << >>
        /\ frames' = frames /\ list' = list /\ holds' = holds /\ pc' = "descend"
        /\ seen' = seen \cup {Node.dir}
        /\ Node.recursive \/ Frame.allrecur
    BY DEF IInv, CallsSound, NotHereRecursive, Looks, AtNode, Remember
  <1>2. NotThere'
    BY <1>1, LookedKeepsNotThere DEF IInv, Searched
  <1>3. Entry' = Entry /\ Frame' = Frame /\ Node' = Node
    BY <1>1 DEF Entry, Frame, Node
  <1>4. \A name : Pending(name)' <=> Pending(name)
    BY <1>1 DEF Pending
  <1>5. RestOfList'
    BY <1>1 DEF Searched, RestOfList
  <1>6. BelowEntry'
    <2>1. Len(frames) = 1 => Node.recursive
      <3>1. Len(frames) = 1 => ~Frame.allrecur
        <4>1. Len(frames) >= 1 /\ Len(frames) \in Nat /\ Frame.allrecur = (Len(frames) > 1)
          BY <1>1, FrameFacts DEF Frame
        <4>2. Len(frames) = 1 => ~(Len(frames) > 1)
          BY <4>1
        <4> QED
          BY <4>1, <4>2
      <3> QED
        BY <1>1, <3>1
    <2>2. Len(frames) > 1 =>
            /\ Entry \in DOMAIN list /\ list[Entry].recursive /\ list[Entry].dir \in seen
            /\ \A name \in Names : Pending(name) => name \in Tree(list[Entry].dir)
      BY <1>1 DEF Searched, BelowEntry
    <2> QED
      BY <1>1, <1>3, <1>4, <2>1, <2>2 DEF BelowEntry
  <1>7. Explored'
    <2> SUFFICES ASSUME NEW name \in seen'
                 PROVE  \/ \E i \in DOMAIN list : i < Entry /\ ~list[i].recursive
                                                  /\ list[i].dir = name
                        \/ name = Node.dir
                        \/ \A child \in Children(name) :
                               Fits(child) => child \in seen' \/ Pending(child)
      BY <1>1, <1>3, <1>4 DEF Explored
    <2>1. CASE name = Node.dir
      BY <2>1
    <2>2. CASE name \in seen
      BY <1>1, <2>2 DEF Searched, Explored
    <2> QED
      BY <1>1, <2>1, <2>2
  <1>8. Covered'
    BY <1>1, <1>3, SameEntry DEF Searched
  <1> QED
    BY <1>2, <1>5, <1>6, <1>7, <1>8 DEF Searched

\* The subdirectories of a name are what is below it.
LEMMA ChildrenAre ==
    ASSUME NEW name \in Names, Fits(name)
    PROVE  /\ Subdirs[Real[name]] \in Seq(Names)
           /\ \A child : child \in Children(name)
                         <=> \E i \in DOMAIN Subdirs[Real[name]] : Subdirs[Real[name]][i] = child
  <1>1. Real[name] \in Dirs /\ Subdirs[Real[name]] \in Seq(Names)
    BY PathAssumption
  <1>2. Children(name) = {Subdirs[Real[name]][i] : i \in DOMAIN Subdirs[Real[name]]}
    BY DEF Children
  <1> QED
    BY <1>1, <1>2

LEMMA DescendSearched == ASSUME IInv, TypeOK', Descend PROVE Searched'
  <1> DEFINE names == Subdirs[Real[Node.dir]]
  <1>1. /\ TypeOK /\ Searched /\ pc = "descend" /\ Frame.todo # << >>
        /\ list' = list /\ holds' = holds /\ pc' = "look" /\ seen' = seen
        /\ frames' = IF names = << >> THEN NodeDone ELSE Append(NodeDone, Below(names))
    BY DEF IInv, CallsSound, Descend, AtNode
  <1>2. /\ Node.dir \in Names
        /\ Len(frames) = 1 => Entry \in DOMAIN list /\ Node = list[Entry]
        /\ Len(frames) > 1 => Pending(Node.dir)
    BY <1>1, AtEntry DEF Searched
  <1>3. Node.dir \in seen /\ Fits(Node.dir)
    BY <1>1 DEF Searched, BelowEntry, NotThere
  <1>4. /\ names \in Seq(Names)
        /\ \A child : child \in Children(Node.dir) <=> \E i \in DOMAIN names : names[i] = child
    BY <1>2, <1>3, ChildrenAre
  <1>5. NotThere'
    BY <1>1 DEF Searched, NotThere
  <1> HIDE DEF names
  <1>6. CASE names = << >>
    <2>1. Children(Node.dir) = {}
      BY <1>4, <1>6
    <2> QED
      BY <1>1, <1>3, <1>5, <1>6, <2>1, AdvanceKeeps
  <1>7. CASE names # << >>
    <2>1. /\ Len(frames') = Len(frames) + 1 /\ frames'[1] = NodeDone[1]
          /\ \A name : Pending(name)' <=>
                PendingIn(NodeDone, name) \/ \E i \in DOMAIN names : names[i] = name
      <3>1. frames' = Append(NodeDone, Below(names))
        BY <1>1, <1>7
      <3>2. \A name : Pending(name)' <=> PendingIn(frames', name)
        BY DEF Pending, PendingIn
      <3> QED
        BY <1>1, <1>4, <3>1, <3>2, Deeper
    <2>2. /\ Len(frames) \in Nat /\ Len(frames) >= 1 /\ Len(list) \in Nat
          /\ Len(frames[1].todo) \in Nat
      BY <1>1, FrameFacts
    <2>3. Entry' = Entry
      <3>1. Entry' = Len(list) - Len(NodeDone[1].todo) + 0
        <4>1. Len(frames') # 1
          BY <2>1, <2>2, OneMore
        <4> QED
          BY <1>1, <2>1, <4>1, EntryWillBe
      <3>2. CASE Len(frames) = 1
        <4>1. Len(NodeDone[1].todo) = Len(frames[1].todo) - 1
          BY <1>1, <3>2, Advance
        <4> QED
          BY <2>2, <3>1, <3>2, <4>1, EntryIs, EntryArithmetic, Zenon
      <3>3. CASE Len(frames) # 1
        <4>1. Len(frames) > 1
          BY <2>2, <3>3, OneOrMore
        <4>2. NodeDone[1] = frames[1]
          BY <1>1, <4>1, Advance
        <4> QED
          BY <3>1, <3>3, <4>2, EntryIs
      <3> QED
        BY <3>2, <3>3
    <2>4. RestOfList'
      BY <1>1, <2>1, Advance DEF Searched, RestOfList
    <2>5. /\ Entry \in DOMAIN list /\ list[Entry].recursive /\ list[Entry].dir \in seen
          /\ Node.dir \in Tree(list[Entry].dir) /\ list[Entry].dir \in Names
          /\ \A name \in Names : Pending(name) => name \in Tree(list[Entry].dir)
      <3>1. CASE Len(frames) = 1
        <4>1. Entry \in DOMAIN list /\ Node = list[Entry] /\ Node.recursive
          BY <1>1, <1>2, <3>1 DEF Searched, BelowEntry
        <4>2. \A name : ~Pending(name)
          BY <3>1 DEF Pending
        <4>3. Node.dir \in Tree(Node.dir)
          BY <1>2, TreeFacts
        <4> QED
          BY <1>2, <1>3, <4>1, <4>2, <4>3
      <3>2. CASE Len(frames) # 1
        <4>1. Len(frames) > 1
          BY <2>2, <3>2, OneOrMore
        <4>2. /\ Entry \in DOMAIN list /\ list[Entry].recursive /\ list[Entry].dir \in seen
              /\ \A name \in Names : Pending(name) => name \in Tree(list[Entry].dir)
          BY <1>1, <4>1 DEF Searched, BelowEntry
        <4>3. list[Entry].dir \in Names
          BY <1>1, <4>2 DEF TypeOK
        <4> QED
          BY <1>2, <4>1, <4>2, <4>3
      <3> QED
        BY <3>1, <3>2
    <2>6. BelowEntry'
      <3>1. ASSUME NEW name \in Names, Pending(name)'
            PROVE  name \in Tree(list[Entry].dir)
        <4>1. CASE PendingIn(NodeDone, name)
          <5>1. Pending(name)
            BY <1>1, <4>1, Advance
          <5> QED
            BY <2>5, <5>1
        <4>2. CASE \E i \in DOMAIN names : names[i] = name
          <5>1. name \in Children(Node.dir)
            BY <1>4, <4>2
          <5> QED
            BY <2>5, <5>1, TreeFacts
        <4> QED
          BY <2>1, <3>1, <4>1, <4>2
      <3> QED
        BY <1>1, <2>3, <2>5, <3>1 DEF BelowEntry
    <2>7. Explored'
      <3> SUFFICES ASSUME NEW name \in seen
                   PROVE  \/ \E i \in DOMAIN list : i < Entry /\ ~list[i].recursive
                                                    /\ list[i].dir = name
                          \/ \A child \in Children(name) :
                                 Fits(child) => child \in seen \/ Pending(child)'
        BY <1>1, <2>3 DEF Explored
      <3>1. \A child : Pending(child) => child \in seen \/ Pending(child)'
        <4>1. \A child : Pending(child) => PendingIn(NodeDone, child) \/ child = Node.dir
          BY <1>1, Advance
        <4> QED
          BY <1>3, <2>1, <4>1
      <3>2. CASE name = Node.dir
        BY <1>4, <2>1, <3>2
      <3>3. CASE name # Node.dir
        BY <1>1, <3>1, <3>3 DEF Searched, Explored
      <3> QED
        BY <3>2, <3>3
    <2>8. Covered'
      BY <1>1, <2>3, SameEntry DEF Searched
    <2> QED
      BY <1>5, <2>4, <2>6, <2>7, <2>8 DEF Searched
  <1> QED
    BY <1>6, <1>7

LEMMA ReturnSearched == ASSUME IInv, TypeOK', ReturnToCaller PROVE Searched'
  <1>1. /\ TypeOK /\ Searched /\ Frame.todo = << >> /\ Len(frames) > 1
        /\ list' = list /\ holds' = holds /\ pc' = pc /\ seen' = seen /\ frames' = Callers
    BY DEF IInv, CallsSound, ReturnToCaller
  <1>2. pc = "look"
    <2>1. pc # "descend"
      BY <1>1 DEF Searched, BelowEntry
    <2> QED
      BY <1>1, <2>1 DEF TypeOK
  <1>3. /\ Len(frames') = Len(frames) - 1 /\ frames'[1] = frames[1]
        /\ \A name : Pending(name)' <=> Pending(name)
    <2>1. \A name : Pending(name)' <=> PendingIn(frames', name)
      BY DEF Pending, PendingIn
    <2> QED
      BY <1>1, <2>1, Back
  <1>4. /\ Len(frames) \in Nat /\ Len(list) \in Nat /\ Len(frames[1].todo) \in Nat
        /\ list \in Seq(PathEntry) /\ DOMAIN list = 1..Len(list)
    BY <1>1, FrameFacts
  <1>5. Entry \in Int /\ Entry' = IF Len(frames) = 2 THEN Entry + 1 ELSE Entry
    <2>1. Entry = Len(list) - Len(frames[1].todo) + 0
      <3>1. Len(frames) # 1
        BY <1>1, <1>4, TwoOrMore
      <3> QED
        BY <3>1, EntryIs
    <2>2. Len(frames') = 1 <=> Len(frames) = 2
      BY <1>1, <1>3, <1>4, OneLess
    <2>3. CASE Len(frames) = 2
      BY <1>1, <1>3, <1>4, <2>1, <2>2, <2>3, EntryWillBe, EntryArithmetic, Zenon
    <2>4. CASE Len(frames) # 2
      BY <1>1, <1>3, <1>4, <2>1, <2>2, <2>4, EntryWillBe, EntryArithmetic, Zenon
    <2> QED
      BY <2>3, <2>4
  <1>6. NotThere' /\ RestOfList'
    BY <1>1, <1>3 DEF Searched, NotThere, RestOfList
  <1>7. /\ Entry \in DOMAIN list /\ list[Entry].recursive /\ list[Entry].dir \in seen
        /\ \A name \in Names : Pending(name) => name \in Tree(list[Entry].dir)
    BY <1>1 DEF Searched, BelowEntry
  <1>8. BelowEntry'
    <2>1. Len(frames') > 1 => Entry' = Entry
      BY <1>3, <1>4, <1>5
    <2> QED
      BY <1>1, <1>2, <1>3, <1>7, <2>1 DEF BelowEntry
  <1>9. Explored'
    <2> SUFFICES ASSUME NEW name \in seen
                 PROVE  \/ \E i \in DOMAIN list : i < Entry' /\ ~list[i].recursive
                                                  /\ list[i].dir = name
                        \/ \A child \in Children(name) :
                               Fits(child) => child \in seen \/ Pending(child)
      BY <1>1, <1>3 DEF Explored
    <2>1. \A i \in DOMAIN list : i < Entry => i < Entry'
      BY <1>4, <1>5
    <2>2. \/ \E i \in DOMAIN list : i < Entry /\ ~list[i].recursive /\ list[i].dir = name
          \/ \A child \in Children(name) : Fits(child) => child \in seen \/ Pending(child)
      BY <1>1, <1>2 DEF Searched, Explored
    <2> QED
      BY <2>1, <2>2
  <1>10. Covered'
    <2>1. CASE Len(frames) = 2
      <3>1. Len(frames') = 1 /\ Entry' = Entry + 1
        BY <1>3, <1>5, <2>1
      <3> QED
        BY <1>1, <1>2, <1>4, <1>7, <1>9, <3>1, NextEntry DEF Searched
    <2>2. CASE Len(frames) # 2
      BY <1>1, <1>5, <2>2, SameEntry DEF Searched
    <2> QED
      BY <2>1, <2>2
  <1> QED
    BY <1>6, <1>8, <1>9, <1>10 DEF Searched

\* The steps that end a search change nothing that it has covered.
LEMMA SameSearched ==
    ASSUME Searched, UNCHANGED <<list, holds, frames, pc, seen>>
    PROVE  Searched'
  <1>1. list' = list /\ holds' = holds /\ frames' = frames /\ pc' = pc /\ seen' = seen
    OBVIOUS
  <1>2. Entry' = Entry /\ Frame' = Frame /\ Node' = Node
    BY <1>1 DEF Entry, Frame, Node
  <1>3. \A name : Pending(name)' <=> Pending(name)
    BY <1>1 DEF Pending
  <1>4. RestOfList' /\ NotThere'
    BY <1>1 DEF Searched, RestOfList, NotThere
  <1>5. BelowEntry'
    BY <1>1, <1>2, <1>3 DEF Searched, BelowEntry
  <1>6. Explored'
    BY <1>1, <1>2, <1>3 DEF Searched, Explored
  <1>7. Covered'
    BY <1>1, <1>2, SameEntry DEF Searched
  <1> QED
    BY <1>4, <1>5, <1>6, <1>7 DEF Searched

LEMMA InitSearched == ASSUME Init, TypeOK PROVE Searched
  <1>1. /\ frames = <<[todo |-> list, allrecur |-> FALSE]>> /\ seen = {} /\ pc = "look"
    BY DEF Init
  <1>2. /\ Len(list) \in Nat /\ DOMAIN list = 1..Len(list) /\ list \in Seq(PathEntry)
    BY FrameFacts
  <1>3. Len(frames) = 1 /\ frames[1].todo = list
    BY <1>1
  <1>4. Entry = 1
    BY <1>2, <1>3 DEF Entry
  <1>5. RestOfList
    BY <1>2, <1>3 DEF RestOfList
  <1>6. BelowEntry /\ NotThere /\ Explored
    BY <1>1, <1>3 DEF BelowEntry, NotThere, Explored
  <1>7. Covered
    BY <1>2, <1>4 DEF Covered
  <1> QED
    BY <1>5, <1>6, <1>7 DEF Searched

LEMMA InitIInv == Init => IInv
  BY InitCalls, InitSearched DEF IInv, CallsSound

\* Every step keeps the inductive invariant.
LEMMA NextIInv == IInv /\ [Next]_vars => IInv'
  <1> SUFFICES ASSUME IInv, [Next]_vars PROVE IInv'
    OBVIOUS
  <1>1. CallsSound'
    BY NextCalls DEF IInv
  <1>2. TypeOK'
    BY <1>1 DEF CallsSound
  <1>3. Searched
    BY DEF IInv
  <1>4. SkipSeen \/ SkipLong => Searched'
    BY <1>2, SkipSearched
  <1>5. NotHere => Searched'
    BY <1>2, NotHereSearched
  <1>6. NotHereRecursive => Searched'
    BY <1>2, NotHereRecursiveSearched
  <1>7. Descend => Searched'
    BY <1>2, DescendSearched
  <1>8. ReturnToCaller => Searched'
    BY <1>2, ReturnSearched
  <1>9. Found \/ CancelSearch \/ NotFound \/ UNCHANGED vars => Searched'
    <2>1. Found \/ CancelSearch \/ NotFound \/ UNCHANGED vars
              => UNCHANGED <<list, holds, frames, pc, seen>>
      BY DEF Found, CancelSearch, NotFound, vars
    <2> QED
      BY <1>3, <2>1, SameSearched
  <1>10. Searched'
    BY <1>4, <1>5, <1>6, <1>7, <1>8, <1>9 DEF Next
  <1> QED
    BY <1>1, <1>10 DEF IInv

\* The inductive invariant holds in every reachable state: the calls are sound, and
\* what has been seen covers the entries that findFileInPath has gone past.
THEOREM Invariance == Spec => []IInv
  <1> QED
    BY InitIInv, NextIInv, PTL DEF Spec

\* findFileInPath passes no name to stat twice, whatever the links.
THEOREM NoNameTwice == Spec => []LookedOnce
  <1>1. IInv => LookedOnce
    BY DEF IInv, CallsSound
  <1> QED
    BY <1>1, Invariance, PTL

\* findFileInPath is never more calls deep than one more than the names it has
\* remembered, so that links that form a cycle do not exhaust the stack.
THEOREM DepthBound == Spec => []BoundedRecursion
  <1>1. IInv => BoundedRecursion
    BY DEF IInv, CallsSound
  <1> QED
    BY <1>1, Invariance, PTL

(* ----------------------- SearchPath implements FileLookup ---------------------- *)

\* What the search path and the buffer must be like: no entry is hidden by an earlier
\* one that is not searched recursively, and no name is cut by a single character.
Regular == /\ \A l \in Lists : Orderly(l)
           /\ \A name \in Names : Length[name] # BufLen

\* An entry that the search has gone past does not lead to the file.
LEMMA PastEntries ==
    ASSUME Regular, IInv, NEW i \in DOMAIN list, i < Entry
    PROVE  ~LeadsTo(holds, list, i)
  <1>1. Orderly(list)
    BY DEF Regular, IInv, CallsSound, TypeOK
  <1>2. \A name \in Covers(list[i]) : Fits(name) => name \in seen
    BY <1>1 DEF IInv, Searched, Covered
  <1>3. ASSUME NEW name \in seen
        PROVE  Real[name] \notin holds
    <2>1. name \in Names /\ Length[name] <= BufLen
      BY DEF IInv, CallsSound, TypeOK, Searched, NotThere, Fits
    <2>2. Length[name] \in Nat /\ BufLen \in Nat /\ Length[name] # BufLen
      BY <2>1, PathAssumption DEF Regular
    <2>3. Length[name] < BufLen
      BY <2>1, <2>2
    <2> QED
      BY <2>3 DEF IInv, Searched, NotThere
  <1> QED
    BY <1>2, <1>3 DEF LeadsTo

\* stat finds the file: the entry leads to it.
LEMMA FoundLeads ==
    ASSUME Regular, IInv, Found
    PROVE  Entry \in DOMAIN list /\ LeadsTo(holds, list, Entry)
  <1>1. /\ TypeOK /\ Searched /\ Frame.todo # << >> /\ Length[Node.dir] <= BufLen
        /\ Length[Node.dir] < BufLen => Real[Node.dir] \in holds
    BY DEF IInv, CallsSound, Found, Looks, AtNode, StatSays
  <1>2. /\ Node.dir \in Names
        /\ Len(frames) = 1 => Entry \in DOMAIN list /\ Node = list[Entry]
        /\ Len(frames) > 1 => Pending(Node.dir)
    BY <1>1, AtEntry DEF Searched
  <1>3. Fits(Node.dir) /\ Real[Node.dir] \in holds
    <2>1. Length[Node.dir] \in Nat /\ BufLen \in Nat /\ Length[Node.dir] # BufLen
      BY <1>2, PathAssumption DEF Regular
    <2> QED
      BY <1>1, <2>1 DEF Fits
  <1>4. Entry \in DOMAIN list /\ Node.dir \in Covers(list[Entry])
    <2>1. CASE Len(frames) = 1
      <3>1. Node.dir \in Tree(Node.dir)
        BY <1>2, TreeFacts
      <3> QED
        BY <1>2, <2>1, <3>1 DEF Covers
    <2>2. CASE Len(frames) > 1
      BY <1>1, <1>2, <2>2 DEF Searched, BelowEntry, Covers
    <2>3. Len(frames) = 1 \/ Len(frames) > 1
      <3>1. Len(frames) \in Nat /\ Len(frames) >= 1
        BY <1>1, FrameFacts
      <3> QED
        BY <3>1, OneOrMore
    <2> QED
      BY <2>1, <2>2, <2>3
  <1> QED
    BY <1>3, <1>4 DEF LeadsTo

\* A search that has gone through the whole list is past every entry.
LEMMA PastTheList ==
    ASSUME IInv, NotFound, NEW i \in DOMAIN list
    PROVE  i < Entry
  <1>1. TypeOK /\ Len(frames) = 1 /\ frames[1].todo = << >>
    BY DEF IInv, CallsSound, NotFound, Frame
  <1>2. Len(list) \in Nat /\ DOMAIN list = 1..Len(list)
    BY <1>1, FrameFacts
  <1>3. Entry = Len(list) + 1
    BY <1>1, <1>2 DEF Entry
  <1> QED
    BY <1>2, <1>3

\* Every step of a search is a step of FileLookup or leaves its outcome alone.
LEMMA StepImplements ==
    ASSUME Regular, IInv, [Next]_vars
    PROVE  [Lookup!Next]_<<list, holds, outcome>>
  <1>1. CASE Found
    <2>1. Entry \in DOMAIN list /\ LeadsTo(holds, list, Entry)
      BY <1>1, FoundLeads
    <2>2. \A i \in DOMAIN list : LeadsTo(holds, list, i) => ~(i < Entry)
      BY PastEntries
    <2>3. list \in Seq(PathEntry) /\ DOMAIN list = 1..Len(list) /\ Len(list) \in Nat
      BY FrameFacts DEF IInv, CallsSound
    <2>4. \A i \in DOMAIN list : ~(i < Entry) => Entry <= i
      BY <2>1, <2>3
    <2>5. Lookup!Find
      <3>1. Entry \in Lookup!Leading /\ \A i \in Lookup!Leading : Entry <= i
        BY <2>1, <2>2, <2>4 DEF Lookup!Leading
      <3>2. outcome' = [end |-> "found", entry |-> Entry]
        BY <1>1 DEF Found
      <3> QED
        BY <3>1, <3>2 DEF Lookup!Find
    <2> QED
      BY <1>1, <2>5 DEF Found, Looks, AtNode, Lookup!Next, Running, Lookup!Running
  <1>2. CASE NotFound
    <2>1. Lookup!Leading = {}
      BY <1>2, PastEntries, PastTheList DEF Lookup!Leading
    <2> QED
      BY <1>2, <2>1 DEF NotFound, Lookup!Next, Lookup!Miss, Running, Lookup!Running
  <1>3. CASE CancelSearch
    BY <1>3 DEF CancelSearch, AtNode, Lookup!Next, Lookup!Cancel, Running, Lookup!Running
  <1>4. CASE SkipSeen \/ SkipLong \/ NotHere \/ NotHereRecursive \/ Descend \/ ReturnToCaller
             \/ UNCHANGED vars
    BY <1>4 DEF SkipSeen, SkipLong, NotHere, NotHereRecursive, Descend, ReturnToCaller, vars
  <1> QED
    BY <1>1, <1>2, <1>3, <1>4 DEF Next

\* findFile is a lookup: it takes the file from the first entry of the search path that
\* leads to it and says that it is missing only when none does, for every file system
\* with any links, as long as the path is orderly and no name just fills the buffer.
THEOREM Refinement == Regular => (Spec => ImplementsLookup)
  <1>1. Init => Lookup!Init
    BY DEF Init, Lookup!Init, Running, Lookup!Running
  <1>2. Regular /\ IInv /\ [Next]_vars => [Lookup!Next]_<<list, holds, outcome>>
    BY StepImplements
  <1>3. CASE Regular
    <2>1. IInv /\ [Next]_vars => [Lookup!Next]_<<list, holds, outcome>>
      BY <1>2, <1>3
    <2> QED
      BY <1>1, <2>1, Invariance, PTL DEF Spec, ImplementsLookup, Lookup!Spec
  <1> QED
    BY <1>3
==============================================================================
