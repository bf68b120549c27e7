-------------------------- MODULE SourceFiles_proofs --------------------------
(* However the Client's event loops nest, requests and answers match, the cache *)
(* is consistent and no change of the search path pulls something from under    *)
(* the server: for any files, paths and numbers of calls.                       *)
EXTENDS SourceFiles, SequenceTheorems, FiniteSetTheorems, TLAPS

USE SourceAssumption DEF SourceAssumption

------------------------------------------------------------------------------
(* Sequences. *)

LEMMA ConcatFacts ==
  ASSUME NEW S, NEW s \in Seq(S), NEW t \in Seq(S)
  PROVE  /\ s \o t \in Seq(S) /\ Len(s \o t) = Len(s) + Len(t)
         /\ \A i \in 1..Len(s) : (s \o t)[i] = s[i]
         /\ \A i \in 1..Len(t) : (s \o t)[Len(s) + i] = t[i]
OBVIOUS

LEMMA TailFacts ==
  ASSUME NEW S, NEW s \in Seq(S), s # << >>
  PROVE  /\ Tail(s) \in Seq(S) /\ Len(Tail(s)) = Len(s) - 1
         /\ \A i \in 1..Len(Tail(s)) : Tail(s)[i] = s[i + 1] /\ i + 1 \in 1..Len(s)
         /\ Head(s) = s[1] /\ 1 \in 1..Len(s) /\ Head(s) \in S
OBVIOUS

LEMMA AppendFacts ==
  ASSUME NEW S, NEW s \in Seq(S), NEW e \in S
  PROVE  /\ Append(s, e) \in Seq(S) /\ Len(Append(s, e)) = Len(s) + 1
         /\ \A i \in 1..Len(s) : Append(s, e)[i] = s[i]
         /\ Append(s, e)[Len(s) + 1] = e
OBVIOUS

\* A stack without its last frame.
LEMMA BelowFacts ==
  ASSUME stack \in Seq(FrameRecord), stack # << >>
  PROVE  /\ Below \in Seq(FrameRecord) /\ Len(Below) = Len(stack) - 1
         /\ Len(stack) \in Nat \ {0}
         /\ \A i \in 1..Len(Below) : Below[i] = stack[i]
         /\ Top = stack[Len(stack)] /\ Top \in FrameRecord
<1>1. Len(stack) \in Nat \ {0} /\ \A i \in 1..Len(stack) : stack[i] \in FrameRecord
  OBVIOUS
<1> DEFINE n == Len(stack) - 1
<1>2. 1 \in Int /\ n \in Int /\ \A i \in 1..n : stack[i] \in FrameRecord
  BY <1>1
<1>3. /\ SubSeq(stack, 1, n) \in Seq(FrameRecord)
      /\ Len(SubSeq(stack, 1, n)) = IF 1 <= n THEN n - 1 + 1 ELSE 0
      /\ \A i \in 1..(n - 1 + 1) : SubSeq(stack, 1, n)[i] = stack[1 + i - 1]
  <2> HIDE DEF n
  <2>1. QED
    BY <1>2, SubSeqProperties
<1>4. Len(Below) = n /\ Below \in Seq(FrameRecord)
  <2>1. Below = SubSeq(stack, 1, n) /\ n \in Nat
    BY <1>1 DEF Below
  <2> HIDE DEF n
  <2>2. QED
    BY <1>3, <2>1
<1>5. ASSUME NEW i \in 1..n
      PROVE  Below[i] = stack[i]
  <2>1. i \in 1..(n - 1 + 1) /\ 1 + i - 1 = i
    BY <1>1
  <2>2. QED
    BY <1>3, <2>1 DEF Below
<1>6. QED
  BY <1>1, <1>4, <1>5 DEF Top

LEMMA FrameTyped ==
  ASSUME NEW f \in Files \cup {None}, NEW id \in Id \cup {0},
         NEW where \in {"wait", "call", "read", "dialog"}
  PROVE  Frame(where, f, id) \in FrameRecord
BY DEF Frame, FrameRecord

\* A stack in which the last frame was replaced.
LEMMA ReplaceTop ==
  ASSUME stack \in Seq(FrameRecord), stack # << >>, NEW new \in FrameRecord,
         stack' = Append(Below, new)
  PROVE  /\ stack' \in Seq(FrameRecord) /\ Len(stack') = Len(stack)
         /\ \A i \in 1..Len(stack) : i # Len(stack) => stack'[i] = stack[i]
         /\ stack'[Len(stack)] = new
<1>1. /\ Below \in Seq(FrameRecord) /\ Len(Below) = Len(stack) - 1
      /\ Len(stack) \in Nat \ {0}
      /\ \A i \in 1..Len(Below) : Below[i] = stack[i]
  BY BelowFacts
<1>2. /\ stack' \in Seq(FrameRecord) /\ Len(stack') = Len(Below) + 1
      /\ \A i \in 1..Len(Below) : stack'[i] = Below[i]
      /\ stack'[Len(Below) + 1] = new
  BY <1>1, AppendFacts
<1>3. Len(Below) + 1 = Len(stack)
  BY <1>1
<1>4. ASSUME NEW i \in 1..Len(stack), i # Len(stack)
      PROVE  stack'[i] = stack[i]
  <2>1. i \in 1..Len(Below)
    BY <1>1, <1>4
  <2>2. QED
    BY <1>1, <1>2, <2>1
<1>5. QED
  BY <1>2, <1>3, <1>4
------------------------------------------------------------------------------
(* The bound on the requests: who waits still has one to make. *)

LEMMA OneMore ==
  ASSUME NEW S, IsFiniteSet(S), NEW x
  PROVE  /\ Cardinality(S) \in Nat
         /\ Cardinality(S \cup {x}) \in Nat /\ Cardinality(S \ {x}) \in Nat
         /\ Cardinality(S \cup {x}) <= Cardinality(S) + 1
         /\ x \notin S => Cardinality(S \ {x}) = Cardinality(S)
         /\ x \in S => Cardinality(S \ {x}) = Cardinality(S) - 1
         /\ Cardinality(S \ {x}) <= Cardinality(S)
<1>1. Cardinality(S) \in Nat /\ Cardinality(S \cup {x}) \in Nat /\ Cardinality(S \ {x}) \in Nat
  BY FS_CardinalityType, FS_AddElement, FS_RemoveElement
<1>2. Cardinality(S \cup {x}) = IF x \in S THEN Cardinality(S) ELSE Cardinality(S) + 1
  BY FS_AddElement
<1>3. Cardinality(S \ {x}) = IF x \in S THEN Cardinality(S) - 1 ELSE Cardinality(S)
  BY FS_RemoveElement
<1>4. QED
  BY <1>1, <1>2, <1>3

LEMMA WaitsFinite ==
  ASSUME stack \in Seq(FrameRecord)
  PROVE  IsFiniteSet(Waits) /\ Cardinality(Waits) \in Nat
<1>1. Len(stack) \in Nat
  OBVIOUS
<1>2. IsFiniteSet(1..Len(stack))
  <2>1. 1 \in Int /\ Len(stack) \in Int
    BY <1>1
  <2>2. QED
    BY <2>1, FS_Interval
<1>3. Waits \in SUBSET (1..Len(stack))
  BY DEF Waits
<1>4. IsFiniteSet(Waits)
  BY <1>2, <1>3, FS_Subset
<1>5. QED
  BY <1>4, FS_CardinalityType

\* Pushing a frame adds at most one to those who wait.
LEMMA WaitsPush ==
  ASSUME stack \in Seq(FrameRecord), NEW new \in FrameRecord,
         stack' = Append(stack, new)
  PROVE  /\ Cardinality(Waits') \in Nat /\ Cardinality(Waits') <= Cardinality(Waits) + 1
         /\ new.at \notin {"wait", "call"} => Cardinality(Waits') = Cardinality(Waits)
<1>1. /\ Len(stack') = Len(stack) + 1 /\ Len(stack) \in Nat
      /\ \A i \in 1..Len(stack) : stack'[i] = stack[i]
      /\ stack'[Len(stack) + 1] = new
  BY AppendFacts
<1>2. Waits' = IF new.at \in {"wait", "call"} THEN Waits \cup {Len(stack) + 1} ELSE Waits
  BY <1>1 DEF Waits
<1>3. Len(stack) + 1 \notin Waits
  BY <1>1 DEF Waits
<1>4. QED
  BY <1>2, <1>3, WaitsFinite, OneMore

\* Popping one takes those who wait away, or leaves as many.
LEMMA WaitsPop ==
  ASSUME stack \in Seq(FrameRecord), stack # << >>, stack' = Below
  PROVE  Cardinality(Waits') \in Nat /\ Cardinality(Waits') <= Cardinality(Waits)
<1>1. /\ Len(stack') = Len(stack) - 1 /\ Len(stack) \in Nat \ {0}
      /\ \A i \in 1..Len(stack') : stack'[i] = stack[i]
  BY BelowFacts
<1>2. Waits' = Waits \ {Len(stack)}
  BY <1>1 DEF Waits
<1>3. QED
  BY <1>2, WaitsFinite, OneMore

LEMMA WaitsReplace ==
  ASSUME stack \in Seq(FrameRecord), stack # << >>, NEW new \in FrameRecord,
         stack' = Append(Below, new)
  PROVE  /\ Cardinality(Waits') \in Nat
         /\ Top.at \in {"wait", "call"} /\ new.at \notin {"wait", "call"} =>
                Cardinality(Waits') = Cardinality(Waits) - 1
         /\ Top.at \notin {"wait", "call"} /\ new.at \notin {"wait", "call"} =>
                Cardinality(Waits') = Cardinality(Waits)
         /\ Cardinality(Waits') <= Cardinality(Waits) + 1
<1>1. /\ Len(stack') = Len(stack) /\ Len(stack) \in Nat \ {0}
      /\ \A i \in 1..Len(stack) : i # Len(stack) => stack'[i] = stack[i]
      /\ stack'[Len(stack)] = new
  BY ReplaceTop, BelowFacts
<1>2. Waits' = IF new.at \in {"wait", "call"} THEN Waits \cup {Len(stack)}
                                              ELSE Waits \ {Len(stack)}
  BY <1>1 DEF Waits
<1>3. Top.at \in {"wait", "call"} <=> Len(stack) \in Waits
  BY <1>1 DEF Waits, Top
<1>4. Cardinality(Waits) \in Nat
  BY WaitsFinite
<1>5. CASE new.at \in {"wait", "call"}
  BY <1>2, <1>4, <1>5, WaitsFinite, OneMore
<1>6. CASE new.at \notin {"wait", "call"}
  <2>1. Waits' = Waits \ {Len(stack)}
    BY <1>2, <1>6
  <2>2. /\ Cardinality(Waits') \in Nat /\ Cardinality(Waits') <= Cardinality(Waits)
        /\ Len(stack) \in Waits => Cardinality(Waits') = Cardinality(Waits) - 1
        /\ Len(stack) \notin Waits => Cardinality(Waits') = Cardinality(Waits)
    BY <2>1, WaitsFinite, OneMore
  <2>3. QED
    BY <1>3, <1>4, <2>2
<1>7. QED
  BY <1>5, <1>6
------------------------------------------------------------------------------
(* Where the outstanding request is. *)

\* Messages are taken from the front of toServer (gone of them) or added at its
\* end, and none that is added bears the request or its answer.
LEMMA PlaceKept ==
  ASSUME OnePlace, OneAnswer, NEW gone \in Nat, pending' = pending,
         \A id \in pending : infos'[id].fullPath = infos[id].fullPath,
         \A k \in 1..Len(toServer') : toServer'[k].tag = "READ_FILE" =>
             k + gone \in 1..Len(toServer) /\ toServer'[k] = toServer[k + gone],
         searches = << >> => searches' = << >>,
         Len(searches') = Len(searches),
         \A i \in 1..Len(searches) : searches'[i].id = searches[i].id,
         Len(toClient) \in Nat, Len(toClient') \in Nat, Len(toClient') >= Len(toClient),
         \A k \in 1..Len(toClient) : toClient'[k] = toClient[k],
         \A k \in 1..Len(toClient') : k > Len(toClient) =>
             toClient'[k].tag \notin {"FULL_PATH", "READ_COMPLETE"}
  PROVE  OnePlace' /\ OneAnswer'
<1>1. ASSUME NEW k \in 1..Len(toClient'), Numbered(k)'
      PROVE  /\ k \in 1..Len(toClient) /\ Numbered(k) /\ toClient'[k] = toClient[k]
             /\ IsText(k)' => IsText(k)
             /\ IsFullPath(k)' => IsFullPath(k)
  <2>1. k \in 1..Len(toClient)
    BY <1>1 DEF Numbered, IsText, IsFullPath
  <2>2. QED
    BY <1>1, <2>1 DEF Numbered, IsText, IsFullPath
<1>2. ASSUME NEW id, Unanswered(id)
      PROVE  Unanswered(id)'
  BY <1>1, <1>2 DEF Unanswered
<1>3. OnePlace'
  <2>1. ASSUME NEW k \in 1..Len(toServer'), Asks(k)'
        PROVE  k + gone \in 1..Len(toServer) /\ Asks(k + gone)
               /\ toServer'[k] = toServer[k + gone]
    BY <2>1 DEF Asks
  <2>2. ASSUME NEW k \in 1..Len(toServer'), Asks(k)'
        PROVE  /\ Unanswered(toServer[k].id)'
               /\ searches' = << >>
               /\ \A j \in 1..Len(toServer') : Asks(j)' => j = k
    <3>1. Unanswered(toServer[k + gone].id) /\ searches = << >>
      BY <2>1, <2>2 DEF OnePlace
    <3>2. Unanswered(toServer[k].id)'
      <4>1. toServer'[k].id = toServer[k + gone].id
        BY <2>1, <2>2
      <4>2. QED
        BY <1>2, <3>1, <4>1 DEF Unanswered, Numbered, IsText, IsFullPath
    <3>3. ASSUME NEW j \in 1..Len(toServer'), Asks(j)'
          PROVE  j = k
      <4>1. j + gone = k + gone
        BY <2>1, <2>2, <3>3 DEF OnePlace
      <4>2. QED
        BY <4>1
    <3>4. QED
      BY <3>1, <3>2, <3>3
  <2>3. ASSUME NEW i \in 1..Len(searches')
        PROVE  Unanswered(searches[i].id)'
    <3>1. Unanswered(searches[i].id) /\ searches'[i].id = searches[i].id
      BY DEF OnePlace
    <3>2. QED
      BY <1>2, <3>1 DEF Unanswered, Numbered, IsText, IsFullPath
  <2>4. Len(searches') <= 1
    BY DEF OnePlace
  <2>5. QED
    BY <2>2, <2>3, <2>4 DEF OnePlace
<1>4. OneAnswer'
  <2>1. ASSUME NEW k \in 1..Len(toClient'), Numbered(k)'
        PROVE  toClient'[k].id \in pending'
    BY <1>1, <2>1 DEF OneAnswer
  <2>2. ASSUME NEW j \in 1..Len(toClient'), NEW k \in 1..Len(toClient'),
               Numbered(j)', Numbered(k)', j < k
        PROVE  IsFullPath(j)' /\ IsText(k)' /\ toClient'[j].result = toClient'[k].result
    BY <1>1, <2>2 DEF OneAnswer, IsFullPath, IsText
  <2>3. ASSUME NEW k \in 1..Len(toClient'), IsFullPath(k)'
        PROVE  toClient'[k].result.end = "found"
    BY <1>1, <2>3 DEF OneAnswer, Numbered
  <2>4. ASSUME NEW k \in 1..Len(toClient'), IsText(k)'
        PROVE  \/ \E j \in 1..(k - 1) : IsFullPath(j)'
               \/ infos'[toClient'[k].id].fullPath =
                     IF toClient'[k].result.end = "found" THEN <<toClient'[k].result>>
                                                          ELSE << >>
    <3>1. /\ k \in 1..Len(toClient) /\ IsText(k) /\ toClient'[k] = toClient[k]
          /\ toClient[k].id \in pending
      BY <1>1, <2>4 DEF OneAnswer, Numbered
    <3>2. CASE \E j \in 1..(k - 1) : IsFullPath(j)
      <4>1. PICK j \in 1..(k - 1) : IsFullPath(j)
        BY <3>2
      <4>2. j \in 1..Len(toClient)
        BY <3>1
      <4>3. IsFullPath(j)'
        BY <4>1, <4>2 DEF IsFullPath
      <4>4. QED
        BY <4>3
    <3>3. CASE infos[toClient[k].id].fullPath =
                 IF toClient[k].result.end = "found" THEN <<toClient[k].result>> ELSE << >>
      BY <3>1, <3>3
    <3>4. QED
      BY <3>1, <3>2, <3>3 DEF OneAnswer
  <2>5. QED
    BY <2>1, <2>2, <2>3, <2>4 DEF OneAnswer
<1>5. QED
  BY <1>3, <1>4

\* Messages are added to toServer; a dialog that is opened comes with its first.
LEMMA ReaderExtended ==
  ASSUME ReaderMade, reader' = reader, toServer \in Seq(Message),
         NEW msgs \in Seq(Message), toServer' = toServer \o msgs,
         \A k \in 1..Len(msgs) : msgs[k].tag = "SET_SEARCH_PATH" =>
             \E i \in 1..Len(stack) : stack[i].at = "dialog",
         \A i \in 1..Len(stack') : stack'[i].at = "dialog" =>
             \/ i \in 1..Len(stack) /\ stack[i].at = "dialog"
             \/ \E j \in 1..Len(msgs) : msgs[j].tag = "GET_SUBDIRS"
  PROVE  ReaderMade'
<1>1. /\ toServer' \in Seq(Message) /\ Len(toServer') = Len(toServer) + Len(msgs)
      /\ \A i \in 1..Len(toServer) : toServer'[i] = toServer[i]
      /\ \A i \in 1..Len(msgs) : toServer'[Len(toServer) + i] = msgs[i]
      /\ Len(toServer) \in Nat /\ Len(msgs) \in Nat
  BY ConcatFacts
<1>2. ASSUME NEW k \in 1..Len(toServer'), toServer'[k].tag = "SET_SEARCH_PATH"
      PROVE  reader \/ \E j \in 1..(k - 1) : toServer'[j].tag = "GET_SUBDIRS"
  <2>1. CASE k \in 1..Len(toServer)
    <3>1. reader \/ \E j \in 1..(k - 1) : toServer[j].tag = "GET_SUBDIRS"
      BY <1>1, <1>2, <2>1 DEF ReaderMade
    <3>2. \A j \in 1..(k - 1) : toServer'[j] = toServer[j]
      BY <1>1, <2>1
    <3>3. QED
      BY <3>1, <3>2
  <2>2. CASE k \notin 1..Len(toServer)
    <3>1. k - Len(toServer) \in 1..Len(msgs)
      BY <1>1, <2>2
    <3>2. toServer'[k] = msgs[k - Len(toServer)]
      BY <1>1, <3>1
    <3>3. reader \/ \E j \in 1..Len(toServer) : toServer[j].tag = "GET_SUBDIRS"
      BY <1>2, <3>1, <3>2 DEF ReaderMade
    <3>4. \A j \in 1..Len(toServer) : j \in 1..(k - 1) /\ toServer'[j] = toServer[j]
      BY <1>1, <2>2
    <3>5. QED
      BY <3>3, <3>4
  <2>3. QED
    BY <2>1, <2>2
<1>3. ASSUME NEW i \in 1..Len(stack'), stack'[i].at = "dialog"
      PROVE  reader \/ \E j \in 1..Len(toServer') : toServer'[j].tag = "GET_SUBDIRS"
  <2>1. CASE i \in 1..Len(stack) /\ stack[i].at = "dialog"
    <3>1. reader \/ \E j \in 1..Len(toServer) : toServer[j].tag = "GET_SUBDIRS"
      BY <2>1 DEF ReaderMade
    <3>2. \A j \in 1..Len(toServer) : j \in 1..Len(toServer') /\ toServer'[j] = toServer[j]
      BY <1>1
    <3>3. QED
      BY <3>1, <3>2
  <2>2. CASE \E j \in 1..Len(msgs) : msgs[j].tag = "GET_SUBDIRS"
    <3>1. \A j \in 1..Len(msgs) : /\ Len(toServer) + j \in 1..Len(toServer')
                                  /\ toServer'[Len(toServer) + j] = msgs[j]
      BY <1>1
    <3>2. QED
      BY <2>2, <3>1
  <2>3. QED
    BY <1>3, <2>1, <2>2
<1>4. QED
  BY <1>2, <1>3 DEF ReaderMade

\* The server takes a message and makes sourceReader for the first of the dialog's.
LEMMA ReaderTaken ==
  ASSUME ReaderMade, stack' = stack, toServer \in Seq(Message), toServer # << >>,
         toServer' = Tail(toServer),
         reader \/ Head(toServer).tag = "GET_SUBDIRS" => reader'
  PROVE  ReaderMade'
<1>1. /\ Len(toServer') = Len(toServer) - 1 /\ Len(toServer) \in Nat \ {0}
      /\ \A i \in 1..Len(toServer') : toServer'[i] = toServer[i + 1]
      /\ Head(toServer) = toServer[1]
  BY TailFacts
<1>2. ASSUME NEW n \in 1..Len(toServer), ~reader',
             \E j \in 1..n : toServer[j].tag = "GET_SUBDIRS"
      PROVE  \E j \in 1..(n - 1) : toServer'[j].tag = "GET_SUBDIRS"
  <2>1. PICK j \in 1..n : toServer[j].tag = "GET_SUBDIRS"
    BY <1>2
  <2>2. j # 1
    BY <1>1, <1>2, <2>1
  <2>3. j - 1 \in 1..(n - 1) /\ j - 1 \in 1..Len(toServer') /\ (j - 1) + 1 = j
    BY <1>1, <2>2
  <2>4. QED
    BY <1>1, <2>1, <2>3
<1>3. ASSUME NEW k \in 1..Len(toServer'), toServer'[k].tag = "SET_SEARCH_PATH", ~reader'
      PROVE  \E j \in 1..(k - 1) : toServer'[j].tag = "GET_SUBDIRS"
  <2>1. k + 1 \in 1..Len(toServer) /\ toServer[k + 1].tag = "SET_SEARCH_PATH"
    BY <1>1, <1>3
  <2>2. \E j \in 1..k : toServer[j].tag = "GET_SUBDIRS"
    <3>1. \E j \in 1..(k + 1 - 1) : toServer[j].tag = "GET_SUBDIRS"
      BY <1>3, <2>1 DEF ReaderMade
    <3>2. k + 1 - 1 = k
      BY <1>1
    <3>3. QED
      BY <3>1, <3>2
  <2>3. k \in 1..Len(toServer)
    BY <1>1
  <2>4. QED
    BY <1>2, <1>3, <2>2, <2>3
<1>4. ASSUME NEW i \in 1..Len(stack), stack[i].at = "dialog", ~reader'
      PROVE  \E j \in 1..Len(toServer') : toServer'[j].tag = "GET_SUBDIRS"
  <2>1. \E j \in 1..Len(toServer) : toServer[j].tag = "GET_SUBDIRS"
    BY <1>4 DEF ReaderMade
  <2>2. Len(toServer) \in 1..Len(toServer)
    BY <1>1
  <2>3. QED
    BY <1>1, <1>2, <1>4, <2>1, <2>2
<1>5. QED
  BY <1>3, <1>4 DEF ReaderMade
------------------------------------------------------------------------------
(* What most steps of the Client have in common: the tables stay. *)

LEMMA TablesKept ==
  ASSUME IInv, UNCHANGED <<table, pending, reading, infos>>
  PROVE  OneOutstanding' /\ CacheSound' /\ KeysAllocated'
<1>1. OneOutstanding'
  BY DEF IInv, OneOutstanding
<1>2. CacheSound'
  BY DEF IInv, CacheSound
<1>3. KeysAllocated'
  BY DEF IInv, KeysAllocated
<1>4. QED
  BY <1>1, <1>2, <1>3

LEMMA PathsKept ==
  ASSUME ReaderMade', toServer' \in Seq(Message),
         \A i \in 1..Len(searches') : searches'[i].stop = "no" => searches'[i].on = path'
  PROVE  PathsSafe'
<1>1. ASSUME toServer' # << >>, Head(toServer').tag = "SET_SEARCH_PATH"
      PROVE  reader'
  <2>1. 1 \in 1..Len(toServer') /\ Head(toServer') = toServer'[1]
    BY <1>1
  <2>2. reader' \/ \E j \in 1..(1 - 1) : toServer'[j].tag = "GET_SUBDIRS"
    BY <1>1, <2>1 DEF ReaderMade
  <2>3. QED
    BY <2>2
<1>2. QED
  BY <1>1 DEF PathsSafe

LEMMA FramesKept ==
  ASSUME FramesSound, UNCHANGED <<pending, infos>>,
         Len(infos) + Cardinality(Waits') <= MaxRequests,
         \A i \in 1..Len(stack') :
             stack'[i].at \in {"wait", "call"} => stack'[i].file \in Files,
         \A i \in 1..Len(stack') : stack'[i].at = "read" =>
             \E j \in 1..Len(stack) : stack[j].at = "read" /\ stack[j].id = stack'[i].id
  PROVE  FramesSound'
BY DEF FramesSound

------------------------------------------------------------------------------
(* The stack. *)

\* A step of the stack that makes no call read; opened tells whether it may open
\* the dialog.
StackStep(opened) ==
    /\ stack' \in Seq(FrameRecord)
    /\ Len(infos) + Cardinality(Waits') <= MaxRequests
    /\ \A i \in 1..Len(stack') :
          stack'[i].at \in {"wait", "call"} => stack'[i].file \in Files
    /\ \A i \in 1..Len(stack') : stack'[i].at = "read" =>
          \E j \in 1..Len(stack) : stack[j].at = "read" /\ stack[j].id = stack'[i].id
    /\ \A i \in 1..Len(stack') : stack'[i].at = "dialog" =>
          \/ i \in 1..Len(stack) /\ stack[i].at = "dialog"
          \/ opened

LEMMA StackSame ==
  ASSUME IInv, stack' = stack, NEW opened
  PROVE  StackStep(opened)
<1>1. Waits' = Waits
  BY DEF Waits
<1>2. QED
  BY <1>1 DEF IInv, TypeOK, FramesSound, StackStep

LEMMA StackPop ==
  ASSUME IInv, stack # << >>, stack' = Below, NEW opened
  PROVE  StackStep(opened)
<1>1. stack \in Seq(FrameRecord) /\ Len(infos) \in Nat /\ MaxRequests \in Nat
  BY DEF IInv, TypeOK
<1>2. /\ stack' \in Seq(FrameRecord) /\ Len(stack) \in Nat \ {0}
      /\ Len(stack') = Len(stack) - 1
      /\ \A i \in 1..Len(stack') : i \in 1..Len(stack) /\ stack'[i] = stack[i]
  BY <1>1, BelowFacts
<1>3. Len(infos) + Cardinality(Waits') <= MaxRequests
  BY <1>1, WaitsPop, WaitsFinite DEF IInv, FramesSound
<1>4. QED
  BY <1>2, <1>3 DEF IInv, FramesSound, StackStep

LEMMA StackPush ==
  ASSUME IInv, NEW opened, NEW new \in FrameRecord, stack' = Append(stack, new),
         new.at # "read", new.at = "dialog" => opened,
         new.at \in {"wait", "call"} => new.file \in Files /\ MayCall
  PROVE  StackStep(opened)
<1>1. stack \in Seq(FrameRecord) /\ Len(infos) \in Nat /\ MaxRequests \in Nat
  BY DEF IInv, TypeOK
<1>2. /\ stack' \in Seq(FrameRecord) /\ Len(stack) \in Nat
      /\ Len(stack') = Len(stack) + 1
      /\ \A i \in 1..Len(stack) : stack'[i] = stack[i]
      /\ stack'[Len(stack) + 1] = new
  BY <1>1, AppendFacts
<1>3. Len(infos) + Cardinality(Waits') <= MaxRequests
  <2>1. CASE new.at \in {"wait", "call"}
    BY <1>1, <2>1, WaitsPush, WaitsFinite DEF MayCall
  <2>2. CASE new.at \notin {"wait", "call"}
    BY <1>1, <2>2, WaitsPush, WaitsFinite DEF IInv, FramesSound
  <2>3. QED
    BY <2>1, <2>2
<1>4. ASSUME NEW i \in 1..Len(stack')
      PROVE  (i \in 1..Len(stack) /\ stack'[i] = stack[i]) \/ stack'[i] = new
  <2>1. i \in 1..Len(stack) \/ i = Len(stack) + 1
    BY <1>2
  <2>2. QED
    BY <1>2, <2>1
<1>5. QED
  BY <1>2, <1>3, <1>4 DEF IInv, FramesSound, StackStep

\* A step that changes the stack and sends msgs, but asks for no file.
LEMMA ClientStep ==
  ASSUME IInv, UNCHANGED <<table, pending, reading, infos, guiPath, serverVars, toClient>>,
         progress' \in {"none", "shown", "stopped"}, up' \in BOOLEAN,
         dialogs' \in 0..MaxDialogs, beats' \in 0..MaxBeats,
         NEW msgs \in Seq(Message), toServer' = toServer \o msgs,
         \A k \in 1..Len(msgs) : msgs[k].tag # "READ_FILE",
         \A k \in 1..Len(msgs) : msgs[k].tag = "SET_SEARCH_PATH" =>
             \E i \in 1..Len(stack) : stack[i].at = "dialog",
         StackStep(\E j \in 1..Len(msgs) : msgs[j].tag = "GET_SUBDIRS")
  PROVE  IInv'
<1>1. toServer \in Seq(Message) /\ toClient \in Seq(Reply)
  BY DEF IInv, TypeOK
<1>2. /\ toServer' \in Seq(Message) /\ Len(toServer') = Len(toServer) + Len(msgs)
      /\ \A i \in 1..Len(toServer) : toServer'[i] = toServer[i]
      /\ \A i \in 1..Len(msgs) : toServer'[Len(toServer) + i] = msgs[i]
      /\ Len(toServer) \in Nat /\ Len(msgs) \in Nat /\ Len(toClient) \in Nat
  BY <1>1, ConcatFacts
<1>3. TypeOK'
  <2>1. UNCHANGED <<searches, path, reader, server>>
    BY DEF serverVars
  <2>2. QED
    BY <1>2, <2>1 DEF IInv, TypeOK, StackStep
<1>4. OnePlace' /\ OneAnswer'
  <2>1. ASSUME NEW k \in 1..Len(toServer'), toServer'[k].tag = "READ_FILE"
        PROVE  k + 0 \in 1..Len(toServer) /\ toServer'[k] = toServer[k + 0]
    <3>1. CASE k \in 1..Len(toServer)
      BY <1>2, <3>1
    <3>2. CASE k \notin 1..Len(toServer)
      <4>1. k - Len(toServer) \in 1..Len(msgs) /\ Len(toServer) + (k - Len(toServer)) = k
        BY <1>2, <3>2
      <4>2. QED
        BY <1>2, <2>1, <4>1
    <3>3. QED
      BY <3>1, <3>2
  <2>2. searches' = searches
    BY DEF serverVars
  <2>3. OnePlace /\ OneAnswer
    BY DEF IInv
  <2>4. /\ 0 \in Nat /\ Len(toClient') \in Nat /\ Len(toClient') >= Len(toClient)
        /\ \A k \in 1..Len(toClient) : toClient'[k] = toClient[k]
        /\ \A k \in 1..Len(toClient') : ~(k > Len(toClient))
    BY <1>2
  <2>5. /\ pending' = pending /\ infos' = infos
        /\ \A k \in 1..Len(toServer') : toServer'[k].tag = "READ_FILE" =>
               k + 0 \in 1..Len(toServer) /\ toServer'[k] = toServer[k + 0]
    BY <2>1
  <2>6. QED
    BY <1>2, <2>2, <2>3, <2>4, <2>5, PlaceKept
<1>5. ReaderMade'
  BY <1>1, ReaderExtended DEF IInv, serverVars, StackStep
<1>6. PathsSafe'
  <2>1. UNCHANGED <<searches, path>>
    BY DEF serverVars
  <2>2. QED
    BY <1>2, <1>5, <2>1, PathsKept DEF IInv, PathsSafe
<1>7. FramesSound'
  BY FramesKept DEF IInv, StackStep
<1>8. QED
  BY <1>3, <1>4, <1>5, <1>6, <1>7, TablesKept DEF IInv
------------------------------------------------------------------------------
(* The steps of the Client, one by one. *)

LEMMA MessageTyped ==
  ASSUME IInv
  PROVE  /\ << >> \in Seq(Message)
         /\ \A t \in {"HEARTBEAT", "GUI_QUIT", "GET_SUBDIRS", "REPORT_SEARCH_PATH"} :
                [tag |-> t] \in Message
         /\ \A id \in Id : [tag |-> "CANCEL", id |-> id] \in Message
         /\ \A p \in Paths : [tag |-> "SET_SEARCH_PATH", path |-> p] \in Message
         /\ \A id \in Id, f \in Files : [tag |-> "READ_FILE", id |-> id, file |-> f] \in Message
         /\ toServer \o << >> = toServer
BY DEF Message, IInv, TypeOK

LEMMA CalledTyped ==
  ASSUME NEW f \in Files, reading \in BOOLEAN
  PROVE  /\ Called(f) \in FrameRecord /\ Called(f).file = f
         /\ Called(f).at \in {"wait", "call"}
BY DEF Called, Frame, FrameRecord

\* A step that sends nothing.
LEMMA SilentStep ==
  ASSUME IInv, UNCHANGED <<table, pending, reading, infos, guiPath, serverVars,
                           toServer, toClient>>,
         progress' \in {"none", "shown", "stopped"}, up' \in BOOLEAN,
         dialogs' \in 0..MaxDialogs, beats' \in 0..MaxBeats, StackStep(FALSE)
  PROVE  IInv'
<1> DEFINE msgs == << >>
<1>1. msgs \in Seq(Message) /\ toServer' = toServer \o msgs /\ Len(msgs) = 0
  BY MessageTyped
<1>2. \A k \in 1..Len(msgs) : FALSE
  BY <1>1
<1>3. StackStep(\E j \in 1..Len(msgs) : msgs[j].tag = "GET_SUBDIRS")
  BY <1>2 DEF StackStep
<1> HIDE DEF msgs
<1>4. QED
  BY <1>1, <1>2, <1>3, ClientStep

\* A step that sends one message, neither of the dialog nor for a file.
LEMMA OneMessageStep ==
  ASSUME IInv, UNCHANGED <<table, pending, reading, infos, guiPath, serverVars, toClient>>,
         progress' \in {"none", "shown", "stopped"}, up' \in BOOLEAN,
         dialogs' \in 0..MaxDialogs, beats' \in 0..MaxBeats, StackStep(FALSE),
         NEW m \in Message, toServer' = toServer \o <<m>>,
         m.tag \notin {"READ_FILE", "SET_SEARCH_PATH"}
  PROVE  IInv'
<1> DEFINE msgs == <<m>>
<1>1. /\ msgs \in Seq(Message) /\ toServer' = toServer \o msgs
      /\ \A k \in 1..Len(msgs) : msgs[k] = m
  OBVIOUS
<1>2. StackStep(\E j \in 1..Len(msgs) : msgs[j].tag = "GET_SUBDIRS")
  BY DEF StackStep
<1> HIDE DEF msgs
<1>3. QED
  BY <1>1, <1>2, ClientStep

LEMMA GetSourceInv ==
  ASSUME IInv, NEW f \in Files, GetSource(f)
  PROVE  IInv'
<1>1. Called(f) \in FrameRecord /\ Called(f).file = f /\ Called(f).at \in {"wait", "call"}
  BY CalledTyped DEF IInv, TypeOK
<1>2. StackStep(FALSE)
  BY <1>1, StackPush DEF GetSource
<1>3. QED
  BY <1>2, SilentStep DEF GetSource, fileVars, IInv, TypeOK

LEMMA ReturnsInv ==
  ASSUME IInv, FoundAfterWaiting \/ ReturnInfo \/ RejectDialog
  PROVE  IInv'
<1>1. stack # << >> /\ stack' = Below
  BY DEF FoundAfterWaiting, ReturnInfo, RejectDialog, AfterWaiting, IsAt
<1>2. StackStep(FALSE)
  BY <1>1, StackPop
<1>3. /\ UNCHANGED <<table, pending, reading, infos, guiPath, serverVars, toServer, toClient>>
      /\ UNCHANGED <<up, dialogs, beats>> /\ progress' \in {progress, "none"}
  BY DEF FoundAfterWaiting, ReturnInfo, RejectDialog, fileVars
<1>4. QED
  BY <1>2, <1>3, SilentStep DEF IInv, TypeOK

LEMMA ProgressInv ==
  ASSUME IInv, ShowProgress \/ PressStop
  PROVE  IInv'
<1>1. StackStep(FALSE)
  BY StackSame DEF ShowProgress, PressStop
<1>2. /\ UNCHANGED <<table, pending, reading, infos, guiPath, serverVars, toServer, toClient>>
      /\ UNCHANGED <<up, dialogs, beats>> /\ progress' \in {"shown", "stopped"}
  BY DEF ShowProgress, PressStop
<1>3. QED
  BY <1>1, <1>2, SilentStep DEF IInv, TypeOK

LEMMA SendCancelInv ==
  ASSUME IInv, SendCancel
  PROVE  IInv'
<1> DEFINE new == [Top EXCEPT !.canceled = TRUE]
<1>1. stack \in Seq(FrameRecord) /\ stack # << >> /\ Top.at = "read"
  BY DEF SendCancel, IsAt, IInv, TypeOK
<1>2. /\ Len(stack) \in Nat \ {0} /\ Top = stack[Len(stack)] /\ Top \in FrameRecord
      /\ Len(stack) \in 1..Len(stack)
  BY <1>1, BelowFacts
<1>3. new \in FrameRecord /\ new.at = "read" /\ new.id = Top.id
  BY <1>1, <1>2 DEF FrameRecord
<1>4. stack' = Append(Below, new)
  BY DEF SendCancel
<1> HIDE DEF new
<1>5. Top.id \in Id
  <2>1. Top.id \in DOMAIN infos /\ Len(infos) \in Nat /\ Len(infos) <= MaxRequests
        /\ infos \in Seq(FileInfo)
    BY <1>1, <1>2 DEF IInv, TypeOK, FramesSound
  <2>2. QED
    BY <2>1 DEF Id
<1>6. StackStep(FALSE)
  <2>1. /\ stack' \in Seq(FrameRecord) /\ Len(stack') = Len(stack)
        /\ \A i \in 1..Len(stack) : i # Len(stack) => stack'[i] = stack[i]
        /\ stack'[Len(stack)] = new
    BY <1>1, <1>3, <1>4, ReplaceTop
  <2>2. Cardinality(Waits') = Cardinality(Waits)
    BY <1>1, <1>3, <1>4, WaitsReplace
  <2>3. QED
    BY <1>1, <1>2, <1>3, <2>1, <2>2 DEF IInv, FramesSound, StackStep
<1>7. [tag |-> "CANCEL", id |-> Top.id] \in Message
  BY <1>5, MessageTyped
<1>8. QED
  BY <1>6, <1>7, OneMessageStep DEF SendCancel, ToServer, IInv, TypeOK

LEMMA HeartbeatInv ==
  ASSUME IInv, Heartbeat
  PROVE  IInv'
<1>1. StackStep(FALSE) /\ [tag |-> "HEARTBEAT"] \in Message
  BY StackSame, MessageTyped DEF Heartbeat
<1>2. beats' \in 0..MaxBeats
  BY DEF Heartbeat, IInv, TypeOK
<1>3. QED
  BY <1>1, <1>2, OneMessageStep DEF Heartbeat, ToServer, fileVars, IInv, TypeOK

LEMMA WindowClosedInv ==
  ASSUME IInv, ReportWindowClosed
  PROVE  IInv'
<1>1. StackStep(FALSE) /\ [tag |-> "GUI_QUIT"] \in Message
  BY StackSame, MessageTyped DEF ReportWindowClosed
<1>2. QED
  BY <1>1, OneMessageStep DEF ReportWindowClosed, ToServer, fileVars, IInv, TypeOK

LEMMA OpenDialogInv ==
  ASSUME IInv, OpenDialog
  PROVE  IInv'
<1> DEFINE msgs == <<[tag |-> "GET_SUBDIRS"], [tag |-> "REPORT_SEARCH_PATH"]>>
<1>1. /\ msgs \in Seq(Message) /\ toServer' = toServer \o msgs /\ Len(msgs) = 2
      /\ msgs[1].tag = "GET_SUBDIRS" /\ msgs[2].tag = "REPORT_SEARCH_PATH"
  <2>1. toServer' = toServer \o msgs
    BY DEF OpenDialog, ToServer
  <2>2. [tag |-> "GET_SUBDIRS"] \in Message /\ [tag |-> "REPORT_SEARCH_PATH"] \in Message
    BY MessageTyped
  <2>3. QED
    BY <2>1, <2>2
<1> HIDE DEF msgs
<1>2. \A k \in 1..Len(msgs) : msgs[k].tag \notin {"READ_FILE", "SET_SEARCH_PATH"}
  BY <1>1
<1>3. Dialog \in FrameRecord /\ Dialog.at = "dialog"
  BY DEF Dialog, Frame, FrameRecord
<1>4. StackStep(\E j \in 1..Len(msgs) : msgs[j].tag = "GET_SUBDIRS")
  <2>1. \E j \in 1..Len(msgs) : msgs[j].tag = "GET_SUBDIRS"
    BY <1>1
  <2>2. QED
    BY <1>3, <2>1, StackPush DEF OpenDialog, PushDialog
<1>5. /\ UNCHANGED <<table, pending, reading, infos, progress, guiPath, serverVars, toClient>>
      /\ UNCHANGED <<up, beats>> /\ dialogs' \in 0..MaxDialogs
  BY DEF OpenDialog, PushDialog, fileVars, IInv, TypeOK
<1>6. QED
  BY <1>1, <1>2, <1>4, <1>5, ClientStep DEF IInv, TypeOK

\* clear() touches no record that is still pending.
LEMMA ClearedFacts ==
  ASSUME IInv
  PROVE  /\ Cleared \in Seq(FileInfo) /\ Len(Cleared) = Len(infos)
         /\ DOMAIN Cleared = DOMAIN infos
         /\ \A id \in DOMAIN infos : /\ Cleared[id].text = infos[id].text
                                     /\ Cleared[id].fullPath = infos[id].fullPath
                                     /\ Cleared[id].file = infos[id].file
         /\ \A id \in pending : Cleared[id] = infos[id]
<1>1. infos \in Seq(FileInfo) /\ Len(infos) \in Nat /\ DOMAIN infos = 1..Len(infos)
      /\ \A id \in DOMAIN infos : infos[id] \in FileInfo
  BY DEF IInv, TypeOK
<1>2. ASSUME NEW id \in DOMAIN infos
      PROVE  /\ Cleared[id] \in FileInfo /\ Cleared[id].text = infos[id].text
             /\ Cleared[id].fullPath = infos[id].fullPath
             /\ Cleared[id].file = infos[id].file
  BY <1>1 DEF Cleared, FileInfo
<1>3. Cleared \in Seq(FileInfo) /\ Len(Cleared) = Len(infos)
      /\ DOMAIN Cleared = DOMAIN infos
  <2>1. Cleared \in [1..Len(infos) -> FileInfo] /\ DOMAIN Cleared = DOMAIN infos
    BY <1>1, <1>2 DEF Cleared
  <2> HIDE DEF Cleared
  <2>2. QED
    BY <1>1, <2>1
<1>4. ASSUME NEW id \in pending
      PROVE  Cleared[id] = infos[id]
  <2>1. id \in DOMAIN infos /\ infos[id].text = << >>
    BY DEF IInv, OneOutstanding
  <2>2. id # 0
    BY <1>1, <2>1
  <2>3. ASSUME NEW f \in Files, table[f] = id
        PROVE  FALSE
    BY <2>1, <2>2, <2>3 DEF IInv, CacheSound
  <2>4. QED
    BY <2>1, <2>3 DEF Cleared
<1>5. QED
  BY <1>2, <1>3, <1>4

LEMMA AcceptDialogInv ==
  ASSUME IInv, NEW p \in Paths, AcceptDialog(p)
  PROVE  IInv'
<1> DEFINE msgs == <<[tag |-> "SET_SEARCH_PATH", path |-> p]>>
<1>1. /\ msgs \in Seq(Message) /\ toServer' = toServer \o msgs /\ Len(msgs) = 1
      /\ msgs[1].tag = "SET_SEARCH_PATH"
  <2>1. toServer' = toServer \o msgs
    BY DEF AcceptDialog, ToServer
  <2>2. [tag |-> "SET_SEARCH_PATH", path |-> p] \in Message
    BY MessageTyped
  <2>3. QED
    BY <2>1, <2>2
<1> HIDE DEF msgs
<1>2. \A k \in 1..Len(msgs) : msgs[k].tag = "SET_SEARCH_PATH"
  BY <1>1
<1>3. /\ toServer \in Seq(Message) /\ toClient \in Seq(Reply) /\ stack \in Seq(FrameRecord)
      /\ infos \in Seq(FileInfo) /\ table \in [Files -> Id \cup {0}]
      /\ Len(infos) \in Nat /\ DOMAIN infos = 1..Len(infos)
  BY DEF IInv, TypeOK
<1>4. /\ UNCHANGED <<pending, reading, progress, up, dialogs, beats, toClient>>
      /\ UNCHANGED <<searches, path, reader, server>>
      /\ infos' = Cleared /\ table' = [f \in Files |-> 0] /\ guiPath' = p
      /\ stack # << >> /\ Top.at = "dialog"
  BY DEF AcceptDialog, IsAt, serverVars
<1>5. /\ Cleared \in Seq(FileInfo) /\ Len(Cleared) = Len(infos)
      /\ DOMAIN Cleared = DOMAIN infos
      /\ \A id \in DOMAIN infos : /\ Cleared[id].text = infos[id].text
                                  /\ Cleared[id].fullPath = infos[id].fullPath
                                  /\ Cleared[id].file = infos[id].file
      /\ \A id \in pending : Cleared[id] = infos[id]
  BY ClearedFacts
<1>6. /\ toServer' \in Seq(Message) /\ Len(toServer') = Len(toServer) + Len(msgs)
      /\ \A i \in 1..Len(toServer) : toServer'[i] = toServer[i]
      /\ \A i \in 1..Len(msgs) : toServer'[Len(toServer) + i] = msgs[i]
      /\ Len(toServer) \in Nat /\ Len(msgs) \in Nat /\ Len(toClient) \in Nat
  <2>1. Len(toServer) \in Nat /\ Len(msgs) \in Nat /\ Len(toClient) \in Nat
    BY <1>1, <1>3
  <2>2. /\ toServer \in Seq(Message) /\ msgs \in Seq(Message)
        /\ toServer' = toServer \o msgs
    BY <1>1, <1>3
  <2>3. QED
    BY <2>1, <2>2, ConcatFacts
<1>7. StackStep(FALSE)
  <2>1. CASE stack' = Below
    BY <1>4, <2>1, StackPop
  <2>2. ASSUME NEW f \in Files, MayCall, stack' = Append(Below, Called(f))
        PROVE  StackStep(FALSE)
    <3>1. Called(f) \in FrameRecord /\ Called(f).file = f /\ Called(f).at \in {"wait", "call"}
      BY CalledTyped DEF IInv, TypeOK
    <3>2. /\ stack' \in Seq(FrameRecord) /\ Len(stack') = Len(stack)
          /\ \A i \in 1..Len(stack) : i # Len(stack) => stack'[i] = stack[i]
          /\ stack'[Len(stack)] = Called(f)
      BY <1>3, <1>4, <2>2, <3>1, ReplaceTop
    <3>3. Cardinality(Waits') \in Nat /\ Cardinality(Waits') <= Cardinality(Waits) + 1
      BY <1>3, <1>4, <2>2, <3>1, WaitsReplace
    <3>4. Len(infos) + Cardinality(Waits') <= MaxRequests
      BY <1>3, <2>2, <3>3, WaitsFinite DEF MayCall
    <3>5. ASSUME NEW i \in 1..Len(stack')
          PROVE  stack'[i] = Called(f) \/ (i \in 1..Len(stack) /\ stack'[i] = stack[i])
      <4>1. i \in 1..Len(stack)
        BY <3>2
      <4>2. CASE i = Len(stack)
        BY <3>2, <4>2
      <4>3. CASE i # Len(stack)
        BY <3>2, <4>1, <4>3
      <4>4. QED
        BY <4>2, <4>3
    <3>6. QED
      BY <3>1, <3>2, <3>4, <3>5 DEF IInv, FramesSound, StackStep
  <2>3. QED
    BY <2>1, <2>2 DEF AcceptDialog
<1>8. TypeOK'
  BY <1>3, <1>4, <1>5, <1>6, <1>7 DEF IInv, TypeOK, StackStep
<1>9. OneOutstanding'
  <2>1. ASSUME NEW id \in pending
        PROVE  /\ infos'[id].text = << >> /\ infos'[id].live
               /\ table'[infos'[id].file] = 0
    <3>1. id \in DOMAIN infos /\ infos[id].text = << >> /\ infos[id].live
          /\ infos[id].file \in Files
      <4>1. id \in DOMAIN infos /\ infos[id].text = << >> /\ infos[id].live
        BY DEF IInv, OneOutstanding
      <4>2. infos[id] \in FileInfo
        BY <1>3, <4>1
      <4>3. QED
        BY <4>1, <4>2 DEF FileInfo
    <3>2. QED
      BY <1>4, <1>5, <3>1
  <2>2. QED
    BY <1>4, <1>5, <2>1 DEF IInv, OneOutstanding
<1>10. OnePlace' /\ OneAnswer'
  <2>1. ASSUME NEW k \in 1..Len(toServer'), toServer'[k].tag = "READ_FILE"
        PROVE  k + 0 \in 1..Len(toServer) /\ toServer'[k] = toServer[k + 0]
    <3>1. CASE k \in 1..Len(toServer)
      BY <1>6, <3>1
    <3>2. CASE k \notin 1..Len(toServer)
      <4>1. k - Len(toServer) \in 1..Len(msgs) /\ Len(toServer) + (k - Len(toServer)) = k
        BY <1>6, <3>2
      <4>2. QED
        BY <1>2, <1>6, <2>1, <4>1
    <3>3. QED
      BY <3>1, <3>2
  <2>2. searches' = searches /\ OnePlace /\ OneAnswer
    BY <1>4 DEF IInv
  <2>3. /\ 0 \in Nat /\ Len(toClient') \in Nat /\ Len(toClient') >= Len(toClient)
        /\ \A k \in 1..Len(toClient) : toClient'[k] = toClient[k]
        /\ \A k \in 1..Len(toClient') : ~(k > Len(toClient))
    BY <1>4, <1>6
  <2>4. /\ pending' = pending
        /\ \A id \in pending : infos'[id].fullPath = infos[id].fullPath
        /\ \A k \in 1..Len(toServer') : toServer'[k].tag = "READ_FILE" =>
               k + 0 \in 1..Len(toServer) /\ toServer'[k] = toServer[k + 0]
    BY <1>4, <1>5, <2>1
  <2>5. QED
    BY <1>6, <2>2, <2>3, <2>4, PlaceKept
<1>11. FramesSound'
  <2>1. Len(infos') + Cardinality(Waits') <= MaxRequests
    BY <1>4, <1>5, <1>7 DEF StackStep
  <2>2. ASSUME NEW i \in 1..Len(stack'), stack'[i].at = "read"
        PROVE  /\ stack'[i].id \in DOMAIN infos'
               /\ infos'[stack'[i].id].text = << >> => stack'[i].id \in pending'
    <3>1. PICK j \in 1..Len(stack) : stack[j].at = "read" /\ stack[j].id = stack'[i].id
      BY <1>7, <2>2 DEF StackStep
    <3>2. /\ stack[j].id \in DOMAIN infos
          /\ infos[stack[j].id].text = << >> => stack[j].id \in pending
      BY <3>1 DEF IInv, FramesSound
    <3>3. QED
      BY <1>4, <1>5, <3>1, <3>2
  <2>3. QED
    BY <1>7, <2>1, <2>2 DEF FramesSound, StackStep
<1>12. CacheSound'
  <2>1. \A f \in Files : table'[f] = 0
    BY <1>4
  <2>2. \A id \in pending' : table'[infos'[id].file] = 0
    BY <1>4, <1>9 DEF OneOutstanding
  <2>3. QED
    BY <2>1, <2>2 DEF CacheSound
<1>13. KeysAllocated'
  BY <1>4 DEF KeysAllocated
<1>14. ReaderMade'
  <2>1. \E i \in 1..Len(stack) : stack[i].at = "dialog"
    <3>1. Len(stack) \in 1..Len(stack) /\ Top = stack[Len(stack)]
      BY <1>3, <1>4, BelowFacts
    <3>2. QED
      BY <1>4, <3>1
  <2>2. \A i \in 1..Len(stack') : stack'[i].at = "dialog" =>
            i \in 1..Len(stack) /\ stack[i].at = "dialog"
    BY <1>7 DEF StackStep
  <2>3. QED
    BY <1>1, <1>3, <1>4, <2>1, <2>2, ReaderExtended DEF IInv
<1>15. PathsSafe'
  BY <1>4, <1>6, <1>14, PathsKept DEF IInv, PathsSafe
<1>16. QED
  BY <1>8, <1>9, <1>10, <1>11, <1>12, <1>13, <1>14, <1>15 DEF IInv

\* When sourceState is not readingFile, nothing of a request is under way.
LEMMA NothingAsked ==
  ASSUME IInv, ~reading
  PROVE  /\ pending = {} /\ searches = << >>
         /\ \A k \in 1..Len(toServer) : ~Asks(k)
         /\ \A k \in 1..Len(toClient) : ~Numbered(k)
<1>1. pending = {}
  BY DEF IInv, OneOutstanding
<1>2. \A k \in 1..Len(toServer) : ~Asks(k)
  BY <1>1 DEF IInv, OnePlace, Unanswered
<1>3. \A k \in 1..Len(toClient) : ~Numbered(k)
  BY <1>1 DEF IInv, OneAnswer
<1>4. searches = << >>
  <2>1. \A i \in 1..Len(searches) : FALSE
    BY <1>1 DEF IInv, OnePlace, Unanswered
  <2>2. searches \in Seq(SearchRecord) /\ Len(searches) \in Nat
    BY DEF IInv, TypeOK
  <2>3. Len(searches) = 0
    BY <2>1, <2>2
  <2>4. QED
    BY <2>2, <2>3
<1>5. QED
  BY <1>1, <1>2, <1>3, <1>4

LEMMA RequestFileInv ==
  ASSUME IInv, RequestFile
  PROVE  IInv'
<1> DEFINE f == Top.file
           id == NextKey
           new == Reading(f, id)
           msgs == <<[tag |-> "READ_FILE", id |-> id, file |-> f]>>
<1>1. /\ ~reading /\ stack # << >> /\ Top.at \in {"wait", "call"} /\ table[f] = 0
      /\ stack' = Append(Below, new)
      /\ infos' = Append(infos, Blank(f))
      /\ pending' = pending \cup {id} /\ reading' = TRUE
      /\ toServer' = toServer \o msgs
      /\ UNCHANGED <<table, progress, up, guiPath, dialogs, beats, toClient>>
      /\ UNCHANGED <<searches, path, reader, server>>
  BY DEF RequestFile, AfterWaiting, SendReadFile, ToServer, IsAt, serverVars
<1>2. /\ pending = {} /\ searches = << >>
      /\ \A k \in 1..Len(toServer) : ~Asks(k)
      /\ \A k \in 1..Len(toClient) : ~Numbered(k)
  BY <1>1, NothingAsked
<1>3. /\ toServer \in Seq(Message) /\ toClient \in Seq(Reply) /\ stack \in Seq(FrameRecord)
      /\ infos \in Seq(FileInfo) /\ table \in [Files -> Id \cup {0}]
      /\ Len(infos) \in Nat /\ DOMAIN infos = 1..Len(infos)
      /\ id = Len(infos) + 1
  BY DEF IInv, TypeOK, NextKey
<1>4. Len(stack) \in Nat \ {0} /\ Top = stack[Len(stack)] /\ Top \in FrameRecord
  BY <1>1, <1>3, BelowFacts
<1>5. f \in Files
  BY <1>1, <1>4 DEF IInv, FramesSound
<1>6. Blank(f) \in FileInfo /\ Blank(f).text = << >> /\ Blank(f).fullPath = << >>
      /\ Blank(f).live /\ Blank(f).file = f
  BY <1>5 DEF Blank, FileInfo, Outcome
<1> HIDE DEF id, f
<1>7. /\ infos' \in Seq(FileInfo) /\ Len(infos') = Len(infos) + 1
      /\ DOMAIN infos' = 1..(Len(infos) + 1)
      /\ \A i \in DOMAIN infos : infos'[i] = infos[i] /\ i # id /\ i \in DOMAIN infos'
      /\ id \in DOMAIN infos'
      /\ infos'[id] = Blank(f)
  <2>1. /\ infos' \in Seq(FileInfo) /\ Len(infos') = Len(infos) + 1
        /\ \A i \in 1..Len(infos) : infos'[i] = infos[i]
        /\ infos'[Len(infos) + 1] = Blank(f)
    BY <1>1, <1>3, <1>6, AppendFacts
  <2>2. QED
    BY <1>3, <2>1
<1>8. new.at = "read" /\ new.id = id
  BY DEF Reading, Frame
<1>9. id \in Id /\ new \in FrameRecord /\ Len(infos') + Cardinality(Waits') <= MaxRequests
  <2>1. id \in Nat
    BY <1>3
  <2>2. Frame("read", f, id) \in [at : {"wait", "call", "read", "dialog"},
            file : Files \cup {None}, id : Nat, canceled : BOOLEAN]
    BY <1>5, <2>1 DEF Frame
  <2>3. Waits' = Waits \ {Len(stack)} /\ Len(stack) \in Waits
    <3>1. /\ Below \in Seq(FrameRecord) /\ Len(Below) = Len(stack) - 1
          /\ \A i \in 1..Len(Below) : Below[i] = stack[i]
      BY <1>1, <1>3, BelowFacts
    <3>2. /\ Len(stack') = Len(Below) + 1 /\ stack'[Len(Below) + 1] = new
          /\ \A i \in 1..Len(Below) : stack'[i] = Below[i]
      BY <1>1, <3>1
    <3>3. Len(stack') = Len(stack) /\ stack'[Len(stack)] = new
          /\ \A i \in 1..Len(stack) : i # Len(stack) => stack'[i] = stack[i]
      BY <1>4, <3>1, <3>2
    <3>4. QED
      BY <1>1, <1>4, <1>8, <3>3 DEF Waits
  <2>4. /\ Cardinality(Waits) \in Nat /\ Cardinality(Waits') \in Nat
        /\ Cardinality(Waits') = Cardinality(Waits) - 1
    BY <1>3, <2>3, WaitsFinite, OneMore
  <2>5. Len(infos) + Cardinality(Waits) <= MaxRequests /\ MaxRequests \in Nat
    BY DEF IInv, FramesSound
  <2>6. Len(infos') + Cardinality(Waits') <= MaxRequests /\ id <= MaxRequests /\ id >= 1
    BY <1>3, <1>7, <2>4, <2>5
  <2>7. id \in Id
    BY <2>1, <2>5, <2>6 DEF Id
  <2>8. new \in FrameRecord
    BY <1>5, <2>7, FrameTyped DEF Reading
  <2>9. QED
    BY <2>6, <2>7, <2>8
<1>10. /\ stack' \in Seq(FrameRecord) /\ Len(stack') = Len(stack)
       /\ \A i \in 1..Len(stack) : i # Len(stack) => stack'[i] = stack[i]
       /\ stack'[Len(stack)] = new
  BY <1>1, <1>3, <1>9, ReplaceTop
<1>11. /\ msgs \in Seq(Message) /\ Len(msgs) = 1 /\ msgs[1].tag = "READ_FILE"
       /\ msgs[1].id = id
  BY <1>5, <1>9 DEF Message
<1> HIDE DEF msgs, new
<1>12. /\ toServer' \in Seq(Message) /\ Len(toServer') = Len(toServer) + 1
       /\ \A i \in 1..Len(toServer) : toServer'[i] = toServer[i]
       /\ toServer'[Len(toServer) + 1] = msgs[1]
       /\ Len(toServer) \in Nat
  <2>1. Len(toServer) \in Nat /\ 1 \in 1..Len(msgs)
    BY <1>3, <1>11
  <2>2. /\ toServer' \in Seq(Message) /\ Len(toServer') = Len(toServer) + Len(msgs)
        /\ \A i \in 1..Len(toServer) : toServer'[i] = toServer[i]
        /\ \A i \in 1..Len(msgs) : toServer'[Len(toServer) + i] = msgs[i]
    <3>1. /\ toServer \in Seq(Message) /\ msgs \in Seq(Message)
          /\ toServer' = toServer \o msgs
      BY <1>1, <1>3, <1>11
    <3>2. QED
      BY <3>1, ConcatFacts
  <2>3. QED
    BY <1>11, <2>1, <2>2
<1>13. pending' = {id}
  BY <1>1, <1>2
<1>14. TypeOK'
  <2>1. Len(infos') <= MaxRequests
    BY <1>3, <1>7, <1>9 DEF Id
  <2>2. QED
    BY <1>1, <1>3, <1>7, <1>9, <1>10, <1>12, <1>13, <2>1 DEF IInv, TypeOK
<1>15. OneOutstanding'
  BY <1>1, <1>6, <1>7, <1>13 DEF OneOutstanding
<1>16. OnePlace'
  <2>1. ASSUME NEW k \in 1..Len(toServer'), Asks(k)'
        PROVE  k = Len(toServer) + 1 /\ toServer'[k].id = id
    <3>1. k \notin 1..Len(toServer)
      BY <1>2, <1>12, <2>1 DEF Asks
    <3>2. k = Len(toServer) + 1
      BY <1>12, <3>1
    <3>3. QED
      BY <1>11, <1>12, <3>2
  <2>2. ASSUME NEW k \in 1..Len(toServer'), Asks(k)'
        PROVE  /\ toServer'[k].id \in pending'
               /\ infos'[toServer'[k].id].fullPath = << >>
               /\ \A j \in 1..Len(toClient') : ~Numbered(j)'
    BY <1>1, <1>2, <1>6, <1>7, <1>13, <2>1, <2>2 DEF Numbered, IsFullPath, IsText
  <2>3. Len(searches') = 0
    BY <1>1, <1>2
  <2>4. searches' = << >> /\ Len(searches') <= 1 /\ \A i \in 1..Len(searches') : FALSE
    BY <1>1, <1>2, <2>3
  <2>5. ASSUME NEW k \in 1..Len(toServer'), Asks(k)'
        PROVE  /\ Unanswered(toServer[k].id)'
               /\ \A j \in 1..Len(toServer') : Asks(j)' => j = k
    BY <2>1, <2>2, <2>5 DEF Unanswered
  <2>6. QED
    BY <2>4, <2>5 DEF OnePlace
<1>17. OneAnswer'
  <2>1. \A k \in 1..Len(toClient') : ~Numbered(k)'
    BY <1>1, <1>2 DEF Numbered, IsFullPath, IsText
  <2>2. QED
    BY <2>1 DEF OneAnswer, Numbered, IsFullPath, IsText
<1>18. FramesSound'
  <2>1. ASSUME NEW i \in 1..Len(stack')
        PROVE  /\ stack'[i].at \in {"wait", "call"} => stack'[i].file \in Files
               /\ stack'[i].at = "read" =>
                      /\ stack'[i].id \in DOMAIN infos'
                      /\ infos'[stack'[i].id].text = << >> => stack'[i].id \in pending'
    <3>1. CASE i = Len(stack)
      BY <1>7, <1>8, <1>10, <1>13, <3>1
    <3>2. CASE i # Len(stack)
      <4>1. i \in 1..Len(stack) /\ stack'[i] = stack[i]
        BY <1>10, <3>2
      <4>2. QED
        BY <1>2, <1>7, <4>1 DEF IInv, FramesSound
    <3>3. QED
      BY <3>1, <3>2
  <2>2. QED
    BY <1>9, <2>1 DEF FramesSound
<1>19. CacheSound'
  <2>1. ASSUME NEW g \in Files, table'[g] # 0
        PROVE  table[g] # 0 /\ table'[g] = table[g] /\ infos'[table'[g]] = infos[table[g]]
    BY <1>1, <1>7, <2>1 DEF IInv, KeysAllocated
  <2>2. \A i \in pending' : table'[infos'[i].file] = 0
    BY <1>1, <1>6, <1>7, <1>13
  <2>3. QED
    BY <2>1, <2>2 DEF IInv, CacheSound
<1>20. KeysAllocated'
  BY <1>1, <1>7 DEF IInv, KeysAllocated
<1>21. ReaderMade'
  <2>1. \A k \in 1..Len(msgs) : msgs[k].tag # "SET_SEARCH_PATH"
    BY <1>11
  <2>2. ASSUME NEW i \in 1..Len(stack'), stack'[i].at = "dialog"
        PROVE  i \in 1..Len(stack) /\ stack[i].at = "dialog"
    <3>1. CASE i = Len(stack)
      BY <1>8, <1>10, <2>2, <3>1
    <3>2. CASE i # Len(stack)
      <4>1. i \in 1..Len(stack)
        BY <1>10
      <4>2. QED
        BY <1>10, <2>2, <3>2, <4>1
    <3>3. QED
      BY <3>1, <3>2
  <2>3. QED
    BY <1>1, <1>3, <1>11, <2>1, <2>2, ReaderExtended DEF IInv
<1>22. PathsSafe'
  BY <1>1, <1>12, <1>21, PathsKept DEF IInv, PathsSafe
<1>23. QED
  BY <1>14, <1>15, <1>16, <1>17, <1>18, <1>19, <1>20, <1>21, <1>22 DEF IInv

\* The Client takes a reply: the others move up, and none is new.
LEMMA ReplyTaken ==
  ASSUME IInv, toClient # << >>, toClient' = Tail(toClient)
  PROVE  /\ toClient' \in Seq(Reply) /\ toClient[1] \in Reply
         /\ Head(toClient) = toClient[1] /\ 1 \in 1..Len(toClient)
         /\ \A k \in 1..Len(toClient') :
               /\ k + 1 \in 1..Len(toClient) /\ toClient'[k] = toClient[k + 1]
               /\ IsText(k)' <=> IsText(k + 1)
               /\ IsFullPath(k)' <=> IsFullPath(k + 1)
               /\ Numbered(k)' <=> Numbered(k + 1)
         /\ \A j \in 1..Len(toClient) : j # 1 => j - 1 \in 1..Len(toClient')
<1>1. toClient \in Seq(Reply)
  BY DEF IInv, TypeOK
<1>2. /\ toClient' \in Seq(Reply) /\ Len(toClient') = Len(toClient) - 1
      /\ \A i \in 1..Len(toClient') : toClient'[i] = toClient[i + 1] /\ i + 1 \in 1..Len(toClient)
      /\ Head(toClient) = toClient[1] /\ 1 \in 1..Len(toClient) /\ Head(toClient) \in Reply
  BY <1>1, TailFacts
<1>3. Len(toClient) \in Nat
  BY <1>1
<1>4. QED
  BY <1>2, <1>3 DEF Numbered, IsText, IsFullPath

\* What the steps that only fill in tables leave: the stack and the messages.
LEMMA OtherReplyInv ==
  ASSUME IInv, toClient # << >>, toClient' = Tail(toClient),
         toClient[1].tag \in {"SUBDIRS", "SEARCH_PATH", "SAYS_QUIT"},
         UNCHANGED <<stack, fileVars, up, guiPath, dialogs, beats, serverVars, toServer>>
  PROVE  IInv'
<1>1. /\ UNCHANGED <<stack, table, pending, reading, infos, progress, up, guiPath>>
      /\ UNCHANGED <<dialogs, beats, searches, path, reader, server, toServer>>
  BY DEF fileVars, serverVars
<1>2. /\ toClient' \in Seq(Reply) /\ 1 \in 1..Len(toClient)
      /\ \A k \in 1..Len(toClient') :
            /\ k + 1 \in 1..Len(toClient) /\ toClient'[k] = toClient[k + 1]
            /\ IsText(k)' <=> IsText(k + 1)
            /\ IsFullPath(k)' <=> IsFullPath(k + 1)
            /\ Numbered(k)' <=> Numbered(k + 1)
      /\ \A j \in 1..Len(toClient) : j # 1 => j - 1 \in 1..Len(toClient')
  BY ReplyTaken
<1>3. ~IsFullPath(1)
  BY DEF IsFullPath
<1>4. TypeOK'
  BY <1>1, <1>2 DEF IInv, TypeOK
<1>5. OnePlace'
  <2>1. ASSUME NEW id, Unanswered(id)
        PROVE  Unanswered(id)'
    BY <1>1, <1>2, <2>1 DEF Unanswered
  <2>2. ASSUME NEW k \in 1..Len(toServer), Asks(k)
        PROVE  Unanswered(toServer[k].id)'
    <3>1. Unanswered(toServer[k].id)
      BY <2>2 DEF IInv, OnePlace
    <3>2. QED
      BY <1>1, <2>1, <3>1 DEF Unanswered, Numbered, IsText, IsFullPath
  <2>3. ASSUME NEW i \in 1..Len(searches)
        PROVE  Unanswered(searches[i].id)'
    <3>1. Unanswered(searches[i].id)
      BY DEF IInv, OnePlace
    <3>2. QED
      BY <1>1, <2>1, <3>1 DEF Unanswered, Numbered, IsText, IsFullPath
  <2>4. \A k \in 1..Len(toServer) : Asks(k)' <=> Asks(k)
    BY <1>1 DEF Asks
  <2>5. QED
    BY <1>1, <2>2, <2>3, <2>4 DEF IInv, OnePlace
<1>6. OneAnswer'
  <2>1. ASSUME NEW k \in 1..Len(toClient'), Numbered(k)'
        PROVE  toClient'[k].id \in pending'
    BY <1>1, <1>2, <2>1 DEF IInv, OneAnswer
  <2>2. ASSUME NEW j \in 1..Len(toClient'), NEW k \in 1..Len(toClient'),
               Numbered(j)', Numbered(k)', j < k
        PROVE  IsFullPath(j)' /\ IsText(k)' /\ toClient'[j].result = toClient'[k].result
    <3>1. j + 1 < k + 1 /\ Numbered(j + 1) /\ Numbered(k + 1)
          /\ j + 1 \in 1..Len(toClient) /\ k + 1 \in 1..Len(toClient)
      BY <1>2, <2>2
    <3>2. IsFullPath(j + 1) /\ IsText(k + 1)
          /\ toClient[j + 1].result = toClient[k + 1].result
      BY <3>1 DEF IInv, OneAnswer
    <3>3. QED
      BY <1>2, <3>2
  <2>3. ASSUME NEW k \in 1..Len(toClient'), IsFullPath(k)'
        PROVE  toClient'[k].result.end = "found"
    BY <1>2, <2>3 DEF IInv, OneAnswer
  <2>4. ASSUME NEW k \in 1..Len(toClient'), IsText(k)'
        PROVE  \/ \E j \in 1..(k - 1) : IsFullPath(j)'
               \/ infos'[toClient'[k].id].fullPath =
                     IF toClient'[k].result.end = "found" THEN <<toClient'[k].result>>
                                                          ELSE << >>
    <3>1. k + 1 \in 1..Len(toClient) /\ IsText(k + 1) /\ toClient'[k] = toClient[k + 1]
      BY <1>2, <2>4
    <3>2. CASE \E j \in 1..(k + 1 - 1) : IsFullPath(j)
      <4>1. PICK j \in 1..(k + 1 - 1) : IsFullPath(j)
        BY <3>2
      <4>2. j # 1 /\ j \in 1..Len(toClient)
        BY <1>3, <3>1, <4>1
      <4>3. j - 1 \in 1..Len(toClient') /\ (j - 1) + 1 = j /\ j - 1 \in 1..(k - 1)
        BY <1>2, <4>1, <4>2
      <4>4. IsFullPath(j - 1)'
        BY <1>2, <4>1, <4>3
      <4>5. QED
        BY <4>3, <4>4
    <3>3. CASE infos[toClient[k + 1].id].fullPath =
                  IF toClient[k + 1].result.end = "found"
                  THEN <<toClient[k + 1].result>> ELSE << >>
      BY <1>1, <3>1, <3>3
    <3>4. QED
      BY <3>1, <3>2, <3>3 DEF IInv, OneAnswer
  <2>5. QED
    BY <2>1, <2>2, <2>3, <2>4 DEF OneAnswer
<1>7. FramesSound'
  BY <1>1 DEF IInv, FramesSound, Waits
<1>8. PathsSafe' /\ ReaderMade'
  BY <1>1 DEF IInv, PathsSafe, ReaderMade
<1>9. QED
  BY <1>1, <1>4, <1>5, <1>6, <1>7, <1>8, TablesKept DEF IInv

\* When a numbered reply comes first, it is about the outstanding request, which is
\* neither under way to the server nor searched for.
LEMMA AnswerFirst ==
  ASSUME IInv, toClient # << >>, Numbered(1)
  PROVE  /\ toClient[1].id \in pending /\ pending = {toClient[1].id}
         /\ toClient[1].id \in DOMAIN infos /\ infos[toClient[1].id] \in FileInfo
         /\ toClient[1].id \in Id /\ toClient[1].result \in Result
         /\ \A k \in 1..Len(toServer) : ~Asks(k)
         /\ searches = << >>
         /\ \A k \in 2..Len(toClient) : Numbered(k) =>
                /\ IsFullPath(1) /\ IsText(k)
                /\ toClient[k].result = toClient[1].result
<1>1. toClient \in Seq(Reply) /\ Len(toClient) \in Nat /\ infos \in Seq(FileInfo)
      /\ searches \in Seq(SearchRecord) /\ Len(searches) \in Nat
  BY DEF IInv, TypeOK
<1>2. 1 \in 1..Len(toClient) /\ toClient[1] \in Reply
  BY <1>1
<1>3. toClient[1].id \in pending /\ pending = {toClient[1].id}
      /\ toClient[1].id \in DOMAIN infos
  BY <1>2 DEF IInv, OneAnswer, OneOutstanding
<1>4. infos[toClient[1].id] \in FileInfo
  BY <1>1, <1>3
<1>5. toClient[1].id \in Id /\ toClient[1].result \in Result
  BY <1>2 DEF Reply, Numbered, IsText, IsFullPath
<1>6. \A id : ~Unanswered(id)
  BY <1>2 DEF Unanswered
<1>7. \A k \in 1..Len(toServer) : ~Asks(k)
  BY <1>6 DEF IInv, OnePlace
<1>8. searches = << >>
  <2>1. \A i \in 1..Len(searches) : FALSE
    BY <1>6 DEF IInv, OnePlace
  <2>2. Len(searches) = 0
    BY <1>1, <2>1
  <2>3. QED
    BY <1>1, <2>2
<1>9. ASSUME NEW k \in 2..Len(toClient), Numbered(k)
      PROVE  /\ IsFullPath(1) /\ IsText(k)
             /\ toClient[k].result = toClient[1].result
  <2>1. k \in 1..Len(toClient) /\ 1 < k
    BY <1>1
  <2>2. QED
    BY <1>2, <1>9, <2>1 DEF IInv, OneAnswer
<1>10. QED
  BY <1>3, <1>4, <1>5, <1>7, <1>8, <1>9

\* What setFullPath and insertSourceFile do to the record.
LEMMA RecordFilled ==
  ASSUME infos \in Seq(FileInfo), NEW id \in DOMAIN infos, NEW r \in Result,
         NEW e \in {SetFullPath(id, r), FillIn(id, r)}
  PROVE  /\ e \in Seq(FileInfo) /\ Len(e) = Len(infos) /\ DOMAIN e = DOMAIN infos
         /\ \A i \in DOMAIN infos : i # id => e[i] = infos[i]
         /\ e[id].file = infos[id].file /\ e[id].live = infos[id].live
         /\ e = SetFullPath(id, r) => e[id].fullPath = <<r>> /\ e[id].text = infos[id].text
         /\ e = FillIn(id, r) => e[id].text = <<r>> /\ e[id].fullPath = infos[id].fullPath
<1>1. DOMAIN infos = 1..Len(infos) /\ Len(infos) \in Nat
      /\ \A i \in DOMAIN infos : infos[i] \in FileInfo
  OBVIOUS
<1>2. <<r>> \in Outcome
  BY DEF Outcome
<1>3. /\ [infos[id] EXCEPT !.fullPath = <<r>>] \in FileInfo
      /\ [infos[id] EXCEPT !.text = <<r>>] \in FileInfo
  BY <1>1, <1>2 DEF FileInfo
<1>4. \E new \in FileInfo :
          /\ e = [infos EXCEPT ![id] = new]
          /\ new.file = infos[id].file /\ new.live = infos[id].live
          /\ e = SetFullPath(id, r) => new.fullPath = <<r>> /\ new.text = infos[id].text
          /\ e = FillIn(id, r) => new.text = <<r>> /\ new.fullPath = infos[id].fullPath
  <2>1. infos[id] \in FileInfo
    BY <1>1
  <2>2. ASSUME e = SetFullPath(id, r)
        PROVE  e[id].fullPath = <<r>> /\ e[id].text = infos[id].text
    BY <2>1, <2>2 DEF SetFullPath, FileInfo
  <2>3. ASSUME e = FillIn(id, r)
        PROVE  e[id].text = <<r>> /\ e[id].fullPath = infos[id].fullPath
    BY <2>1, <2>3 DEF FillIn, FileInfo
  <2>4. /\ e = [infos EXCEPT ![id] = e[id]] /\ e[id] \in FileInfo
        /\ e[id].file = infos[id].file /\ e[id].live = infos[id].live
    <3>1. CASE e = SetFullPath(id, r)
      BY <1>3, <2>1, <3>1 DEF SetFullPath, FileInfo
    <3>2. CASE e = FillIn(id, r)
      BY <1>3, <2>1, <3>2 DEF FillIn, FileInfo
    <3>3. QED
      BY <3>1, <3>2
  <2>5. QED
    BY <2>2, <2>3, <2>4
<1>5. PICK new \in FileInfo :
          /\ e = [infos EXCEPT ![id] = new]
          /\ new.file = infos[id].file /\ new.live = infos[id].live
          /\ e = SetFullPath(id, r) => new.fullPath = <<r>> /\ new.text = infos[id].text
          /\ e = FillIn(id, r) => new.text = <<r>> /\ new.fullPath = infos[id].fullPath
  BY <1>4
<1>6. /\ e \in Seq(FileInfo) /\ Len(e) = Len(infos) /\ DOMAIN e = DOMAIN infos
      /\ \A i \in DOMAIN infos : i # id => e[i] = infos[i]
      /\ e[id] = new
  BY <1>1, <1>5
<1>7. QED
  BY <1>5, <1>6

LEMMA FullPathInv ==
  ASSUME IInv, toClient # << >>, toClient' = Tail(toClient), IsFullPath(1),
         infos' = SetFullPath(toClient[1].id, toClient[1].result),
         UNCHANGED <<stack, table, pending, reading, progress, up, guiPath, dialogs, beats,
                     serverVars, toServer>>
  PROVE  IInv'
<1> DEFINE id == toClient[1].id
           r == toClient[1].result
<1>1. UNCHANGED <<searches, path, reader, server>>
  BY DEF serverVars
<1>2. /\ toClient' \in Seq(Reply) /\ 1 \in 1..Len(toClient) /\ Len(toClient') \in Nat
      /\ \A k \in 1..Len(toClient') :
            /\ k + 1 \in 2..Len(toClient) /\ toClient'[k] = toClient[k + 1]
            /\ IsText(k)' <=> IsText(k + 1)
            /\ IsFullPath(k)' <=> IsFullPath(k + 1)
            /\ Numbered(k)' <=> Numbered(k + 1)
  <2>1. toClient' \in Seq(Reply) /\ Len(toClient') \in Nat
    BY ReplyTaken
  <2>2. QED
    BY <2>1, ReplyTaken
<1>3. /\ pending = {id} /\ id \in DOMAIN infos /\ id \in Id /\ r \in Result
      /\ \A k \in 1..Len(toServer) : ~Asks(k)
      /\ searches = << >>
      /\ \A k \in 2..Len(toClient) : Numbered(k) => IsText(k) /\ toClient[k].result = r
  BY AnswerFirst DEF Numbered
<1>4. r.end = "found"
  BY <1>2 DEF IInv, OneAnswer
<1>5. infos \in Seq(FileInfo) /\ Len(infos) <= MaxRequests
  BY DEF IInv, TypeOK
<1> HIDE DEF id, r
<1>6. /\ infos' \in Seq(FileInfo) /\ Len(infos') = Len(infos) /\ DOMAIN infos' = DOMAIN infos
      /\ \A i \in DOMAIN infos : i # id => infos'[i] = infos[i]
      /\ infos'[id].file = infos[id].file /\ infos'[id].live = infos[id].live
      /\ infos'[id].fullPath = <<r>> /\ infos'[id].text = infos[id].text
  <2>1. infos' = SetFullPath(id, r)
    BY DEF id, r
  <2>2. QED
    BY <1>3, <1>5, <2>1, RecordFilled
<1>7. TypeOK'
  BY <1>1, <1>2, <1>5, <1>6 DEF IInv, TypeOK
<1>8. OneOutstanding'
  BY <1>3, <1>6 DEF IInv, OneOutstanding
<1>9. OnePlace'
  <2>1. \A k \in 1..Len(toServer') : ~Asks(k)'
    BY <1>3 DEF Asks
  <2>2. Len(searches') = 0
    BY <1>1, <1>3
  <2>3. QED
    BY <2>1, <2>2 DEF OnePlace
<1>10. OneAnswer'
  <2>1. ASSUME NEW k \in 1..Len(toClient'), Numbered(k)'
        PROVE  /\ IsText(k)' /\ ~IsFullPath(k)'
               /\ toClient'[k].result = r /\ toClient'[k].id = id
    <3>1. k + 1 \in 2..Len(toClient) /\ Numbered(k + 1) /\ toClient'[k] = toClient[k + 1]
      BY <1>2, <2>1
    <3>2. IsText(k + 1) /\ toClient[k + 1].result = r
      BY <1>3, <3>1
    <3>3. ~IsFullPath(k + 1)
      BY <3>2 DEF IsText, IsFullPath
    <3>4. toClient[k + 1].id \in pending
      <4>1. k + 1 \in 1..Len(toClient)
        BY <3>1
      <4>2. QED
        BY <3>1, <4>1 DEF IInv, OneAnswer
    <3>5. QED
      BY <1>2, <1>3, <3>1, <3>2, <3>3, <3>4
  <2>2. ASSUME NEW k \in 1..Len(toClient'), Numbered(k)'
        PROVE  toClient'[k].id \in pending'
    BY <1>3, <2>1, <2>2
  <2>3. ASSUME NEW j \in 1..Len(toClient'), NEW k \in 1..Len(toClient'),
               Numbered(j)', Numbered(k)', j < k
        PROVE  FALSE
    <3>1. /\ j + 1 \in 1..Len(toClient) /\ k + 1 \in 1..Len(toClient) /\ j + 1 < k + 1
          /\ Numbered(j + 1) /\ Numbered(k + 1)
      <4>1. j + 1 \in 2..Len(toClient) /\ k + 1 \in 2..Len(toClient)
            /\ Numbered(j + 1) /\ Numbered(k + 1)
        BY <1>2, <2>3
      <4>2. j + 1 \in 1..Len(toClient) /\ k + 1 \in 1..Len(toClient)
        BY <4>1
      <4>3. j + 1 < k + 1
        BY <2>3
      <4>4. QED
        BY <4>1, <4>2, <4>3
    <3>2. IsFullPath(j + 1)
      BY <3>1 DEF IInv, OneAnswer
    <3>3. QED
      BY <1>2, <2>1, <2>3, <3>2
  <2>4. \A k \in 1..Len(toClient') : ~IsFullPath(k)'
    BY <2>1 DEF Numbered
  <2>5. ASSUME NEW k \in 1..Len(toClient'), IsText(k)'
        PROVE  infos'[toClient'[k].id].fullPath =
                   IF toClient'[k].result.end = "found" THEN <<toClient'[k].result>>
                                                        ELSE << >>
    <3>1. Numbered(k)'
      BY <2>5 DEF Numbered
    <3>2. QED
      BY <1>4, <1>6, <2>1, <3>1
  <2>6. QED
    BY <2>2, <2>3, <2>4, <2>5 DEF OneAnswer
<1>11. FramesSound'
  <2>1. Waits' = Waits
    BY DEF Waits
  <2>2. \A i \in DOMAIN infos : infos'[i].text = infos[i].text
    BY <1>6
  <2>3. QED
    BY <1>6, <2>1, <2>2 DEF IInv, FramesSound
<1>12. CacheSound'
  <2>1. table[infos[id].file] = 0 /\ infos[id].text = << >>
    BY <1>3 DEF IInv, OneOutstanding
  <2>2. ASSUME NEW f \in Files, table'[f] # 0
        PROVE  infos'[table'[f]] = infos[table[f]] /\ table'[f] = table[f]
    <3>1. table[f] # id /\ table[f] \in DOMAIN infos
      BY <2>1, <2>2 DEF IInv, CacheSound, KeysAllocated
    <3>2. QED
      BY <1>6, <3>1
  <2>3. \A i \in pending' : table'[infos'[i].file] = 0
    BY <1>3, <1>6, <2>1
  <2>4. QED
    BY <2>2, <2>3 DEF IInv, CacheSound
<1>13. KeysAllocated'
  BY <1>6 DEF IInv, KeysAllocated
<1>14. PathsSafe' /\ ReaderMade'
  BY <1>1 DEF IInv, PathsSafe, ReaderMade
<1>15. QED
  BY <1>7, <1>8, <1>9, <1>10, <1>11, <1>12, <1>13, <1>14 DEF IInv

LEMMA TextInv ==
  ASSUME IInv, toClient # << >>, toClient' = Tail(toClient), IsText(1),
         infos' = FillIn(toClient[1].id, toClient[1].result),
         pending' = pending \ {toClient[1].id},
         table' = [table EXCEPT ![infos[toClient[1].id].file] = toClient[1].id],
         reading' = FALSE,
         UNCHANGED <<stack, progress, up, guiPath, dialogs, beats, serverVars, toServer>>
  PROVE  IInv'
<1> DEFINE id == toClient[1].id
           r == toClient[1].result
<1>1. UNCHANGED <<searches, path, reader, server>>
  BY DEF serverVars
<1>2. /\ toClient' \in Seq(Reply) /\ 1 \in 1..Len(toClient) /\ Len(toClient') \in Nat
      /\ \A k \in 1..Len(toClient') :
            k + 1 \in 2..Len(toClient) /\ (Numbered(k)' <=> Numbered(k + 1))
  <2>1. toClient' \in Seq(Reply) /\ Len(toClient') \in Nat
    BY ReplyTaken
  <2>2. QED
    BY <2>1, ReplyTaken
<1>3. /\ pending = {id} /\ id \in DOMAIN infos /\ id \in Id /\ r \in Result
      /\ infos[id].file \in Files
      /\ \A k \in 1..Len(toServer) : ~Asks(k)
      /\ searches = << >>
      /\ \A k \in 2..Len(toClient) : ~Numbered(k)
  BY AnswerFirst DEF Numbered, IsText, IsFullPath, FileInfo
<1>4. infos[id].fullPath = IF r.end = "found" THEN <<r>> ELSE << >>
  <2>1. ~\E j \in 1..(1 - 1) : IsFullPath(j)
    OBVIOUS
  <2>2. QED
    BY <1>2, <2>1 DEF IInv, OneAnswer
<1>5. infos \in Seq(FileInfo) /\ Len(infos) <= MaxRequests /\ DOMAIN infos = 1..Len(infos)
      /\ table \in [Files -> Id \cup {0}]
  BY DEF IInv, TypeOK
<1>6. pending' = {} /\ table' = [table EXCEPT ![infos[id].file] = id]
  BY <1>3
<1> HIDE DEF id, r
<1>7. /\ infos' \in Seq(FileInfo) /\ Len(infos') = Len(infos) /\ DOMAIN infos' = DOMAIN infos
      /\ \A i \in DOMAIN infos : i # id => infos'[i] = infos[i]
      /\ infos'[id].file = infos[id].file /\ infos'[id].live = infos[id].live
      /\ infos'[id].text = <<r>> /\ infos'[id].fullPath = infos[id].fullPath
  <2>1. infos' = FillIn(id, r)
    BY DEF id, r
  <2>2. QED
    BY <1>3, <1>5, <2>1, RecordFilled
<1>8. /\ table' \in [Files -> Id \cup {0}]
      /\ table'[infos[id].file] = id
      /\ \A f \in Files : f # infos[id].file => table'[f] = table[f]
  BY <1>3, <1>5, <1>6
<1>9. TypeOK'
  BY <1>1, <1>2, <1>5, <1>6, <1>7, <1>8 DEF IInv, TypeOK
<1>10. OneOutstanding'
  BY <1>6 DEF OneOutstanding
<1>11. OnePlace'
  <2>1. \A k \in 1..Len(toServer') : ~Asks(k)'
    BY <1>3 DEF Asks
  <2>2. Len(searches') = 0
    BY <1>1, <1>3
  <2>3. QED
    BY <2>1, <2>2 DEF OnePlace
<1>12. OneAnswer'
  <2>1. \A k \in 1..Len(toClient') : ~Numbered(k)'
    BY <1>2, <1>3
  <2>2. QED
    BY <2>1 DEF OneAnswer, Numbered, IsFullPath, IsText
<1>13. FramesSound'
  <2>1. Waits' = Waits
    BY DEF Waits
  <2>2. ASSUME NEW i \in 1..Len(stack), stack[i].at = "read"
        PROVE  stack[i].id \in DOMAIN infos /\ infos'[stack[i].id].text # << >>
    <3>1. /\ stack[i].id \in DOMAIN infos
          /\ infos[stack[i].id].text = << >> => stack[i].id = id
      BY <1>3, <2>2 DEF IInv, FramesSound
    <3>2. CASE stack[i].id = id
      <4>1. <<r>> # << >>
        OBVIOUS
      <4>2. QED
        BY <1>7, <3>1, <3>2, <4>1
    <3>3. CASE stack[i].id # id
      BY <1>7, <3>1, <3>3
    <3>4. QED
      BY <3>2, <3>3
  <2>3. QED
    BY <1>7, <2>1, <2>2 DEF IInv, FramesSound
<1>14. CacheSound'
  <2>1. table[infos[id].file] = 0 /\ infos[id].live
    BY <1>3 DEF IInv, OneOutstanding
  <2>2. ASSUME NEW f \in Files, table'[f] # 0
        PROVE  LET i == infos'[table'[f]] IN
                   /\ i.file = f /\ i.live
                   /\ i.text # << >>
                   /\ i.fullPath = IF i.text[1].end = "found" THEN i.text ELSE << >>
    <3>1. CASE f = infos[id].file
      <4>1. table'[f] = id
        BY <1>8, <3>1
      <4>2. <<r>> # << >> /\ <<r>>[1] = r
        OBVIOUS
      <4>3. infos'[id].fullPath = IF infos'[id].text[1].end = "found"
                                  THEN infos'[id].text ELSE << >>
        BY <1>4, <1>7, <4>2
      <4>4. infos'[id].file = f /\ infos'[id].live /\ infos'[id].text # << >>
        BY <1>7, <2>1, <3>1, <4>2
      <4>5. QED
        BY <4>1, <4>3, <4>4
    <3>2. CASE f # infos[id].file
      <4>1. table'[f] = table[f] /\ table[f] \in DOMAIN infos /\ table[f] # id
        BY <1>8, <2>2, <3>2 DEF IInv, CacheSound, KeysAllocated
      <4>2. infos'[table'[f]] = infos[table[f]]
        BY <1>7, <4>1
      <4>3. QED
        BY <2>2, <4>1, <4>2 DEF IInv, CacheSound
    <3>3. QED
      BY <3>1, <3>2
  <2>3. QED
    BY <1>6, <2>2 DEF CacheSound
<1>15. KeysAllocated'
  BY <1>3, <1>7, <1>8 DEF IInv, KeysAllocated
<1>16. PathsSafe' /\ ReaderMade'
  BY <1>1 DEF IInv, PathsSafe, ReaderMade
<1>17. QED
  BY <1>9, <1>10, <1>11, <1>12, <1>13, <1>14, <1>15, <1>16 DEF IInv

LEMMA GetPendingDataInv ==
  ASSUME IInv, GetPendingData
  PROVE  IInv'
<1>1. /\ toClient # << >> /\ toClient' = Tail(toClient) /\ Head(toClient) = toClient[1]
      /\ UNCHANGED <<stack, progress, up, guiPath, dialogs, beats, serverVars, toServer>>
  BY ReplyTaken DEF GetPendingData, HandleReply
<1>2. CASE /\ toClient[1].tag = "FULL_PATH"
           /\ infos' = SetFullPath(toClient[1].id, toClient[1].result)
           /\ UNCHANGED <<table, pending, reading>>
  BY <1>1, <1>2, FullPathInv DEF IsFullPath
<1>3. CASE /\ toClient[1].tag = "READ_COMPLETE"
           /\ infos' = FillIn(toClient[1].id, toClient[1].result)
           /\ pending' = pending \ {toClient[1].id}
           /\ table' = [table EXCEPT ![infos[toClient[1].id].file] = toClient[1].id]
           /\ reading' = FALSE
  BY <1>1, <1>3, TextInv DEF IsText
<1>4. CASE /\ toClient[1].tag \in {"SUBDIRS", "SEARCH_PATH", "SAYS_QUIT"}
           /\ UNCHANGED <<table, pending, reading, infos>>
  BY <1>1, <1>4, OtherReplyInv DEF fileVars
<1>5. QED
  BY <1>1, <1>2, <1>3, <1>4 DEF GetPendingData, HandleReply

------------------------------------------------------------------------------
(* The steps of the server. *)

LEMMA GuiKept ==
  ASSUME IInv, UNCHANGED guiVars
  PROVE  /\ UNCHANGED <<stack, table, pending, reading, infos, progress, up>>
         /\ UNCHANGED <<guiPath, dialogs, beats>>
         /\ OneOutstanding' /\ CacheSound' /\ KeysAllocated' /\ FramesSound'
<1>1. /\ UNCHANGED <<stack, table, pending, reading, infos, progress, up>>
      /\ UNCHANGED <<guiPath, dialogs, beats>>
  BY DEF guiVars, fileVars
<1>2. Waits' = Waits
  BY <1>1 DEF Waits
<1>3. FramesSound'
  BY <1>1, <1>2 DEF IInv, FramesSound
<1>4. QED
  BY <1>1, <1>3, TablesKept

\* check_socket answers no request by itself.
LEMMA CheckSocketFacts ==
  ASSUME IInv, NEW msg \in Message, CheckSocket(msg)
  PROVE  /\ toClient' \in Seq(Reply) /\ Len(toClient) \in Nat
         /\ Len(toClient') \in Nat /\ Len(toClient') >= Len(toClient)
         /\ \A k \in 1..Len(toClient) : toClient'[k] = toClient[k]
         /\ \A k \in 1..Len(toClient') : k > Len(toClient) =>
                toClient'[k].tag \notin {"FULL_PATH", "READ_COMPLETE"}
         /\ path' \in Paths /\ reader' \in BOOLEAN
         /\ msg.tag # "SET_SEARCH_PATH" => path' = path
         /\ reader \/ msg.tag = "GET_SUBDIRS" => reader'
         /\ msg.tag = "READ_FILE" => toClient' = toClient
<1>1. toClient \in Seq(Reply) /\ Len(toClient) \in Nat /\ path \in Paths
      /\ reader \in BOOLEAN
  BY DEF IInv, TypeOK
<1>2. PICK new \in {<< >>, <<[tag |-> "SUBDIRS"]>>, <<[tag |-> "SEARCH_PATH"]>>,
                    <<[tag |-> "SAYS_QUIT"]>>} :
          toClient' = toClient \o new /\ (msg.tag = "READ_FILE" => new = << >>)
  <2>1. CASE msg.tag = "GET_SUBDIRS"
    BY <2>1 DEF CheckSocket, ToClient
  <2>2. CASE msg.tag = "REPORT_SEARCH_PATH"
    BY <2>2 DEF CheckSocket, ToClient
  <2>3. CASE msg.tag = "GUI_QUIT"
    BY <2>3 DEF CheckSocket, ToClient
  <2>4. CASE msg.tag \in {"READ_FILE", "SET_SEARCH_PATH", "CANCEL", "HEARTBEAT"}
    BY <2>4 DEF CheckSocket, ToClient
  <2>5. msg.tag \in {"GET_SUBDIRS", "REPORT_SEARCH_PATH", "GUI_QUIT", "READ_FILE",
                     "SET_SEARCH_PATH", "CANCEL", "HEARTBEAT"}
    BY DEF Message
  <2>6. QED
    BY <2>1, <2>2, <2>3, <2>4, <2>5
<1>3. new \in Seq(Reply) /\ Len(new) \in Nat
      /\ \A i \in 1..Len(new) : new[i].tag \notin {"FULL_PATH", "READ_COMPLETE"}
  <2>1. \A t \in {"SUBDIRS", "SEARCH_PATH", "SAYS_QUIT"} : [tag |-> t] \in Reply
    BY DEF Reply
  <2>2. CASE new = << >>
    BY <2>2
  <2>3. ASSUME NEW t \in {"SUBDIRS", "SEARCH_PATH", "SAYS_QUIT"}, new = <<[tag |-> t]>>
        PROVE  /\ new \in Seq(Reply) /\ Len(new) \in Nat
               /\ \A i \in 1..Len(new) : new[i].tag \notin {"FULL_PATH", "READ_COMPLETE"}
    BY <2>1, <2>3
  <2>4. QED
    BY <1>2, <2>2, <2>3
<1>4. /\ toClient' \in Seq(Reply) /\ Len(toClient') = Len(toClient) + Len(new)
      /\ \A i \in 1..Len(toClient) : toClient'[i] = toClient[i]
      /\ \A i \in 1..Len(new) : toClient'[Len(toClient) + i] = new[i]
  BY <1>1, <1>2, <1>3, ConcatFacts
<1>5. ASSUME NEW k \in 1..Len(toClient'), k > Len(toClient)
      PROVE  toClient'[k].tag \notin {"FULL_PATH", "READ_COMPLETE"}
  <2>1. k - Len(toClient) \in 1..Len(new) /\ Len(toClient) + (k - Len(toClient)) = k
    BY <1>1, <1>3, <1>4, <1>5
  <2>2. QED
    BY <1>3, <1>4, <2>1
<1>6. path' \in Paths /\ reader' \in BOOLEAN
      /\ (msg.tag # "SET_SEARCH_PATH" => path' = path)
      /\ (reader \/ msg.tag = "GET_SUBDIRS" => reader')
  <2>1. ASSUME msg.tag = "SET_SEARCH_PATH"
        PROVE  path' \in Paths
    BY <2>1 DEF CheckSocket, Message
  <2>2. QED
    BY <1>1, <2>1 DEF CheckSocket
<1>7. msg.tag = "READ_FILE" => toClient' = toClient
  BY <1>1, <1>2
<1>8. QED
  BY <1>1, <1>3, <1>4, <1>5, <1>6, <1>7

\* There is one search, so the innermost is the only one.
LEMMA OneSearch ==
  ASSUME IInv, searches # << >>
  PROVE  /\ Len(searches) = 1 /\ Search = searches[1] /\ Search \in SearchRecord
         /\ Outer = << >> /\ Unanswered(Search.id)
         /\ \A k \in 1..Len(toServer) : ~Asks(k)
<1>1. searches \in Seq(SearchRecord) /\ Len(searches) \in Nat /\ Len(searches) <= 1
  BY DEF IInv, TypeOK, OnePlace
<1>2. Len(searches) = 1
  <2>1. Len(searches) # 0
    BY <1>1
  <2>2. \A n \in Nat : n <= 1 /\ n # 0 => n = 1
    OBVIOUS
  <2>3. QED
    BY <1>1, <2>1, <2>2
<1>3. Search = searches[1] /\ Search \in SearchRecord /\ 1 \in 1..Len(searches)
  BY <1>1, <1>2 DEF Search
<1>4. Outer = << >>
  <2>1. Outer = SubSeq(searches, 1, 0)
    BY <1>2 DEF Outer
  <2>2. QED
    BY <1>1, <2>1
<1>5. Unanswered(Search.id)
  BY <1>3 DEF IInv, OnePlace
<1>6. \A k \in 1..Len(toServer) : ~Asks(k)
  BY DEF IInv, OnePlace
<1>7. QED
  BY <1>2, <1>3, <1>4, <1>5, <1>6

LEMMA ServeMessageInv ==
  ASSUME IInv, ServeMessage
  PROVE  IInv'
<1> DEFINE msg == Head(toServer)
<1>1. /\ searches = << >> /\ toServer # << >> /\ CheckSocket(msg)
      /\ searches' = IF msg.tag = "READ_FILE" THEN <<NewSearch(msg)>> ELSE << >>
      /\ server' \in {"running", "exited"}
      /\ toServer' = Tail(toServer)
      /\ UNCHANGED guiVars
  BY DEF ServeMessage
<1>2. /\ UNCHANGED <<stack, table, pending, reading, infos, progress, up>>
      /\ UNCHANGED <<guiPath, dialogs, beats>>
      /\ OneOutstanding' /\ CacheSound' /\ KeysAllocated' /\ FramesSound'
  BY <1>1, GuiKept
<1>3. toServer \in Seq(Message) /\ toClient \in Seq(Reply) /\ path \in Paths
      /\ 0 \in 0..MaxDescents
  BY DEF IInv, TypeOK
<1>4. /\ toServer' \in Seq(Message) /\ msg \in Message /\ msg = toServer[1]
      /\ 1 \in 1..Len(toServer)
      /\ \A i \in 1..Len(toServer') : /\ toServer'[i] = toServer[i + 1]
                                      /\ i + 1 \in 1..Len(toServer)
  BY <1>1, <1>3, TailFacts
<1> HIDE DEF msg
<1>5. /\ toClient' \in Seq(Reply) /\ Len(toClient) \in Nat
      /\ Len(toClient') \in Nat /\ Len(toClient') >= Len(toClient)
      /\ \A k \in 1..Len(toClient) : toClient'[k] = toClient[k]
      /\ \A k \in 1..Len(toClient') : k > Len(toClient) =>
             toClient'[k].tag \notin {"FULL_PATH", "READ_COMPLETE"}
      /\ path' \in Paths /\ reader' \in BOOLEAN
      /\ msg.tag # "SET_SEARCH_PATH" => path' = path
      /\ reader \/ msg.tag = "GET_SUBDIRS" => reader'
      /\ msg.tag = "READ_FILE" => toClient' = toClient
  BY <1>1, <1>4, CheckSocketFacts
<1>6. ReaderMade'
  <2>1. stack' = stack /\ ReaderMade
    BY <1>2 DEF IInv
  <2>2. reader \/ Head(toServer).tag = "GET_SUBDIRS" => reader'
    BY <1>5 DEF msg
  <2>3. QED
    BY <1>1, <1>3, <2>1, <2>2, ReaderTaken
<1>7. CASE msg.tag = "READ_FILE"
  <2>1. Asks(1) /\ NewSearch(msg) \in SearchRecord /\ NewSearch(msg).id = msg.id
        /\ NewSearch(msg).on = path
    BY <1>3, <1>4, <1>7 DEF Asks, Message, NewSearch, SearchRecord
  <2>2. Unanswered(msg.id) /\ \A j \in 1..Len(toServer) : Asks(j) => j = 1
    BY <1>4, <2>1 DEF IInv, OnePlace
  <2>3. /\ searches' = <<NewSearch(msg)>> /\ toClient' = toClient /\ path' = path
        /\ searches' \in Seq(SearchRecord) /\ Len(searches') = 1
        /\ \A i \in 1..Len(searches') : searches'[i] = NewSearch(msg)
    BY <1>1, <1>5, <1>7, <2>1
  <2>4. \A k \in 1..Len(toClient') : ~Numbered(k)'
    BY <2>2, <2>3 DEF Unanswered, Numbered, IsText, IsFullPath
  <2>5. msg.id \in pending' /\ infos'[msg.id].fullPath = << >>
    BY <1>2, <2>2 DEF Unanswered
  <2>6. ASSUME NEW i \in 1..Len(searches')
        PROVE  Unanswered(searches[i].id)'
    <3>1. searches'[i].id = msg.id
      BY <2>1, <2>3
    <3>2. QED
      BY <2>4, <2>5, <3>1 DEF Unanswered
  <2>7. \A k \in 1..Len(toServer') : ~Asks(k)'
    <3>1. ASSUME NEW k \in 1..Len(toServer'), Asks(k)'
          PROVE  FALSE
      <4>1. Asks(k + 1) /\ k + 1 \in 1..Len(toServer)
        BY <1>4, <3>1 DEF Asks
      <4>2. k + 1 = 1
        BY <2>2, <4>1
      <4>3. QED
        BY <4>2
    <3>2. QED
      BY <3>1
  <2>8. OnePlace'
    BY <2>3, <2>6, <2>7 DEF OnePlace
  <2>9. OneAnswer'
    <3>1. \A k \in 1..Len(toClient') : ~IsText(k)' /\ ~IsFullPath(k)'
      BY <2>4 DEF Numbered
    <3>2. QED
      BY <2>4, <3>1 DEF OneAnswer
  <2>10. PathsSafe'
    BY <1>4, <1>6, <2>1, <2>3, PathsKept
  <2>11. TypeOK'
    BY <1>1, <1>2, <1>4, <1>5, <2>3 DEF IInv, TypeOK
  <2>12. QED
    BY <1>2, <1>6, <2>8, <2>9, <2>10, <2>11 DEF IInv
<1>8. CASE msg.tag # "READ_FILE"
  <2>1. searches' = << >> /\ Len(searches') = 0 /\ Len(searches) = 0
        /\ searches' \in Seq(SearchRecord)
    BY <1>1, <1>8
  <2>2. OnePlace' /\ OneAnswer'
    <3>1. /\ 1 \in Nat /\ pending' = pending /\ OnePlace /\ OneAnswer
          /\ \A id \in pending : infos'[id].fullPath = infos[id].fullPath
          /\ searches' = << >> /\ Len(searches') = Len(searches)
          /\ \A i \in 1..Len(searches) : searches'[i].id = searches[i].id
      BY <1>2, <2>1 DEF IInv
    <3>2. \A k \in 1..Len(toServer') : toServer'[k].tag = "READ_FILE" =>
             k + 1 \in 1..Len(toServer) /\ toServer'[k] = toServer[k + 1]
      BY <1>4
    <3>3. QED
      BY <1>5, <3>1, <3>2, PlaceKept
  <2>3. PathsSafe'
    BY <1>4, <1>6, <2>1, PathsKept
  <2>4. TypeOK'
    BY <1>1, <1>2, <1>4, <1>5, <2>1 DEF IInv, TypeOK
  <2>5. QED
    BY <1>2, <1>6, <2>2, <2>3, <2>4 DEF IInv
<1>9. QED
  BY <1>7, <1>8

LEMMA StepTyped ==
  ASSUME NEW s \in SearchRecord, s.steps < MaxDescents, NEW stop \in {"no"} \cup Ends
  PROVE  /\ Step(s, stop) \in SearchRecord /\ Step(s, stop).id = s.id
         /\ Step(s, stop).on = s.on /\ Step(s, stop).stop = stop
<1>1. /\ s.steps \in 0..MaxDescents
      /\ s = [id |-> s.id, file |-> s.file, on |-> s.on, steps |-> s.steps, stop |-> s.stop]
      /\ s.id \in Id /\ s.file \in Files /\ s.on \in Paths
  BY DEF SearchRecord
<1>2. MaxDescents \in Nat
  OBVIOUS
<1>3. s.steps + 1 \in 0..MaxDescents
  BY <1>1, <1>2
<1>4. Step(s, stop) = [id |-> s.id, file |-> s.file, on |-> s.on,
                       steps |-> s.steps + 1, stop |-> stop]
  <2>1. Step(s, stop) = [[s EXCEPT !.steps = s.steps + 1] EXCEPT !.stop = stop]
    BY DEF Step
  <2>2. QED
    BY <1>1, <2>1
<1>5. QED
  BY <1>1, <1>3, <1>4 DEF SearchRecord

\* The search goes on, or is told to stop: nothing else happens.
LEMMA SearchStepInv ==
  ASSUME IInv, AtDescent, NEW stop \in {"no"} \cup Ends,
         searches' = Append(Outer, Step(Search, stop)),
         UNCHANGED <<guiVars, path, reader, server, toServer, toClient>>
  PROVE  IInv'
<1> DEFINE new == Step(Search, stop)
<1>1. searches # << >> /\ Search.stop = "no" /\ Search.steps < MaxDescents
  BY DEF AtDescent
<1>2. /\ Len(searches) = 1 /\ Search = searches[1] /\ Search \in SearchRecord
      /\ Outer = << >>
  BY <1>1, OneSearch
<1>3. /\ UNCHANGED <<stack, table, pending, reading, infos, progress, up>>
      /\ UNCHANGED <<guiPath, dialogs, beats>>
      /\ OneOutstanding' /\ CacheSound' /\ KeysAllocated' /\ FramesSound'
  BY GuiKept
<1>4. new \in SearchRecord /\ new.id = Search.id /\ new.on = Search.on
  BY <1>1, <1>2, StepTyped
<1> HIDE DEF new
<1>5. searches' = <<new>>
  BY <1>2 DEF new
<1>6. /\ searches' \in Seq(SearchRecord) /\ Len(searches') = 1
      /\ \A i \in 1..Len(searches') : searches'[i] = new
      /\ searches # << >>
  BY <1>1, <1>4, <1>5
<1>7. toServer \in Seq(Message) /\ Len(toClient) \in Nat
  BY DEF IInv, TypeOK
<1>8. OnePlace' /\ OneAnswer'
  <2>1. ASSUME NEW i \in 1..Len(searches')
        PROVE  Unanswered(searches[i].id)'
    <3>1. searches'[i].id = searches[1].id /\ 1 \in 1..Len(searches)
      BY <1>2, <1>4, <1>6
    <3>2. Unanswered(searches[1].id)
      BY <3>1 DEF IInv, OnePlace
    <3>3. QED
      BY <1>3, <3>1, <3>2 DEF Unanswered, Numbered, IsText, IsFullPath
  <2>2. \A k \in 1..Len(toServer') : ~Asks(k)'
    BY <1>1, OneSearch DEF Asks
  <2>3. OnePlace'
    BY <1>6, <2>1, <2>2 DEF OnePlace
  <2>4. OneAnswer'
    BY <1>3 DEF IInv, OneAnswer, Numbered, IsText, IsFullPath
  <2>5. QED
    BY <2>3, <2>4
<1>9. ReaderMade'
  BY <1>3 DEF IInv, ReaderMade
<1>10. PathsSafe'
  <2>1. Search.on = path
    BY <1>1, <1>2 DEF IInv, PathsSafe
  <2>2. \A i \in 1..Len(searches') : searches'[i].on = path'
    BY <1>4, <1>6, <2>1
  <2>3. QED
    BY <1>7, <1>9, <2>2, PathsKept
<1>11. TypeOK'
  BY <1>3, <1>6 DEF IInv, TypeOK
<1>12. QED
  BY <1>3, <1>8, <1>9, <1>10, <1>11 DEF IInv

LEMMA DescendWithMessageInv ==
  ASSUME IInv, DescendWithMessage
  PROVE  IInv'
<1> DEFINE msg == Head(toServer)
           new == Step(Search, Verdict(msg.tag))
<1>1. /\ searches # << >> /\ Search.stop = "no" /\ Search.steps < MaxDescents
      /\ toServer # << >> /\ CheckSocket(msg)
      /\ toServer' = Tail(toServer)
      /\ UNCHANGED guiVars /\ server' = server
  BY DEF DescendWithMessage, AtDescent
<1>2. /\ Len(searches) = 1 /\ Search = searches[1] /\ Search \in SearchRecord
      /\ Outer = << >> /\ \A k \in 1..Len(toServer) : ~Asks(k)
  BY <1>1, OneSearch
<1>3. /\ UNCHANGED <<stack, table, pending, reading, infos, progress, up>>
      /\ UNCHANGED <<guiPath, dialogs, beats>>
      /\ OneOutstanding' /\ CacheSound' /\ KeysAllocated' /\ FramesSound'
  BY <1>1, GuiKept
<1>4. toServer \in Seq(Message)
  BY DEF IInv, TypeOK
<1>5. /\ toServer' \in Seq(Message) /\ msg \in Message /\ msg = toServer[1]
      /\ 1 \in 1..Len(toServer)
      /\ \A i \in 1..Len(toServer') : /\ toServer'[i] = toServer[i + 1]
                                      /\ i + 1 \in 1..Len(toServer)
  BY <1>1, <1>4, TailFacts
<1>6. msg.tag # "READ_FILE"
  BY <1>2, <1>5 DEF Asks
<1>7. Verdict(msg.tag) \in {"no"} \cup Ends
      /\ (Verdict(msg.tag) = "no" => msg.tag # "SET_SEARCH_PATH")
  <2>1. CASE msg.tag = "CANCEL"
    BY <2>1 DEF Verdict, Ends
  <2>2. CASE msg.tag \in {"HEARTBEAT", "GUI_QUIT"}
    BY <2>2 DEF Verdict, Ends
  <2>3. CASE msg.tag \notin {"CANCEL", "HEARTBEAT", "GUI_QUIT"}
    BY <2>3 DEF Verdict, Ends
  <2>4. QED
    BY <2>1, <2>2, <2>3
<1>8. new \in SearchRecord /\ new.id = Search.id /\ new.on = Search.on
      /\ new.stop = Verdict(msg.tag)
  BY <1>1, <1>2, <1>7, StepTyped
<1>9. searches' = <<new>>
  <2>1. searches' = Append(Outer, new) \o << >>
    BY <1>6 DEF DescendWithMessage
  <2> HIDE DEF new
  <2>2. QED
    BY <1>2, <1>8, <2>1
<1> HIDE DEF msg, new
<1>10. /\ searches' \in Seq(SearchRecord) /\ Len(searches') = 1
       /\ \A i \in 1..Len(searches') : searches'[i] = new
  BY <1>8, <1>9
<1>11. /\ toClient' \in Seq(Reply) /\ Len(toClient) \in Nat
       /\ Len(toClient') \in Nat /\ Len(toClient') >= Len(toClient)
       /\ \A k \in 1..Len(toClient) : toClient'[k] = toClient[k]
       /\ \A k \in 1..Len(toClient') : k > Len(toClient) =>
              toClient'[k].tag \notin {"FULL_PATH", "READ_COMPLETE"}
       /\ path' \in Paths /\ reader' \in BOOLEAN
       /\ msg.tag # "SET_SEARCH_PATH" => path' = path
       /\ reader \/ msg.tag = "GET_SUBDIRS" => reader'
  BY <1>1, <1>5, CheckSocketFacts
<1>12. ReaderMade'
  <2>1. stack' = stack /\ ReaderMade
    BY <1>3 DEF IInv
  <2>2. reader \/ Head(toServer).tag = "GET_SUBDIRS" => reader'
    BY <1>11 DEF msg
  <2>3. QED
    BY <1>1, <1>4, <2>1, <2>2, ReaderTaken
<1>13. OnePlace' /\ OneAnswer'
  <2>1. /\ 1 \in Nat /\ pending' = pending /\ OnePlace /\ OneAnswer
        /\ \A id \in pending : infos'[id].fullPath = infos[id].fullPath
    BY <1>3 DEF IInv
  <2>2. /\ searches = << >> => searches' = << >>
        /\ Len(searches') = Len(searches)
        /\ \A i \in 1..Len(searches) : searches'[i].id = searches[i].id
    BY <1>1, <1>2, <1>8, <1>10
  <2>3. \A k \in 1..Len(toServer') : toServer'[k].tag = "READ_FILE" =>
           k + 1 \in 1..Len(toServer) /\ toServer'[k] = toServer[k + 1]
    BY <1>5
  <2>4. QED
    BY <1>11, <2>1, <2>2, <2>3, PlaceKept
<1>14. PathsSafe'
  <2>1. Search.on = path
    BY <1>1, <1>2 DEF IInv, PathsSafe
  <2>2. \A i \in 1..Len(searches') : searches'[i].stop = "no" => searches'[i].on = path'
    BY <1>7, <1>8, <1>10, <1>11, <2>1
  <2>3. QED
    BY <1>5, <1>12, <2>2, PathsKept
<1>15. TypeOK'
  BY <1>1, <1>3, <1>5, <1>10, <1>11 DEF IInv, TypeOK
<1>16. QED
  BY <1>3, <1>12, <1>13, <1>14, <1>15 DEF IInv

LEMMA ServeEOFInv ==
  ASSUME IInv, ServeEOF
  PROVE  IInv'
<1>1. /\ UNCHANGED <<stack, table, pending, reading, infos, progress, up>>
      /\ UNCHANGED <<guiPath, dialogs, beats>>
      /\ UNCHANGED <<searches, path, reader, toServer, toClient>>
      /\ OneOutstanding' /\ CacheSound' /\ KeysAllocated' /\ FramesSound'
      /\ server' = "exited"
  BY GuiKept DEF ServeEOF
<1>2. TypeOK'
  BY <1>1 DEF IInv, TypeOK
<1>3. OnePlace' /\ OneAnswer'
  BY <1>1 DEF IInv, OnePlace, OneAnswer, Unanswered, Asks, Numbered, IsText, IsFullPath
<1>4. PathsSafe' /\ ReaderMade'
  BY <1>1 DEF IInv, PathsSafe, ReaderMade
<1>5. QED
  BY <1>1, <1>2, <1>3, <1>4 DEF IInv

\* What read_file answers.
LEMMA RepliesFacts ==
  ASSUME NEW s \in SearchRecord
  PROVE  /\ Replies(s) \in Seq(Reply) /\ ResultOf(s) \in Result
         /\ \A k \in 1..Len(Replies(s)) :
               /\ Replies(s)[k].tag \in {"FULL_PATH", "READ_COMPLETE"}
               /\ Replies(s)[k].id = s.id /\ Replies(s)[k].result = ResultOf(s)
         /\ \/ Len(Replies(s)) = 1 /\ Replies(s)[1].tag = "READ_COMPLETE"
               /\ ResultOf(s).end # "found"
            \/ Len(Replies(s)) = 1 /\ Replies(s)[1].tag = "FULL_PATH"
               /\ ResultOf(s).end = "found"
            \/ Len(Replies(s)) = 2 /\ Replies(s)[1].tag = "FULL_PATH"
               /\ Replies(s)[2].tag = "READ_COMPLETE" /\ ResultOf(s).end = "found"
<1>1. s.id \in Id /\ s.on \in Paths /\ s.stop \in {"no"} \cup Ends
  BY DEF SearchRecord
<1>2. EndOf(s) \in Ends
  BY <1>1 DEF EndOf, Ends
<1>3. ResultOf(s) \in Result /\ ResultOf(s).end = EndOf(s)
  BY <1>1, <1>2 DEF ResultOf, Result
<1>4. /\ FullPath(s) \in Reply /\ FullPath(s).tag = "FULL_PATH" /\ FullPath(s).id = s.id
      /\ FullPath(s).result = ResultOf(s)
      /\ Text(s) \in Reply /\ Text(s).tag = "READ_COMPLETE" /\ Text(s).id = s.id
      /\ Text(s).result = ResultOf(s)
  BY <1>1, <1>3 DEF FullPath, Text, Reply
<1>5. CASE EndOf(s) # "found"
  <2>1. Replies(s) = <<Text(s)>>
    BY <1>5 DEF Replies
  <2>2. QED
    BY <1>3, <1>4, <1>5, <2>1
<1>6. CASE EndOf(s) = "found" /\ s.file \in Unreadable
  <2>1. Replies(s) = <<FullPath(s)>>
    BY <1>6 DEF Replies
  <2>2. QED
    BY <1>3, <1>4, <1>6, <2>1
<1>7. CASE EndOf(s) = "found" /\ s.file \notin Unreadable
  <2>1. Replies(s) = <<FullPath(s), Text(s)>>
    BY <1>7 DEF Replies
  <2>2. QED
    BY <1>3, <1>4, <1>7, <2>1
<1>8. QED
  BY <1>5, <1>6, <1>7

LEMMA FinishSearchInv ==
  ASSUME IInv, FinishSearch
  PROVE  IInv'
<1> DEFINE s == Search
           new == Replies(Search)
           n == Len(toClient)
<1>1. /\ searches # << >> /\ searches' = Outer /\ toClient' = toClient \o new
      /\ server' \in {"running", "exited"}
      /\ UNCHANGED <<guiVars, path, reader, toServer>>
  BY DEF FinishSearch, ToClient
<1>2. /\ Outer = << >> /\ s \in SearchRecord /\ Unanswered(s.id)
      /\ \A k \in 1..Len(toServer) : ~Asks(k)
  BY <1>1, OneSearch
<1>3. /\ UNCHANGED <<stack, table, pending, reading, infos, progress, up>>
      /\ UNCHANGED <<guiPath, dialogs, beats>>
      /\ OneOutstanding' /\ CacheSound' /\ KeysAllocated' /\ FramesSound'
  BY <1>1, GuiKept
<1>4. toServer \in Seq(Message) /\ toClient \in Seq(Reply) /\ n \in Nat
  BY DEF IInv, TypeOK
<1>5. /\ new \in Seq(Reply) /\ Len(new) \in Nat
      /\ \A k \in 1..Len(new) :
            /\ new[k].tag \in {"FULL_PATH", "READ_COMPLETE"}
            /\ new[k].id = s.id /\ new[k].result = ResultOf(s)
      /\ \/ Len(new) = 1 /\ new[1].tag = "READ_COMPLETE" /\ ResultOf(s).end # "found"
         \/ Len(new) = 1 /\ new[1].tag = "FULL_PATH" /\ ResultOf(s).end = "found"
         \/ Len(new) = 2 /\ new[1].tag = "FULL_PATH" /\ new[2].tag = "READ_COMPLETE"
            /\ ResultOf(s).end = "found"
  BY <1>2, RepliesFacts
<1>6. s.id \in pending /\ infos[s.id].fullPath = << >>
      /\ \A k \in 1..n : ~Numbered(k)
  BY <1>2 DEF Unanswered
<1> HIDE DEF new, s
<1>7. /\ toClient' \in Seq(Reply) /\ Len(toClient') = n + Len(new)
      /\ \A i \in 1..n : toClient'[i] = toClient[i]
      /\ \A i \in 1..Len(new) : toClient'[n + i] = new[i]
  BY <1>1, <1>4, <1>5, ConcatFacts
<1> HIDE DEF n
<1>8. /\ searches' = << >> /\ Len(searches') = 0
      /\ searches' \in Seq(SearchRecord)
  BY <1>1, <1>2
<1>9. ASSUME NEW k \in 1..Len(toClient'), Numbered(k)'
      PROVE  k - n \in 1..Len(new) /\ toClient'[k] = new[k - n]
  <2>1. k \notin 1..n
    BY <1>6, <1>7, <1>9 DEF Numbered, IsText, IsFullPath
  <2>2. k - n \in 1..Len(new) /\ n + (k - n) = k
    BY <1>4, <1>5, <1>7, <2>1
  <2>3. QED
    BY <1>7, <2>2
<1>10. OnePlace'
  <2>1. \A k \in 1..Len(toServer') : ~Asks(k)'
    BY <1>1, <1>2 DEF Asks
  <2>2. QED
    BY <1>8, <2>1 DEF OnePlace
<1>11. OneAnswer'
  <2>1. ASSUME NEW k \in 1..Len(toClient'), Numbered(k)'
        PROVE  toClient'[k].id \in pending'
    BY <1>3, <1>5, <1>6, <1>9, <2>1
  <2>2. ASSUME NEW j \in 1..Len(toClient'), NEW k \in 1..Len(toClient'),
               Numbered(j)', Numbered(k)', j < k
        PROVE  IsFullPath(j)' /\ IsText(k)' /\ toClient'[j].result = toClient'[k].result
    <3>1. /\ j - n \in 1..Len(new) /\ toClient'[j] = new[j - n]
          /\ k - n \in 1..Len(new) /\ toClient'[k] = new[k - n]
      BY <1>9, <2>2
    <3>2. j - n = 1 /\ k - n = 2 /\ Len(new) = 2
      <4>1. Len(new) = 1 \/ Len(new) = 2
        BY <1>5
      <4>2. j - n < k - n /\ j - n \in Int /\ k - n \in Int
        BY <1>4, <2>2
      <4>3. QED
        BY <3>1, <4>1, <4>2
    <3>3. QED
      BY <1>5, <3>1, <3>2 DEF IsFullPath, IsText
  <2>3. ASSUME NEW k \in 1..Len(toClient'), IsFullPath(k)'
        PROVE  toClient'[k].result.end = "found"
    <3>1. k - n \in 1..Len(new) /\ toClient'[k] = new[k - n]
      BY <1>9, <2>3 DEF Numbered
    <3>2. new[k - n].tag = "FULL_PATH" /\ new[k - n].result = ResultOf(s)
      BY <1>5, <2>3, <3>1 DEF IsFullPath
    <3>3. ResultOf(s).end = "found"
      <4>1. CASE Len(new) = 1 /\ new[1].tag = "READ_COMPLETE"
        <5>1. k - n = 1
          BY <3>1, <4>1
        <5>2. QED
          BY <3>2, <4>1, <5>1
      <4>2. CASE ~(Len(new) = 1 /\ new[1].tag = "READ_COMPLETE")
        BY <1>5, <4>2
      <4>3. QED
        BY <4>1, <4>2
    <3>4. QED
      BY <3>1, <3>2, <3>3
  <2>4. ASSUME NEW k \in 1..Len(toClient'), IsText(k)'
        PROVE  \/ \E j \in 1..(k - 1) : IsFullPath(j)'
               \/ infos'[toClient'[k].id].fullPath =
                     IF toClient'[k].result.end = "found" THEN <<toClient'[k].result>>
                                                          ELSE << >>
    <3>1. k - n \in 1..Len(new) /\ toClient'[k] = new[k - n]
      BY <1>9, <2>4 DEF Numbered
    <3>2. new[k - n].tag = "READ_COMPLETE" /\ new[k - n].id = s.id
          /\ new[k - n].result = ResultOf(s)
      BY <1>5, <2>4, <3>1 DEF IsText
    <3>3. CASE ResultOf(s).end # "found"
      BY <1>3, <1>6, <3>1, <3>2, <3>3
    <3>4. CASE ResultOf(s).end = "found"
      <4>1. new[1].tag = "FULL_PATH" /\ 1 \in 1..Len(new)
        BY <1>5, <3>4
      <4>2. k - n # 1
        BY <3>2, <4>1
      <4>3. n + 1 \in 1..(k - 1)
        BY <1>4, <3>1, <4>2
      <4>4. toClient'[n + 1].tag = "FULL_PATH"
        BY <1>7, <4>1
      <4>5. QED
        BY <4>3, <4>4 DEF IsFullPath
    <3>5. QED
      BY <3>3, <3>4
  <2>5. QED
    BY <2>1, <2>2, <2>3, <2>4 DEF OneAnswer
<1>12. ReaderMade'
  BY <1>1, <1>3 DEF IInv, ReaderMade
<1>13. PathsSafe'
  BY <1>1, <1>4, <1>8, <1>12, PathsKept
<1>14. TypeOK'
  BY <1>1, <1>3, <1>7, <1>8 DEF IInv, TypeOK
<1>15. QED
  BY <1>3, <1>10, <1>11, <1>12, <1>13, <1>14 DEF IInv

------------------------------------------------------------------------------
LEMMA InitInv == Init => IInv
<1> SUFFICES ASSUME Init PROVE IInv
  OBVIOUS
<1>1. /\ stack = << >> /\ Len(stack) = 0 /\ infos = << >> /\ Len(infos) = 0
      /\ toServer = << >> /\ Len(toServer) = 0 /\ toClient = << >> /\ Len(toClient) = 0
      /\ searches = << >> /\ Len(searches) = 0
      /\ pending = {} /\ reading = FALSE /\ table = [f \in Files |-> 0]
      /\ reader = FALSE /\ path = Path0
  BY DEF Init
<1>2. TypeOK
  <2>1. /\ stack \in Seq(FrameRecord) /\ infos \in Seq(FileInfo)
        /\ toServer \in Seq(Message) /\ toClient \in Seq(Reply)
        /\ searches \in Seq(SearchRecord)
    BY <1>1
  <2>2. /\ table \in [Files -> Id \cup {0}] /\ pending \subseteq Id
        /\ reading \in BOOLEAN /\ reader \in BOOLEAN /\ path \in Paths
    BY <1>1
  <2>3. Len(infos) <= MaxRequests /\ 0 \in 0..MaxDialogs /\ 0 \in 0..MaxBeats
    BY <1>1
  <2>4. QED
    BY <2>1, <2>2, <2>3 DEF Init, TypeOK
<1>3. OneOutstanding /\ OnePlace /\ OneAnswer
  BY <1>1 DEF OneOutstanding, OnePlace, OneAnswer
<1>4. FramesSound
  <2>1. Waits = {}
    BY <1>1 DEF Waits
  <2>2. Cardinality(Waits) = 0
    BY <2>1, FS_EmptySet
  <2>3. QED
    BY <1>1, <2>2 DEF FramesSound
<1>5. CacheSound /\ KeysAllocated
  BY <1>1 DEF CacheSound, KeysAllocated
<1>6. PathsSafe /\ ReaderMade
  BY <1>1 DEF PathsSafe, ReaderMade
<1>7. QED
  BY <1>2, <1>3, <1>4, <1>5, <1>6 DEF IInv

LEMMA NextInv == IInv /\ [Next]_vars => IInv'
<1> SUFFICES ASSUME IInv, [Next]_vars PROVE IInv'
  OBVIOUS
<1>1. CASE UNCHANGED vars
  <2>1. /\ UNCHANGED guiVars
        /\ UNCHANGED <<searches, path, reader, server, toServer, toClient>>
    BY <1>1 DEF vars, serverVars
  <2>2. /\ UNCHANGED <<stack, table, pending, reading, infos, progress, up>>
        /\ UNCHANGED <<guiPath, dialogs, beats>>
        /\ OneOutstanding' /\ CacheSound' /\ KeysAllocated' /\ FramesSound'
    BY <2>1, GuiKept
  <2>3. TypeOK'
    BY <2>1, <2>2 DEF IInv, TypeOK
  <2>4. OnePlace' /\ OneAnswer'
    BY <2>1, <2>2 DEF IInv, OnePlace, OneAnswer, Unanswered, Asks, Numbered, IsText, IsFullPath
  <2>5. PathsSafe' /\ ReaderMade'
    BY <2>1, <2>2 DEF IInv, PathsSafe, ReaderMade
  <2>6. QED
    BY <2>2, <2>3, <2>4, <2>5 DEF IInv
<1>2. CASE FoundAfterWaiting \/ ReturnInfo \/ RejectDialog
  BY <1>2, ReturnsInv
<1>3. CASE RequestFile
  BY <1>3, RequestFileInv
<1>4. CASE SendCancel
  BY <1>4, SendCancelInv
<1>5. CASE GetPendingData
  BY <1>5, GetPendingDataInv
<1>6. CASE Heartbeat
  BY <1>6, HeartbeatInv
<1>7. ASSUME NEW f \in Files, GetSource(f)
      PROVE  IInv'
  BY <1>7, GetSourceInv
<1>8. CASE ShowProgress \/ PressStop
  BY <1>8, ProgressInv
<1>9. CASE OpenDialog
  BY <1>9, OpenDialogInv
<1>10. ASSUME NEW p \in Paths, AcceptDialog(p)
       PROVE  IInv'
  BY <1>10, AcceptDialogInv
<1>11. CASE ReportWindowClosed
  BY <1>11, WindowClosedInv
<1>12. CASE ServeMessage
  BY <1>12, ServeMessageInv
<1>13. CASE ServeEOF
  BY <1>13, ServeEOFInv
<1>14. CASE DescendUndisturbed
  BY <1>14, SearchStepInv DEF DescendUndisturbed
<1>15. CASE DescendWithMessage
  BY <1>15, DescendWithMessageInv
<1>16. CASE DescendAtEOF
  BY <1>16, SearchStepInv DEF DescendAtEOF, Ends
<1>17. CASE FinishSearch
  BY <1>17, FinishSearchInv
<1>18. QED
  BY <1>1, <1>2, <1>3, <1>4, <1>5, <1>6, <1>7, <1>8, <1>9, <1>10, <1>11, <1>12, <1>13,
     <1>14, <1>15, <1>16, <1>17
     DEF Next, Client, Server, FrameLeaves, User

\* The inductive invariant of the Client's calls, the two channels and the server's
\* search (filecollection.cpp, mainview.cpp, TGxmlserver.cpp): there is at most one
\* outstanding request, it is in one place, and its answer is one full path, when
\* the file was found, then one text.
THEOREM Invariance == Spec => []IInv
<1>1. Init => IInv
  BY InitInv
<1>2. IInv /\ [Next]_vars => IInv'
  BY NextInv
<1>3. QED
  BY <1>1, <1>2, PTL DEF Spec

\* However the calls of createFileInfo nest, requests and answers match: the shared
\* sourceState says whether one request is outstanding, no call finds the flag
\* cleared by the answer to another, and every reply finds its key in the table.
THEOREM RequestsAreMatched == Spec => []RequestsMatched
<1>1. IInv => RequestsMatched
  <2> SUFFICES ASSUME IInv PROVE RequestsMatched
    OBVIOUS
  <2>1. Cardinality(pending) <= 1
    <3>1. CASE pending = {}
      BY <3>1, FS_EmptySet
    <3>2. ASSUME NEW id \in pending
          PROVE  Cardinality(pending) <= 1
      <4>1. pending = {id}
        BY DEF IInv, OneOutstanding
      <4>2. Cardinality({id}) = 1
        BY FS_Singleton
      <4>3. QED
        BY <4>1, <4>2
    <3>3. QED
      BY <3>1, <3>2
  <2>2. ASSUME NEW i \in 1..Len(stack), stack[i].at = "read", ~reading
        PROVE  infos[stack[i].id].text # << >>
    <3>1. pending = {}
      BY <2>2 DEF IInv, OneOutstanding
    <3>2. QED
      BY <2>2, <3>1 DEF IInv, FramesSound
  <2>3. Len(searches) <= 1 /\ (reading <=> pending # {})
    BY DEF IInv, OnePlace, OneOutstanding
  <2>4. QED
    BY <2>1, <2>2, <2>3 DEF IInv, OneAnswer, RequestsMatched
<1>2. QED
  BY <1>1, Invariance, PTL

\* The cache is consistent: what the table holds is a record of that name that was
\* not deleted, with the full path of the search that brought its text, and
\* insertSourceFile never meets an entry for the same name.
THEOREM CacheIsSound == Spec => []CacheSound
<1>1. IInv => CacheSound
  BY DEF IInv
<1>2. QED
  BY <1>1, Invariance, PTL

\* A change of the search path pulls nothing from under the server: a search that
\* goes on works on the path that is set, and COLLECTOR_SET_SEARCH_PATH finds
\* sourceReader made.
THEOREM PathsAreSafe == Spec => []PathsSafe
<1>1. IInv => PathsSafe
  BY DEF IInv
<1>2. QED
  BY <1>1, Invariance, PTL
==============================================================================
