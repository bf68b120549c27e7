---------------------------- MODULE Actions_proofs ----------------------------
(* For any points, actions, lists and tasks: an action is never installed twice   *)
(* at a point, and what dynTG installs, and in which order, is what the Client    *)
(* shows.                                                                         *)
EXTENDS Actions, SequenceTheorems, FiniteSetTheorems, WellFoundedInduction, TLAPS

Slots == Seq(Tags \cup {NULL})

USE ActionsAssumption DEF ActionsAssumption

------------------------------------------------------------------------------
(* Induction over the natural numbers, from the least element of a set of them. *)

LEMMA LeastElement ==
    ASSUME NEW S, S \subseteq Nat, S # {}
    PROVE  \E n \in S : \A m \in S : n <= m
<1> DEFINE R == OpToRel(<, Nat)
<1>1. ASSUME NEW a \in Nat, NEW b \in Nat, a < b
      PROVE  <<a, b>> \in R
  BY <1>1 DEF OpToRel
<1>2. \E x \in S : \A y \in S : ~ (<<y, x>> \in R)
  BY WFMin, NatLessThanWellFounded
<1> HIDE DEF R
<1>3. PICK x \in S : \A y \in S : ~ (<<y, x>> \in R)
  BY <1>2
<1>4. ASSUME NEW y \in S
      PROVE  x <= y
  <2>1. x \in Nat /\ y \in Nat
    OBVIOUS
  <2>2. ~ (y < x)
    BY <1>1, <1>3, <2>1
  <2> QED
    BY <2>1, <2>2
<1> QED
  BY <1>3, <1>4

LEMMA Induction ==
    ASSUME NEW S, 0 \in S, \A n \in S \cap Nat : n + 1 \in S
    PROVE  Nat \subseteq S
<1> SUFFICES ASSUME Nat \ S # {} PROVE FALSE
  OBVIOUS
<1>1. PICK n \in Nat \ S : \A m \in Nat \ S : n <= m
  BY LeastElement
<1>2. n \in Nat /\ n # 0 /\ n - 1 \in Nat /\ (n - 1) + 1 = n
  BY <1>1
<1>3. n - 1 \in S
  BY <1>1, <1>2
<1> QED
  BY <1>1, <1>2, <1>3

------------------------------------------------------------------------------
(* The messages of a list are well formed, whatever their number. *)

InstrumentRequest == [op : {"INSTRUMENT_APP"}, specs : Seq(Specification), count : Nat]
Buffer == [sent : Seq(InstrumentRequest), specs : Seq(Specification), count : Nat,
           length : Nat]

LEMMA PackTyped ==
    ASSUME NEW list \in Seq(Specification), NEW k \in 1 .. Len(list), NEW before \in Buffer
    PROVE  Pack(list, k, before) \in Buffer
<1> DEFINE n == Len(list)
           specs == Append(before.specs, list[k])
           length == before.length + list[k].length
<1>1. n \in Nat /\ k \in Nat /\ k - 1 \in Nat /\ n - k \in Nat
  OBVIOUS
<1>2. list[k] \in Specification
  OBVIOUS
<1>3. before.sent \in Seq(InstrumentRequest) /\ before.specs \in Seq(Specification)
      /\ before.count \in Nat /\ before.length \in Nat
  BY DEF Buffer
<1>4. specs \in Seq(Specification) /\ length \in Nat
  BY <1>2, <1>3 DEF Specification
<1> HIDE DEF specs, length, n
<1>5. NewBuffer(Append(before.sent, InstrumentMessage(specs, k - 1)), n - k) \in Buffer
  <2>1. InstrumentMessage(specs, k - 1) \in InstrumentRequest
    BY <1>1, <1>4 DEF InstrumentMessage, InstrumentRequest
  <2>2. Append(before.sent, InstrumentMessage(specs, k - 1)) \in Seq(InstrumentRequest)
    BY <1>3, <2>1
  <2> QED
    BY <1>1, <2>2 DEF NewBuffer, Buffer
<1>6. [before EXCEPT !.specs = specs, !.length = length] \in Buffer
  BY <1>4 DEF Buffer
<1> QED
  BY <1>5, <1>6 DEF Pack, specs, length, n

\* The recursion is well founded: there is a table of the states of the buffer.
LEMMA PackedExists ==
    ASSUME NEW list \in Seq(Specification)
    PROVE  \E f : f = [k \in 0 .. Len(list) |-> IF k = 0 THEN NewBuffer(<<>>, Len(list))
                                              ELSE Pack(list, k, f[k - 1])]
<1> DEFINE base == NewBuffer(<<>>, Len(list))
           Table(f, m) == f = [k \in 0 .. m |-> IF k = 0 THEN base
                                                ELSE Pack(list, k, f[k - 1])]
           S == {m \in Nat : \E f : Table(f, m)}
<1>1. 0 \in S
  <2>1. Table([k \in 0 .. 0 |-> base], 0)
    OBVIOUS
  <2> QED
    BY <2>1
<1>2. ASSUME NEW m \in S \cap Nat
      PROVE  m + 1 \in S
  <2>1. PICK f : Table(f, m)
    OBVIOUS
  <2> DEFINE g == [k \in 0 .. (m + 1) |-> IF k = m + 1 THEN Pack(list, m + 1, f[m])
                                          ELSE f[k]]
  <2>2. ASSUME NEW k \in 0 .. (m + 1)
        PROVE  g[k] = IF k = 0 THEN base ELSE Pack(list, k, g[k - 1])
    <3>1. CASE k = m + 1
      <4>1. g[k - 1] = f[m] /\ g[k] = Pack(list, m + 1, f[m]) /\ k # 0
        BY <3>1
      <4> HIDE DEF g
      <4> QED
        BY <3>1, <4>1
    <3>2. CASE k # m + 1 /\ k # 0
      <4>1. k \in 0 .. m /\ k - 1 \in 0 .. m /\ k - 1 # m + 1 /\ k - 1 \in 0 .. (m + 1)
        BY <3>2
      <4>2. g[k] = f[k] /\ g[k - 1] = f[k - 1]
        BY <3>2, <4>1
      <4>3. f[k] = Pack(list, k, f[k - 1])
        BY <2>1, <3>2, <4>1
      <4> HIDE DEF g
      <4> QED
        BY <3>2, <4>2, <4>3
    <3>3. CASE k = 0
      <4>1. 0 \in 0 .. m /\ 0 # m + 1
        OBVIOUS
      <4>2. g[k] = f[0] /\ f[0] = base
        BY <2>1, <3>3, <4>1
      <4> HIDE DEF g
      <4> QED
        BY <3>3, <4>2
    <3> QED
      BY <3>1, <3>2, <3>3
  <2>3. Table(g, m + 1)
    <3>1. g = [k \in 0 .. (m + 1) |-> g[k]]
      OBVIOUS
    <3> HIDE DEF g
    <3> QED
      BY <2>2, <3>1
  <2> HIDE DEF Table, g
  <2> QED
    BY <2>3
<1> HIDE DEF S
<1>3. Nat \subseteq S
  BY <1>1, <1>2, Induction
<1>4. Len(list) \in S
  BY <1>3
<1> QED
  BY <1>4 DEF S

LEMMA MessagesTyped ==
    ASSUME NEW list \in Seq(Specification)
    PROVE  InstrumentMessages(list) \in Seq(InstrumentRequest)
<1> DEFINE n == Len(list)
           base == NewBuffer(<<>>, n)
           f == CHOOSE g : g = [k \in 0 .. n |-> IF k = 0 THEN base
                                                  ELSE Pack(list, k, g[k - 1])]
<1>1. InstrumentMessages(list) = Append(f[n].sent, InstrumentMessage(f[n].specs, f[n].count))
  BY DEF InstrumentMessages
<1>2. f = [k \in 0 .. n |-> IF k = 0 THEN base ELSE Pack(list, k, f[k - 1])]
  BY PackedExists
<1>3. n \in Nat /\ base \in Buffer
  BY DEF NewBuffer, Buffer
<1> HIDE DEF f, base
<1> DEFINE S == {k \in Nat : k <= n => f[k] \in Buffer}
<1>4. 0 \in S
  BY <1>2, <1>3
<1>5. ASSUME NEW k \in S \cap Nat
      PROVE  k + 1 \in S
  <2> SUFFICES ASSUME k + 1 <= n PROVE f[k + 1] \in Buffer
    OBVIOUS
  <2>1. k <= n /\ k + 1 \in 0 .. n /\ k + 1 \in 1 .. n /\ k + 1 # 0 /\ (k + 1) - 1 = k
    BY <1>3
  <2>2. f[k + 1] = Pack(list, k + 1, f[k])
    BY <1>2, <2>1
  <2>3. f[k] \in Buffer
    BY <2>1
  <2> QED
    BY <2>1, <2>2, <2>3, PackTyped
<1> HIDE DEF S
<1>6. n \in S
  BY <1>3, <1>4, <1>5, Induction
<1>7. f[n] \in Buffer
  BY <1>3, <1>6 DEF S
<1>8. /\ f[n].sent \in Seq(InstrumentRequest)
      /\ InstrumentMessage(f[n].specs, f[n].count) \in InstrumentRequest
  BY <1>7 DEF Buffer, InstrumentRequest, InstrumentMessage
<1> QED
  BY <1>1, <1>8

------------------------------------------------------------------------------
(* The slots of a point. *)

\* ApplyInstrumentation keeps the slots of a point well formed and free of
\* duplicates: it looks at every slot before it takes a new one.
LEMMA ApplyKeepsOnce ==
    ASSUME NEW slots \in Slots, NEW t \in Tags, Once(slots)
    PROVE  /\ ApplyInstrumentation(slots, t) \in Slots
           /\ Once(ApplyInstrumentation(slots, t))
<1>1. CASE \E i \in 1 .. Len(slots) : slots[i] = t
  BY <1>1 DEF ApplyInstrumentation
<1>2. CASE ~ \E i \in 1 .. Len(slots) : slots[i] = t
  <2> DEFINE more == Append(slots, t)
  <2>1. ApplyInstrumentation(slots, t) = more
    BY <1>2 DEF ApplyInstrumentation
  <2>2. more \in Slots /\ Len(more) = Len(slots) + 1
    BY DEF Slots
  <2>3. \A i \in 1 .. Len(more) :
           more[i] = IF i = Len(slots) + 1 THEN t ELSE slots[i]
    BY <2>2 DEF Slots
  <2>4. Once(more)
    <3> SUFFICES ASSUME NEW i \in 1 .. Len(more), NEW j \in 1 .. Len(more),
                        more[i] = more[j], more[i] # NULL
                 PROVE  i = j
      BY DEF Once
    <3>0. Len(slots) \in Nat
      BY DEF Slots
    <3>1. CASE i = Len(slots) + 1 /\ j # Len(slots) + 1
      BY <3>0, <3>1, <2>2, <2>3, <1>2
    <3>2. CASE i # Len(slots) + 1 /\ j = Len(slots) + 1
      BY <3>0, <3>2, <2>2, <2>3, <1>2
    <3>3. CASE i # Len(slots) + 1 /\ j # Len(slots) + 1
      BY <3>0, <3>3, <2>2, <2>3 DEF Once
    <3> QED
      BY <3>1, <3>2, <3>3
  <2> QED
    BY <2>1, <2>2, <2>4
<1> QED
  BY <1>1, <1>2

\* remove_action empties slots and does not move the others.
LEMMA RemoveKeepsOnce ==
    ASSUME NEW slots \in Slots, NEW t, Once(slots)
    PROVE  /\ remove_action(slots, t) \in Slots
           /\ Once(remove_action(slots, t))
<1> DEFINE less == remove_action(slots, t)
<1>0. Len(slots) \in Nat /\ \A i \in 1 .. Len(slots) : slots[i] \in Tags \cup {NULL}
  BY DEF Slots
<1>1. /\ less = [i \in 1 .. Len(slots) |-> less[i]]
      /\ \A i \in 1 .. Len(slots) : less[i] = NULL \/ less[i] = slots[i]
  BY DEF remove_action
<1>2. less \in Slots /\ Len(less) = Len(slots)
  <2>1. less \in [1 .. Len(slots) -> Tags \cup {NULL}]
    BY <1>0, <1>1
  <2> HIDE DEF less
  <2> QED
    BY <1>0, <2>1 DEF Slots
<1>3. Once(less)
  <2> HIDE DEF less
  <2> QED
    BY <1>1, <1>2 DEF Once
<1> QED
  BY <1>2, <1>3

\* Where the actions of a point are after one was added, or removed.
LEMMA ApplyPlaces ==
    ASSUME NEW slots \in Slots, NEW t \in Tags
    PROVE  LET new == ApplyInstrumentation(slots, t)
               At(s, u) == {i \in 1 .. Len(s) : s[i] = u}
           IN  /\ At(new, t) # {}
               /\ At(new, t) = IF At(slots, t) = {} THEN {Len(slots) + 1} ELSE At(slots, t)
               /\ \A u : u # t => At(new, u) = At(slots, u)
<1> DEFINE new == ApplyInstrumentation(slots, t)
           At(s, u) == {i \in 1 .. Len(s) : s[i] = u}
<1>0. Len(slots) \in Nat
  BY DEF Slots
<1>1. CASE \E i \in 1 .. Len(slots) : slots[i] = t
  <2>1. new = slots
    BY <1>1 DEF ApplyInstrumentation
  <2>2. At(slots, t) # {}
    BY <1>1
  <2> HIDE DEF new, At
  <2>3. At(new, t) = At(slots, t) /\ \A u : At(new, u) = At(slots, u)
    BY <2>1
  <2> QED
    BY <2>2, <2>3 DEF new, At
<1>2. CASE ~ \E i \in 1 .. Len(slots) : slots[i] = t
  <2>1. new = Append(slots, t)
    BY <1>2 DEF ApplyInstrumentation
  <2>2. Len(Append(slots, t)) = Len(slots) + 1
        /\ \A i \in 1 .. Len(slots) : Append(slots, t)[i] = slots[i]
        /\ Append(slots, t)[Len(slots) + 1] = t
    BY DEF Slots
  <2> HIDE DEF new
  <2>3. Len(new) = Len(slots) + 1 /\ new[Len(slots) + 1] = t
        /\ \A i \in 1 .. Len(slots) : new[i] = slots[i]
    BY <2>1, <2>2
  <2>4. At(slots, t) = {} /\ At(new, t) = {Len(slots) + 1}
    BY <1>0, <1>2, <2>3
  <2>5. \A u : u # t => At(new, u) = At(slots, u)
    BY <1>0, <2>3
  <2> HIDE DEF At
  <2>6. At(new, t) # {}
    BY <2>4
  <2> QED
    BY <2>4, <2>5, <2>6 DEF new, At
<1> QED
  BY <1>1, <1>2

LEMMA RemovePlaces ==
    ASSUME NEW slots \in Slots, NEW t \in Tags, Once(slots)
    PROVE  LET new == remove_action(slots, t)
               At(s, u) == {i \in 1 .. Len(s) : s[i] = u}
           IN  /\ At(new, t) = {}
               /\ \A u \in Tags : u # t => At(new, u) = At(slots, u)
<1> DEFINE new == remove_action(slots, t)
<1>0. Len(slots) \in Nat /\ NULL \notin Tags
  BY DEF Slots
<1>1. /\ Len(new) = Len(slots)
      /\ \A i \in 1 .. Len(slots) :
             new[i] = IF slots[i] = t /\ \A j \in 1 .. (i - 1) : slots[j] # t THEN NULL
                      ELSE slots[i]
  BY <1>0 DEF remove_action
<1> HIDE DEF new
<1>2. ASSUME NEW i \in 1 .. Len(slots)
      PROVE  new[i] = IF slots[i] = t THEN NULL ELSE slots[i]
  <2>1. CASE slots[i] = t
    <3>1. ASSUME NEW j \in 1 .. (i - 1)
          PROVE  slots[j] # t
      <4>1. j \in 1 .. Len(slots) /\ j # i
        BY <1>0
      <4> QED
        BY <1>0, <2>1, <4>1 DEF Once
    <3> QED
      BY <1>1, <2>1, <3>1
  <2>2. CASE slots[i] # t
    BY <1>1, <2>2
  <2> QED
    BY <2>1, <2>2
<1>3. {i \in 1 .. Len(new) : new[i] = t} = {}
  BY <1>0, <1>1, <1>2
<1>4. ASSUME NEW u \in Tags, u # t
      PROVE  {i \in 1 .. Len(new) : new[i] = u} = {i \in 1 .. Len(slots) : slots[i] = u}
  BY <1>0, <1>1, <1>2, <1>4
<1> QED
  BY <1>3, <1>4 DEF new

------------------------------------------------------------------------------
(* The requests about an action move d places up, and none of them is new. *)

Shifted(p, t, d) ==
    /\ \A k \in 1 .. Len(requests') :
          /\ Activates(k, p, t)' <=> k + d \in 1 .. Len(requests) /\ Activates(k + d, p, t)
          /\ Deactivates(k, p, t)' <=> k + d \in 1 .. Len(requests) /\ Deactivates(k + d, p, t)
    /\ \A k \in 1 .. Len(requests) : Concerns(k, p, t) => k - d \in 1 .. Len(requests')

LEMMA ShiftedBySame ==
    ASSUME requests \in Seq(Request), requests' = requests, NEW p, NEW t
    PROVE  Shifted(p, t, 0)
<1>1. Len(requests) \in Nat
  OBVIOUS
<1>2. \A k \in 1 .. Len(requests) : k + 0 = k /\ k - 0 = k
  BY <1>1
<1> QED
  BY <1>2 DEF Shifted, Activates, Deactivates

LEMMA ShiftedByTail ==
    ASSUME requests \in Seq(Request), requests # <<>>, requests' = Tail(requests),
           NEW p, NEW t, ~Concerns(1, p, t)
    PROVE  Shifted(p, t, 1)
<1>1. /\ Len(requests') = Len(requests) - 1 /\ Len(requests) \in Nat
      /\ \A k \in 1 .. Len(requests') : /\ requests'[k] = requests[k + 1]
                                        /\ k + 1 \in 1 .. Len(requests)
  OBVIOUS
<1>2. ASSUME NEW k \in 1 .. Len(requests), Concerns(k, p, t)
      PROVE  k - 1 \in 1 .. Len(requests')
  <2>1. k # 1
    BY <1>2
  <2> QED
    BY <1>1, <2>1
<1> QED
  BY <1>1, <1>2 DEF Shifted, Activates, Deactivates

LEMMA ShiftedByMore ==
    ASSUME requests \in Seq(Request), NEW more \in Seq(Request), requests' = requests \o more,
           NEW p, NEW t,
           \A k \in 1 .. Len(more) :
               /\ more[k] # [op |-> "ACTIVATE_ACTION", point |-> p, tag |-> t]
               /\ more[k] # [op |-> "DEACTIVATE_ACTION", point |-> p, tag |-> t]
    PROVE  Shifted(p, t, 0)
<1>1. /\ Len(requests') = Len(requests) + Len(more) /\ Len(requests) \in Nat /\ Len(more) \in Nat
      /\ \A k \in 1 .. Len(requests) : requests'[k] = requests[k]
      /\ \A k \in 1 .. Len(more) : requests'[Len(requests) + k] = more[k]
  OBVIOUS
<1>2. ASSUME NEW k \in 1 .. Len(requests'), k \notin 1 .. Len(requests)
      PROVE  ~Activates(k, p, t)' /\ ~Deactivates(k, p, t)'
  <2>1. k - Len(requests) \in 1 .. Len(more) /\ Len(requests) + (k - Len(requests)) = k
    BY <1>1, <1>2
  <2> QED
    BY <1>1, <2>1 DEF Activates, Deactivates
<1>3. ASSUME NEW k \in 1 .. Len(requests)
      PROVE  k + 0 = k /\ k - 0 = k /\ k \in 1 .. Len(requests')
  BY <1>1
<1>4. ASSUME NEW k \in 1 .. Len(requests')
      PROVE  /\ Activates(k, p, t)' <=> k + 0 \in 1 .. Len(requests) /\ Activates(k + 0, p, t)
             /\ Deactivates(k, p, t)' <=> k + 0 \in 1 .. Len(requests)
                                          /\ Deactivates(k + 0, p, t)
  <2>1. k + 0 = k
    BY <1>1
  <2>2. CASE k \in 1 .. Len(requests)
    BY <1>1, <2>1, <2>2 DEF Activates, Deactivates
  <2>3. CASE k \notin 1 .. Len(requests)
    BY <1>2, <2>1, <2>3
  <2> QED
    BY <2>2, <2>3
<1> QED
  BY <1>3, <1>4 DEF Shifted

LEMMA ShiftedWords ==
    ASSUME requests \in Seq(Request), requests' \in Seq(Request), NEW p, NEW t, NEW d \in Nat,
           Shifted(p, t, d)
    PROVE  /\ \A k \in 1 .. Len(requests') : LastWord(k, p, t)' =>
                  k + d \in 1 .. Len(requests) /\ LastWord(k + d, p, t)
           /\ Pending(p, t)' <=> Pending(p, t)
<1>1. Len(requests) \in Nat /\ Len(requests') \in Nat
  OBVIOUS
<1>2. ASSUME NEW k \in 1 .. Len(requests')
      PROVE  Concerns(k, p, t)' <=> k + d \in 1 .. Len(requests) /\ Concerns(k + d, p, t)
  BY DEF Shifted, Concerns
<1>3. ASSUME NEW k \in 1 .. Len(requests), Concerns(k, p, t)
      PROVE  k - d \in 1 .. Len(requests') /\ Concerns(k - d, p, t)'
  <2>1. k - d \in 1 .. Len(requests') /\ (k - d) + d = k
    BY <1>1, <1>3 DEF Shifted
  <2>2. Concerns(k - d, p, t)' <=> k \in 1 .. Len(requests) /\ Concerns(k, p, t)
    BY <2>1 DEF Shifted, Concerns
  <2> QED
    BY <1>3, <2>1, <2>2
<1>4. ASSUME NEW k \in 1 .. Len(requests'), LastWord(k, p, t)'
      PROVE  k + d \in 1 .. Len(requests) /\ LastWord(k + d, p, t)
  <2>1. Concerns(k, p, t)' /\ \A j \in (k + 1) .. Len(requests') : ~Concerns(j, p, t)'
    BY <1>4 DEF LastWord
  <2>2. k + d \in 1 .. Len(requests) /\ Concerns(k + d, p, t)
    BY <1>2, <2>1
  <2>3. ASSUME NEW j \in (k + d + 1) .. Len(requests), Concerns(j, p, t)
        PROVE  FALSE
    <3>1. j \in 1 .. Len(requests)
      BY <1>1
    <3>2. j - d \in 1 .. Len(requests') /\ Concerns(j - d, p, t)'
      BY <1>3, <2>3, <3>1
    <3>3. j - d \in (k + 1) .. Len(requests')
      BY <1>1, <3>2
    <3> QED
      BY <2>1, <3>2, <3>3
  <2> QED
    BY <2>2, <2>3 DEF LastWord
<1>5. Pending(p, t)' <=> Pending(p, t)
  BY <1>2, <1>3 DEF Pending
<1> QED
  BY <1>4, <1>5

LEMMA WordStays ==
    ASSUME requests \in Seq(Request), requests' \in Seq(Request), NEW p, NEW t, NEW d \in Nat,
           Shifted(p, t, d), WordKept(p, t), order'[p][t][0] = order[p][t][0],
           <<p, t>> \in auto => <<p, t>> \in auto',
           <<p, t>> \in auto' \/ Slot(p, t)' = Slot(p, t),
           Slot(p, t) # {} => Slot(p, t)' # {}
    PROVE  WordKept(p, t)'
<1>1. /\ \A k \in 1 .. Len(requests') : LastWord(k, p, t)' =>
             k + d \in 1 .. Len(requests) /\ LastWord(k + d, p, t)
      /\ Pending(p, t)' <=> Pending(p, t)
  BY ShiftedWords
<1>2. isActionActivated(p, t, 0)' <=> isActionActivated(p, t, 0)
  BY DEF isActionActivated
<1>3. ASSUME NEW k \in 1 .. Len(requests'), LastWord(k, p, t)'
      PROVE  Activates(k, p, t)' <=> isActionActivated(p, t, 0)'
  <2>1. k + d \in 1 .. Len(requests) /\ LastWord(k + d, p, t)
    BY <1>1, <1>3
  <2>2. Activates(k + d, p, t) <=> isActionActivated(p, t, 0)
    BY <2>1 DEF WordKept
  <2>3. Activates(k, p, t)' <=> Activates(k + d, p, t)
    BY <2>1 DEF Shifted
  <2> QED
    BY <1>2, <2>2, <2>3
<1>4. ASSUME ~Pending(p, t)'
      PROVE  IF isActionActivated(p, t, 0)' THEN Slot(p, t)' # {}
             ELSE <<p, t>> \in auto' \/ Slot(p, t)' = {}
  <2>1. IF isActionActivated(p, t, 0) THEN Slot(p, t) # {}
        ELSE <<p, t>> \in auto \/ Slot(p, t) = {}
    BY <1>1, <1>4 DEF WordKept
  <2>2. CASE isActionActivated(p, t, 0)
    BY <1>2, <2>1, <2>2
  <2>3. CASE ~isActionActivated(p, t, 0)
    BY <1>2, <2>1, <2>3
  <2> QED
    BY <2>2, <2>3
<1> QED
  BY <1>3, <1>4 DEF WordKept

LEMMA AlternateStays ==
    ASSUME requests \in Seq(Request), requests' \in Seq(Request), NEW p, NEW t, NEW d \in Nat,
           Shifted(p, t, d), Alternate(p, t), Slot(p, t)' = Slot(p, t)
    PROVE  Alternate(p, t)'
<1>0. Len(requests) \in Nat /\ Len(requests') \in Nat
  OBVIOUS
<1>1. ASSUME NEW j \in 1 .. Len(requests), Deactivates(j, p, t)
      PROVE  /\ j - d \in 1 .. Len(requests') /\ (j - d) + d = j
             /\ Deactivates(j - d, p, t)'
  <2>1. j - d \in 1 .. Len(requests') /\ (j - d) + d = j
    BY <1>0, <1>1 DEF Shifted, Concerns
  <2>2. Deactivates(j - d, p, t)' <=> j \in 1 .. Len(requests) /\ Deactivates(j, p, t)
    BY <2>1 DEF Shifted
  <2> QED
    BY <1>1, <2>1, <2>2
<1> SUFFICES ASSUME NEW k \in 1 .. Len(requests'), Activates(k, p, t)'
             PROVE  /\ \A i \in 1 .. (k - 1) : Activates(i, p, t)' =>
                           \E j \in (i + 1) .. (k - 1) : Deactivates(j, p, t)'
                    /\ \/ Slot(p, t)' = {}
                       \/ \E j \in 1 .. (k - 1) : Deactivates(j, p, t)'
  BY DEF Alternate
<1>2. k + d \in 1 .. Len(requests) /\ Activates(k + d, p, t)
  BY DEF Shifted
<1>3. ASSUME NEW i \in 1 .. (k - 1), Activates(i, p, t)'
      PROVE  \E j \in (i + 1) .. (k - 1) : Deactivates(j, p, t)'
  <2>1. i \in 1 .. Len(requests')
    BY <1>0
  <2>2. i + d \in 1 .. (k + d - 1) /\ Activates(i + d, p, t)
    BY <1>0, <1>2, <1>3, <2>1 DEF Shifted
  <2>3. PICK j \in (i + d + 1) .. (k + d - 1) : Deactivates(j, p, t)
    BY <1>2, <2>2 DEF Alternate
  <2>4. j \in 1 .. Len(requests)
    <3>1. i + d + 1 >= 1 /\ k + d - 1 <= Len(requests)
      BY <1>0, <1>2
    <3> QED
      BY <1>0, <2>3, <3>1
  <2>5. Deactivates(j - d, p, t)' /\ j - d \in 1 .. Len(requests')
    BY <1>1, <2>3, <2>4
  <2>6. j - d \in (i + 1) .. (k - 1)
    BY <1>0, <2>3, <2>5
  <2> QED
    BY <2>5, <2>6
<1>4. CASE Slot(p, t) = {}
  BY <1>3, <1>4
<1>5. CASE \E j \in 1 .. (k + d - 1) : Deactivates(j, p, t)
  <2>1. PICK j \in 1 .. (k + d - 1) : Deactivates(j, p, t)
    BY <1>5
  <2>2. j \in 1 .. Len(requests)
    BY <1>0, <1>2, <2>1
  <2>3. j - d \in 1 .. Len(requests') /\ Deactivates(j - d, p, t)'
    BY <1>1, <2>1, <2>2
  <2>4. j - d \in 1 .. (k - 1)
    BY <1>0, <2>1, <2>3
  <2> QED
    BY <1>3, <2>3, <2>4
<1> QED
  BY <1>2, <1>4, <1>5 DEF Alternate

LEMMA OrderStays ==
    ASSUME requests \in Seq(Request), requests' \in Seq(Request), NEW p, NEW t, NEW u,
           NEW d \in Nat, Shifted(p, t, d), Shifted(p, u, d), InOrder(p, t, u),
           Slot(p, t)' = Slot(p, t), Slot(p, u)' = Slot(p, u)
    PROVE  InOrder(p, t, u)'
<1>0. Len(requests) \in Nat /\ Len(requests') \in Nat
  OBVIOUS
<1>1. /\ \A k \in 1 .. Len(requests') : LastWord(k, p, t)' =>
             k + d \in 1 .. Len(requests) /\ LastWord(k + d, p, t)
      /\ Pending(p, t)' <=> Pending(p, t)
  BY ShiftedWords
<1>2. /\ \A k \in 1 .. Len(requests') : LastWord(k, p, u)' =>
             k + d \in 1 .. Len(requests) /\ LastWord(k + d, p, u)
      /\ Pending(p, u)' <=> Pending(p, u)
  BY ShiftedWords
<1>3. ASSUME NEW k \in 1 .. Len(requests'), NEW l \in 1 .. Len(requests'),
             LastWord(k, p, t)', LastWord(l, p, u)'
      PROVE  k < l
  <2>1. k + d < l + d
    BY <1>1, <1>2, <1>3 DEF InOrder
  <2> QED
    BY <2>1
<1>4. Pending(p, t)' => Pending(p, u)'
  BY <1>1, <1>2 DEF InOrder
<1>5. ~Pending(p, u)' => \A i \in Slot(p, t)', j \in Slot(p, u)' : i < j
  BY <1>2 DEF InOrder
<1> QED
  BY <1>3, <1>4, <1>5 DEF InOrder

\* A step that is no word about any action: only those the dialog asked for move.
LEMMA QuietStep ==
    ASSUME IInv, requests' \in Seq(Request), NEW d \in Nat,
           \A p \in Points, t \in Tags : Shifted(p, t, d),
           order' = order, auto \subseteq auto',
           \A p \in Points, t \in Tags :
               /\ <<p, t>> \in auto' \/ Slot(p, t)' = Slot(p, t)
               /\ Slot(p, t) # {} => Slot(p, t)' # {}
    PROVE  AllWords' /\ AllOrdered'
<1>1. requests \in Seq(Request)
  BY DEF IInv, TypeOK
<1>2. ASSUME NEW p \in Points, NEW t \in Tags
      PROVE  WordKept(p, t)' /\ (<<p, t>> \notin auto' => Alternate(p, t)')
  <2>1. /\ WordKept(p, t) /\ (<<p, t>> \notin auto => Alternate(p, t))
        /\ <<p, t>> \in auto' \/ Slot(p, t)' = Slot(p, t)
        /\ Slot(p, t) # {} => Slot(p, t)' # {}
        /\ <<p, t>> \in auto => <<p, t>> \in auto'
        /\ Shifted(p, t, d) /\ order'[p][t][0] = order[p][t][0]
    BY DEF IInv, AllWords
  <2>2. WordKept(p, t)'
    BY <1>1, <2>1, WordStays
  <2>3. <<p, t>> \notin auto' => Alternate(p, t)'
    BY <1>1, <2>1, AlternateStays
  <2> QED
    BY <2>2, <2>3
<1>3. ASSUME NEW p \in Points, NEW t \in Tags, NEW u \in Tags,
             Precedes(p, t, u)', <<p, t>> \notin auto', <<p, u>> \notin auto'
      PROVE  InOrder(p, t, u)'
  <2>1. Precedes(p, t, u)
    BY <1>3 DEF Precedes, isActionActivated
  <2>2. InOrder(p, t, u)
    BY <1>3, <2>1 DEF IInv, AllOrdered
  <2>3. Slot(p, t)' = Slot(p, t) /\ Slot(p, u)' = Slot(p, u)
    BY <1>3
  <2> QED
    BY <1>1, <2>2, <2>3, OrderStays
<1> QED
  BY <1>2, <1>3 DEF AllWords, AllOrdered

------------------------------------------------------------------------------
(* What the queues hold. *)

RequestsKnown ==
    \A k \in 1 .. Len(requests) :
        requests[k].op = "ACTIVATE_ACTION" => requests[k].point \in ipinfo

LEMMA HeadRequest ==
    ASSUME TypeOK, requests # <<>>
    PROVE  /\ Head(requests) = requests[1] /\ 1 \in 1 .. Len(requests)
           /\ Head(requests) \in Request
           /\ Tail(requests) \in Seq(Request)
BY DEF TypeOK

LEMMA FewerRequests ==
    ASSUME TypeOK, RequestsKnown, requests # <<>>, requests' = Tail(requests),
           ipinfo \subseteq ipinfo'
    PROVE  requests' \in Seq(Request) /\ RequestsKnown'
<1>1. /\ requests' \in Seq(Request)
      /\ \A k \in 1 .. Len(requests') : /\ requests'[k] = requests[k + 1]
                                        /\ k + 1 \in 1 .. Len(requests)
  BY DEF TypeOK
<1> QED
  BY <1>1 DEF RequestsKnown

LEMMA MoreRequests ==
    ASSUME TypeOK, RequestsKnown, NEW more \in Seq(Request), requests' = requests \o more,
           UNCHANGED ipinfo,
           \A k \in 1 .. Len(more) :
               more[k].op = "ACTIVATE_ACTION" => more[k].point \in ipinfo
    PROVE  requests' \in Seq(Request) /\ RequestsKnown'
<1>1. /\ Len(requests') = Len(requests) + Len(more) /\ Len(requests) \in Nat
      /\ requests' \in Seq(Request) /\ Len(more) \in Nat
      /\ \A k \in 1 .. Len(requests) : requests'[k] = requests[k]
      /\ \A k \in 1 .. Len(more) : requests'[Len(requests) + k] = more[k]
  BY DEF TypeOK
<1>2. ASSUME NEW k \in 1 .. Len(requests'), requests'[k].op = "ACTIVATE_ACTION"
      PROVE  requests'[k].point \in ipinfo'
  <2>1. CASE k \in 1 .. Len(requests)
    BY <1>1, <1>2, <2>1 DEF RequestsKnown
  <2>2. CASE k \notin 1 .. Len(requests)
    <3>1. k - Len(requests) \in 1 .. Len(more) /\ Len(requests) + (k - Len(requests)) = k
      BY <1>1, <2>2
    <3>2. requests'[k] = more[k - Len(requests)]
      BY <1>1, <3>1
    <3> QED
      BY <1>2, <3>1, <3>2
  <2> QED
    BY <2>1, <2>2
<1> QED
  BY <1>1, <1>2 DEF RequestsKnown

LEMMA UniformStays ==
    ASSUME TypeOK, Uniform, UNCHANGED <<order, maxOrder>>, pairs' \in Nat, pairs <= pairs'
    PROVE  Uniform'
<1> SUFFICES ASSUME NEW p \in Points, NEW t \in Tags, NEW i \in 0 .. (MaxPairs - 1)
             PROVE  /\ order'[p][t][i] <= maxOrder'
                    /\ isActionActivated(p, t, i)' => i < pairs'
                                                      /\ isActionActivated(p, t, 0)'
  BY DEF Uniform
<1>1. /\ order[p][t][i] <= maxOrder
      /\ isActionActivated(p, t, i) => i < pairs /\ isActionActivated(p, t, 0)
  BY DEF Uniform
<1>2. isActionActivated(p, t, i)' <=> isActionActivated(p, t, i)
  BY DEF isActionActivated
<1>3. isActionActivated(p, t, 0)' <=> isActionActivated(p, t, 0)
  BY DEF isActionActivated
<1>4. i < pairs => i < pairs'
  BY DEF TypeOK
<1> QED
  BY <1>1, <1>2, <1>3, <1>4

LEMMA SlotsStay ==
    ASSUME UNCHANGED ap_list
    PROVE  /\ \A p, t : Slot(p, t)' = Slot(p, t)
           /\ AtMostOne => AtMostOne'
BY DEF Slot, AtMostOne, Once

LEMMA SlotsAfterApply ==
    ASSUME NEW p, NEW t \in Tags, ap_list[p] \in Slots,
           ap_list'[p] = ApplyInstrumentation(ap_list[p], t)
    PROVE  /\ Slot(p, t)' # {}
           /\ Slot(p, t)' = IF Slot(p, t) = {} THEN {Len(ap_list[p]) + 1} ELSE Slot(p, t)
           /\ \A u : u # t => Slot(p, u)' = Slot(p, u)
<1> DEFINE new == ApplyInstrumentation(ap_list[p], t)
           old == ap_list[p]
<1>1. /\ {i \in 1 .. Len(new) : new[i] = t} # {}
      /\ {i \in 1 .. Len(new) : new[i] = t} =
             IF {i \in 1 .. Len(old) : old[i] = t} = {} THEN {Len(old) + 1}
             ELSE {i \in 1 .. Len(old) : old[i] = t}
      /\ \A u : u # t => {i \in 1 .. Len(new) : new[i] = u}
                          = {i \in 1 .. Len(old) : old[i] = u}
  BY ApplyPlaces
<1>2. ap_list'[p] = new /\ ap_list[p] = old
  OBVIOUS
<1> HIDE DEF new, old
<1>3. \A u : /\ Slot(p, u)' = {i \in 1 .. Len(new) : new[i] = u}
             /\ Slot(p, u) = {i \in 1 .. Len(old) : old[i] = u}
  BY <1>2 DEF Slot
<1>4. Slot(p, t)' # {}
  BY <1>1, <1>3
<1>5. Slot(p, t)' = IF Slot(p, t) = {} THEN {Len(ap_list[p]) + 1} ELSE Slot(p, t)
  <2>1. {Len(ap_list[p]) + 1} = {Len(old) + 1}
    BY <1>2
  <2>2. /\ Slot(p, t)' = {i \in 1 .. Len(new) : new[i] = t}
        /\ Slot(p, t) = {i \in 1 .. Len(old) : old[i] = t}
    BY <1>3
  <2>3. CASE {i \in 1 .. Len(old) : old[i] = t} = {}
    BY <1>1, <2>1, <2>2, <2>3
  <2>4. CASE {i \in 1 .. Len(old) : old[i] = t} # {}
    BY <1>1, <2>2, <2>4
  <2> QED
    BY <2>3, <2>4
<1>6. \A u : u # t => Slot(p, u)' = Slot(p, u)
  BY <1>1, <1>3
<1> QED
  BY <1>4, <1>5, <1>6

LEMMA SlotsAfterRemove ==
    ASSUME NEW p, NEW t \in Tags, ap_list[p] \in Slots, Once(ap_list[p]),
           ap_list'[p] = remove_action(ap_list[p], t)
    PROVE  /\ Slot(p, t)' = {}
           /\ \A u \in Tags : u # t => Slot(p, u)' = Slot(p, u)
<1> DEFINE new == remove_action(ap_list[p], t)
           old == ap_list[p]
<1>1. /\ {i \in 1 .. Len(new) : new[i] = t} = {}
      /\ \A u \in Tags : u # t => {i \in 1 .. Len(new) : new[i] = u}
                                   = {i \in 1 .. Len(old) : old[i] = u}
  BY RemovePlaces
<1>2. ap_list'[p] = new /\ ap_list[p] = old
  OBVIOUS
<1> HIDE DEF new, old
<1>3. \A u : /\ Slot(p, u)' = {i \in 1 .. Len(new) : new[i] = u}
             /\ Slot(p, u) = {i \in 1 .. Len(old) : old[i] = u}
  BY <1>2 DEF Slot
<1> QED
  BY <1>1, <1>3

------------------------------------------------------------------------------
(* The steps that are no word about an action. *)

LEMMA ExpandStep ==
    ASSUME IInv, NEW p \in Points, expandFunction(p)
    PROVE  IInv'
<1> DEFINE r == [op |-> "PARSE_FUNCTION", point |-> p]
<1>1. /\ requests' = Append(requests, r) /\ parse' = [parse EXCEPT ![p] = "ParseRequested"]
      /\ UNCHANGED <<pairs, order, maxOrder, ap_list, ipinfo, auto, replies>>
  BY DEF expandFunction, collectorVars
<1>2. TypeOK /\ RequestsKnown /\ Uniform /\ KnownPoints /\ AtMostOne
  BY DEF IInv, RequestsKnown, KnownPoints
<1>3. r \in Request
  BY DEF Request
<1>4. requests' = requests \o <<r>> /\ <<r>> \in Seq(Request)
  BY <1>1, <1>2, <1>3, AppendIsConcat DEF TypeOK
<1>5. \A k \in 1 .. Len(<<r>>) : <<r>>[k] = r
  OBVIOUS
<1>6. requests' \in Seq(Request) /\ RequestsKnown'
  <2>1. \A k \in 1 .. Len(<<r>>) : <<r>>[k].op # "ACTIVATE_ACTION"
    BY <1>5
  <2> HIDE DEF r
  <2> QED
    BY <1>1, <1>2, <1>4, <2>1, MoreRequests
<1>7. \A q \in Points, t \in Tags : Shifted(q, t, 0)
  <2> TAKE q \in Points, t \in Tags
  <2>1. /\ r # [op |-> "ACTIVATE_ACTION", point |-> q, tag |-> t]
        /\ r # [op |-> "DEACTIVATE_ACTION", point |-> q, tag |-> t]
    <3>1. r.op = "PARSE_FUNCTION"
      OBVIOUS
    <3> HIDE DEF r
    <3> QED
      BY <3>1
  <2>2. requests \in Seq(Request)
    BY <1>2 DEF TypeOK
  <2> QED
    BY <1>4, <1>5, <2>1, <2>2, ShiftedByMore
<1>8. AllWords' /\ AllOrdered'
  BY <1>1, <1>6, <1>7, SlotsStay, QuietStep
<1>9. TypeOK' /\ AtMostOne' /\ Uniform'
  <2>1. TypeOK'
    BY <1>1, <1>2, <1>6 DEF TypeOK
  <2>2. Uniform'
    BY <1>1, <1>2, UniformStays DEF TypeOK
  <2> QED
    BY <1>1, <1>2, <2>1, <2>2, SlotsStay
<1>10. KnownPoints'
  <2>1. \A q \in Points : parse'[q] = "Parsed" => parse[q] = "Parsed"
    BY <1>1, <1>2 DEF TypeOK
  <2> QED
    BY <1>1, <1>2, <1>6, <2>1 DEF KnownPoints, RequestsKnown
<1> QED
  BY <1>8, <1>9, <1>10 DEF IInv

LEMMA ParsedStep ==
    ASSUME IInv, unpack_and_set_function_parse_complete
    PROVE  IInv'
<1>1. /\ replies # <<>> /\ replies' = Tail(replies)
      /\ parse' = [parse EXCEPT ![Head(replies)] = "Parsed"]
      /\ UNCHANGED <<pairs, order, maxOrder, ap_list, ipinfo, auto, requests>>
  BY DEF unpack_and_set_function_parse_complete, collectorVars
<1>2. TypeOK /\ Uniform /\ KnownPoints /\ AtMostOne /\ requests \in Seq(Request)
  BY DEF IInv, TypeOK
<1>3. /\ Head(replies) = replies[1] /\ 1 \in 1 .. Len(replies) /\ replies' \in Seq(Points)
      /\ \A k \in 1 .. Len(replies') : /\ replies'[k] = replies[k + 1]
                                       /\ k + 1 \in 1 .. Len(replies)
  BY <1>1, <1>2 DEF TypeOK
<1>4. \A q \in Points, t \in Tags : Shifted(q, t, 0)
  BY <1>1, <1>2, ShiftedBySame
<1>5. AllWords' /\ AllOrdered'
  BY <1>1, <1>2, <1>4, SlotsStay, QuietStep
<1>6. TypeOK' /\ AtMostOne' /\ Uniform'
  <2>1. TypeOK'
    BY <1>1, <1>2, <1>3 DEF TypeOK
  <2>2. Uniform'
    BY <1>1, <1>2, UniformStays DEF TypeOK
  <2> QED
    BY <1>1, <1>2, <2>1, <2>2, SlotsStay
<1>7. KnownPoints'
  <2>1. Head(replies) \in ipinfo
    BY <1>2, <1>3 DEF KnownPoints
  <2>2. \A q \in Points : parse'[q] = "Parsed" => q = Head(replies) \/ parse[q] = "Parsed"
    BY <1>1, <1>2 DEF TypeOK
  <2> QED
    BY <1>1, <1>2, <1>3, <2>1, <2>2 DEF KnownPoints
<1> QED
  BY <1>5, <1>6, <1>7 DEF IInv

LEMMA PairStep ==
    ASSUME IInv, insertPTPair
    PROVE  IInv'
<1>1. /\ pairs < MaxPairs /\ pairs' = pairs + 1
      /\ UNCHANGED <<parse, order, maxOrder, ap_list, ipinfo, auto, requests, replies>>
  BY DEF insertPTPair, collectorVars
<1>2. TypeOK /\ Uniform /\ KnownPoints /\ AtMostOne /\ requests \in Seq(Request)
  BY DEF IInv, TypeOK
<1>3. \A q \in Points, t \in Tags : Shifted(q, t, 0)
  BY <1>1, <1>2, ShiftedBySame
<1>4. AllWords' /\ AllOrdered'
  BY <1>1, <1>2, <1>3, SlotsStay, QuietStep
<1>5. TypeOK' /\ AtMostOne' /\ Uniform'
  <2>1. TypeOK'
    BY <1>1, <1>2 DEF TypeOK
  <2>2. Uniform'
    BY <1>1, <1>2, UniformStays DEF TypeOK
  <2> QED
    BY <1>1, <1>2, <2>1, <2>2, SlotsStay
<1>6. KnownPoints'
  BY <1>1, <1>2 DEF KnownPoints
<1> QED
  BY <1>4, <1>5, <1>6 DEF IInv

LEMMA DialogStep ==
    ASSUME IInv, NEW list \in Lists, instrumentApp(list)
    PROVE  IInv'
<1> DEFINE more == InstrumentMessages(list)
<1>1. /\ requests' = requests \o more
      /\ UNCHANGED <<parse, pairs, order, maxOrder, ap_list, ipinfo, auto, replies>>
  BY DEF instrumentApp, collectorVars
<1>2. TypeOK /\ RequestsKnown /\ Uniform /\ KnownPoints /\ AtMostOne
  BY DEF IInv, RequestsKnown, KnownPoints
<1>3. more \in Seq(InstrumentRequest)
  BY MessagesTyped
<1> HIDE DEF more
<1>4. ASSUME NEW k \in 1 .. Len(more)
      PROVE  more[k] \in Request /\ more[k].op = "INSTRUMENT_APP"
  <2>1. more[k] \in InstrumentRequest
    BY <1>3
  <2> QED
    BY <2>1 DEF Request, InstrumentRequest
<1>5. more \in Seq(Request)
  <2>1. InstrumentRequest \subseteq Request
    BY DEF Request, InstrumentRequest
  <2>2. more \in [1 .. Len(more) -> Request] /\ Len(more) \in Nat
    BY <1>3, <2>1
  <2> QED
    BY <2>2
<1>6. requests' \in Seq(Request) /\ RequestsKnown'
  BY <1>1, <1>2, <1>4, <1>5, MoreRequests
<1>7. \A q \in Points, t \in Tags : Shifted(q, t, 0)
  <2> TAKE q \in Points, t \in Tags
  <2>1. ASSUME NEW k \in 1 .. Len(more)
        PROVE  /\ more[k] # [op |-> "ACTIVATE_ACTION", point |-> q, tag |-> t]
               /\ more[k] # [op |-> "DEACTIVATE_ACTION", point |-> q, tag |-> t]
    BY <1>4
  <2>2. requests \in Seq(Request)
    BY <1>2 DEF TypeOK
  <2> QED
    BY <1>1, <1>5, <2>1, <2>2, ShiftedByMore
<1>8. AllWords' /\ AllOrdered'
  BY <1>1, <1>6, <1>7, SlotsStay, QuietStep
<1>9. TypeOK' /\ AtMostOne' /\ Uniform' /\ KnownPoints'
  <2>1. TypeOK'
    BY <1>1, <1>2, <1>6 DEF TypeOK
  <2>2. Uniform'
    BY <1>1, <1>2, UniformStays DEF TypeOK
  <2>3. KnownPoints'
    BY <1>1, <1>2, <1>6 DEF KnownPoints, RequestsKnown
  <2> QED
    BY <1>1, <1>2, <2>1, <2>2, <2>3, SlotsStay
<1> QED
  BY <1>8, <1>9 DEF IInv

\* The collector takes a request that is no word about an action.
LEMMA QuietRequest ==
    ASSUME IInv, requests # <<>>, requests' = Tail(requests),
           Head(requests).op \in {"PARSE_FUNCTION", "INSTRUMENT_APP"},
           ipinfo \subseteq ipinfo'
    PROVE  /\ requests' \in Seq(Request) /\ RequestsKnown'
           /\ \A p \in Points, t \in Tags : Shifted(p, t, 1)
<1>1. TypeOK /\ RequestsKnown /\ requests \in Seq(Request)
  BY DEF IInv, TypeOK, RequestsKnown, KnownPoints
<1>2. Head(requests) = requests[1]
  BY <1>1, HeadRequest
<1>3. requests' \in Seq(Request) /\ RequestsKnown'
  BY <1>1, FewerRequests
<1>4. ASSUME NEW p \in Points, NEW t \in Tags
      PROVE  Shifted(p, t, 1)
  <2>1. ~Concerns(1, p, t)
    BY <1>2 DEF Concerns, Activates, Deactivates
  <2> QED
    BY <1>1, <2>1, ShiftedByTail
<1> QED
  BY <1>3, <1>4

LEMMA ParseStep ==
    ASSUME IInv, NEW p \in Points, unpack_parse_function(p)
    PROVE  IInv'
<1>1. /\ requests # <<>> /\ requests' = Tail(requests)
      /\ Head(requests).op = "PARSE_FUNCTION"
      /\ ipinfo' = ipinfo \cup {p} /\ replies' = Append(replies, p)
      /\ UNCHANGED <<parse, pairs, order, maxOrder, ap_list, auto>>
  BY DEF unpack_parse_function, Receive, clientVars
<1>2. TypeOK /\ Uniform /\ KnownPoints /\ AtMostOne
  BY DEF IInv
<1>3. /\ requests' \in Seq(Request) /\ RequestsKnown'
      /\ \A q \in Points, t \in Tags : Shifted(q, t, 1)
  BY <1>1, QuietRequest
<1>4. AllWords' /\ AllOrdered'
  BY <1>1, <1>3, SlotsStay, QuietStep
<1>5. TypeOK' /\ AtMostOne' /\ Uniform'
  <2>1. TypeOK'
    BY <1>1, <1>2, <1>3 DEF TypeOK
  <2>2. Uniform'
    BY <1>1, <1>2, UniformStays DEF TypeOK
  <2> QED
    BY <1>1, <1>2, <2>1, <2>2, SlotsStay
<1>6. KnownPoints'
  <2>1. ASSUME NEW k \in 1 .. Len(replies')
        PROVE  replies'[k] \in ipinfo'
    <3>1. /\ replies \in Seq(Points) /\ Len(replies) \in Nat
          /\ Len(replies') = Len(replies) + 1
          /\ \A j \in 1 .. Len(replies) : replies'[j] = replies[j]
          /\ replies'[Len(replies) + 1] = p
      BY <1>1, <1>2 DEF TypeOK
    <3>2. CASE k = Len(replies) + 1
      BY <1>1, <3>1, <3>2
    <3>3. CASE k # Len(replies) + 1
      <4>1. k \in 1 .. Len(replies)
        BY <3>1, <3>3
      <4> QED
        BY <1>1, <1>2, <3>1, <4>1 DEF KnownPoints
    <3> QED
      BY <3>2, <3>3
  <2> QED
    BY <1>1, <1>2, <1>3, <2>1 DEF KnownPoints, RequestsKnown
<1> QED
  BY <1>4, <1>5, <1>6 DEF IInv

\* Every point a list matches gets one action, if it does not have it.
LEMMA InstrumentStep ==
    ASSUME IInv, instrument_app
    PROVE  IInv'
<1> DEFINE specs == SubSeq(Head(requests).specs, 1, Head(requests).count)
           insert == specs # <<>> /\ Last(specs).insert
           chosen(p) == CHOOSE t \in Matched(specs, p) : TRUE
           chooses(p) == insert /\ Matched(specs, p) # {}
           new(p) == IF chooses(p) THEN ApplyInstrumentation(ap_list[p], chosen(p))
                     ELSE ap_list[p]
<1>1. /\ ap_list' = [p \in Points |-> new(p)]
      /\ auto' = auto \cup {pt \in Points \X Tags :
                                insert /\ pt[2] \in Matched(specs, pt[1])}
      /\ requests # <<>> /\ requests' = Tail(requests)
      /\ Head(requests).op = "INSTRUMENT_APP"
      /\ UNCHANGED <<parse, pairs, order, maxOrder, ipinfo, replies>>
  BY DEF instrument_app, Receive, clientVars
<1>2. TypeOK /\ Uniform /\ KnownPoints /\ AtMostOne
  BY DEF IInv
<1>3. ASSUME NEW p \in Points, chooses(p)
      PROVE  chosen(p) \in Matched(specs, p) /\ chosen(p) \in Tags
  <2>1. chosen(p) \in Matched(specs, p)
    <3> HIDE DEF insert, specs
    <3> QED
      BY <1>3
  <2>2. Matched(specs, p) \subseteq Tags
    BY DEF Matched
  <2> QED
    BY <2>1, <2>2
<1>4. \A p \in Points, t \in Tags :
          <<p, t>> \in auto' <=> <<p, t>> \in auto \/ (insert /\ t \in Matched(specs, p))
  BY <1>1
<1> HIDE DEF insert, specs, chosen
<1>5. ASSUME NEW p \in Points
      PROVE  /\ ap_list'[p] \in Slots /\ Once(ap_list'[p])
             /\ \A t \in Tags : /\ <<p, t>> \in auto' \/ Slot(p, t)' = Slot(p, t)
                                /\ Slot(p, t) # {} => Slot(p, t)' # {}
  <2>1. ap_list[p] \in Slots /\ Once(ap_list[p]) /\ ap_list'[p] = new(p)
    BY <1>1, <1>2 DEF TypeOK, AtMostOne, Slots
  <2>2. CASE chooses(p)
    <3>1. PICK t \in Tags : t = chosen(p) /\ <<p, t>> \in auto'
      BY <1>3, <1>4, <2>2
    <3>2. ap_list'[p] = ApplyInstrumentation(ap_list[p], t)
      BY <2>1, <2>2, <3>1
    <3>3. ap_list'[p] \in Slots /\ Once(ap_list'[p])
      BY <2>1, <3>2, ApplyKeepsOnce
    <3>4. Slot(p, t)' # {} /\ \A u : u # t => Slot(p, u)' = Slot(p, u)
      BY <2>1, <3>2, SlotsAfterApply
    <3> QED
      BY <3>1, <3>3, <3>4
  <2>3. CASE ~chooses(p)
    BY <2>1, <2>3 DEF Slot
  <2> QED
    BY <2>2, <2>3
<1>6. auto \subseteq auto'
  BY <1>1
<1> HIDE DEF new, chooses
<1>7. /\ requests' \in Seq(Request) /\ RequestsKnown'
      /\ \A q \in Points, t \in Tags : Shifted(q, t, 1)
  BY <1>1, QuietRequest
<1>8. AllWords' /\ AllOrdered'
  BY <1>1, <1>5, <1>6, <1>7, QuietStep
<1>9. TypeOK' /\ AtMostOne'
  <2>1. ap_list' \in [Points -> Slots]
    BY <1>1, <1>5
  <2>2. TypeOK'
    BY <1>1, <1>2, <1>7, <2>1 DEF TypeOK, Slots
  <2> QED
    BY <1>5, <2>2 DEF AtMostOne, Once
<1>10. Uniform' /\ KnownPoints'
  <2>1. Uniform'
    BY <1>1, <1>2, UniformStays DEF TypeOK
  <2>2. KnownPoints'
    BY <1>1, <1>2, <1>7 DEF KnownPoints, RequestsKnown
  <2> QED
    BY <2>1, <2>2
<1> QED
  BY <1>8, <1>9, <1>10 DEF IInv

------------------------------------------------------------------------------
(* A click: one more word about the action. *)

LEMMA LastExists ==
    ASSUME requests \in Seq(Request), NEW p, NEW t, NEW i \in 1 .. Len(requests),
           Concerns(i, p, t)
    PROVE  \E k \in i .. Len(requests) : LastWord(k, p, t)
<1> DEFINE n == Len(requests)
           S == {d \in Nat : d <= n - i /\ Concerns(n - d, p, t)}
<1>0. n \in Nat /\ i \in Nat /\ i <= n
  OBVIOUS
<1> HIDE DEF n
<1>1. n - i \in Nat /\ n - (n - i) = i
  BY <1>0
<1>2. n - i \in S
  BY <1>1
<1>3. PICK d \in S : \A m \in S : d <= m
  BY <1>2, LeastElement
<1>4. n - d \in i .. n /\ Concerns(n - d, p, t)
  BY <1>0, <1>3
<1>5. ASSUME NEW j \in (n - d + 1) .. n, Concerns(j, p, t)
      PROVE  FALSE
  <2>1. n - j \in Nat /\ n - j <= n - i /\ n - (n - j) = j /\ n - j < d
    BY <1>0, <1>4, <1>5
  <2>2. n - j \in S
    BY <1>5, <2>1
  <2> QED
    BY <1>3, <2>1, <2>2
<1>6. LastWord(n - d, p, t)
  BY <1>4, <1>5 DEF LastWord, n
<1> QED
  BY <1>4, <1>6 DEF n

Word(op, p, t) == [op |-> op, point |-> p, tag |-> t]

LEMMA WordsDiffer ==
    \A p, t : Word("ACTIVATE_ACTION", p, t) # Word("DEACTIVATE_ACTION", p, t)
<1> TAKE p, t
<1>1. /\ Word("ACTIVATE_ACTION", p, t).op = "ACTIVATE_ACTION"
      /\ Word("DEACTIVATE_ACTION", p, t).op = "DEACTIVATE_ACTION"
  BY DEF Word
<1> QED
  BY <1>1

\* An action is on for all the pairs or off for all of them when it is clicked.
LEMMA SignalsAre ==
    ASSUME TypeOK, NEW changed \in SUBSET Pairs, changed # {}, NEW op, NEW p, NEW t
    PROVE  /\ Len(Signals(op, p, t, changed)) \in Nat \ {0}
           /\ changed = Pairs => Len(Signals(op, p, t, changed)) = 1
           /\ Signals(op, p, t, changed)
                = [k \in 1 .. Len(Signals(op, p, t, changed)) |-> Word(op, p, t)]
<1> DEFINE n == IF changed = Pairs THEN 1 ELSE Cardinality(changed)
<1>1. IsFiniteSet(changed)
  <2>1. pairs - 1 \in Int /\ 0 \in Int
    BY DEF TypeOK
  <2>2. IsFiniteSet(Pairs)
    BY <2>1, FS_Interval DEF Pairs
  <2> QED
    BY <2>2, FS_Subset
<1>2. Cardinality(changed) \in Nat /\ Cardinality(changed) # 0
  BY <1>1, FS_CardinalityType, FS_EmptySet
<1>3. n \in Nat \ {0} /\ (changed = Pairs => n = 1)
  BY <1>2
<1>4. Signals(op, p, t, changed) = [k \in 1 .. n |-> Word(op, p, t)]
  BY DEF Signals, Word
<1> HIDE DEF n
<1>5. Len([k \in 1 .. n |-> Word(op, p, t)]) = n
  BY <1>3
<1> QED
  BY <1>3, <1>4, <1>5

\* What a click does: it is sent as many times as need be.
Clicked(p, t, more, op) ==
    /\ more \in Seq(Request) /\ Len(more) > 0
    /\ \A k \in 1 .. Len(more) : more[k] = Word(op, p, t)
    /\ requests' = requests \o more
    /\ op \in {"ACTIVATE_ACTION", "DEACTIVATE_ACTION"}
    /\ op = "ACTIVATE_ACTION" => Len(more) = 1 /\ ~isActionActivated(p, t, 0)
    /\ op = "DEACTIVATE_ACTION" => isActionActivated(p, t, 0)

LEMMA RowChanged ==
    ASSUME TypeOK, Uniform, NEW p \in Points, NEW t \in Tags,
           NEW row \in [0 .. (MaxPairs - 1) -> Nat], order' = [order EXCEPT ![p][t] = row],
           maxOrder' \in Nat, maxOrder <= maxOrder', pairs' = pairs,
           \A i \in 0 .. (MaxPairs - 1) :
               row[i] <= maxOrder' /\ (row[i] # 0 => i < pairs /\ row[0] # 0)
    PROVE  /\ order' \in [Points -> [Tags -> [0 .. (MaxPairs - 1) -> Nat]]]
           /\ order'[p][t] = row
           /\ \A q \in Points, u \in Tags : (q # p \/ u # t) => order'[q][u] = order[q][u]
           /\ Uniform'
<1>1. order \in [Points -> [Tags -> [0 .. (MaxPairs - 1) -> Nat]]] /\ maxOrder \in Nat
  BY DEF TypeOK
<1>2. order' \in [Points -> [Tags -> [0 .. (MaxPairs - 1) -> Nat]]]
  BY <1>1
<1>3. order'[p][t] = row
  BY <1>1
<1>4. \A q \in Points, u \in Tags : (q # p \/ u # t) => order'[q][u] = order[q][u]
  BY <1>1
<1>5. ASSUME NEW q \in Points, NEW u \in Tags, NEW i \in 0 .. (MaxPairs - 1)
      PROVE  /\ order'[q][u][i] <= maxOrder'
             /\ isActionActivated(q, u, i)' => i < pairs' /\ isActionActivated(q, u, 0)'
  <2>1. CASE q = p /\ u = t
    BY <1>3, <2>1 DEF isActionActivated
  <2>2. CASE q # p \/ u # t
    <3>1. order'[q][u] = order[q][u]
      BY <1>4, <2>2
    <3>2. /\ order[q][u][i] <= maxOrder
          /\ isActionActivated(q, u, i) => i < pairs /\ isActionActivated(q, u, 0)
      BY DEF Uniform
    <3>3. order[q][u][i] \in Nat
      <4>1. order[q][u] \in [0 .. (MaxPairs - 1) -> Nat]
        BY <1>1
      <4> QED
        BY <4>1
    <3>4. order'[q][u][i] <= maxOrder'
      BY <1>1, <3>1, <3>2, <3>3
    <3>5. /\ isActionActivated(q, u, i)' <=> isActionActivated(q, u, i)
          /\ isActionActivated(q, u, 0)' <=> isActionActivated(q, u, 0)
      BY <3>1 DEF isActionActivated
    <3> QED
      BY <3>2, <3>4, <3>5
  <2> QED
    BY <2>1, <2>2
<1>6. Uniform'
  BY <1>5 DEF Uniform
<1> QED
  BY <1>2, <1>3, <1>4, <1>6

LEMMA ClickOff ==
    ASSUME IInv, NEW p \in Points, NEW t \in Tags, isActionActivated(p, t, 0),
           deactivateAction(p, t), pairs' = pairs
    PROVE  /\ \E more : Clicked(p, t, more, "DEACTIVATE_ACTION")
           /\ order' \in [Points -> [Tags -> [0 .. (MaxPairs - 1) -> Nat]]]
           /\ order'[p][t][0] = 0 /\ maxOrder' \in Nat
           /\ \A q \in Points, u \in Tags : (q # p \/ u # t) => order'[q][u] = order[q][u]
           /\ Uniform'
<1> DEFINE on == {i \in Pairs : isActionActivated(p, t, i)}
           old == order[p][t]
           row == [i \in DOMAIN old |-> IF i \in on THEN 0 ELSE old[i]]
           more == Signals("DEACTIVATE_ACTION", p, t, on)
<1>1. TypeOK /\ Uniform /\ maxOrder \in Nat /\ pairs \in 1 .. MaxPairs
      /\ requests \in Seq(Request)
  BY DEF IInv, TypeOK
<1>2. order' = [order EXCEPT ![p][t] = row] /\ maxOrder' = maxOrder
      /\ requests' = requests \o more
  BY <1>1 DEF deactivateAction, TypeOK
<1>3. old \in [0 .. (MaxPairs - 1) -> Nat]
  BY <1>1 DEF TypeOK
<1>4. 0 \in 0 .. (MaxPairs - 1) /\ 0 \in Pairs
  BY <1>1 DEF Pairs
<1>5. ASSUME NEW i \in 0 .. (MaxPairs - 1)
      PROVE  row[i] = 0
  <2>1. old[i] # 0 => i \in on
    BY <1>1, <1>4 DEF Uniform, Pairs, isActionActivated
  <2> HIDE DEF on, old
  <2> QED
    BY <1>3, <2>1
<1>6. row \in [0 .. (MaxPairs - 1) -> Nat]
  BY <1>3
<1>7. \A i \in 0 .. (MaxPairs - 1) :
          row[i] <= maxOrder' /\ (row[i] # 0 => i < pairs /\ row[0] # 0)
  <2> HIDE DEF row
  <2> QED
    BY <1>1, <1>2, <1>5
<1>8. Clicked(p, t, more, "DEACTIVATE_ACTION")
  <2>1. on # {} /\ on \in SUBSET Pairs
    BY <1>4
  <2> HIDE DEF on
  <2>2. /\ Len(more) \in Nat \ {0}
        /\ more = [k \in 1 .. Len(more) |-> Word("DEACTIVATE_ACTION", p, t)]
    BY <1>1, <2>1, SignalsAre
  <2>3. Word("DEACTIVATE_ACTION", p, t) \in Request
    BY DEF Word, Request
  <2> HIDE DEF more
  <2>4. more \in [1 .. Len(more) -> Request]
    BY <2>2, <2>3
  <2>5. more \in Seq(Request) /\ Len(more) > 0
    BY <2>2, <2>4
  <2>6. \A k \in 1 .. Len(more) : more[k] = Word("DEACTIVATE_ACTION", p, t)
    BY <2>2
  <2> QED
    BY <1>2, <2>5, <2>6 DEF Clicked
<1> HIDE DEF row, more
<1>9. /\ order' \in [Points -> [Tags -> [0 .. (MaxPairs - 1) -> Nat]]]
      /\ order'[p][t] = row
      /\ \A q \in Points, u \in Tags : (q # p \/ u # t) => order'[q][u] = order[q][u]
      /\ Uniform'
  <2>1. maxOrder' \in Nat /\ maxOrder <= maxOrder'
    BY <1>1, <1>2
  <2> QED
    BY <1>1, <1>2, <1>6, <1>7, <2>1, RowChanged
<1> QED
  BY <1>1, <1>2, <1>4, <1>5, <1>8, <1>9

LEMMA ClickOn ==
    ASSUME IInv, NEW p \in Points, NEW t \in Tags, ~isActionActivated(p, t, 0),
           activateAction(p, t), pairs' = pairs
    PROVE  /\ \E more : Clicked(p, t, more, "ACTIVATE_ACTION")
           /\ order' \in [Points -> [Tags -> [0 .. (MaxPairs - 1) -> Nat]]]
           /\ order'[p][t][0] = maxOrder + 1 /\ maxOrder' \in Nat
           /\ \A q \in Points, u \in Tags : (q # p \/ u # t) => order'[q][u] = order[q][u]
           /\ Uniform'
<1> DEFINE off == {i \in Pairs : ~isActionActivated(p, t, i)}
           old == order[p][t]
           row == [i \in DOMAIN old |-> IF i \in off THEN maxOrder' ELSE old[i]]
           more == Signals("ACTIVATE_ACTION", p, t, off)
<1>1. TypeOK /\ Uniform /\ maxOrder \in Nat /\ pairs \in 1 .. MaxPairs
      /\ requests \in Seq(Request)
  BY DEF IInv, TypeOK
<1>2. 0 \in 0 .. (MaxPairs - 1) /\ 0 \in Pairs
  BY <1>1 DEF Pairs
<1>3. ASSUME NEW i \in 0 .. (MaxPairs - 1)
      PROVE  old[i] = 0
  BY <1>1, <1>2 DEF Uniform, isActionActivated
<1>4. off = Pairs
  <2>1. Pairs \subseteq 0 .. (MaxPairs - 1)
    BY <1>1 DEF Pairs
  <2> QED
    BY <1>3, <2>1 DEF isActionActivated
<1>5. order' = [order EXCEPT ![p][t] = row] /\ requests' = requests \o more
  BY <1>1 DEF activateAction, TypeOK
<1>6. maxOrder' = maxOrder + 1
  <2>1. maxOrder' = maxOrder + (IF off = {} THEN 0 ELSE 1)
    BY DEF activateAction
  <2>2. off # {}
    BY <1>2, <1>4
  <2> HIDE DEF off
  <2> QED
    BY <2>1, <2>2
<1>7. old \in [0 .. (MaxPairs - 1) -> Nat]
  BY <1>1 DEF TypeOK
<1>8. ASSUME NEW i \in 0 .. (MaxPairs - 1)
      PROVE  row[i] = IF i \in Pairs THEN maxOrder + 1 ELSE 0
  <2> HIDE DEF off, old
  <2> QED
    BY <1>3, <1>4, <1>6, <1>7
<1>9. row \in [0 .. (MaxPairs - 1) -> Nat]
  <2>1. DOMAIN old = 0 .. (MaxPairs - 1)
    BY <1>7
  <2> HIDE DEF off, old
  <2> QED
    BY <1>1, <1>6, <1>7, <2>1
<1>10. ASSUME NEW i \in 0 .. (MaxPairs - 1)
       PROVE  row[i] <= maxOrder' /\ (row[i] # 0 => i < pairs /\ row[0] # 0)
  <2>1. row[0] # 0
    <3> HIDE DEF row
    <3> QED
      BY <1>1, <1>2, <1>8
  <2> HIDE DEF row
  <2>2. CASE i \in Pairs
    BY <1>1, <1>6, <1>8, <2>1, <2>2 DEF Pairs
  <2>3. CASE i \notin Pairs
    BY <1>1, <1>6, <1>8, <2>3
  <2> QED
    BY <2>2, <2>3
<1>11. Clicked(p, t, more, "ACTIVATE_ACTION")
  <2>1. off # {} /\ off \in SUBSET Pairs
    BY <1>2, <1>4
  <2>0. off = Pairs
    BY <1>4
  <2> HIDE DEF off
  <2>2. /\ Len(more) = 1
        /\ more = [k \in 1 .. Len(more) |-> Word("ACTIVATE_ACTION", p, t)]
    BY <1>1, <2>0, <2>1, SignalsAre
  <2>3. Word("ACTIVATE_ACTION", p, t) \in Request
    BY DEF Word, Request
  <2> HIDE DEF more
  <2>4. more \in [1 .. 1 -> Request] /\ 1 \in Nat
    BY <2>2, <2>3
  <2>5. more \in Seq(Request)
    BY ONLY <2>4, SeqDef
  <2>6. \A k \in 1 .. Len(more) : more[k] = Word("ACTIVATE_ACTION", p, t)
    BY <2>2
  <2> QED
    BY <1>5, <2>2, <2>5, <2>6 DEF Clicked
<1> HIDE DEF row, more
<1>12. /\ order' \in [Points -> [Tags -> [0 .. (MaxPairs - 1) -> Nat]]]
       /\ order'[p][t] = row
       /\ \A q \in Points, u \in Tags : (q # p \/ u # t) => order'[q][u] = order[q][u]
       /\ Uniform'
  <2>1. maxOrder' \in Nat /\ maxOrder <= maxOrder'
    BY <1>1, <1>6
  <2> QED
    BY <1>1, <1>5, <1>9, <1>10, <2>1, RowChanged
<1> QED
  BY <1>1, <1>2, <1>6, <1>8, <1>11, <1>12

LEMMA ClickedWords ==
    ASSUME requests \in Seq(Request), NEW p, NEW t, NEW more, NEW op, Clicked(p, t, more, op)
    PROVE  /\ Len(requests') \in Nat /\ Len(requests') > Len(requests)
           /\ op = "ACTIVATE_ACTION" => Len(requests') = Len(requests) + 1
           /\ \A k \in 1 .. Len(requests) : requests'[k] = requests[k]
           /\ \A k \in 1 .. Len(requests') :
                  k > Len(requests) => requests'[k] = Word(op, p, t)
           /\ \A q, u : (q # p \/ u # t) => Shifted(q, u, 0)
           /\ \A k \in 1 .. Len(requests') : LastWord(k, p, t)' => k = Len(requests')
           /\ Pending(p, t)'
<1>1. /\ Len(requests') = Len(requests) + Len(more) /\ Len(requests) \in Nat
      /\ Len(more) \in Nat /\ Len(more) > 0 /\ more \in Seq(Request)
      /\ \A k \in 1 .. Len(requests) : requests'[k] = requests[k]
      /\ \A k \in 1 .. Len(more) : requests'[Len(requests) + k] = more[k]
      /\ op = "ACTIVATE_ACTION" => Len(more) = 1
  BY DEF Clicked
<1>2. ASSUME NEW k \in 1 .. Len(requests'), k > Len(requests)
      PROVE  requests'[k] = Word(op, p, t)
  <2>1. k - Len(requests) \in 1 .. Len(more) /\ Len(requests) + (k - Len(requests)) = k
    BY <1>1, <1>2
  <2> QED
    BY <1>1, <2>1 DEF Clicked
<1>3. ASSUME NEW q, NEW u, q # p \/ u # t
      PROVE  Shifted(q, u, 0)
  <2>1. ASSUME NEW k \in 1 .. Len(more)
        PROVE  /\ more[k] # [op |-> "ACTIVATE_ACTION", point |-> q, tag |-> u]
               /\ more[k] # [op |-> "DEACTIVATE_ACTION", point |-> q, tag |-> u]
    <3>1. more[k] = Word(op, p, t) /\ Word(op, p, t).point = p /\ Word(op, p, t).tag = t
      BY DEF Clicked, Word
    <3> QED
      BY <1>3, <3>1
  <2>2. requests' = requests \o more
    BY DEF Clicked
  <2> QED
    BY <1>1, <2>1, <2>2, ShiftedByMore
<1>4. PICK m \in 1 .. Len(requests') : m = Len(requests') /\ m > Len(requests)
  BY <1>1
<1>5. Concerns(m, p, t)'
  <2>1. requests'[m] = Word(op, p, t)
    BY <1>2, <1>4
  <2>2. op = "ACTIVATE_ACTION" \/ op = "DEACTIVATE_ACTION"
    BY DEF Clicked
  <2> QED
    BY <2>1, <2>2 DEF Concerns, Activates, Deactivates, Word
<1>6. ASSUME NEW k \in 1 .. Len(requests'), LastWord(k, p, t)'
      PROVE  k = Len(requests')
  <2>1. \A j \in (k + 1) .. Len(requests') : ~Concerns(j, p, t)'
    BY <1>6 DEF LastWord
  <2>2. m \notin (k + 1) .. Len(requests')
    BY <1>5, <2>1
  <2> QED
    BY <1>1, <1>4, <2>2
<1>7. Pending(p, t)'
  BY <1>4, <1>5 DEF Pending
<1>8. Len(requests') \in Nat /\ Len(requests') > Len(requests)
  <2>1. \A a, b \in Nat : b > 0 => a + b \in Nat /\ a + b > a
    OBVIOUS
  <2> QED
    BY <1>1, <2>1
<1>9. op = "ACTIVATE_ACTION" => Len(requests') = Len(requests) + 1
  BY <1>1
<1> QED
  BY <1>1, <1>2, <1>3, <1>6, <1>7, <1>8, <1>9

\* The action is off, or on, when it is turned on, or off.
LEMMA ClickAlternates ==
    ASSUME requests \in Seq(Request), NEW p, NEW t, NEW more, NEW op, Clicked(p, t, more, op),
           WordKept(p, t), Alternate(p, t), <<p, t>> \notin auto, Slot(p, t)' = Slot(p, t)
    PROVE  Alternate(p, t)'
<1> DEFINE n == Len(requests)
<1>1. /\ Len(requests') \in Nat /\ Len(requests') > n /\ n \in Nat
      /\ op = "ACTIVATE_ACTION" => Len(requests') = n + 1
      /\ \A k \in 1 .. n : requests'[k] = requests[k]
      /\ \A k \in 1 .. Len(requests') : k > n => requests'[k] = Word(op, p, t)
  BY ClickedWords
<1>2. \A k \in 1 .. n : /\ Activates(k, p, t)' <=> Activates(k, p, t)
                        /\ Deactivates(k, p, t)' <=> Deactivates(k, p, t)
  BY <1>1 DEF Activates, Deactivates
<1>3. ASSUME NEW k \in 1 .. Len(requests'), k > n, Activates(k, p, t)'
      PROVE  op = "ACTIVATE_ACTION"
  <2>1. Word(op, p, t) = Word("ACTIVATE_ACTION", p, t)
    BY <1>1, <1>3 DEF Activates, Word
  <2>2. op = "DEACTIVATE_ACTION" => FALSE
    BY <2>1, WordsDiffer
  <2> QED
    BY <2>2 DEF Clicked
<1>4. ASSUME ~isActionActivated(p, t, 0), NEW i \in 1 .. n, Concerns(i, p, t)
      PROVE  \E j \in i .. n : Deactivates(j, p, t)
  <2>1. PICK j \in i .. n : LastWord(j, p, t)
    BY <1>4, LastExists
  <2>2. j \in 1 .. n
    BY <1>1
  <2>3. ~Activates(j, p, t) /\ Concerns(j, p, t)
    BY <1>4, <2>1, <2>2 DEF WordKept, LastWord
  <2> QED
    BY <2>1, <2>3 DEF Concerns
<1> HIDE DEF n
<1> SUFFICES ASSUME NEW k \in 1 .. Len(requests'), Activates(k, p, t)'
             PROVE  /\ \A i \in 1 .. (k - 1) : Activates(i, p, t)' =>
                           \E j \in (i + 1) .. (k - 1) : Deactivates(j, p, t)'
                    /\ \/ Slot(p, t)' = {}
                       \/ \E j \in 1 .. (k - 1) : Deactivates(j, p, t)'
  BY DEF Alternate
<1>5. CASE k <= n
  <2>1. k \in 1 .. n /\ Activates(k, p, t)
    BY <1>1, <1>2, <1>5
  <2>2. \A j \in 1 .. (k - 1) : j \in 1 .. n
    BY <1>1, <2>1
  <2>3. ASSUME NEW i \in 1 .. (k - 1), Activates(i, p, t)'
        PROVE  \E j \in (i + 1) .. (k - 1) : Deactivates(j, p, t)'
    <3>1. Activates(i, p, t)
      BY <1>2, <2>2, <2>3
    <3>2. PICK j \in (i + 1) .. (k - 1) : Deactivates(j, p, t)
      BY <2>1, <3>1 DEF Alternate, n
    <3>3. j \in 1 .. (k - 1)
      BY <1>1
    <3> QED
      BY <1>2, <2>2, <3>2, <3>3
  <2>4. Slot(p, t) = {} \/ \E j \in 1 .. (k - 1) : Deactivates(j, p, t)
    BY <2>1 DEF Alternate, n
  <2> QED
    BY <1>2, <2>2, <2>3, <2>4
<1>6. CASE k > n
  <2>1. op = "ACTIVATE_ACTION" /\ k = n + 1 /\ ~isActionActivated(p, t, 0)
    <3>1. op = "ACTIVATE_ACTION"
      BY <1>3, <1>6
    <3>2. k = n + 1
      BY <1>1, <1>6, <3>1
    <3> QED
      BY <3>1, <3>2 DEF Clicked
  <2>2. ASSUME NEW i \in 1 .. (k - 1), Activates(i, p, t)'
        PROVE  \E j \in (i + 1) .. (k - 1) : Deactivates(j, p, t)'
    <3>1. i \in 1 .. n
      BY <1>1, <2>1
    <3>2. Activates(i, p, t) /\ Concerns(i, p, t)
      BY <1>2, <2>2, <3>1 DEF Concerns
    <3>3. PICK j \in i .. n : Deactivates(j, p, t)
      BY <1>4, <2>1, <3>1, <3>2
    <3>4. j # i
      BY <3>2, <3>3, WordsDiffer DEF Activates, Deactivates, Word
    <3>5. j \in (i + 1) .. (k - 1) /\ j \in 1 .. n
      BY <1>1, <2>1, <3>1, <3>4
    <3> QED
      BY <1>2, <3>3, <3>5
  <2>3. CASE Pending(p, t)
    <3>1. PICK i \in 1 .. n : Concerns(i, p, t)
      BY <2>3 DEF Pending, n
    <3>2. PICK j \in i .. n : Deactivates(j, p, t)
      BY <1>4, <2>1, <3>1
    <3>3. j \in 1 .. (k - 1) /\ j \in 1 .. n
      BY <1>1, <2>1
    <3> QED
      BY <1>2, <2>2, <3>2, <3>3
  <2>4. CASE ~Pending(p, t)
    <3>1. Slot(p, t) = {}
      BY <2>1, <2>4 DEF WordKept
    <3> QED
      BY <2>2, <3>1
  <2> QED
    BY <2>3, <2>4
<1>7. k <= n \/ k > n
  BY <1>1
<1> QED
  BY <1>5, <1>6, <1>7

LEMMA ClickStep ==
    ASSUME IInv, NEW p \in Points, NEW t \in Tags, actionMenuClickHandler(p, t)
    PROVE  IInv'
<1>0. /\ parse[p] = "Parsed"
      /\ UNCHANGED <<parse, pairs, ap_list, ipinfo, auto, replies>>
  BY DEF actionMenuClickHandler, collectorVars
<1>1. TypeOK /\ AtMostOne /\ KnownPoints /\ RequestsKnown /\ AllWords /\ AllOrdered
      /\ requests \in Seq(Request) /\ maxOrder \in Nat
  BY DEF IInv, TypeOK, RequestsKnown, KnownPoints
<1>2. PICK more, op :
          /\ Clicked(p, t, more, op)
          /\ op = "ACTIVATE_ACTION" => order'[p][t][0] = maxOrder + 1
          /\ op = "DEACTIVATE_ACTION" => order'[p][t][0] = 0
          /\ order' \in [Points -> [Tags -> [0 .. (MaxPairs - 1) -> Nat]]] /\ maxOrder' \in Nat
          /\ \A q \in Points, u \in Tags : (q # p \/ u # t) => order'[q][u] = order[q][u]
          /\ Uniform'
  <2>1. CASE isActionActivated(p, t, 0) /\ deactivateAction(p, t)
    BY <1>0, <2>1, ClickOff
  <2>2. CASE ~isActionActivated(p, t, 0) /\ activateAction(p, t)
    BY <1>0, <2>2, ClickOn
  <2> QED
    BY <2>1, <2>2 DEF actionMenuClickHandler
<1>3. /\ Len(requests') \in Nat /\ Len(requests') > Len(requests)
      /\ \A k \in 1 .. Len(requests') : k > Len(requests) => requests'[k] = Word(op, p, t)
      /\ \A q, u : (q # p \/ u # t) => Shifted(q, u, 0)
      /\ \A k \in 1 .. Len(requests') : LastWord(k, p, t)' => k = Len(requests')
      /\ Pending(p, t)'
  BY <1>1, <1>2, ClickedWords
<1>4. \A q, u : Slot(q, u)' = Slot(q, u)
  BY <1>0, SlotsStay
<1>5. requests' \in Seq(Request) /\ RequestsKnown'
  <2>1. p \in ipinfo
    BY <1>0, <1>1 DEF KnownPoints
  <2>2. \A k \in 1 .. Len(more) : more[k].point = p
    BY <1>2 DEF Clicked, Word
  <2>3. more \in Seq(Request) /\ requests' = requests \o more
    BY <1>2 DEF Clicked
  <2> QED
    BY <1>0, <1>1, <2>1, <2>2, <2>3, MoreRequests
<1>6. isActionActivated(p, t, 0)' <=> op = "ACTIVATE_ACTION"
  BY <1>1, <1>2 DEF isActionActivated, Clicked
<1>7. ASSUME NEW q \in Points, NEW u \in Tags
      PROVE  WordKept(q, u)' /\ (<<q, u>> \notin auto' => Alternate(q, u)')
  <2>1. WordKept(q, u) /\ (<<q, u>> \notin auto => Alternate(q, u))
    BY <1>1 DEF AllWords
  <2>2. CASE q # p \/ u # t
    <3>1. Shifted(q, u, 0) /\ order'[q][u][0] = order[q][u][0]
      BY <1>2, <1>3, <2>2
    <3>2. WordKept(q, u)'
      BY <1>0, <1>1, <1>4, <1>5, <2>1, <3>1, WordStays
    <3>3. <<q, u>> \notin auto' => Alternate(q, u)'
      BY <1>0, <1>1, <1>4, <1>5, <2>1, <3>1, AlternateStays
    <3> QED
      BY <3>2, <3>3
  <2>3. CASE q = p /\ u = t
    <3>1. ASSUME NEW k \in 1 .. Len(requests'), LastWord(k, p, t)'
          PROVE  Activates(k, p, t)' <=> isActionActivated(p, t, 0)'
      <4>1. k = Len(requests') /\ k > Len(requests)
        BY <1>3, <3>1
      <4>2. requests'[k] = Word(op, p, t)
        BY <1>3, <4>1
      <4>3. Activates(k, p, t)' <=> op = "ACTIVATE_ACTION"
        <5>1. Activates(k, p, t)' <=> Word(op, p, t) = Word("ACTIVATE_ACTION", p, t)
          BY <4>2 DEF Activates, Word
        <5>2. Word(op, p, t) = Word("ACTIVATE_ACTION", p, t) => op = "ACTIVATE_ACTION"
          BY <1>2, WordsDiffer DEF Clicked
        <5> QED
          BY <5>1, <5>2
      <4> QED
        BY <1>6, <4>3
    <3>2. WordKept(p, t)'
      BY <1>3, <3>1 DEF WordKept
    <3>3. <<p, t>> \notin auto' => Alternate(p, t)'
      BY <1>0, <1>1, <1>2, <1>4, <2>1, <2>3, ClickAlternates
    <3> QED
      BY <2>3, <3>2, <3>3
  <2> QED
    BY <2>2, <2>3
<1>8. ASSUME NEW q \in Points, NEW a \in Tags, NEW b \in Tags,
             Precedes(q, a, b)', <<q, a>> \notin auto', <<q, b>> \notin auto'
      PROVE  InOrder(q, a, b)'
  <2>1. /\ isActionActivated(q, a, 0)' /\ isActionActivated(q, b, 0)'
        /\ order'[q][a][0] < order'[q][b][0]
    BY <1>8 DEF Precedes
  <2>2. ~(q = p /\ a = t)
    <3> SUFFICES ASSUME q = p, a = t PROVE FALSE
      OBVIOUS
    <3>1. order'[p][t][0] = maxOrder + 1
      BY <1>2, <1>6, <2>1 DEF Clicked
    <3>2. b # t
      BY <1>1, <2>1, <3>1
    <3>3. order'[p][b][0] = order[p][b][0]
      BY <1>2, <3>2
    <3>4. order[p][b][0] <= maxOrder /\ order[p][b][0] \in Nat
      <4>1. 0 \in 0 .. (MaxPairs - 1)
        OBVIOUS
      <4>2. order[p][b] \in [0 .. (MaxPairs - 1) -> Nat]
        BY <1>1 DEF TypeOK
      <4> QED
        BY <4>1, <4>2 DEF IInv, Uniform
    <3> QED
      BY <1>1, <2>1, <3>1, <3>3, <3>4
  <2>3. Shifted(q, a, 0) /\ order'[q][a] = order[q][a]
    BY <1>2, <1>3, <2>2
  <2>4. CASE q # p \/ b # t
    <3>1. Shifted(q, b, 0) /\ order'[q][b] = order[q][b]
      BY <1>2, <1>3, <2>4
    <3>2. Precedes(q, a, b)
      BY <2>1, <2>3, <3>1 DEF Precedes, isActionActivated
    <3>3. InOrder(q, a, b)
      BY <1>0, <1>1, <1>8, <3>2 DEF AllOrdered
    <3> QED
      BY <1>1, <1>4, <1>5, <2>3, <3>1, <3>3, OrderStays
  <2>5. CASE q = p /\ b = t
    <3>1. ASSUME NEW k \in 1 .. Len(requests'), NEW l \in 1 .. Len(requests'),
                 LastWord(k, p, a)', LastWord(l, p, t)'
          PROVE  k < l
      <4>1. k + 0 \in 1 .. Len(requests)
        BY <1>1, <1>5, <2>3, <2>5, <3>1, ShiftedWords
      <4>2. l = Len(requests')
        BY <1>3, <3>1
      <4> QED
        BY <1>1, <1>3, <4>1, <4>2
    <3> QED
      BY <1>3, <2>5, <3>1 DEF InOrder
  <2> QED
    BY <2>4, <2>5
<1>9. TypeOK' /\ AtMostOne' /\ KnownPoints'
  <2>1. TypeOK'
    BY <1>0, <1>1, <1>2, <1>5 DEF TypeOK
  <2>2. KnownPoints'
    BY <1>0, <1>1, <1>5 DEF KnownPoints, RequestsKnown
  <2> QED
    BY <1>0, <1>1, <2>1, <2>2, SlotsStay
<1> QED
  BY <1>2, <1>7, <1>8, <1>9 DEF IInv, AllWords, AllOrdered

------------------------------------------------------------------------------
(* The collector does what the first request says. *)

LEMMA TailWords ==
    ASSUME requests \in Seq(Request), requests # <<>>, requests' = Tail(requests),
           NEW p, NEW t
    PROVE  /\ \A k \in 1 .. Len(requests') :
                  /\ k + 1 \in 1 .. Len(requests)
                  /\ Activates(k, p, t)' <=> Activates(k + 1, p, t)
                  /\ Deactivates(k, p, t)' <=> Deactivates(k + 1, p, t)
                  /\ LastWord(k, p, t)' => LastWord(k + 1, p, t)
           /\ \A k \in 1 .. Len(requests) :
                  k # 1 /\ Concerns(k, p, t) => Pending(p, t)'
           /\ Len(requests') = Len(requests) - 1 /\ Len(requests) \in Nat \ {0}
<1>1. /\ Len(requests') = Len(requests) - 1 /\ Len(requests) \in Nat \ {0}
      /\ \A k \in 1 .. Len(requests') : /\ requests'[k] = requests[k + 1]
                                        /\ k + 1 \in 1 .. Len(requests)
  OBVIOUS
<1>2. \A k \in 1 .. Len(requests') :
          /\ Activates(k, p, t)' <=> Activates(k + 1, p, t)
          /\ Deactivates(k, p, t)' <=> Deactivates(k + 1, p, t)
          /\ Concerns(k, p, t)' <=> Concerns(k + 1, p, t)
  BY <1>1 DEF Activates, Deactivates, Concerns
<1>3. ASSUME NEW k \in 1 .. Len(requests), k # 1
      PROVE  k - 1 \in 1 .. Len(requests') /\ (k - 1) + 1 = k
  BY <1>1, <1>3
<1>4. ASSUME NEW k \in 1 .. Len(requests'), LastWord(k, p, t)'
      PROVE  LastWord(k + 1, p, t)
  <2>1. Concerns(k, p, t)' /\ \A j \in (k + 1) .. Len(requests') : ~Concerns(j, p, t)'
    BY <1>4 DEF LastWord
  <2>2. ASSUME NEW j \in (k + 1 + 1) .. Len(requests), Concerns(j, p, t)
        PROVE  FALSE
    <3>1. j - 1 \in (k + 1) .. Len(requests') /\ j - 1 \in 1 .. Len(requests')
          /\ (j - 1) + 1 = j
      BY <1>1
    <3>2. Concerns(j - 1, p, t)'
      BY <1>2, <2>2, <3>1
    <3> QED
      BY <2>1, <3>1, <3>2
  <2> QED
    BY <1>2, <2>1, <2>2 DEF LastWord
<1>5. ASSUME NEW k \in 1 .. Len(requests), k # 1, Concerns(k, p, t)
      PROVE  Pending(p, t)'
  BY <1>2, <1>3, <1>5 DEF Pending
<1> QED
  BY <1>1, <1>2, <1>4, <1>5

\* Whatever it says, the action is off before it is turned on again.
LEMMA TailAlternates ==
    ASSUME requests \in Seq(Request), requests # <<>>, requests' = Tail(requests),
           NEW p, NEW t, Alternate(p, t), Activates(1, p, t) \/ Slot(p, t)' = {}
    PROVE  Alternate(p, t)'
<1>1. /\ \A k \in 1 .. Len(requests') :
            /\ k + 1 \in 1 .. Len(requests)
            /\ Activates(k, p, t)' <=> Activates(k + 1, p, t)
            /\ Deactivates(k, p, t)' <=> Deactivates(k + 1, p, t)
      /\ Len(requests') = Len(requests) - 1 /\ Len(requests) \in Nat \ {0}
  BY TailWords
<1>2. ASSUME NEW k \in 1 .. Len(requests'), Activates(k, p, t)',
             NEW i \in 0 .. (k - 1), Activates(i + 1, p, t)
      PROVE  \E j \in (i + 1) .. (k - 1) : Deactivates(j, p, t)'
  <2>1. k + 1 \in 1 .. Len(requests) /\ Activates(k + 1, p, t)
    BY <1>1, <1>2
  <2>2. i + 1 \in 1 .. (k + 1 - 1)
    BY <1>1
  <2>3. PICK j \in (i + 1 + 1) .. (k + 1 - 1) : Deactivates(j, p, t)
    BY <1>2, <2>1, <2>2 DEF Alternate
  <2>4. /\ j - 1 \in (i + 1) .. (k - 1) /\ j - 1 \in 1 .. Len(requests')
        /\ (j - 1) + 1 = j
    BY <1>1
  <2> QED
    BY <1>1, <2>3, <2>4
<1> SUFFICES ASSUME NEW k \in 1 .. Len(requests'), Activates(k, p, t)'
             PROVE  /\ \A i \in 1 .. (k - 1) : Activates(i, p, t)' =>
                           \E j \in (i + 1) .. (k - 1) : Deactivates(j, p, t)'
                    /\ \/ Slot(p, t)' = {}
                       \/ \E j \in 1 .. (k - 1) : Deactivates(j, p, t)'
  BY DEF Alternate
<1>3. ASSUME NEW i \in 1 .. (k - 1), Activates(i, p, t)'
      PROVE  \E j \in (i + 1) .. (k - 1) : Deactivates(j, p, t)'
  <2>1. i \in 1 .. Len(requests') /\ i \in 0 .. (k - 1)
    BY <1>1
  <2>2. Activates(i + 1, p, t)
    BY <1>1, <1>3, <2>1
  <2> QED
    BY <1>2, <2>1, <2>2
<1>4. CASE Slot(p, t)' = {}
  BY <1>3, <1>4
<1>5. CASE Activates(1, p, t)
  <2>1. 0 \in 0 .. (k - 1) /\ 0 + 1 = 1
    BY <1>1
  <2>2. \E j \in (0 + 1) .. (k - 1) : Deactivates(j, p, t)'
    BY <1>2, <1>5, <2>1
  <2> QED
    BY <1>3, <2>1, <2>2
<1> QED
  BY <1>4, <1>5

LEMMA FirstWord ==
    ASSUME IInv, requests # <<>>, requests' = Tail(requests),
           NEW p \in Points, NEW t \in Tags, Concerns(1, p, t),
           UNCHANGED <<parse, pairs, order, maxOrder, ipinfo, auto, replies>>,
           NEW slots \in Slots, Once(slots), ap_list' = [ap_list EXCEPT ![p] = slots],
           \A u \in Tags : u # t => Slot(p, u)' = Slot(p, u),
           Activates(1, p, t) =>
               /\ Slot(p, t)' # {}
               /\ Slot(p, t) = {} => \A u \in Tags : \A i \in Slot(p, u), j \in Slot(p, t)' : i < j,
           Deactivates(1, p, t) => Slot(p, t)' = {}
    PROVE  IInv'
<1>1. TypeOK /\ AtMostOne /\ Uniform /\ KnownPoints /\ RequestsKnown /\ AllWords /\ AllOrdered
      /\ requests \in Seq(Request)
  BY DEF IInv, TypeOK, RequestsKnown, KnownPoints
<1>2. \A q \in Points : ap_list'[q] = IF q = p THEN slots ELSE ap_list[q]
  BY <1>1 DEF TypeOK
<1>3. \A q \in Points, u \in Tags : (q # p \/ u # t) => Slot(q, u)' = Slot(q, u)
  BY <1>2 DEF Slot
<1>4. requests' \in Seq(Request) /\ RequestsKnown'
  BY <1>1, FewerRequests
<1>5. \A q, u : (q # p \/ u # t) => Shifted(q, u, 1)
  <2> SUFFICES ASSUME NEW q, NEW u, q # p \/ u # t PROVE Shifted(q, u, 1)
    OBVIOUS
  <2>1. ~Concerns(1, q, u)
    <3>1. requests[1].point = p /\ requests[1].tag = t
      BY DEF Concerns, Activates, Deactivates
    <3> QED
      BY <3>1 DEF Concerns, Activates, Deactivates
  <2> QED
    BY <1>1, <2>1, ShiftedByTail
<1>6. /\ \A k \in 1 .. Len(requests') :
             /\ k + 1 \in 1 .. Len(requests)
             /\ Activates(k, p, t)' <=> Activates(k + 1, p, t)
             /\ LastWord(k, p, t)' => LastWord(k + 1, p, t)
      /\ \A k \in 1 .. Len(requests) : k # 1 /\ Concerns(k, p, t) => Pending(p, t)'
      /\ Len(requests) \in Nat \ {0}
  BY <1>1, TailWords
<1>7. 1 \in 1 .. Len(requests) /\ Pending(p, t)
  BY <1>6 DEF Pending
<1>8. ~(Activates(1, p, t) /\ Deactivates(1, p, t))
  BY WordsDiffer DEF Activates, Deactivates, Word
<1>9. WordKept(p, t)'
  <2>1. WordKept(p, t)
    BY <1>1 DEF AllWords
  <2>2. isActionActivated(p, t, 0)' <=> isActionActivated(p, t, 0)
    BY DEF isActionActivated
  <2>3. \A k \in 1 .. Len(requests') :
            LastWord(k, p, t)' => (Activates(k, p, t)' <=> isActionActivated(p, t, 0)')
    BY <1>6, <2>1, <2>2 DEF WordKept
  <2>4. ASSUME ~Pending(p, t)'
        PROVE  IF isActionActivated(p, t, 0)' THEN Slot(p, t)' # {}
               ELSE <<p, t>> \in auto' \/ Slot(p, t)' = {}
    <3>1. LastWord(1, p, t)
      <4>1. ASSUME NEW j \in (1 + 1) .. Len(requests), Concerns(j, p, t)
            PROVE  FALSE
        BY <1>6, <2>4, <4>1
      <4> QED
        BY <4>1 DEF LastWord
    <3>2. Activates(1, p, t) <=> isActionActivated(p, t, 0)
      BY <1>7, <2>1, <3>1 DEF WordKept
    <3>3. CASE Activates(1, p, t)
      BY <2>2, <3>2, <3>3
    <3>4. CASE ~Activates(1, p, t)
      BY <2>2, <3>2, <3>4 DEF Concerns
    <3> QED
      BY <3>3, <3>4
  <2> QED
    BY <2>3, <2>4 DEF WordKept
<1>10. ASSUME NEW q \in Points, NEW u \in Tags
       PROVE  WordKept(q, u)' /\ (<<q, u>> \notin auto' => Alternate(q, u)')
  <2>1. WordKept(q, u) /\ (<<q, u>> \notin auto => Alternate(q, u))
    BY <1>1 DEF AllWords
  <2>2. CASE q # p \/ u # t
    <3>1. Shifted(q, u, 1) /\ Slot(q, u)' = Slot(q, u) /\ order'[q][u][0] = order[q][u][0]
      BY <1>3, <1>5, <2>2
    <3>2. WordKept(q, u)'
      BY <1>1, <1>4, <2>1, <3>1, WordStays
    <3>3. <<q, u>> \notin auto' => Alternate(q, u)'
      BY <1>1, <1>4, <2>1, <3>1, AlternateStays
    <3> QED
      BY <3>2, <3>3
  <2>3. CASE q = p /\ u = t
    <3>1. <<p, t>> \notin auto' => Alternate(p, t)'
      BY <1>1, <2>1, <2>3, TailAlternates DEF Concerns
    <3> QED
      BY <1>9, <2>3, <3>1
  <2> QED
    BY <2>2, <2>3
<1>11. ASSUME NEW q \in Points, NEW a \in Tags, NEW b \in Tags,
              Precedes(q, a, b)', <<q, a>> \notin auto', <<q, b>> \notin auto'
       PROVE  InOrder(q, a, b)'
  <2>1. Precedes(q, a, b)
    BY <1>11 DEF Precedes, isActionActivated
  <2>2. InOrder(q, a, b)
    BY <1>1, <1>11, <2>1 DEF AllOrdered
  <2>3. a # b
    <3>1. order[q][a][0] \in Nat
      <4>1. order[q][a] \in [0 .. (MaxPairs - 1) -> Nat] /\ 0 \in 0 .. (MaxPairs - 1)
        BY <1>1 DEF TypeOK
      <4> QED
        BY <4>1
    <3> QED
      BY <2>1, <3>1 DEF Precedes
  <2>4. CASE ~(q = p /\ a = t) /\ ~(q = p /\ b = t)
    <3>1. /\ Shifted(q, a, 1) /\ Slot(q, a)' = Slot(q, a)
          /\ Shifted(q, b, 1) /\ Slot(q, b)' = Slot(q, b)
      BY <1>3, <1>5, <2>4
    <3> QED
      BY <1>1, <1>4, <2>2, <3>1, OrderStays
  <2>5. CASE q = p /\ a = t
    <3>1. /\ \A l \in 1 .. Len(requests') : LastWord(l, p, b)' =>
                 l + 1 \in 1 .. Len(requests) /\ LastWord(l + 1, p, b)
          /\ Pending(p, b)' <=> Pending(p, b)
      BY <1>1, <1>4, <1>5, <2>3, <2>5, ShiftedWords
    <3>2. ASSUME NEW k \in 1 .. Len(requests'), NEW l \in 1 .. Len(requests'),
                 LastWord(k, p, t)', LastWord(l, p, b)'
          PROVE  k < l
      <4>1. k + 1 < l + 1
        BY <1>6, <2>2, <2>5, <3>1, <3>2 DEF InOrder
      <4> QED
        BY <4>1
    <3>3. Pending(p, b)'
      BY <1>7, <2>2, <2>5, <3>1 DEF InOrder
    <3> QED
      BY <2>5, <3>2, <3>3 DEF InOrder
  <2>6. CASE q = p /\ b = t
    <3>1. /\ \A k \in 1 .. Len(requests') : LastWord(k, p, a)' =>
                 k + 1 \in 1 .. Len(requests) /\ LastWord(k + 1, p, a)
          /\ Pending(p, a)' <=> Pending(p, a)
      BY <1>1, <1>4, <1>5, <2>3, <2>6, ShiftedWords
    <3>2. ASSUME NEW k \in 1 .. Len(requests'), NEW l \in 1 .. Len(requests'),
                 LastWord(k, p, a)', LastWord(l, p, t)'
          PROVE  k < l
      <4>1. k + 1 < l + 1
        BY <1>6, <2>2, <2>6, <3>1, <3>2 DEF InOrder
      <4> QED
        BY <4>1
    <3>3. PICK l \in 1 .. Len(requests) : LastWord(l, p, t)
      BY <1>1, <1>7, LastExists
    <3>4. Concerns(l, p, t) /\ (Activates(l, p, t) <=> isActionActivated(p, t, 0))
      BY <1>1, <3>3 DEF AllWords, WordKept, LastWord
    <3>5. Activates(l, p, t)
      BY <2>1, <2>6, <3>4 DEF Precedes
    <3>6. ASSUME Pending(p, a)'
          PROVE  Pending(p, t)'
      <4>1. PICK i \in 1 .. Len(requests) : Concerns(i, p, a)
        BY <3>1, <3>6 DEF Pending
      <4>2. PICK k \in i .. Len(requests) : LastWord(k, p, a)
        BY <1>1, <4>1, LastExists
      <4>3. k \in 1 .. Len(requests)
        BY <1>6
      <4>4. k < l
        BY <2>2, <2>6, <3>3, <4>2, <4>3 DEF InOrder
      <4>5. l # 1
        BY <4>3, <4>4
      <4> QED
        BY <1>6, <3>3, <3>4, <4>5
    <3>7. ASSUME ~Pending(p, t)'
          PROVE  \A i \in Slot(p, a)', j \in Slot(p, t)' : i < j
      <4>1. l = 1 /\ Activates(1, p, t)
        BY <1>6, <3>3, <3>4, <3>5, <3>7
      <4>2. Alternate(p, t)
        BY <1>1, <1>11, <2>6 DEF AllWords
      <4>3. Slot(p, t) = {}
        <5>1. Slot(p, t) = {} \/ \E j \in 1 .. (1 - 1) : Deactivates(j, p, t)
          BY <1>7, <4>1, <4>2 DEF Alternate
        <5> QED
          BY <5>1
      <4>4. \A i \in Slot(p, a), j \in Slot(p, t)' : i < j
        BY <4>1, <4>3
      <4>5. Slot(p, a)' = Slot(p, a)
        BY <1>3, <2>3, <2>6
      <4> QED
        BY <4>4, <4>5
    <3> QED
      BY <2>6, <3>2, <3>6, <3>7 DEF InOrder
  <2> QED
    BY <2>4, <2>5, <2>6
<1>12. TypeOK' /\ AtMostOne'
  <2>1. ap_list' \in [Points -> Slots]
    BY <1>1 DEF TypeOK, Slots
  <2>2. TypeOK'
    BY <1>1, <1>4, <2>1 DEF TypeOK, Slots
  <2>3. \A q \in Points : Once(ap_list'[q])
    BY <1>1, <1>2 DEF AtMostOne
  <2> QED
    BY <2>2, <2>3 DEF AtMostOne, Once
<1>13. Uniform' /\ KnownPoints'
  <2>1. Uniform'
    BY <1>1, UniformStays DEF TypeOK
  <2>2. KnownPoints'
    BY <1>1, <1>4 DEF KnownPoints, RequestsKnown
  <2> QED
    BY <2>1, <2>2
<1> QED
  BY <1>10, <1>11, <1>12, <1>13 DEF IInv, AllWords, AllOrdered

LEMMA WordRead ==
    ASSUME IInv, requests # <<>>, Head(requests).op \in {"ACTIVATE_ACTION", "DEACTIVATE_ACTION"}
    PROVE  /\ Head(requests).point \in Points /\ Head(requests).tag \in Tags
           /\ Head(requests) = Word(Head(requests).op, Head(requests).point, Head(requests).tag)
           /\ Head(requests) = requests[1]
           /\ Head(requests).op = "ACTIVATE_ACTION" => Head(requests).point \in ipinfo
<1>1. /\ Head(requests) = requests[1] /\ 1 \in 1 .. Len(requests)
      /\ Head(requests) \in Request
  BY HeadRequest DEF IInv
<1>2. Head(requests) \in [op : {"ACTIVATE_ACTION", "DEACTIVATE_ACTION"}, point : Points,
                          tag : Tags]
  BY <1>1 DEF Request
<1>3. Head(requests).op = "ACTIVATE_ACTION" => Head(requests).point \in ipinfo
  BY <1>1 DEF IInv, KnownPoints
<1> QED
  BY <1>1, <1>2, <1>3 DEF Word

LEMMA ActivateStep ==
    ASSUME IInv, NEW p \in Points, activate_action(p)
    PROVE  IInv'
<1>1. /\ requests # <<>> /\ requests' = Tail(requests)
      /\ Head(requests).op = "ACTIVATE_ACTION" /\ Head(requests).point = p
      /\ UNCHANGED <<parse, pairs, order, maxOrder, ipinfo, auto, replies>>
  BY DEF activate_action, Receive, clientVars
<1>2. PICK t \in Tags : t = Head(requests).tag /\ Activates(1, p, t) /\ p \in ipinfo
  BY <1>1, WordRead DEF Activates, Word
<1>3. ap_list[p] \in Slots /\ Once(ap_list[p])
  BY DEF IInv, TypeOK, AtMostOne, Slots
<1> DEFINE slots == ApplyInstrumentation(ap_list[p], t)
<1>4. slots \in Slots /\ Once(slots)
  BY <1>3, ApplyKeepsOnce
<1>5. ap_list' = [ap_list EXCEPT ![p] = slots] /\ ap_list'[p] = slots
  BY <1>2 DEF activate_action, IInv, TypeOK
<1>6. /\ Slot(p, t)' # {}
      /\ Slot(p, t)' = IF Slot(p, t) = {} THEN {Len(ap_list[p]) + 1} ELSE Slot(p, t)
      /\ \A u : u # t => Slot(p, u)' = Slot(p, u)
  BY <1>3, <1>5, SlotsAfterApply
<1> HIDE DEF slots
<1>7. ASSUME Slot(p, t) = {}, NEW u \in Tags, NEW i \in Slot(p, u), NEW j \in Slot(p, t)'
      PROVE  i < j
  <2>1. i \in 1 .. Len(ap_list[p]) /\ Len(ap_list[p]) \in Nat
    BY <1>3 DEF Slot, Slots
  <2>2. j = Len(ap_list[p]) + 1
    BY <1>6, <1>7
  <2> QED
    BY <2>1, <2>2
<1>8. Concerns(1, p, t) /\ ~Deactivates(1, p, t)
  BY <1>2, WordsDiffer DEF Concerns, Activates, Deactivates, Word
<1> QED
  BY <1>1, <1>4, <1>5, <1>6, <1>7, <1>8, FirstWord

LEMMA DeactivateStep ==
    ASSUME IInv, NEW p \in Points, deactivate_action(p)
    PROVE  IInv'
<1>1. /\ requests # <<>> /\ requests' = Tail(requests)
      /\ Head(requests).op = "DEACTIVATE_ACTION" /\ Head(requests).point = p
      /\ UNCHANGED <<parse, pairs, order, maxOrder, ipinfo, auto, replies>>
  BY DEF deactivate_action, Receive, clientVars
<1>2. PICK t \in Tags : t = Head(requests).tag /\ Deactivates(1, p, t)
  BY <1>1, WordRead DEF Deactivates, Word
<1>3. ap_list[p] \in Slots /\ Once(ap_list[p])
  BY DEF IInv, TypeOK, AtMostOne, Slots
<1> DEFINE slots == remove_action(ap_list[p], t)
<1>4. slots \in Slots /\ Once(slots)
  BY <1>3, RemoveKeepsOnce
<1>5. ap_list' = [ap_list EXCEPT ![p] = slots] /\ ap_list'[p] = slots
  BY <1>2 DEF deactivate_action, IInv, TypeOK
<1>6. Slot(p, t)' = {} /\ \A u \in Tags : u # t => Slot(p, u)' = Slot(p, u)
  BY <1>3, <1>5, SlotsAfterRemove
<1> HIDE DEF slots
<1>7. Concerns(1, p, t) /\ ~Activates(1, p, t)
  BY <1>2, WordsDiffer DEF Concerns, Activates, Deactivates, Word
<1> QED
  BY <1>1, <1>4, <1>5, <1>6, <1>7, FirstWord

------------------------------------------------------------------------------
(* Every behaviour. *)

LEMMA InitIInv == Init => IInv
<1> SUFFICES ASSUME Init PROVE IInv
  OBVIOUS
<1>1. /\ parse = [p \in Points |-> "Unparsed"] /\ pairs = 1 /\ maxOrder = 0
      /\ order = [p \in Points |-> [t \in Tags |-> [i \in 0 .. (MaxPairs - 1) |-> 0]]]
      /\ ipinfo = {} /\ ap_list = [p \in Points |-> <<>>]
      /\ requests = <<>> /\ replies = <<>> /\ auto = {}
  BY DEF Init
<1>2. TypeOK
  <2>1. <<>> \in Seq(Tags \cup {NULL}) /\ <<>> \in Seq(Request) /\ <<>> \in Seq(Points)
    OBVIOUS
  <2>2. 1 \in 1 .. MaxPairs
    OBVIOUS
  <2> QED
    BY <1>1, <2>1, <2>2 DEF TypeOK
<1>3. \A p \in Points : ap_list[p] = <<>>
  BY <1>1
<1>4. AtMostOne /\ KnownPoints
  BY <1>1, <1>3 DEF AtMostOne, Once, KnownPoints
<1>5. \A p \in Points, t \in Tags, i \in 0 .. (MaxPairs - 1) : order[p][t][i] = 0
  BY <1>1
<1>6. Uniform
  <2>1. maxOrder = 0 /\ 0 <= 0
    BY <1>1
  <2> QED
    BY <1>5, <2>1 DEF Uniform, isActionActivated
<1>7. \A p, t : ~Pending(p, t)
  BY <1>1 DEF Pending
<1>8. \A p \in Points, t \in Tags : Slot(p, t) = {} /\ ~isActionActivated(p, t, 0)
  <2> TAKE p \in Points, t \in Tags
  <2>1. Slot(p, t) = {}
    BY <1>3 DEF Slot
  <2>2. 0 \in 0 .. (MaxPairs - 1)
    OBVIOUS
  <2> QED
    BY <1>5, <2>1, <2>2 DEF isActionActivated
<1>9. AllWords
  BY <1>1, <1>8 DEF AllWords, WordKept, Alternate
<1>10. AllOrdered
  BY <1>8 DEF AllOrdered, Precedes
<1> QED
  BY <1>2, <1>4, <1>6, <1>9, <1>10 DEF IInv

LEMMA StutterIInv ==
    ASSUME IInv, UNCHANGED vars
    PROVE  IInv'
<1>1. UNCHANGED <<parse, pairs, order, maxOrder, ipinfo, ap_list, requests, replies, auto>>
  BY DEF vars, clientVars, collectorVars
<1>2. TypeOK /\ Uniform /\ KnownPoints /\ AtMostOne /\ requests \in Seq(Request)
  BY DEF IInv, TypeOK
<1>3. \A q \in Points, t \in Tags : Shifted(q, t, 0)
  BY <1>1, <1>2, ShiftedBySame
<1>4. AllWords' /\ AllOrdered'
  BY <1>1, <1>2, <1>3, SlotsStay, QuietStep
<1>5. TypeOK' /\ KnownPoints'
  BY <1>1, <1>2 DEF TypeOK, KnownPoints
<1>6. Uniform' /\ AtMostOne'
  BY <1>1, <1>2, UniformStays, SlotsStay DEF TypeOK
<1> QED
  BY <1>4, <1>5, <1>6 DEF IInv

LEMMA NextIInv == IInv /\ [Next]_vars => IInv'
<1> SUFFICES ASSUME IInv, [Next]_vars PROVE IInv'
  OBVIOUS
<1>1. ASSUME NEW p \in Points, expandFunction(p) PROVE IInv'
  BY <1>1, ExpandStep
<1>2. CASE unpack_and_set_function_parse_complete
  BY <1>2, ParsedStep
<1>3. CASE insertPTPair
  BY <1>3, PairStep
<1>4. ASSUME NEW p \in Points, NEW t \in Tags, actionMenuClickHandler(p, t)
      PROVE  IInv'
  BY <1>4, ClickStep
<1>5. ASSUME NEW list \in Lists, instrumentApp(list) PROVE IInv'
  BY <1>5, DialogStep
<1>6. ASSUME NEW p \in Points, unpack_parse_function(p) PROVE IInv'
  BY <1>6, ParseStep
<1>7. ASSUME NEW p \in Points, activate_action(p) PROVE IInv'
  BY <1>7, ActivateStep
<1>8. ASSUME NEW p \in Points, deactivate_action(p) PROVE IInv'
  BY <1>8, DeactivateStep
<1>9. CASE instrument_app
  BY <1>9, InstrumentStep
<1>10. CASE UNCHANGED vars
  BY <1>10, StutterIInv
<1> QED
  BY <1>1, <1>2, <1>3, <1>4, <1>5, <1>6, <1>7, <1>8, <1>9, <1>10 DEF Next

\* However the menu and the dialog are mixed, an action is never installed twice
\* at a point (ActionPoint::add_action behind ApplyInstrumentation), and the words
\* under way about an action alternate and end with what the Client shows.
THEOREM Invariance == Spec => []IInv
<1>1. Init => IInv
  BY InitIInv
<1>2. IInv /\ [Next]_vars => IInv'
  BY NextIInv
<1> QED
  BY <1>1, <1>2, PTL DEF Spec

\* When nothing is under way, an action the Client shows as active is installed, and
\* one it shows as inactive is not, unless the dialog asked for it (activateAction,
\* deactivateAction and their counterparts in the collector).
THEOREM InstalledAsShown == Spec => []Agreement
<1>1. IInv => Agreement
  <2> SUFFICES ASSUME IInv, requests = <<>>, NEW p \in Points, NEW t \in Tags
               PROVE  IF isActionActivated(p, t, 0) THEN Slot(p, t) # {}
                      ELSE <<p, t>> \in auto \/ Slot(p, t) = {}
    BY DEF Agreement
  <2>1. ~Pending(p, t)
    BY DEF Pending
  <2>2. WordKept(p, t)
    BY DEF IInv, AllWords
  <2> QED
    BY <2>1, <2>2 DEF WordKept
<1> QED
  BY <1>1, Invariance, PTL

\* When nothing is under way, the actions of a point run in the order in which the
\* Client shows them (activationOrderId and the slots of ActionPoint).
THEOREM RunsInShownOrder == Spec => []OrderAgrees
<1>1. IInv => OrderAgrees
  <2> SUFFICES ASSUME IInv, requests = <<>>, NEW p \in Points, NEW t \in Tags, NEW u \in Tags,
                      isActionActivated(p, t, 0), isActionActivated(p, u, 0),
                      <<p, t>> \notin auto, <<p, u>> \notin auto,
                      order[p][t][0] < order[p][u][0]
               PROVE  \A i \in Slot(p, t), j \in Slot(p, u) : i < j
    BY DEF OrderAgrees
  <2>1. ~Pending(p, u)
    BY DEF Pending
  <2>2. InOrder(p, t, u)
    BY DEF IInv, AllOrdered, Precedes
  <2> QED
    BY <2>1, <2>2 DEF InOrder
<1> QED
  BY <1>1, Invariance, PTL

===============================================================================
