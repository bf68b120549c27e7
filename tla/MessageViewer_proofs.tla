------------------------- MODULE MessageViewer_proofs -------------------------
(* For any folders, messages, files, priorities and bounds: a message window is   *)
(* consistent at every moment, and what it shows at rest is what is selected in   *)
(* it.                                                                            *)
EXTENDS MessageViewer, SequenceTheorems, FiniteSetTheorems, WellFoundedInduction, TLAPS

Ums == Seq([ifEmpty : Policies, messages : Seq(Texts)])

USE DEF None

------------------------------------------------------------------------------
(* Induction over the natural numbers, from the least element of a set of them. *)

LEMMA LeastElement ==
    ASSUME NEW S, S \subseteq Nat, S # {}
    PROVE  \E n \in S : \A m \in S : n <= m
<1> DEFINE R == OpToRel(<, Nat)
<1>1. ASSUME NEW a \in Nat, NEW b \in Nat, a < b
      PROVE  <<a, b>> \in R
  BY <1>1 DEF OpToRel
<1>2. \E x \in S : \A y \in S : ~ (<<y, x>> \in R)
  BY WFMin, NatLessThanWellFounded
<1> HIDE DEF R
<1>3. PICK x \in S : \A y \in S : ~ (<<y, x>> \in R)
  BY <1>2
<1>4. ASSUME NEW y \in S
      PROVE  x <= y
  <2>1. x \in Nat /\ y \in Nat
    OBVIOUS
  <2>2. ~ (y < x)
    BY <1>1, <1>3, <2>1
  <2> QED
    BY <2>1, <2>2
<1> QED
  BY <1>3, <1>4

LEMMA Induction ==
    ASSUME NEW S, 0 \in S, \A n \in S \cap Nat : n + 1 \in S
    PROVE  Nat \subseteq S
<1> SUFFICES ASSUME Nat \ S # {} PROVE FALSE
  OBVIOUS
<1>1. PICK n \in Nat \ S : \A m \in Nat \ S : n <= m
  BY LeastElement
<1>2. n \in Nat /\ n # 0 /\ n - 1 \in Nat /\ (n - 1) + 1 = n
  BY <1>1
<1>3. n - 1 \in S
  BY <1>1, <1>2
<1> QED
  BY <1>1, <1>2, <1>3

\* A bounded set of numbers has a greatest.
LEMMA Greatest ==
    ASSUME NEW S, S \subseteq Nat, S # {}, NEW bound \in Nat, \A s \in S : s <= bound
    PROVE  Max(S) \in S /\ \A s \in S : s <= Max(S)
<1> DEFINE Bounds == {b \in Nat : \A s \in S : s <= b}
<1>1. PICK b \in Bounds : \A c \in Bounds : b <= c
  <2>1. Bounds \subseteq Nat /\ bound \in Bounds
    OBVIOUS
  <2> HIDE DEF Bounds
  <2> QED
    BY <2>1, LeastElement
<1>2. b \in S
  <2> SUFFICES ASSUME b \notin S PROVE FALSE
    OBVIOUS
  <2>1. PICK s \in S : TRUE
    OBVIOUS
  <2>2. \A t \in S : t \in Nat /\ t <= b - 1
    BY <1>1
  <2>3. b - 1 \in Bounds
    BY <1>1, <2>1, <2>2
  <2> QED
    BY <1>1, <2>3
<1>3. \E x \in S : \A y \in S : x >= y
  BY <1>1, <1>2
<1>4. Max(S) \in S /\ \A y \in S : Max(S) >= y
  BY <1>3 DEF Max
<1> QED
  BY <1>4

LEMMA TheOnly == ASSUME NEW x PROVE The({x}) = x
BY DEF The

------------------------------------------------------------------------------
(* The grid: the messages of a folder are appended one after the other. *)

Folder(u, v) == u[v.displayedFolder].messages

LEMMA Appended ==
    ASSUME NEW S, NEW s \in Seq(S), NEW e \in S
    PROVE  /\ Append(s, e) \in Seq(S)
           /\ Len(Append(s, e)) = Len(s) + 1
           /\ \A i \in 1..Len(s) : Append(s, e)[i] = s[i]
           /\ Append(s, e)[Len(s) + 1] = e
OBVIOUS

LEMMA Joined ==
    ASSUME NEW S, NEW s \in Seq(S), NEW t \in Seq(S)
    PROVE  /\ s \o t \in Seq(S)
           /\ Len(s \o t) = Len(s) + Len(t)
           /\ \A i \in 1..Len(s) : (s \o t)[i] = s[i]
           /\ \A i \in 1..Len(t) : (s \o t)[Len(s) + i] = t[i]
OBVIOUS

LEMMA Element ==
    ASSUME NEW S, NEW s \in Seq(S), NEW i \in DOMAIN s
    PROVE  s[i] \in S /\ DOMAIN s = 1..Len(s) /\ Len(s) \in Nat /\ i \in Nat
OBVIOUS

LEMMA ChangedElement ==
    ASSUME NEW S, NEW s \in Seq(S), NEW i \in DOMAIN s, NEW e \in S
    PROVE  LET t == [s EXCEPT ![i] = e]
           IN  /\ t \in Seq(S) /\ Len(t) = Len(s) /\ DOMAIN t = DOMAIN s
               /\ t[i] = e /\ \A j \in DOMAIN s : j # i => t[j] = s[j]
OBVIOUS

LEMMA FolderFacts ==
    ASSUME NEW u \in Ums, NEW folder \in DOMAIN u
    PROVE  /\ u[folder] \in [ifEmpty : Policies, messages : Seq(Texts)]
           /\ u[folder].messages \in Seq(Texts)
           /\ Len(u[folder].messages) \in Nat
           /\ \A m \in 1..Len(u[folder].messages) :
                 /\ u[folder].messages[m] \in Texts
                 /\ u[folder].messages[m].lines \in Nat \ {0}
                 /\ u[folder].messages[m].traceback \in Seq(Sites)
<1>1. u[folder] \in [ifEmpty : Policies, messages : Seq(Texts)]
  BY Element DEF Ums
<1>2. u[folder].messages \in Seq(Texts)
  BY <1>1
<1>3. Texts \subseteq [lines : Nat \ {0}, traceback : Seq(Sites)]
  BY ViewerAssumption DEF ViewerAssumption
<1> QED
  BY <1>1, <1>2, <1>3

\* The repeated rows of one message.
LEMMA Lines ==
    ASSUME NEW n \in Nat, NEW m \in Nat
    PROVE  LET s == [line \in 1..n |-> m]
           IN  s \in Seq(Nat) /\ Len(s) = n /\ \A i \in 1..n : s[i] = m
OBVIOUS

\* The rows of a message among all rows.
LEMMA RowsOfOne ==
    ASSUME NEW n \in Nat, NEW h \in Nat, NEW lines \in Nat \ {0}, h >= 1, h + lines <= n + 1
    PROVE  {row \in 1..n : row >= h /\ row < h + lines} = h..(h + lines - 1)
<1>1. \A row \in Int : row \in 1..n /\ row >= h /\ row < h + lines
                      <=> row \in h..(h + lines - 1)
  OBVIOUS
<1> QED
  BY <1>1

\* What the steps on the grid leave alone.
SameCombos(v, w) ==
    /\ DOMAIN w = DOMAIN v
    /\ w.folder2combo = v.folder2combo /\ w.combo2folder = v.combo2folder
    /\ w.items = v.items /\ w.currentItem = v.currentItem
    /\ w.selectedFolder = v.selectedFolder /\ w.messagesAdded = v.messagesAdded
SameButRows(v, w) ==
    /\ SameCombos(v, w)
    /\ w.displayedFolder = v.displayedFolder /\ w.highlighted = v.highlighted
    /\ w.folderState = v.folderState /\ w.refreshes = v.refreshes

Fields == {"folder2combo", "combo2folder", "items", "currentItem", "displayedCount",
           "selectedFolder", "displayedFolder", "rows", "heads", "highlighted",
           "folderState", "messagesAdded", "refreshes"}
LEMMA FieldsOfView == DOMAIN NewView = Fields
BY DEF NewView, Fields

Showing(u, v) ==
    /\ ViewType(v) /\ FoldersKnown(u, v) /\ RowsSound(u, v)
    /\ v.displayedFolder # None

LEMMA AppendOne ==
    ASSUME NEW u \in Ums, NEW v, Showing(u, v), Len(v.heads) < Len(Folder(u, v))
    PROVE  LET w == AppendMessage(u, v, Len(v.heads) + 1)
           IN  /\ Showing(u, w) /\ SameButRows(v, w)
               /\ Len(w.heads) = Len(v.heads) + 1
               /\ \A m \in DOMAIN v.heads : w.heads[m] = v.heads[m]
<1> DEFINE d == v.displayedFolder
           k == Len(v.heads) + 1
           lines == u[d].messages[k].lines
           new == [line \in 1..lines |-> k]
           w == AppendMessage(u, v, k)
<1>1. DOMAIN v = Fields
  BY FieldsOfView DEF Showing, ViewType
<1>2. v.heads \in Seq(Nat) /\ v.rows \in Seq(Nat) /\ Len(v.heads) \in Nat /\ Len(v.rows) \in Nat
  BY DEF Showing, ViewType
<1>3. d \in DOMAIN u
  BY DEF Showing, FoldersKnown, ViewType, Ums
<1>4. lines \in Nat \ {0} /\ k \in Nat /\ k \in 1..Len(u[d].messages)
  BY <1>2, <1>3, FolderFacts DEF Folder
<1>5. new \in Seq(Nat) /\ Len(new) = lines /\ \A i \in 1..lines : new[i] = k
  <2>1. \A n, m \in Nat :
            LET s == [line \in 1..n |-> m]
            IN  s \in Seq(Nat) /\ Len(s) = n /\ \A i \in 1..n : s[i] = m
    BY Lines
  <2>2. lines \in Nat /\ k \in Nat
    BY <1>4
  <2> HIDE DEF lines, k
  <2> QED
    BY <2>1, <2>2, ZenonT(60)
<1> HIDE DEF lines, new
<1>6. /\ w.heads = Append(v.heads, Len(v.rows) + 1)
      /\ w.rows = v.rows \o new
      /\ SameButRows(v, w)
      /\ DOMAIN w = Fields
  BY <1>1 DEF AppendMessage, SameButRows, SameCombos, lines, new, Fields
<1> HIDE DEF w
<1>7. /\ w.heads \in Seq(Nat) /\ Len(w.heads) = k
      /\ \A m \in DOMAIN v.heads : w.heads[m] = v.heads[m]
      /\ w.heads[k] = Len(v.rows) + 1
      /\ DOMAIN v.heads = 1..Len(v.heads) /\ DOMAIN w.heads = 1..k
  BY <1>2, <1>6, Appended
<1>8. /\ w.rows \in Seq(Nat) /\ Len(w.rows) = Len(v.rows) + lines
      /\ \A i \in 1..Len(v.rows) : w.rows[i] = v.rows[i]
      /\ \A i \in (Len(v.rows) + 1)..(Len(v.rows) + lines) : w.rows[i] = k
      /\ DOMAIN v.rows = 1..Len(v.rows) /\ DOMAIN w.rows = 1..(Len(v.rows) + lines)
  <2>1. /\ v.rows \o new \in Seq(Nat)
        /\ Len(v.rows \o new) = Len(v.rows) + Len(new)
        /\ \A i \in 1..Len(v.rows) : (v.rows \o new)[i] = v.rows[i]
        /\ \A i \in 1..Len(new) : (v.rows \o new)[Len(v.rows) + i] = new[i]
    <3>1. v.rows \in Seq(Nat) /\ new \in Seq(Nat)
      BY <1>2, <1>5
    <3>2. \A s, t \in Seq(Nat) :
              /\ s \o t \in Seq(Nat)
              /\ Len(s \o t) = Len(s) + Len(t)
              /\ \A i \in 1..Len(s) : (s \o t)[i] = s[i]
              /\ \A i \in 1..Len(t) : (s \o t)[Len(s) + i] = t[i]
      BY Joined
    <3> QED
      BY <3>1, <3>2, Zenon
  <2>2. /\ w.rows \in Seq(Nat) /\ Len(w.rows) = Len(v.rows) + lines
        /\ \A i \in 1..Len(v.rows) : w.rows[i] = v.rows[i]
    BY <1>5, <1>6, <2>1
  <2>3. ASSUME NEW i \in (Len(v.rows) + 1)..(Len(v.rows) + lines)
        PROVE  w.rows[i] = k
    <3>1. PICK j \in 1..lines : i = Len(v.rows) + j
      <4>1. i - Len(v.rows) \in 1..lines /\ i = Len(v.rows) + (i - Len(v.rows))
        BY <1>2, <1>4
      <4> QED
        BY <4>1
    <3>2. w.rows[i] = new[j]
      BY <1>5, <1>6, <2>1, <3>1
    <3> QED
      BY <3>2, <1>5
  <2>4. DOMAIN v.rows = 1..Len(v.rows) /\ DOMAIN w.rows = 1..(Len(v.rows) + lines)
    BY <1>2, <2>2
  <2> QED
    BY <2>2, <2>3, <2>4
<1>9. ViewType(w) /\ FoldersKnown(u, w)
  BY <1>6, <1>7, <1>8, FieldsOfView DEF Showing, ViewType, FoldersKnown, SameButRows, SameCombos
<1>10. RowsSound(u, w)
  <2> DEFINE messages == u[d].messages
  <2>0. d # 0 /\ w.displayedFolder = d
    BY <1>6 DEF SameButRows, Showing
  <2>1. /\ \A m \in DOMAIN v.heads :
              /\ v.heads[m] >= 1
              /\ v.heads[m] + messages[m].lines <= Len(v.rows) + 1
              /\ \A row \in DOMAIN v.rows :
                    v.rows[row] = m <=> /\ row >= v.heads[m]
                                        /\ row < v.heads[m] + messages[m].lines
        /\ \A row \in DOMAIN v.rows : v.rows[row] \in DOMAIN v.heads
    BY DEF Showing, RowsSound
  <2>2. messages[k].lines = lines
    BY DEF lines
  <2>a. \A m \in DOMAIN v.heads : v.heads[m] \in Nat /\ messages[m].lines \in Nat
    <3> TAKE m \in DOMAIN v.heads
    <3>1. m \in 1..Len(messages)
      <4>1. Len(messages) \in Nat /\ Len(v.heads) <= Len(messages)
        BY <1>3, FolderFacts DEF Showing, RowsSound
      <4> QED
        BY <4>1, <1>7, <1>2, SMTT(40)
    <3> QED
      BY <3>1, <1>2, <1>3, FolderFacts
  <2> HIDE DEF messages
  <2>3. ASSUME NEW m \in DOMAIN w.heads
        PROVE  /\ w.heads[m] >= 1
               /\ w.heads[m] + messages[m].lines <= Len(w.rows) + 1
               /\ \A row \in DOMAIN w.rows :
                     w.rows[row] = m <=> /\ row >= w.heads[m]
                                         /\ row < w.heads[m] + messages[m].lines
    <3>1. CASE m = k
      <4>1. w.heads[m] = Len(v.rows) + 1 /\ messages[m].lines = lines
        BY <3>1, <1>7, <2>2
      <4>2. ASSUME NEW row \in DOMAIN w.rows, row <= Len(v.rows)
            PROVE  w.rows[row] # k
        <5>1. row \in DOMAIN v.rows /\ w.rows[row] = v.rows[row]
          BY <4>2, <1>8, <1>2
        <5>2. v.rows[row] \in 1..Len(v.heads)
          BY <5>1, <2>1, <1>7
        <5> QED
          BY <5>1, <5>2, <1>2
      <4> QED
        <5>1. ASSUME NEW row \in DOMAIN w.rows
              PROVE  w.rows[row] = m <=> /\ row >= w.heads[m]
                                         /\ row < w.heads[m] + messages[m].lines
          <6>1. row \in 1..(Len(v.rows) + lines)
            BY <1>8
          <6>2. CASE row <= Len(v.rows)
            BY <6>1, <6>2, <4>1, <4>2, <1>2, <1>4, <3>1
          <6>3. CASE row > Len(v.rows)
            <7>1. row \in (Len(v.rows) + 1)..(Len(v.rows) + lines)
              BY <6>1, <6>3, <1>2, <1>4
            <7>2. w.rows[row] = k
              BY <7>1, <1>8
            <7> QED
              BY <7>1, <7>2, <4>1, <1>2, <1>4, <3>1
          <6> QED
            BY <6>1, <6>2, <6>3, <1>2, <1>4
        <5> QED
          BY <5>1, <4>1, <1>8, <1>4, <1>2
    <3>2. CASE m # k
      <4>1. m \in DOMAIN v.heads /\ w.heads[m] = v.heads[m]
        BY <3>2, <1>7, <1>2
      <4>2. v.heads[m] \in Nat /\ messages[m].lines \in Nat
        BY <4>1, <2>a
      <4>3. /\ v.heads[m] >= 1
            /\ v.heads[m] + messages[m].lines <= Len(v.rows) + 1
            /\ \A row \in DOMAIN v.rows :
                    v.rows[row] = m <=> /\ row >= v.heads[m]
                                        /\ row < v.heads[m] + messages[m].lines
        BY <4>1, <2>1
      <4> QED
        <5>1. ASSUME NEW row \in DOMAIN w.rows
              PROVE  w.rows[row] = m <=> /\ row >= w.heads[m]
                                         /\ row < w.heads[m] + messages[m].lines
          <6>1. row \in 1..(Len(v.rows) + lines)
            BY <1>8
          <6>2. CASE row <= Len(v.rows)
            <7>1. row \in DOMAIN v.rows /\ w.rows[row] = v.rows[row]
              BY <6>1, <6>2, <1>2, <1>8
            <7> QED
              BY <7>1, <4>1, <4>3
          <6>3. CASE row > Len(v.rows)
            <7>1. row \in (Len(v.rows) + 1)..(Len(v.rows) + lines)
              BY <6>1, <6>3, <1>2, <1>4
            <7>2. w.rows[row] = k
              BY <7>1, <1>8
            <7> QED
              BY <7>1, <7>2, <4>1, <4>2, <4>3, <1>2, <1>4, <3>2, SMTT(40)
          <6> QED
            BY <6>1, <6>2, <6>3, <1>2, <1>4
        <5> QED
          <6>1. w.heads[m] >= 1 /\ w.heads[m] + messages[m].lines <= Len(w.rows) + 1
            <7>1. v.heads[m] + messages[m].lines <= Len(v.rows) + 1
              BY <4>3
            <7>2. Len(w.rows) = Len(v.rows) + lines
              BY <1>8
            <7> QED
              BY <7>1, <7>2, <4>1, <4>2, <4>3, <1>2, <1>4, SMTT(40)
          <6> QED
            BY <5>1, <6>1
    <3> QED
      BY <3>1, <3>2
  <2>4. ASSUME NEW row \in DOMAIN w.rows
        PROVE  w.rows[row] \in DOMAIN w.heads
    <3>1. row \in 1..(Len(v.rows) + lines)
      BY <1>8
    <3>2. CASE row <= Len(v.rows)
      <4>1. row \in DOMAIN v.rows /\ w.rows[row] = v.rows[row]
        BY <3>1, <3>2, <1>2, <1>8
      <4>2. v.rows[row] \in 1..Len(v.heads)
        BY <4>1, <2>1, <1>7
      <4> QED
        BY <4>1, <4>2, <1>7, <1>2
    <3>3. CASE row > Len(v.rows)
      <4>1. row \in (Len(v.rows) + 1)..(Len(v.rows) + lines)
        BY <3>1, <3>3, <1>2, <1>4
      <4>2. w.rows[row] = k
        BY <4>1, <1>8
      <4> QED
        BY <4>2, <1>7, <1>4, <1>2
    <3> QED
      BY <3>1, <3>2, <3>3, <1>2, <1>4
  <2>5. Len(w.heads) <= Len(messages)
    BY <1>4, <1>7 DEF messages
  <2> QED
    BY <2>0, <2>3, <2>4, <2>5 DEF RowsSound, messages
<1> QED
  BY <1>6, <1>7, <1>9, <1>10 DEF Showing, SameButRows, w

AppendStep(u, x, k) == The({AppendMessage(u, y, k) : y \in {x}})

LEMMA AppendStepIs ==
    ASSUME NEW u, NEW x, NEW k
    PROVE  AppendStep(u, x, k) = AppendMessage(u, x, k)
<1>1. {AppendMessage(u, y, k) : y \in {x}} = {AppendMessage(u, x, k)}
  OBVIOUS
<1> QED
  BY <1>1, TheOnly DEF AppendStep

IsAppending(g, u, v, n) ==
    g = [k \in 0..n |->
            IF k <= Len(v.heads) THEN v
            ELSE AppendStep(u, g[k - 1], k)]

LEMMA AppendMessagesDef ==
    ASSUME NEW u, NEW v, NEW folder
    PROVE  AppendMessages(u, v, folder) =
               (CHOOSE g : IsAppending(g, u, v, Len(u[folder].messages)))
                   [Len(u[folder].messages)]
BY DEF AppendMessages, IsAppending, AppendStep

LEMMA AppendingExists ==
    ASSUME NEW u, NEW v, Len(v.heads) \in Nat, NEW total \in Nat
    PROVE  \E g : IsAppending(g, u, v, total)
<1> DEFINE N == {n \in Nat : \E g : IsAppending(g, u, v, n)}
<1>1. 0 \in N
  <2>1. IsAppending([k \in 0..0 |-> v], u, v, 0)
    BY DEF IsAppending
  <2> QED
    BY <2>1
<1>2. ASSUME NEW n \in N \cap Nat
      PROVE  n + 1 \in N
  <2>1. PICK g : IsAppending(g, u, v, n)
    OBVIOUS
  <2> DEFINE h == [k \in 0..(n + 1) |->
                      IF k <= Len(v.heads) THEN v
                      ELSE AppendStep(u, g[k - 1], k)]
  <2>2. ASSUME NEW k \in 0..n PROVE h[k] = g[k]
    <3>1. k \in 0..(n + 1)
      OBVIOUS
    <3> QED
      BY <2>1, <3>1 DEF IsAppending
  <2>3. ASSUME NEW k \in 0..(n + 1), ~(k <= Len(v.heads)) PROVE h[k - 1] = g[k - 1]
    <3>1. k - 1 \in 0..n
      BY <2>3
    <3> QED
      BY <2>2, <3>1
  <2>4. IsAppending(h, u, v, n + 1)
    BY <2>3 DEF IsAppending
  <2> QED
    BY <2>4
<1>3. Nat \subseteq N
  <2> HIDE DEF N
  <2> QED
    BY <1>1, <1>2, Induction
<1> QED
  BY <1>3

LEMMA Filled ==
    ASSUME NEW u \in Ums, NEW v, Showing(u, v)
    PROVE  LET w == AppendMessages(u, v, v.displayedFolder)
           IN  /\ Showing(u, w) /\ SameButRows(v, w)
               /\ Len(w.heads) = Len(Folder(u, v))
               /\ \A m \in DOMAIN v.heads : w.heads[m] = v.heads[m]
<1> DEFINE total == Len(Folder(u, v))
<1>1. Len(v.heads) \in Nat /\ total \in Nat /\ Len(v.heads) <= total
  <2>1. v.heads \in Seq(Nat)
    BY DEF Showing, ViewType
  <2>2. v.displayedFolder \in DOMAIN u
    BY DEF Showing, FoldersKnown, ViewType, Ums
  <2>3. Len(v.heads) <= total
    BY DEF Showing, RowsSound, Folder
  <2> QED
    BY <2>1, <2>2, <2>3, FolderFacts DEF Folder
<1> DEFINE g == CHOOSE f : IsAppending(f, u, v, total)
           Good(w, n) == /\ Showing(u, w) /\ SameButRows(v, w)
                         /\ n <= Len(v.heads) => Len(w.heads) = Len(v.heads)
                         /\ n > Len(v.heads) => Len(w.heads) = n
                         /\ \A m \in DOMAIN v.heads : w.heads[m] = v.heads[m]
           N == {n \in Nat : n <= total => Good(g[n], n)}
<1>2. IsAppending(g, u, v, total)
  BY <1>1, AppendingExists
<1>3. AppendMessages(u, v, v.displayedFolder) = g[total]
  BY AppendMessagesDef DEF Folder
<1> HIDE DEF g, total
<1>4. Good(v, 0)
  BY <1>1 DEF SameButRows, SameCombos
<1>5. ASSUME NEW n \in 0..total, n <= Len(v.heads) PROVE g[n] = v
  BY <1>2, <1>5 DEF IsAppending
<1>6. 0 \in N
  BY <1>1, <1>4, <1>5
<1>7. ASSUME NEW n \in N \cap Nat PROVE n + 1 \in N
  <2> SUFFICES ASSUME n + 1 <= total PROVE Good(g[n + 1], n + 1)
    OBVIOUS
  <2>1. Good(g[n], n) /\ n + 1 \in 0..total /\ n \in 0..total
    BY <1>1
  <2>2. CASE n + 1 <= Len(v.heads)
    <3>1. g[n + 1] = v
      BY <1>5, <2>1, <2>2
    <3> QED
      BY <1>1, <1>4, <2>2, <3>1
  <2>3. CASE ~(n + 1 <= Len(v.heads))
    <3> DEFINE x == g[n]
               w == AppendMessage(u, x, n + 1)
    <3>1. g[n + 1] = AppendStep(u, g[n + 1 - 1], n + 1)
      BY <1>2, <2>1, <2>3 DEF IsAppending
    <3>3. g[n + 1] = w
      <4>1. n + 1 - 1 = n
        OBVIOUS
      <4> QED
        BY <3>1, <4>1, AppendStepIs
    <3>4. Len(x.heads) = n
      BY <1>1, <2>1, <2>3
    <3>5. Showing(u, x) /\ Folder(u, x) = Folder(u, v)
      BY <2>1 DEF SameButRows, Folder
    <3>6. Len(x.heads) < Len(Folder(u, x))
      BY <1>1, <2>1, <3>4, <3>5 DEF total
    <3> HIDE DEF x
    <3>7. /\ Showing(u, w) /\ SameButRows(x, w)
          /\ Len(w.heads) = n + 1
          /\ \A m \in DOMAIN x.heads : w.heads[m] = x.heads[m]
      BY <3>4, <3>5, <3>6, AppendOne
    <3> HIDE DEF w
    <3>8. /\ SameButRows(v, x)
          /\ \A m \in DOMAIN v.heads : x.heads[m] = v.heads[m]
      BY <2>1 DEF x
    <3>9. SameButRows(v, w)
      BY <3>7, <3>8 DEF SameButRows, SameCombos
    <3>10. DOMAIN v.heads \subseteq DOMAIN x.heads
      <4>1. v.heads \in Seq(Nat) /\ x.heads \in Seq(Nat)
        BY <3>5 DEF Showing, ViewType
      <4> QED
        BY <4>1, <3>4, <1>1, <2>3
    <3> QED
      BY <1>1, <2>3, <3>3, <3>7, <3>8, <3>9, <3>10
  <2> QED
    BY <2>2, <2>3
<1>8. Nat \subseteq N
  <2> HIDE DEF N
  <2> QED
    BY <1>6, <1>7, Induction
<1>9. Good(g[total], total)
  BY <1>1, <1>8
<1> QED
  BY <1>1, <1>3, <1>9 DEF total

LEMMA RowsAndHeads ==
    ASSUME NEW u \in Ums, NEW v, Showing(u, v)
    PROVE  v.rows = << >> <=> v.heads = << >>
<1>1. v.heads \in Seq(Nat) /\ v.rows \in Seq(Nat)
  BY DEF Showing, ViewType
<1>2. v.displayedFolder \in DOMAIN u
  BY DEF Showing, FoldersKnown, ViewType, Ums
<1>3. ASSUME v.heads # << >> PROVE v.rows # << >>
  <2>1. 1 \in DOMAIN v.heads /\ Len(v.heads) >= 1
    BY <1>1, <1>3
  <2>2. /\ v.heads[1] >= 1 /\ v.heads[1] \in Nat
        /\ v.heads[1] + u[v.displayedFolder].messages[1].lines <= Len(v.rows) + 1
        /\ Len(v.heads) <= Len(u[v.displayedFolder].messages)
    BY <1>1, <2>1 DEF Showing, RowsSound
  <2>3. u[v.displayedFolder].messages[1].lines \in Nat \ {0}
    <3>1. Len(u[v.displayedFolder].messages) \in Nat /\ Len(v.heads) \in Nat
      BY <1>1, <1>2, FolderFacts
    <3>2. 1 \in 1..Len(u[v.displayedFolder].messages)
      BY <3>1, <2>1, <2>2
    <3> QED
      BY <3>2, <1>2, FolderFacts
  <2>4. Len(v.rows) >= 1
    <3>1. Len(v.rows) \in Nat
      BY <1>1
    <3> QED
      BY <3>1, <2>2, <2>3
  <2> QED
    BY <2>4
<1>4. ASSUME v.rows # << >> PROVE v.heads # << >>
  <2>1. 1 \in DOMAIN v.rows
    BY <1>1, <1>4
  <2>2. v.rows[1] \in DOMAIN v.heads
    BY <2>1 DEF Showing, RowsSound
  <2> QED
    BY <2>2
<1> QED
  BY <1>3, <1>4

GridOK(u, v) ==
    ViewType(v) /\ FoldersKnown(u, v) /\ RowsSound(u, v) /\ SelectionKept(u, v)

\* A refresh has been posted for the folder shown, or everything about the folder is as
\* it was, apart from new messages after the others.
Posted(w) == w.folderState[w.displayedFolder].refreshView /\ w.refreshes > 0
Undisturbed(v, w) ==
    /\ w.displayedFolder = v.displayedFolder
    /\ w.folderState = v.folderState /\ w.highlighted = v.highlighted
    /\ w.refreshes = v.refreshes
    /\ w.heads = << >> <=> v.heads = << >>
    /\ Len(v.heads) <= Len(w.heads)
    /\ \A m \in DOMAIN v.heads : w.heads[m] = v.heads[m]

LEMMA PostRefreshFacts ==
    ASSUME NEW v, ViewType(v), NEW folder \in DOMAIN v.folderState
    PROVE  LET w == PostRefresh(v, folder)
           IN  /\ SameCombos(v, w) /\ w.displayedFolder = v.displayedFolder
               /\ w.heads = v.heads /\ w.rows = v.rows /\ w.highlighted = v.highlighted
               /\ w.folderState \in Seq(FolderStates)
               /\ Len(w.folderState) = Len(v.folderState)
               /\ \A g \in DOMAIN v.folderState :
                     /\ w.folderState[g].selectedMessage = v.folderState[g].selectedMessage
                     /\ w.folderState[g].selectedRow = v.folderState[g].selectedRow
               /\ w.folderState[folder].refreshView
               /\ w.refreshes \in Nat \ {0}
<1> DEFINE w == PostRefresh(v, folder)
<1>1. DOMAIN v = Fields /\ v.folderState \in Seq(FolderStates) /\ v.refreshes \in Nat
  BY FieldsOfView DEF ViewType
<1>2. /\ w.folderState = [v.folderState EXCEPT ![folder].refreshView = TRUE]
      /\ w.refreshes = v.refreshes + 1
      /\ SameCombos(v, w) /\ w.displayedFolder = v.displayedFolder
      /\ w.heads = v.heads /\ w.rows = v.rows /\ w.highlighted = v.highlighted
  BY <1>1 DEF PostRefresh, SameCombos, Fields
<1> HIDE DEF w
<1>3. \A g \in DOMAIN v.folderState : v.folderState[g] \in FolderStates
  BY <1>1, Element
<1>4. /\ w.folderState \in Seq(FolderStates)
      /\ Len(w.folderState) = Len(v.folderState)
      /\ DOMAIN w.folderState = DOMAIN v.folderState
  <2> DEFINE e == [v.folderState[folder] EXCEPT !.refreshView = TRUE]
  <2>1. e \in FolderStates
    BY <1>3 DEF FolderStates
  <2>2. w.folderState = [v.folderState EXCEPT ![folder] = e]
    BY <1>2
  <2> HIDE DEF e
  <2> QED
    BY <1>1, <2>1, <2>2, ChangedElement
<1>5. ASSUME NEW g \in DOMAIN v.folderState
      PROVE  /\ w.folderState[g].selectedMessage = v.folderState[g].selectedMessage
             /\ w.folderState[g].selectedRow = v.folderState[g].selectedRow
             /\ g = folder => w.folderState[g].refreshView
  BY <1>2, <1>3 DEF FolderStates
<1> QED
  BY <1>1, <1>2, <1>4, <1>5 DEF w

\* The selections of all folders stay.
SameSelections(v, w) ==
    /\ w.folderState \in Seq(FolderStates)
    /\ Len(w.folderState) = Len(v.folderState)
    /\ DOMAIN w.folderState = DOMAIN v.folderState
    /\ \A g \in DOMAIN v.folderState :
          /\ w.folderState[g].selectedMessage = v.folderState[g].selectedMessage
          /\ w.folderState[g].selectedRow = v.folderState[g].selectedRow

LEMMA PrepareFacts ==
    ASSUME NEW u \in Ums, NEW v, GridOK(u, v), NEW folder \in DOMAIN v.folderState
    PROVE  LET p == PrepareFolder(u, v, folder)
           IN  /\ Showing(u, p) /\ SameCombos(v, p) /\ SameSelections(v, p)
               /\ p.displayedFolder = folder
               /\ v.displayedFolder = folder => p = v
               /\ v.displayedFolder # folder =>
                     /\ p.heads = << >> /\ p.rows = << >> /\ p.highlighted = {}
                     /\ u[folder].messages = << >> => Posted(p)
<1> DEFINE p == PrepareFolder(u, v, folder)
           c == [v EXCEPT !.rows = << >>, !.heads = << >>, !.highlighted = {},
                          !.displayedFolder = folder]
<1>1. DOMAIN v = Fields /\ v.folderState \in Seq(FolderStates) /\ folder \in DOMAIN u
      /\ folder # 0 /\ folder \in Nat /\ ViewType(v) /\ FoldersKnown(u, v)
  <2>1. DOMAIN v = Fields /\ v.folderState \in Seq(FolderStates)
        /\ Len(v.folderState) <= Len(u) /\ ViewType(v) /\ FoldersKnown(u, v)
    BY FieldsOfView DEF GridOK, ViewType, FoldersKnown
  <2>2. folder \in 1..Len(v.folderState) /\ Len(v.folderState) \in Nat /\ Len(u) \in Nat
        /\ DOMAIN u = 1..Len(u)
    BY <2>1 DEF Ums
  <2> QED
    BY <2>1, <2>2
<1>2. CASE v.displayedFolder = folder
  <2>1. p = v
    BY <1>2 DEF PrepareFolder
  <2>2. Showing(u, v)
    BY <1>1, <1>2 DEF GridOK, Showing
  <2>3. SameCombos(v, v) /\ SameSelections(v, v)
    BY <1>1 DEF SameCombos, SameSelections
  <2> QED
    BY <1>2, <2>1, <2>2, <2>3
<1>3. CASE v.displayedFolder # folder
  <2>1. /\ c.rows = << >> /\ c.heads = << >> /\ c.highlighted = {} /\ c.displayedFolder = folder
        /\ c.folderState = v.folderState /\ c.refreshes = v.refreshes
        /\ SameCombos(v, c)
    BY <1>1 DEF SameCombos, Fields
  <2>2. ViewType(c) /\ FoldersKnown(u, c)
    BY <1>1, <2>1 DEF ViewType, FoldersKnown, SameCombos
  <2>3. p = IF u[folder].messages = << >> THEN PostRefresh(c, folder) ELSE c
    BY <1>3 DEF PrepareFolder
  <2> HIDE DEF c, p
  <2>4. /\ SameCombos(v, p) /\ p.displayedFolder = folder
        /\ p.rows = << >> /\ p.heads = << >> /\ p.highlighted = {}
        /\ SameSelections(v, p) /\ p.refreshes \in Nat
        /\ u[folder].messages = << >> => Posted(p)
    <3>1. CASE u[folder].messages = << >>
      <4>1. p = PostRefresh(c, folder) /\ folder \in DOMAIN c.folderState
        BY <2>1, <2>3, <3>1
      <4>2. /\ SameCombos(c, p) /\ p.displayedFolder = c.displayedFolder
            /\ p.heads = c.heads /\ p.rows = c.rows /\ p.highlighted = c.highlighted
            /\ p.folderState \in Seq(FolderStates)
            /\ Len(p.folderState) = Len(c.folderState)
            /\ \A g \in DOMAIN c.folderState :
                  /\ p.folderState[g].selectedMessage = c.folderState[g].selectedMessage
                  /\ p.folderState[g].selectedRow = c.folderState[g].selectedRow
            /\ p.folderState[folder].refreshView
            /\ p.refreshes \in Nat \ {0}
        BY <2>2, <4>1, PostRefreshFacts
      <4>3. DOMAIN p.folderState = DOMAIN v.folderState
        BY <1>1, <2>1, <4>2
      <4> QED
        BY <2>1, <4>2, <4>3 DEF SameCombos, SameSelections, Posted
    <3>2. CASE u[folder].messages # << >>
      BY <1>1, <2>1, <2>3, <3>2 DEF SameSelections, ViewType
    <3> QED
      BY <3>1, <3>2
  <2>5. Showing(u, p)
    <3>1. ViewType(p)
      BY <1>1, <2>4 DEF ViewType, SameCombos, SameSelections
    <3>2. FoldersKnown(u, p)
      BY <1>1, <2>4 DEF FoldersKnown, SameCombos, SameSelections
    <3>3. RowsSound(u, p)
      BY <1>1, <2>4, FolderFacts DEF RowsSound
    <3> QED
      BY <1>1, <2>4, <3>1, <3>2, <3>3 DEF Showing
  <2> QED
    BY <1>3, <2>4, <2>5 DEF p
<1> QED
  BY <1>2, <1>3

LEMMA FillFacts ==
    ASSUME NEW u \in Ums, NEW p, Showing(u, p)
    PROVE  LET w == Fill(u, p, p.displayedFolder)
           IN  /\ Showing(u, w) /\ SameCombos(p, w) /\ SameSelections(p, w)
               /\ w.displayedFolder = p.displayedFolder /\ w.highlighted = p.highlighted
               /\ Len(w.heads) = Len(Folder(u, p))
               /\ \A m \in DOMAIN p.heads : w.heads[m] = p.heads[m]
               /\ IF p.heads = << >> /\ Folder(u, p) # << >> THEN Posted(w)
                  ELSE w.folderState = p.folderState /\ w.refreshes = p.refreshes
<1> DEFINE w == Fill(u, p, p.displayedFolder)
           f == AppendMessages(u, p, p.displayedFolder)
           folder == p.displayedFolder
<1>1. /\ Showing(u, f) /\ SameButRows(p, f)
      /\ Len(f.heads) = Len(Folder(u, p))
      /\ \A m \in DOMAIN p.heads : f.heads[m] = p.heads[m]
  BY Filled
<1>2. /\ folder \in DOMAIN u /\ folder \in DOMAIN p.folderState /\ ViewType(p)
      /\ p.folderState \in Seq(FolderStates) /\ p.heads \in Seq(Nat)
      /\ folder # 0
  BY DEF Showing, FoldersKnown, ViewType, Ums
<1>3. Folder(u, p) \in Seq(Texts) /\ Len(p.heads) <= Len(Folder(u, p))
  BY <1>2, FolderFacts DEF Folder, Showing, RowsSound
<1>4. Len(p.heads) < Len(Folder(u, p)) /\ p.rows = << >>
      <=> p.heads = << >> /\ Folder(u, p) # << >>
  <2>1. p.rows = << >> <=> p.heads = << >>
    BY RowsAndHeads
  <2> QED
    BY <1>2, <1>3, <2>1
<1>5. w = IF p.heads = << >> /\ Folder(u, p) # << >> THEN PostRefresh(f, folder) ELSE f
  BY <1>4 DEF Fill, Folder
<1> HIDE DEF f, w
<1>6. CASE p.heads = << >> /\ Folder(u, p) # << >>
  <2>1. w = PostRefresh(f, folder) /\ folder \in DOMAIN f.folderState /\ ViewType(f)
    BY <1>1, <1>2, <1>5, <1>6 DEF SameButRows, Showing
  <2>2. /\ SameCombos(f, w) /\ w.displayedFolder = f.displayedFolder
        /\ w.heads = f.heads /\ w.rows = f.rows /\ w.highlighted = f.highlighted
        /\ w.folderState \in Seq(FolderStates)
        /\ Len(w.folderState) = Len(f.folderState)
        /\ \A g \in DOMAIN f.folderState :
              /\ w.folderState[g].selectedMessage = f.folderState[g].selectedMessage
              /\ w.folderState[g].selectedRow = f.folderState[g].selectedRow
        /\ w.folderState[folder].refreshView
        /\ w.refreshes \in Nat \ {0}
    BY <2>1, PostRefreshFacts
  <2>3. /\ SameCombos(p, f) /\ f.displayedFolder = folder /\ f.highlighted = p.highlighted
        /\ f.folderState = p.folderState /\ f.refreshes = p.refreshes
    BY <1>1 DEF SameButRows
  <2>4. SameCombos(p, w) /\ w.displayedFolder = folder /\ w.highlighted = p.highlighted
    BY <2>2, <2>3 DEF SameCombos
  <2>5. SameSelections(p, w)
    BY <1>2, <2>2, <2>3 DEF SameSelections
  <2>6. Posted(w)
    BY <2>2, <2>4 DEF Posted
  <2>7. Showing(u, w)
    <3>1. ViewType(w)
      BY <1>1, <2>2 DEF Showing, ViewType, SameCombos
    <3>2. FoldersKnown(u, w)
      BY <1>1, <1>2, <2>2, <2>3, <2>5 DEF Showing, FoldersKnown, SameCombos, SameSelections
    <3>3. RowsSound(u, w)
      <4>1. RowsSound(u, f) /\ f.displayedFolder # 0
        BY <1>1 DEF Showing
      <4> QED
        BY <4>1, <2>2 DEF RowsSound
    <3> QED
      BY <1>2, <2>4, <3>1, <3>2, <3>3 DEF Showing
  <2> QED
    BY <1>1, <1>6, <2>2, <2>4, <2>5, <2>6, <2>7 DEF w
<1>7. CASE ~(p.heads = << >> /\ Folder(u, p) # << >>)
  <2>1. w = f
    BY <1>5, <1>7
  <2>2. SameSelections(p, f) /\ SameCombos(p, f)
    BY <1>1, <1>2 DEF SameButRows, SameSelections
  <2> QED
    BY <1>1, <1>7, <2>1, <2>2 DEF SameButRows, w
<1> QED
  BY <1>6, <1>7

LEMMA Display ==
    ASSUME NEW u \in Ums, NEW v, GridOK(u, v), NEW folder \in DOMAIN v.folderState
    PROVE  LET w == updateMessageDisplay(u, v, folder)
           IN  /\ GridOK(u, w) /\ SameCombos(v, w)
               /\ Len(w.folderState) = Len(v.folderState)
               /\ w.displayedFolder = folder
               /\ Len(w.heads) = Len(u[folder].messages)
               /\ Posted(w) \/ Undisturbed(v, w)
               /\ v.displayedFolder = folder /\ v.heads # << >> => Undisturbed(v, w)
<1> DEFINE p == PrepareFolder(u, v, folder)
           w == Fill(u, p, folder)
<1>0. folder # 0 /\ folder \in DOMAIN u /\ v.folderState \in Seq(FolderStates)
  <2>1. v.folderState \in Seq(FolderStates) /\ Len(v.folderState) <= Len(u)
    BY DEF GridOK, ViewType, FoldersKnown
  <2>2. folder \in 1..Len(v.folderState) /\ Len(v.folderState) \in Nat /\ Len(u) \in Nat
        /\ DOMAIN u = 1..Len(u)
    BY <2>1 DEF Ums
  <2> QED
    BY <2>1, <2>2
<1>1. updateMessageDisplay(u, v, folder) = w
  BY <1>0 DEF updateMessageDisplay
<1>2. /\ Showing(u, p) /\ SameCombos(v, p) /\ SameSelections(v, p)
      /\ p.displayedFolder = folder
      /\ v.displayedFolder = folder => p = v
      /\ v.displayedFolder # folder =>
            /\ p.heads = << >> /\ p.rows = << >> /\ p.highlighted = {}
            /\ u[folder].messages = << >> => Posted(p)
  BY PrepareFacts
<1> HIDE DEF p
<1>3. /\ Showing(u, w) /\ SameCombos(p, w) /\ SameSelections(p, w)
      /\ w.displayedFolder = folder /\ w.highlighted = p.highlighted
      /\ Len(w.heads) = Len(u[folder].messages)
      /\ \A m \in DOMAIN p.heads : w.heads[m] = p.heads[m]
      /\ IF p.heads = << >> /\ u[folder].messages # << >> THEN Posted(w)
         ELSE w.folderState = p.folderState /\ w.refreshes = p.refreshes
  BY <1>2, FillFacts DEF Folder
<1> HIDE DEF w
<1>4. SameCombos(v, w) /\ SameSelections(v, w)
  BY <1>2, <1>3 DEF SameCombos, SameSelections
<1>5. SelectionKept(u, w)
  <2>1. \A g \in DOMAIN w.folderState :
            w.folderState[g].selectedMessage <= Len(u[g].messages)
    BY <1>4 DEF SameSelections, GridOK, SelectionKept
  <2>2. StateOf(w).selectedMessage <= Len(w.heads)
    BY <1>3, <1>4, <2>1 DEF StateOf, SameSelections
  <2>3. ASSUME w.highlighted # {}
        PROVE  /\ StateOf(w).selectedMessage # 0
               /\ StateOf(w).selectedRow = w.heads[StateOf(w).selectedMessage]
               /\ w.highlighted = {StateOf(w).selectedRow}
    <3>1. p = v /\ v.displayedFolder = folder /\ v.highlighted # {}
      BY <1>2, <1>3, <2>3
    <3>2. /\ StateOf(v).selectedMessage # 0 /\ StateOf(v).selectedMessage <= Len(v.heads)
          /\ StateOf(v).selectedRow = v.heads[StateOf(v).selectedMessage]
          /\ v.highlighted = {StateOf(v).selectedRow}
      BY <1>0, <3>1 DEF GridOK, SelectionKept
    <3>3. /\ StateOf(w).selectedMessage = StateOf(v).selectedMessage
          /\ StateOf(w).selectedRow = StateOf(v).selectedRow
      BY <1>3, <1>4, <3>1 DEF StateOf, SameSelections
    <3>4. StateOf(v).selectedMessage \in DOMAIN v.heads
      <4>1. v.heads \in Seq(Nat) /\ v.folderState[folder] \in FolderStates
        BY <1>0, Element DEF GridOK, ViewType
      <4>2. StateOf(v).selectedMessage \in Nat
        BY <3>1, <4>1 DEF StateOf, FolderStates
      <4> QED
        BY <4>1, <4>2, <3>2
    <3>5. w.heads[StateOf(v).selectedMessage] = v.heads[StateOf(v).selectedMessage]
      BY <1>3, <3>1, <3>4
    <3> QED
      BY <1>3, <3>1, <3>2, <3>3, <3>5
  <2> QED
    BY <2>1, <2>2, <2>3 DEF SelectionKept
<1>6. GridOK(u, w)
  BY <1>3, <1>5 DEF GridOK, Showing
<1>7. Posted(w) \/ Undisturbed(v, w)
  <2>1. CASE p.heads = << >> /\ u[folder].messages # << >>
    BY <1>3, <2>1
  <2>2. CASE v.displayedFolder # folder /\ u[folder].messages = << >>
    <3>1. Posted(p) /\ w.folderState = p.folderState /\ w.refreshes = p.refreshes
      BY <1>2, <1>3, <2>2
    <3> QED
      BY <3>1, <1>2, <1>3 DEF Posted
  <2>3. CASE v.displayedFolder = folder /\ ~(p.heads = << >> /\ u[folder].messages # << >>)
    <3>1. /\ p = v /\ w.folderState = v.folderState /\ w.refreshes = v.refreshes
          /\ w.highlighted = v.highlighted
          /\ \A m \in DOMAIN v.heads : w.heads[m] = v.heads[m]
          /\ v.heads = << >> => u[folder].messages = << >>
      BY <1>2, <1>3, <2>3
    <3>2. v.heads \in Seq(Nat) /\ w.heads \in Seq(Nat)
      BY <1>3 DEF GridOK, Showing, ViewType
    <3>3. v.heads = << >> => w.heads = << >>
      BY <3>1, <3>2, <1>3
    <3>4. Len(v.heads) <= Len(w.heads)
      BY <1>0, <1>3, <2>3 DEF GridOK, RowsSound
    <3>5. w.heads = << >> => v.heads = << >>
      BY <3>2, <3>4
    <3> QED
      BY <3>1, <3>3, <3>4, <3>5, <1>3, <2>3 DEF Undisturbed
  <2> QED
    BY <1>2, <2>1, <2>2, <2>3
<1>8. ASSUME v.displayedFolder = folder, v.heads # << >> PROVE Undisturbed(v, w)
  <2>1. p = v /\ w.folderState = v.folderState /\ w.refreshes = v.refreshes
        /\ w.highlighted = v.highlighted
        /\ \A m \in DOMAIN v.heads : w.heads[m] = v.heads[m]
    BY <1>2, <1>3, <1>8
  <2>2. Len(v.heads) <= Len(w.heads)
    BY <1>0, <1>3, <1>8 DEF GridOK, RowsSound
  <2>3. v.heads \in Seq(Nat) /\ w.heads \in Seq(Nat)
    BY <1>3 DEF GridOK, Showing, ViewType
  <2>4. w.heads # << >>
    BY <1>8, <2>2, <2>3
  <2> QED
    BY <1>3, <1>8, <2>1, <2>2, <2>4 DEF Undisturbed
<1> QED
  BY <1>1, <1>3, <1>4, <1>6, <1>7, <1>8 DEF SameSelections

------------------------------------------------------------------------------
(* The combo box: its entries stay in the order of the folders. *)

LEMMA Inserted ==
    ASSUME NEW S, NEW s \in Seq(S), NEW i \in 1..(Len(s) + 1), NEW e \in S
    PROVE  LET t == InsertAt(s, i, e)
           IN  /\ t \in Seq(S) /\ Len(t) = Len(s) + 1
               /\ \A j \in 1..(i - 1) : t[j] = s[j]
               /\ t[i] = e
               /\ \A j \in (i + 1)..(Len(s) + 1) : t[j] = s[j - 1]
<1> DEFINE a == SubSeq(s, 1, i - 1)
           b == SubSeq(s, i, Len(s))
<1>0. Len(s) \in Nat /\ i \in Nat /\ 1 <= i /\ i <= Len(s) + 1
  OBVIOUS
<1>1. a \in Seq(S) /\ Len(a) = i - 1 /\ \A j \in 1..(i - 1) : a[j] = s[j]
  BY <1>0
<1>2. b \in Seq(S) /\ Len(b) = Len(s) - i + 1 /\ \A j \in 1..(Len(s) - i + 1) : b[j] = s[i + j - 1]
  BY <1>0
<1>3. <<e>> \in Seq(S) /\ Len(<<e>>) = 1 /\ <<e>>[1] = e
  OBVIOUS
<1> HIDE DEF a, b
<1>j. \A x, y \in Seq(S) :
          /\ x \o y \in Seq(S)
          /\ Len(x \o y) = Len(x) + Len(y)
          /\ \A k \in 1..Len(x) : (x \o y)[k] = x[k]
          /\ \A k \in 1..Len(y) : (x \o y)[Len(x) + k] = y[k]
  BY Joined
<1> DEFINE c == a \o <<e>>
<1>4. c \in Seq(S) /\ Len(c) = i /\ (\A j \in 1..(i - 1) : c[j] = s[j]) /\ c[i] = e
  <2>1. /\ c \in Seq(S) /\ Len(c) = Len(a) + Len(<<e>>)
        /\ \A k \in 1..Len(a) : c[k] = a[k]
        /\ \A k \in 1..Len(<<e>>) : c[Len(a) + k] = <<e>>[k]
    BY <1>1, <1>3, <1>j, Zenon
  <2> HIDE DEF c
  <2>2. c[i - 1 + 1] = e /\ i - 1 + 1 = i
    <3>1. 1 \in 1..Len(<<e>>)
      BY <1>3
    <3>2. c[Len(a) + 1] = e
      BY <2>1, <3>1, <1>3
    <3> QED
      BY <3>2, <1>1, <1>0
  <2> QED
    BY <1>0, <1>1, <1>3, <2>1, <2>2
<1> HIDE DEF c
<1> DEFINE t == c \o b
<1>5. /\ t \in Seq(S) /\ Len(t) = Len(c) + Len(b)
      /\ \A k \in 1..Len(c) : t[k] = c[k]
      /\ \A k \in 1..Len(b) : t[Len(c) + k] = b[k]
  BY <1>2, <1>4, <1>j, Zenon
<1>6. InsertAt(s, i, e) = t
  BY DEF InsertAt, t, c, a, b
<1> HIDE DEF t
<1>7. ASSUME NEW j \in (i + 1)..(Len(s) + 1) PROVE t[j] = s[j - 1]
  <2>1. j - i \in 1..Len(b) /\ i + (j - i) = j /\ i + (j - i) - 1 = j - 1 /\ Len(c) + (j - i) = j
    BY <1>0, <1>2, <1>4
  <2>2. t[Len(c) + (j - i)] = b[j - i]
    BY <1>5, <2>1
  <2>3. b[j - i] = s[i + (j - i) - 1]
    BY <1>2, <2>1
  <2> QED
    BY <2>1, <2>2, <2>3
<1>8. t \in Seq(S) /\ Len(t) = Len(s) + 1
  BY <1>0, <1>2, <1>4, <1>5
<1>9. \A j \in 1..(i - 1) : t[j] = s[j]
  BY <1>0, <1>4, <1>5
<1>10. t[i] = e
  BY <1>0, <1>4, <1>5
<1> QED
  BY <1>6, <1>7, <1>8, <1>9, <1>10

Entries == Seq([folder : Nat, count : Nat])

\* The entries of the combo box, as the maps have them.
LEMMA MapsFacts ==
    ASSUME NEW v, ViewType(v), MapsSound(v)
    PROVE  /\ v.items \in Entries /\ Len(v.items) \in Nat
           /\ DOMAIN v.items = 1..Len(v.items) /\ DOMAIN v.combo2folder = 1..Len(v.items)
           /\ \A c \in 1..Len(v.items) :
                 /\ v.items[c].folder \in Nat /\ v.items[c].count \in Nat
                 /\ v.combo2folder[c] = v.items[c].folder
                 /\ v.items[c].folder \in DOMAIN v.folder2combo
                 /\ v.folder2combo[v.items[c].folder] = c
           /\ \A c, d \in 1..Len(v.items) :
                 c < d => v.items[c].folder < v.items[d].folder
           /\ \A g \in DOMAIN v.folder2combo :
                 /\ v.folder2combo[g] \in 1..Len(v.items)
                 /\ v.items[v.folder2combo[g]].folder = g
                 /\ g \in Nat
<1>1. /\ v.items \in Entries /\ Len(v.items) \in Nat /\ DOMAIN v.items = 1..Len(v.items)
      /\ DOMAIN v.combo2folder = 1..Len(v.items)
  BY DEF ViewType, MapsSound, Entries
<1>2. \A c \in 1..Len(v.items) : v.items[c] \in [folder : Nat, count : Nat]
  BY <1>1, Element DEF Entries
<1>3. \A c \in 1..Len(v.items) : v.combo2folder[c] = v.items[c].folder
  BY <1>1 DEF MapsSound
<1>4. ASSUME NEW c \in 1..Len(v.items), NEW d \in 1..Len(v.items), c < d
      PROVE  v.items[c].folder < v.items[d].folder
  BY <1>1, <1>4 DEF MapsSound
<1>5. ASSUME NEW g \in DOMAIN v.folder2combo
      PROVE  /\ v.folder2combo[g] \in 1..Len(v.items)
             /\ v.items[v.folder2combo[g]].folder = g
             /\ g \in Nat
  <2>1. v.folder2combo[g] \in 1..Len(v.items) /\ v.combo2folder[v.folder2combo[g]] = g
    BY <1>1 DEF MapsSound
  <2>2. v.items[v.folder2combo[g]].folder \in Nat
    BY <2>1, <1>2
  <2> QED
    BY <2>1, <2>2, <1>3
<1>6. ASSUME NEW c \in 1..Len(v.items)
      PROVE  v.items[c].folder \in DOMAIN v.folder2combo /\ v.folder2combo[v.items[c].folder] = c
  <2> DEFINE g == v.items[c].folder
             d == v.folder2combo[g]
  <2>1. g \in DOMAIN v.folder2combo
    BY <1>1, <1>3 DEF MapsSound, Range
  <2>2. d \in 1..Len(v.items) /\ v.items[d].folder = g
    BY <1>5, <2>1
  <2> HIDE DEF d
  <2>3. v.items[c].folder \in Nat
    BY <1>2
  <2>4. ~(c < d) /\ ~(d < c)
    BY <1>4, <2>2, <2>3
  <2>5. c = d
    BY <2>2, <2>4
  <2> QED
    BY <2>1, <2>5 DEF d
<1> QED
  BY <1>1, <1>2, <1>3, <1>4, <1>5, <1>6

\* Where a folder goes that has no entry yet.
Before(v, folder) == {g \in DOMAIN v.folder2combo : g < folder}
Later(v, folder) == {g \in DOMAIN v.folder2combo : g > folder}
Position(v, folder) ==
    IF Before(v, folder) = {} THEN 1 ELSE v.folder2combo[Max(Before(v, folder))] + 1
MovedCombos(v, folder) == {v.folder2combo[g] : g \in Later(v, folder)}

LEMMA PositionFacts ==
    ASSUME NEW v, ViewType(v), MapsSound(v), NEW folder \in Nat, folder \notin DOMAIN v.folder2combo
    PROVE  /\ Position(v, folder) \in 1..(Len(v.items) + 1)
           /\ \A c \in 1..Len(v.items) :
                 /\ c < Position(v, folder) => v.items[c].folder < folder
                 /\ c >= Position(v, folder) => v.items[c].folder > folder
           /\ MovedCombos(v, folder) = Position(v, folder)..Len(v.items)
<1> DEFINE n == Len(v.items)
           before == Before(v, folder)
           p == Position(v, folder)
<1>1. /\ n \in Nat
      /\ \A c \in 1..n :
            /\ v.items[c].folder \in Nat
            /\ v.items[c].folder \in DOMAIN v.folder2combo
            /\ v.folder2combo[v.items[c].folder] = c
      /\ \A c, d \in 1..n : c < d => v.items[c].folder < v.items[d].folder
      /\ \A g \in DOMAIN v.folder2combo :
            /\ v.folder2combo[g] \in 1..n
            /\ v.items[v.folder2combo[g]].folder = g
            /\ g \in Nat
  BY MapsFacts
<1> HIDE DEF n
<1>2. /\ p \in 1..(n + 1)
      /\ \A c \in 1..n : /\ c < p => v.items[c].folder < folder
                         /\ c >= p => v.items[c].folder > folder
  <2>1. CASE before = {}
    <3>1. p = 1
      BY <2>1 DEF Position
    <3>2. ASSUME NEW c \in 1..n PROVE v.items[c].folder > folder
      <4>1. v.items[c].folder \notin before /\ v.items[c].folder # folder
        BY <1>1, <2>1
      <4>2. ~(v.items[c].folder < folder)
        BY <1>1, <4>1 DEF Before
      <4> QED
        BY <1>1, <4>1, <4>2
    <3> QED
      BY <1>1, <3>1, <3>2
  <2>2. CASE before # {}
    <3> DEFINE m == Max(before)
    <3>1. m \in before /\ \A g \in before : g <= m
      <4>1. before \subseteq Nat /\ \A g \in before : g <= folder
        BY <1>1 DEF Before
      <4> HIDE DEF before
      <4> QED
        BY <4>1, <2>2, Greatest
    <3>2. p = v.folder2combo[m] + 1
      BY <2>2 DEF Position
    <3> HIDE DEF m, p
    <3>3. m \in DOMAIN v.folder2combo /\ m < folder /\ m \in Nat
          /\ v.folder2combo[m] \in 1..n /\ v.items[v.folder2combo[m]].folder = m
      BY <3>1, <1>1 DEF Before
    <3>4. ASSUME NEW c \in 1..n, c < p PROVE v.items[c].folder < folder
      <4>1. c < v.folder2combo[m] \/ c = v.folder2combo[m]
        BY <3>2, <3>3, <3>4, <1>1
      <4>2. v.items[c].folder <= m
        <5>1. CASE c < v.folder2combo[m]
          <6>1. v.items[c].folder < v.items[v.folder2combo[m]].folder
            BY <5>1, <3>3, <1>1
          <6>2. v.items[c].folder \in Nat
            BY <1>1
          <6>3. v.items[c].folder < m
            BY <6>1, <3>3
          <6> QED
            BY <6>2, <6>3, <3>3
        <5>2. CASE c = v.folder2combo[m]
          BY <5>2, <3>3
        <5> QED
          BY <4>1, <5>1, <5>2
      <4>3. v.items[c].folder \in Nat
        BY <1>1
      <4> QED
        BY <4>2, <4>3, <3>3
    <3>5. ASSUME NEW c \in 1..n, c >= p PROVE v.items[c].folder > folder
      <4>1. v.folder2combo[m] < c
        BY <3>2, <3>3, <3>5, <1>1
      <4>2. m < v.items[c].folder
        BY <4>1, <3>3, <1>1
      <4>3. v.items[c].folder \notin before
        BY <4>2, <3>1, <3>3, <1>1
      <4>4. v.items[c].folder # folder /\ ~(v.items[c].folder < folder)
        BY <4>3, <1>1 DEF Before
      <4> QED
        BY <4>4, <1>1
    <3>6. p \in 1..(n + 1)
      <4>1. v.folder2combo[m] \in 1..n /\ n \in Nat
        BY <3>3, <1>1
      <4> QED
        BY <4>1, <3>2
    <3> QED
      BY <3>4, <3>5, <3>6
  <2> QED
    BY <2>1, <2>2
<1> HIDE DEF p
<1>3. ASSUME NEW c \in p..n PROVE c \in MovedCombos(v, folder)
  <2>1. c \in 1..n /\ c >= p
    BY <1>1, <1>2
  <2>2. v.items[c].folder \in Later(v, folder)
    BY <1>1, <1>2, <2>1 DEF Later
  <2>3. c = v.folder2combo[v.items[c].folder]
    BY <1>1, <2>1
  <2> QED
    BY <2>2, <2>3 DEF MovedCombos
<1>4. ASSUME NEW c \in MovedCombos(v, folder) PROVE c \in p..n
  <2>1. PICK g \in Later(v, folder) : c = v.folder2combo[g]
    BY DEF MovedCombos
  <2>2. c \in 1..n /\ v.items[c].folder = g /\ g > folder /\ g \in Nat
    BY <1>1, <2>1 DEF Later
  <2>3. ~(c < p)
    BY <1>2, <2>2
  <2> QED
    BY <1>1, <1>2, <2>2, <2>3
<1>5. MovedCombos(v, folder) = p..n
  BY <1>3, <1>4
<1> QED
  BY <1>2, <1>5 DEF p, n

\* What the steps on the combo box leave alone.
SameGrid(v, w) ==
    /\ DOMAIN w = DOMAIN v
    /\ w.displayedFolder = v.displayedFolder /\ w.selectedFolder = v.selectedFolder
    /\ w.heads = v.heads /\ w.rows = v.rows /\ w.highlighted = v.highlighted
    /\ w.folderState = v.folderState /\ w.refreshes = v.refreshes
    /\ w.messagesAdded = v.messagesAdded

LEMMA Shifted ==
    ASSUME NEW n \in Nat, NEW p \in 1..(n + 1)
    PROVE  {m + 1 : m \in p..n} = (p + 1)..(n + 1)
<1>1. ASSUME NEW x \in (p + 1)..(n + 1) PROVE x \in {m + 1 : m \in p..n}
  <2>1. x - 1 \in p..n /\ x = (x - 1) + 1
    OBVIOUS
  <2> QED
    BY <2>1
<1>2. ASSUME NEW m \in p..n PROVE m + 1 \in (p + 1)..(n + 1)
  OBVIOUS
<1> QED
  BY <1>1, <1>2

LEMMA Widened ==
    ASSUME NEW n \in Nat, NEW p \in 1..(n + 1)
    PROVE  ((1..n) \ (p..n)) \cup ((p + 1)..(n + 1)) \cup {p} = 1..(n + 1)
OBVIOUS

LEMMA PlaceFacts ==
    ASSUME NEW v, ViewType(v), MapsSound(v), NEW folder \in Nat, folder \notin DOMAIN v.folder2combo
    PROVE  LET w == Place(v, folder)
           IN  /\ ViewType(w) /\ MapsSound(w) /\ SameGrid(v, w)
               /\ DOMAIN w.folder2combo = DOMAIN v.folder2combo \cup {folder}
               /\ w.currentItem = IF v.items = << >> THEN 1 ELSE v.currentItem
<1> DEFINE n == Len(v.items)
           p == Position(v, folder)
           w == Place(v, folder)
           F == [g \in DOMAIN v.folder2combo \cup {folder} |->
                    IF g = folder THEN p
                    ELSE IF g \in Later(v, folder) THEN v.folder2combo[g] + 1
                    ELSE v.folder2combo[g]]
           moved == MovedCombos(v, folder)
           C == [c \in (DOMAIN v.combo2folder \ moved) \cup {m + 1 : m \in moved} \cup {p} |->
                    IF c = p THEN folder
                    ELSE IF c - 1 \in moved THEN v.combo2folder[c - 1] ELSE v.combo2folder[c]]
           entry == [folder |-> folder, count |-> 0]
           I == InsertAt(v.items, p, entry)
<1>1. DOMAIN v = Fields
  BY FieldsOfView DEF ViewType
<1>2. /\ w.folder2combo = F /\ w.combo2folder = C /\ w.items = I
      /\ w.currentItem = IF v.items = << >> THEN 1 ELSE v.currentItem
      /\ SameGrid(v, w)
  BY <1>1 DEF Place, InsertItem, SameGrid, Fields, Before, Later, Position, MovedCombos
<1>3. /\ p \in 1..(n + 1)
      /\ \A c \in 1..n : /\ c < p => v.items[c].folder < folder
                         /\ c >= p => v.items[c].folder > folder
      /\ moved = p..n
  BY PositionFacts
<1>4. /\ v.items \in Entries /\ n \in Nat
      /\ DOMAIN v.items = 1..n /\ DOMAIN v.combo2folder = 1..n
      /\ \A c \in 1..n :
            /\ v.items[c].folder \in Nat
            /\ v.combo2folder[c] = v.items[c].folder
            /\ v.items[c].folder \in DOMAIN v.folder2combo
            /\ v.folder2combo[v.items[c].folder] = c
      /\ \A c, d \in 1..n : c < d => v.items[c].folder < v.items[d].folder
      /\ \A g \in DOMAIN v.folder2combo :
            /\ v.folder2combo[g] \in 1..n
            /\ v.items[v.folder2combo[g]].folder = g
            /\ g \in Nat
  BY MapsFacts
<1>5. entry \in [folder : Nat, count : Nat] /\ entry.folder = folder
  OBVIOUS
<1> HIDE DEF p, w, moved, entry, n
<1>6. /\ I \in Entries /\ Len(I) = n + 1 /\ DOMAIN I = 1..(n + 1)
      /\ \A j \in 1..(p - 1) : I[j] = v.items[j]
      /\ I[p] = entry
      /\ \A j \in (p + 1)..(n + 1) : I[j] = v.items[j - 1]
  <2>1. /\ I \in Entries /\ Len(I) = n + 1
        /\ \A j \in 1..(p - 1) : I[j] = v.items[j]
        /\ I[p] = entry
        /\ \A j \in (p + 1)..(n + 1) : I[j] = v.items[j - 1]
    <3>1. p \in 1..(Len(v.items) + 1)
      BY <1>3 DEF n
    <3>2. v.items \in Seq([folder : Nat, count : Nat])
      BY <1>4 DEF Entries
    <3>3. /\ I \in Seq([folder : Nat, count : Nat]) /\ Len(I) = Len(v.items) + 1
          /\ \A j \in 1..(p - 1) : I[j] = v.items[j]
          /\ I[p] = entry
          /\ \A j \in (p + 1)..(Len(v.items) + 1) : I[j] = v.items[j - 1]
      <4> DEFINE S == [folder : Nat, count : Nat]
      <4>1. v.items \in Seq(S) /\ entry \in S
        BY <1>5, <3>2
      <4> HIDE DEF S
      <4>2. /\ I \in Seq(S) /\ Len(I) = Len(v.items) + 1
            /\ \A j \in 1..(p - 1) : I[j] = v.items[j]
            /\ I[p] = entry
            /\ \A j \in (p + 1)..(Len(v.items) + 1) : I[j] = v.items[j - 1]
        <5>1. \A s \in Seq(S) : \A e \in S : \A i \in 1..(Len(s) + 1) :
                 LET t == InsertAt(s, i, e)
                 IN  /\ t \in Seq(S) /\ Len(t) = Len(s) + 1
                     /\ \A j \in 1..(i - 1) : t[j] = s[j]
                     /\ t[i] = e
                     /\ \A j \in (i + 1)..(Len(s) + 1) : t[j] = s[j - 1]
          <6> TAKE s \in Seq(S)
          <6> TAKE e \in S
          <6> TAKE i \in 1..(Len(s) + 1)
          <6> QED
            BY ONLY s \in Seq(S), e \in S, i \in 1..(Len(s) + 1), Inserted
        <5> QED
          BY <3>1, <4>1, <5>1, ZenonT(60)
      <4> QED
        BY <4>2 DEF S
    <3> HIDE DEF I
    <3> QED
      BY <3>3 DEF Entries, n
  <2> HIDE DEF I
  <2> QED
    BY <2>1, <1>4 DEF Entries
<1>7. DOMAIN C = 1..(n + 1)
  <2>1. {m + 1 : m \in p..n} = (p + 1)..(n + 1)
    BY <1>3, <1>4, Shifted
  <2>2. DOMAIN C = (1..n \ (p..n)) \cup (p + 1)..(n + 1) \cup {p}
    BY <1>3, <1>4, <2>1
  <2>3. ((1..n) \ (p..n)) \cup ((p + 1)..(n + 1)) \cup {p} = 1..(n + 1)
    BY <1>3, <1>4, Widened
  <2> QED
    BY <2>2, <2>3
<1>8. ASSUME NEW c \in 1..(n + 1)
      PROVE  C[c] = I[c].folder /\ I[c].folder \in Nat
  <2>1. CASE c = p
    BY <2>1, <1>5, <1>6, <1>7
  <2>2. CASE c < p
    <3>1. c \in 1..(p - 1) /\ c \in 1..n /\ c - 1 \notin moved /\ c # p
      BY <2>2, <1>3, <1>4
    <3> QED
      BY <3>1, <1>4, <1>6, <1>7
  <2>3. CASE c > p
    <3>1. c \in (p + 1)..(n + 1) /\ c - 1 \in 1..n /\ c - 1 \in moved /\ c # p
      BY <2>3, <1>3, <1>4
    <3>2. I[c] = v.items[c - 1]
      BY <3>1, <1>6
    <3>3. C[c] = v.combo2folder[c - 1]
      BY <3>1, <1>7
    <3>4. v.combo2folder[c - 1] = v.items[c - 1].folder /\ v.items[c - 1].folder \in Nat
      BY <3>1, <1>4
    <3> QED
      BY <3>2, <3>3, <3>4
  <2> QED
    BY <2>1, <2>2, <2>3, <1>3, <1>4
<1>9. ASSUME NEW c \in 1..(n + 1), NEW d \in 1..(n + 1), c < d
      PROVE  I[c].folder < I[d].folder
  <2>1. CASE c < p
    <3>1. c \in 1..(p - 1) /\ c \in 1..n /\ I[c] = v.items[c] /\ v.items[c].folder < folder
      BY <2>1, <1>3, <1>4, <1>6
    <3>2. CASE d < p
      <4>1. d \in 1..(p - 1) /\ d \in 1..n
        BY <3>2, <1>3, <1>4
      <4>2. I[d] = v.items[d]
        BY <4>1, <1>6
      <4> QED
        BY <3>1, <4>1, <4>2, <1>4, <1>9
    <3>3. CASE d = p
      BY <3>1, <3>3, <1>5, <1>6
    <3>4. CASE d > p
      <4>1. d \in (p + 1)..(n + 1) /\ d - 1 \in 1..n /\ d - 1 >= p
        BY <3>4, <1>3, <1>4
      <4>2. I[d] = v.items[d - 1] /\ v.items[d - 1].folder > folder
        BY <4>1, <1>3, <1>6
      <4>3. v.items[c].folder \in Nat /\ v.items[d - 1].folder \in Nat
        BY <3>1, <4>1, <1>4
      <4>4. v.items[c].folder < v.items[d - 1].folder
        BY <3>1, <4>2, <4>3
      <4> QED
        BY <3>1, <4>2, <4>4
    <3> QED
      BY <3>2, <3>3, <3>4, <1>3, <1>4
  <2>2. CASE c = p
    <3>1. d \in (p + 1)..(n + 1) /\ d - 1 \in 1..n /\ d - 1 >= p
      BY <2>2, <1>3, <1>4, <1>9
    <3>2. I[d] = v.items[d - 1] /\ v.items[d - 1].folder > folder
      BY <3>1, <1>3, <1>6
    <3> QED
      BY <2>2, <3>1, <3>2, <1>4, <1>5, <1>6
  <2>3. CASE c > p
    <3>1. /\ c \in (p + 1)..(n + 1) /\ c - 1 \in 1..n
          /\ d \in (p + 1)..(n + 1) /\ d - 1 \in 1..n /\ c - 1 < d - 1
      BY <2>3, <1>3, <1>4, <1>9
    <3> QED
      BY <3>1, <1>4, <1>6
  <2> QED
    BY <2>1, <2>2, <2>3, <1>3, <1>4
<1>10. ASSUME NEW g \in DOMAIN v.folder2combo \cup {folder}
       PROVE  F[g] \in 1..(n + 1) /\ I[F[g]].folder = g
  <2>1. CASE g = folder
    BY <2>1, <1>3, <1>5, <1>6
  <2>2. CASE g # folder
    <3> DEFINE c == v.folder2combo[g]
    <3>1. c \in 1..n /\ v.items[c].folder = g /\ g \in Nat /\ g \in DOMAIN v.folder2combo
      BY <2>2, <1>4
    <3>2. CASE g > folder
      <4>1. F[g] = c + 1
        BY <2>2, <3>1, <3>2 DEF Later
      <4>2. ~(c < p)
        BY <3>1, <3>2, <1>3
      <4>3. c + 1 \in (p + 1)..(n + 1) /\ c + 1 - 1 = c /\ c + 1 \in 1..(n + 1)
        <5>1. c \in 1..n /\ p \in 1..(n + 1) /\ n \in Nat
          BY <3>1, <1>3, <1>4
        <5> HIDE DEF c
        <5> QED
          BY <4>2, <5>1
      <4>4. I[c + 1] = v.items[c]
        <5> HIDE DEF c, I
        <5>1. c + 1 \in (p + 1)..(n + 1)
          BY <4>3
        <5>2. \A j \in (p + 1)..(n + 1) : I[j] = v.items[j - 1]
          BY <1>6
        <5>3. PICK d \in (p + 1)..(n + 1) : d = c + 1
          BY <5>1
        <5>4. I[d] = v.items[d - 1]
          BY <5>2
        <5>5. d - 1 = c
          BY <4>3, <5>3, <3>1, <1>4
        <5> QED
          BY <5>3, <5>4, <5>5
      <4> QED
        BY <4>1, <4>3, <4>4, <3>1
    <3>3. CASE ~(g > folder)
      <4>1. F[g] = c
        BY <2>2, <3>1, <3>3 DEF Later
      <4>2. ~(c >= p)
        BY <3>1, <3>3, <1>3
      <4>3. c \in 1..(p - 1) /\ c \in 1..(n + 1)
        BY <4>2, <3>1, <1>3, <1>4
      <4>4. I[c] = v.items[c]
        BY <4>3, <1>6
      <4> QED
        BY <4>1, <4>3, <4>4, <3>1
    <3> QED
      BY <3>2, <3>3
  <2> QED
    BY <2>1, <2>2
<1>11. DOMAIN F = DOMAIN v.folder2combo \cup {folder}
  OBVIOUS
<1> HIDE DEF F, C, I
<1>12. MapsSound(w)
  <2>1. DOMAIN w.combo2folder = DOMAIN w.items
    BY <1>2, <1>6, <1>7
  <2>2. Range(w.combo2folder) = DOMAIN w.folder2combo
    <3>1. ASSUME NEW c \in 1..(n + 1) PROVE C[c] \in DOMAIN F
      <4>1. CASE c = p
        BY <4>1, <1>5, <1>6, <1>8, <1>11
      <4>2. CASE c < p
        <5>1. c \in 1..(p - 1) /\ c \in 1..n
          BY <4>2, <1>3, <1>4
        <5>2. C[c] = v.items[c].folder
          BY <5>1, <1>6, <1>8
        <5> QED
          BY <5>1, <5>2, <1>4, <1>11
      <4>3. CASE c > p
        <5>1. c \in (p + 1)..(n + 1) /\ c - 1 \in 1..n
          BY <4>3, <1>3, <1>4
        <5>2. C[c] = v.items[c - 1].folder
          BY <5>1, <1>6, <1>8
        <5> QED
          BY <5>1, <5>2, <1>4, <1>11
      <4> QED
        BY <4>1, <4>2, <4>3, <1>3, <1>4
    <3>2. ASSUME NEW g \in DOMAIN F PROVE \E c \in 1..(n + 1) : C[c] = g
      BY <1>8, <1>10, <1>11
    <3>3. Range(C) = DOMAIN F
      BY <3>1, <3>2, <1>7 DEF Range
    <3> QED
      BY <3>3, <1>2
  <2>3. ASSUME NEW g \in DOMAIN w.folder2combo
        PROVE  /\ w.folder2combo[g] \in DOMAIN w.items
               /\ w.combo2folder[w.folder2combo[g]] = g
    BY <1>2, <1>6, <1>8, <1>10, <1>11
  <2>4. ASSUME NEW c \in DOMAIN w.items
        PROVE  /\ w.items[c].folder = w.combo2folder[c]
               /\ \A d \in c + 1..Len(w.items) : w.items[c].folder < w.items[d].folder
    <3>1. c \in 1..(n + 1) /\ w.items = I /\ w.combo2folder = C /\ Len(I) = n + 1
      BY <1>2, <1>6
    <3>2. ASSUME NEW d \in c + 1..(n + 1) PROVE d \in 1..(n + 1) /\ c < d
      BY <3>1, <1>4
    <3> QED
      BY <3>1, <3>2, <1>8, <1>9
  <2> QED
    BY <2>1, <2>2, <2>3, <2>4 DEF MapsSound
<1>13. ViewType(w)
  <2>1. w.currentItem \in 0..Len(w.items)
    <3>1. v.currentItem \in 0..n
      BY DEF ViewType, n
    <3> QED
      BY <3>1, <1>2, <1>4, <1>6
  <2> QED
    BY <1>2, <1>6, <2>1 DEF ViewType, SameGrid, Entries
<1> QED
  BY <1>2, <1>11, <1>12, <1>13 DEF w
------------------------------------------------------------------------------
(* A folder's entry is drawn: its messages stay as they are, and if no folder is  *)
(* selected yet it may be the first.                                              *)

ViewGood(u, v) == ViewType(v) /\ ViewSound(u, v)

\* The folder shown is as it was, or it has become another one, or got its first messages,
\* and is to be refreshed.
Step(v, w) ==
    /\ Len(w.folderState) = Len(v.folderState)
    /\ Undisturbed(v, w) \/ (Posted(w) /\ v.heads = << >>)

LEMMA StepAgain ==
    ASSUME NEW v, NEW w, NEW x, Step(v, w), Step(w, x),
           ViewType(v), ViewType(w), ViewType(x)
    PROVE  Step(v, x)
<1>1. /\ Len(x.folderState) = Len(v.folderState)
      /\ v.heads \in Seq(Nat) /\ w.heads \in Seq(Nat) /\ x.heads \in Seq(Nat)
  BY DEF Step, ViewType
<1>2. CASE Undisturbed(v, w) /\ Undisturbed(w, x)
  <2>1. DOMAIN v.heads \subseteq DOMAIN w.heads /\ Len(v.heads) <= Len(x.heads)
    BY <1>1, <1>2 DEF Undisturbed
  <2> QED
    BY <1>1, <1>2, <2>1 DEF Step, Undisturbed
<1>3. CASE Undisturbed(v, w) /\ Posted(x) /\ w.heads = << >>
  BY <1>1, <1>3 DEF Step, Undisturbed
<1>4. CASE Posted(w) /\ v.heads = << >> /\ Undisturbed(w, x)
  <2>1. Posted(x)
    BY <1>4 DEF Posted, Undisturbed
  <2> QED
    BY <1>1, <1>4, <2>1 DEF Step
<1>5. CASE Posted(w) /\ v.heads = << >> /\ Posted(x)
  BY <1>1, <1>5 DEF Step
<1> QED
  BY <1>2, <1>3, <1>4, <1>5 DEF Step

LEMMA GridKept ==
    ASSUME NEW u, NEW v, NEW w, GridOK(u, v), SameGrid(v, w), ViewType(w),
           \A c \in DOMAIN w.items : w.items[c].folder \in DOMAIN w.folderState
    PROVE  GridOK(u, w) /\ Undisturbed(v, w)
<1>1. w.heads \in Seq(Nat)
  BY DEF ViewType
<1>2. Undisturbed(v, w)
  BY <1>1 DEF Undisturbed, SameGrid
<1>3. FoldersKnown(u, w)
  BY DEF GridOK, FoldersKnown, SameGrid
<1>4. RowsSound(u, w)
  BY DEF GridOK, RowsSound, SameGrid
<1>5. SelectionKept(u, w)
  BY DEF GridOK, SelectionKept, SameGrid, StateOf
<1> QED
  BY <1>2, <1>3, <1>4, <1>5 DEF GridOK

LEMMA HandlerFacts ==
    ASSUME NEW u \in Ums, NEW v, GridOK(u, v), MapsSound(v),
           v.selectedFolder = v.displayedFolder, NEW combo \in DOMAIN v.items
    PROVE  LET w == messageFolderSelectedHandler(u, v, combo)
           IN  /\ ViewGood(u, w) /\ Len(w.folderState) = Len(v.folderState)
               /\ w.displayedFolder # None
               /\ Posted(w) \/ Undisturbed(v, w)
               /\ w.selectedFolder = v.items[combo].folder
<1> DEFINE w == messageFolderSelectedHandler(u, v, combo)
           folder == v.combo2folder[combo]
           c == [v EXCEPT !.currentItem = combo, !.selectedFolder = folder]
<1>1. ViewType(v) /\ DOMAIN v = Fields
  BY FieldsOfView DEF GridOK, ViewType
<1>2. /\ folder = v.items[combo].folder
      /\ combo \in 1..Len(v.items) /\ combo \in Nat /\ combo # 0
      /\ Len(v.items) \in Nat
      /\ folder \in DOMAIN v.folderState /\ folder # 0
  <2>1. /\ v.items \in Entries /\ Len(v.items) \in Nat
        /\ DOMAIN v.items = 1..Len(v.items)
        /\ \A d \in 1..Len(v.items) : v.combo2folder[d] = v.items[d].folder
    BY <1>1, MapsFacts
  <2>2. v.items[combo].folder \in DOMAIN v.folderState /\ v.folderState \in Seq(FolderStates)
    BY DEF GridOK, FoldersKnown, ViewType
  <2>3. v.items[combo].folder # 0
    BY <2>2
  <2>4. combo \in 1..Len(v.items) /\ folder = v.items[combo].folder
    BY <2>1
  <2>5. combo \in Nat /\ combo # 0
    BY <2>1, <2>4
  <2> QED
    BY <2>1, <2>2, <2>3, <2>4, <2>5
<1>3. /\ DOMAIN c = Fields
      /\ c.currentItem = combo /\ c.selectedFolder = folder
      /\ c.folder2combo = v.folder2combo /\ c.combo2folder = v.combo2folder
      /\ c.items = v.items /\ c.displayedFolder = v.displayedFolder
      /\ c.heads = v.heads /\ c.rows = v.rows /\ c.highlighted = v.highlighted
      /\ c.folderState = v.folderState /\ c.refreshes = v.refreshes
      /\ c.messagesAdded = v.messagesAdded
  BY <1>1 DEF Fields
<1>4. w = IF v.selectedFolder = folder THEN c ELSE updateMessageDisplay(u, c, folder)
  BY DEF messageFolderSelectedHandler
<1> HIDE DEF folder, c, w
<1>5. ViewType(c) /\ MapsSound(c)
  <2>1. combo \in 0..Len(v.items)
    BY <1>2
  <2>2. ViewType(c)
    BY <1>1, <1>3, <2>1, FieldsOfView DEF ViewType
  <2>3. MapsSound(c)
    BY <1>3 DEF MapsSound
  <2> QED
    BY <2>2, <2>3
<1>6. GridOK(u, c) /\ Undisturbed(v, c)
  <2>1. FoldersKnown(u, c) /\ RowsSound(u, c) /\ SelectionKept(u, c)
    BY <1>3 DEF GridOK, FoldersKnown, RowsSound, SelectionKept, StateOf
  <2>2. c.heads \in Seq(Nat)
    BY <1>5 DEF ViewType
  <2> QED
    BY <1>3, <1>5, <2>1, <2>2 DEF GridOK, Undisturbed
<1>7. CASE v.selectedFolder = folder
  <2>1. w = c /\ c.displayedFolder = folder
    BY <1>3, <1>4, <1>7
  <2>2. ComboSound(c)
    BY <1>2, <1>3, <1>5, <2>1 DEF ComboSound
  <2> QED
    BY <1>2, <1>3, <1>6, <2>1, <2>2 DEF ViewGood, ViewSound, GridOK, w, folder
<1>8. CASE v.selectedFolder # folder
  <2>1. w = updateMessageDisplay(u, c, folder) /\ folder \in DOMAIN c.folderState
    BY <1>2, <1>3, <1>4, <1>8
  <2>2. /\ GridOK(u, w) /\ SameCombos(c, w)
        /\ Len(w.folderState) = Len(c.folderState)
        /\ w.displayedFolder = folder
        /\ Posted(w) \/ Undisturbed(c, w)
    BY <1>6, <2>1, Display
  <2>3. MapsSound(w) /\ w.items = v.items /\ w.currentItem = combo /\ w.selectedFolder = folder
    BY <1>3, <1>5, <2>2 DEF MapsSound, SameCombos
  <2>4. ComboSound(w)
    BY <1>2, <2>2, <2>3 DEF ComboSound
  <2>5. Undisturbed(c, w) => Undisturbed(v, w)
    BY <1>3 DEF Undisturbed
  <2> QED
    BY <1>2, <1>3, <2>2, <2>3, <2>4, <2>5 DEF ViewGood, ViewSound, GridOK, w, folder
<1> QED
  BY <1>7, <1>8

LEMMA SetTitleFacts ==
    ASSUME NEW u \in Ums, NEW v, ViewType(v), MapsSound(v), NEW folder \in DOMAIN v.folder2combo,
           folder \in DOMAIN u
    PROVE  LET w == SetTitle(u, v, folder)
           IN  /\ ViewType(w) /\ MapsSound(w) /\ SameGrid(v, w)
               /\ w.folder2combo = v.folder2combo /\ w.currentItem = v.currentItem
               /\ DOMAIN w.items = DOMAIN v.items
               /\ \A c \in DOMAIN v.items : w.items[c].folder = v.items[c].folder
<1> DEFINE w == SetTitle(u, v, folder)
           combo == v.folder2combo[folder]
           e == [v.items[combo] EXCEPT !.count = Len(u[folder].messages)]
           S == [folder : Nat, count : Nat]
<1>1. DOMAIN v = Fields
  BY FieldsOfView DEF ViewType
<1>2. v.items \in Seq(S) /\ combo \in DOMAIN v.items
  BY DEF ViewType, MapsSound
<1>3. v.items[combo] \in S
  BY <1>2, Element
<1>4. e \in S /\ e.folder = v.items[combo].folder
  BY <1>3, FolderFacts
<1>5. /\ w.items = [v.items EXCEPT ![combo] = e]
      /\ SameGrid(v, w) /\ DOMAIN w = Fields
      /\ w.folder2combo = v.folder2combo /\ w.combo2folder = v.combo2folder
      /\ w.currentItem = v.currentItem
  BY <1>1 DEF SetTitle, SameGrid, Fields
<1> HIDE DEF S, e, combo, w
<1>6. /\ w.items \in Seq(S) /\ Len(w.items) = Len(v.items) /\ DOMAIN w.items = DOMAIN v.items
      /\ w.items[combo] = e /\ \A j \in DOMAIN v.items : j # combo => w.items[j] = v.items[j]
  BY <1>2, <1>4, <1>5, ChangedElement
<1>7. \A c \in DOMAIN v.items : w.items[c].folder = v.items[c].folder
  BY <1>4, <1>6
<1>8. ViewType(w)
  BY <1>5, <1>6, FieldsOfView DEF ViewType, SameGrid, S
<1>9. MapsSound(w)
  <2>1. ASSUME NEW c \in DOMAIN v.items, NEW d \in c + 1..Len(v.items)
        PROVE  d \in DOMAIN v.items
    <3>1. DOMAIN v.items = 1..Len(v.items) /\ Len(v.items) \in Nat
      BY <1>2
    <3> QED
      BY <3>1
  <2>2. ASSUME NEW c \in DOMAIN w.items
        PROVE  /\ w.items[c].folder = w.combo2folder[c]
               /\ \A d \in c + 1..Len(w.items) : w.items[c].folder < w.items[d].folder
    <3>1. /\ v.items[c].folder = v.combo2folder[c]
          /\ \A d \in c + 1..Len(v.items) : v.items[c].folder < v.items[d].folder
      BY <1>6 DEF MapsSound
    <3>2. \A d \in c + 1..Len(v.items) : w.items[d].folder = v.items[d].folder
      BY <1>6, <1>7, <2>1
    <3> QED
      BY <1>5, <1>6, <1>7, <3>1, <3>2
  <2> QED
    BY <1>5, <1>6, <2>2 DEF MapsSound
<1> QED
  BY <1>5, <1>6, <1>7, <1>8, <1>9 DEF w

\* The entry of the selected folder is the current one.
LEMMA CurrentIsSelected ==
    ASSUME NEW v, ViewType(v), ComboSound(v), v.selectedFolder # None
    PROVE  /\ v.selectedFolder \in DOMAIN v.folder2combo
           /\ v.folder2combo[v.selectedFolder] = v.currentItem
           /\ v.items # << >>
<1>1. /\ v.currentItem \in 1..Len(v.items) /\ v.items[v.currentItem].folder = v.selectedFolder
      /\ Len(v.items) \in Nat
  <2>1. v.items \in Entries /\ v.currentItem \in 0..Len(v.items) /\ v.currentItem # 0
        /\ v.items[v.currentItem].folder = v.selectedFolder
    BY DEF ViewType, ComboSound, Entries
  <2>2. Len(v.items) \in Nat
    BY <2>1 DEF Entries
  <2> QED
    BY <2>1, <2>2
<1>2. MapsSound(v)
  BY DEF ComboSound
<1>3. v.items # << >>
  BY <1>1
<1>4. /\ v.items[v.currentItem].folder \in DOMAIN v.folder2combo
      /\ v.folder2combo[v.items[v.currentItem].folder] = v.currentItem
  BY <1>1, <1>2, MapsFacts
<1> QED
  BY <1>1, <1>3, <1>4

LEMMA ShowTitleFacts ==
    ASSUME NEW u \in Ums, NEW v, ViewGood(u, v), NEW folder \in DOMAIN v.folderState
    PROVE  LET w == ShowTitle(u, v, folder)
           IN  ViewGood(u, w) /\ Step(v, w)
<1> DEFINE selected == v.selectedFolder
           oldCombo == IF selected = None THEN None ELSE v.folder2combo[selected]
           p == IF folder \in DOMAIN v.folder2combo THEN v ELSE Place(v, folder)
           t == SetTitle(u, p, folder)
           s == SelectFirst(u, t, folder)
           w == FollowSelected(s, selected, oldCombo)
<1>0. /\ ViewType(v) /\ ComboSound(v) /\ MapsSound(v) /\ GridOK(u, v)
      /\ selected = v.displayedFolder
      /\ v.folderState \in Seq(FolderStates) /\ Len(v.folderState) <= Len(u)
      /\ Len(u) \in Nat /\ DOMAIN u = 1..Len(u) /\ v.items \in Entries
  BY DEF ViewGood, ViewSound, GridOK, ComboSound, ViewType, FoldersKnown, Ums, Entries
<1>1. folder \in Nat /\ folder # 0 /\ folder \in DOMAIN u
  <2>1. folder \in 1..Len(v.folderState) /\ Len(v.folderState) \in Nat
    BY <1>0
  <2> QED
    BY <1>0, <2>1
<1>2. /\ ViewType(p) /\ MapsSound(p) /\ SameGrid(v, p)
      /\ DOMAIN p.folder2combo = DOMAIN v.folder2combo \cup {folder}
      /\ v.items # << >> => p.currentItem = v.currentItem
  <2>1. CASE folder \in DOMAIN v.folder2combo
    BY <1>0, <2>1 DEF SameGrid
  <2>2. CASE folder \notin DOMAIN v.folder2combo
    <3>1. p = Place(v, folder)
      BY <2>2
    <3> HIDE DEF p
    <3> QED
      BY <1>0, <1>1, <2>2, <3>1, PlaceFacts
  <2> QED
    BY <2>1, <2>2
<1> HIDE DEF p
<1>3. /\ ViewType(t) /\ MapsSound(t) /\ SameGrid(p, t)
      /\ t.folder2combo = p.folder2combo /\ t.currentItem = p.currentItem
  BY <1>1, <1>2, SetTitleFacts
<1>4. /\ SameGrid(v, t) /\ DOMAIN t.folder2combo = DOMAIN v.folder2combo \cup {folder}
      /\ v.items # << >> => t.currentItem = v.currentItem
  BY <1>2, <1>3 DEF SameGrid
<1> HIDE DEF t
<1>5. \A c \in DOMAIN t.items : t.items[c].folder \in DOMAIN t.folderState
  <2> TAKE c \in DOMAIN t.items
  <2>1. t.items[c].folder \in DOMAIN t.folder2combo
    BY <1>3, MapsFacts
  <2>2. CASE t.items[c].folder = folder
    BY <2>2, <1>4 DEF SameGrid
  <2>3. CASE t.items[c].folder \in DOMAIN v.folder2combo
    <3> DEFINE g == t.items[c].folder
    <3>1. v.folder2combo[g] \in DOMAIN v.items /\ v.items[v.folder2combo[g]].folder = g
      BY <1>0, <2>3, MapsFacts
    <3> QED
      BY <1>0, <1>4, <3>1 DEF GridOK, FoldersKnown, SameGrid
  <2> QED
    BY <1>4, <2>1, <2>2, <2>3
<1>6. GridOK(u, t) /\ Undisturbed(v, t)
  BY <1>0, <1>3, <1>4, <1>5, GridKept
<1>7. t.selectedFolder = selected /\ t.displayedFolder = selected
      /\ t.folderState = v.folderState
  BY <1>0, <1>4 DEF SameGrid
<1>8. CASE selected # 0
  <2>1. s = t
    BY <1>7, <1>8 DEF SelectFirst
  <2>2. selected \in DOMAIN v.folder2combo /\ v.folder2combo[selected] = v.currentItem
        /\ v.items # << >>
    BY <1>0, <1>8, CurrentIsSelected
  <2> DEFINE combo == t.folder2combo[selected]
  <2>3. combo \in 1..Len(t.items) /\ t.items[combo].folder = selected /\ Len(t.items) \in Nat
    BY <1>3, <1>4, <2>2, MapsFacts, SMTT(40)
  <2>4. w = IF combo = oldCombo THEN t ELSE [t EXCEPT !.currentItem = combo]
    BY <1>8, <2>1 DEF FollowSelected
  <2>5. oldCombo = t.currentItem
    BY <1>4, <1>8, <2>2
  <2>6. DOMAIN t = Fields
    BY <1>3, FieldsOfView DEF ViewType
  <2> HIDE DEF combo, w, oldCombo, s
  <2>7. /\ DOMAIN w = Fields /\ SameGrid(t, w)
        /\ w.items = t.items /\ w.currentItem = combo
        /\ w.folder2combo = t.folder2combo /\ w.combo2folder = t.combo2folder
    BY <2>4, <2>5, <2>6 DEF SameGrid, Fields
  <2>8. ViewType(w) /\ MapsSound(w)
    <3>1. combo \in 0..Len(t.items)
      BY <2>3
    <3>2. MapsSound(w)
      BY <1>3, <2>7 DEF MapsSound
    <3> QED
      BY <1>3, <2>7, <3>1, <3>2, FieldsOfView DEF ViewType, SameGrid
  <2>9. GridOK(u, w) /\ Undisturbed(t, w)
    <3>1. \A c \in DOMAIN w.items : w.items[c].folder \in DOMAIN w.folderState
      BY <1>5, <2>7 DEF SameGrid
    <3> QED
      BY <1>6, <2>7, <2>8, <3>1, GridKept
  <2>10. ComboSound(w)
    <3>1. w.selectedFolder = selected /\ w.displayedFolder = selected /\ combo # 0
      BY <1>7, <2>3, <2>7 DEF SameGrid
    <3> QED
      BY <2>3, <2>7, <2>8, <3>1 DEF ComboSound
  <2>11. ViewGood(u, w)
    BY <2>8, <2>9, <2>10 DEF ViewGood, ViewSound, GridOK
  <2>12. Step(v, w)
    <3>1. Step(v, t) /\ Step(t, w)
      BY <1>6, <1>7, <2>7, <2>9 DEF Step, SameGrid
    <3> QED
      BY <3>1, <1>0, <1>3, <2>8, StepAgain
  <2> QED
    BY <2>11, <2>12 DEF ShowTitle, w, s, t, p, oldCombo
<1>9. CASE selected = 0
  <2>1. w = s
    BY <1>9 DEF FollowSelected
  <2>2. v.heads = << >>
    BY <1>0, <1>9 DEF GridOK, RowsSound
  <2>3. CASE s = t
    <3>1. ComboSound(t)
      BY <1>3, <1>7, <1>9 DEF ComboSound
    <3>2. ViewGood(u, t)
      BY <1>6, <3>1 DEF ViewGood, ViewSound, GridOK
    <3>3. Step(v, t)
      BY <1>6, <1>7 DEF Step
    <3> QED
      BY <2>1, <2>3, <3>2, <3>3 DEF ShowTitle, w, s, t, p, oldCombo
  <2>4. CASE s # t
    <3> DEFINE combo == t.folder2combo[folder]
    <3>1. s = messageFolderSelectedHandler(u, t, combo)
      BY <2>4 DEF SelectFirst
    <3>2. combo \in DOMAIN t.items
      BY <1>3, <1>4 DEF MapsSound
    <3> HIDE DEF combo, s
    <3>3. /\ ViewGood(u, s) /\ Len(s.folderState) = Len(t.folderState)
          /\ s.displayedFolder # 0
          /\ Posted(s) \/ Undisturbed(t, s)
      BY <1>3, <1>6, <1>7, <3>1, <3>2, HandlerFacts
    <3>4. Posted(s)
      BY <3>3, <1>7, <1>9 DEF Undisturbed
    <3>5. Step(v, s)
      BY <1>7, <2>2, <3>3, <3>4 DEF Step
    <3> QED
      BY <2>1, <3>3, <3>5 DEF ShowTitle, w, s, t, p, oldCombo
  <2> QED
    BY <2>3, <2>4
<1> QED
  BY <1>8, <1>9

LEMMA TitleFacts ==
    ASSUME NEW u \in Ums, NEW v, ViewGood(u, v), NEW folder \in DOMAIN v.folderState
    PROVE  LET w == updateMessageFolderTitle(u, v, folder)
           IN  ViewGood(u, w) /\ Step(v, w)
<1> DEFINE count == Len(u[folder].messages)
           D == [f \in DOMAIN v.displayedCount \cup {folder} |->
                    IF f = folder THEN count ELSE v.displayedCount[f]]
           c == [v EXCEPT !.displayedCount = D]
           w == updateMessageFolderTitle(u, v, folder)
<1>1. ViewType(v) /\ DOMAIN v = Fields /\ GridOK(u, v)
  BY FieldsOfView DEF ViewGood, ViewSound, ViewType, GridOK
<1>2. w = v \/ w = c \/ w = ShowTitle(u, c, folder)
  BY <1>1 DEF updateMessageFolderTitle, Fields
<1>3. /\ DOMAIN c = Fields /\ SameGrid(v, c)
      /\ c.items = v.items /\ c.currentItem = v.currentItem
      /\ c.folder2combo = v.folder2combo /\ c.combo2folder = v.combo2folder
  BY <1>1 DEF Fields, SameGrid
<1> HIDE DEF c, w
<1>4. ViewType(c)
  BY <1>1, <1>3, FieldsOfView DEF ViewType, SameGrid
<1>5. GridOK(u, c) /\ Undisturbed(v, c)
  <2>1. \A d \in DOMAIN c.items : c.items[d].folder \in DOMAIN c.folderState
    BY <1>1, <1>3 DEF GridOK, FoldersKnown, SameGrid
  <2> QED
    BY <1>1, <1>3, <1>4, <2>1, GridKept
<1>6. ComboSound(c)
  BY <1>3 DEF ViewGood, ViewSound, ComboSound, MapsSound, SameGrid
<1>7. ViewGood(u, c)
  BY <1>5, <1>6 DEF ViewGood, ViewSound, GridOK
<1>8. Step(v, c) /\ folder \in DOMAIN c.folderState
  BY <1>3, <1>5 DEF Step, SameGrid
<1>9. CASE w = v
  <2>1. SameGrid(v, v)
    BY DEF SameGrid
  <2>2. Step(v, v)
    BY <1>1 DEF Step, Undisturbed, ViewType
  <2> QED
    BY <1>9, <2>2 DEF w
<1>10. CASE w = c
  BY <1>7, <1>8, <1>10 DEF w
<1>11. CASE w = ShowTitle(u, c, folder)
  <2>1. ViewGood(u, w) /\ Step(c, w)
    BY <1>7, <1>8, <1>11, ShowTitleFacts
  <2>2. Step(v, w)
    BY <1>1, <1>4, <1>8, <2>1, StepAgain DEF ViewGood
  <2> QED
    BY <2>1, <2>2 DEF w
<1> QED
  BY <1>2, <1>9, <1>10, <1>11

\* A folder is declared: it has a state from now on.
Declared(v, w) ==
    /\ Len(w.folderState) = Len(v.folderState) + 1
    /\ \/ /\ w.displayedFolder = v.displayedFolder /\ w.highlighted = v.highlighted
          /\ w.heads = << >> <=> v.heads = << >>
          /\ \A m \in DOMAIN v.heads : w.heads[m] = v.heads[m]
          /\ w.refreshes = v.refreshes
          /\ v.displayedFolder # None => StateOf(w) = StateOf(v)
       \/ Posted(w) /\ v.heads = << >>

LEMMA DeclaredFacts ==
    ASSUME NEW u \in Ums, NEW v, ViewGood(u, v), Len(v.folderState) < Len(u)
    PROVE  LET w == messageFolderDeclaredHandler(u, v, Len(v.folderState) + 1)
           IN  ViewGood(u, w) /\ Declared(v, w)
<1> DEFINE folder == Len(v.folderState) + 1
           a == [v EXCEPT !.folderState = Append(@, NewFolderState)]
           w == updateMessageFolderTitle(u, a, folder)
<1>1. /\ ViewType(v) /\ DOMAIN v = Fields /\ GridOK(u, v)
      /\ v.folderState \in Seq(FolderStates) /\ Len(v.folderState) \in Nat
      /\ DOMAIN v.folderState = 1..Len(v.folderState)
      /\ Len(u) \in Nat /\ DOMAIN u = 1..Len(u)
  BY FieldsOfView DEF ViewGood, ViewSound, ViewType, GridOK, Ums
<1>2. folder \in Nat /\ folder \in DOMAIN u /\ folder # 0
  BY <1>1
<1>3. NewFolderState \in FolderStates /\ NewFolderState.selectedMessage = 0
  BY DEF NewFolderState, FolderStates
<1>4. /\ DOMAIN a = Fields
      /\ a.folderState = Append(v.folderState, NewFolderState)
      /\ a.items = v.items /\ a.currentItem = v.currentItem
      /\ a.folder2combo = v.folder2combo /\ a.combo2folder = v.combo2folder
      /\ a.displayedFolder = v.displayedFolder /\ a.selectedFolder = v.selectedFolder
      /\ a.heads = v.heads /\ a.rows = v.rows /\ a.highlighted = v.highlighted
      /\ a.refreshes = v.refreshes /\ a.messagesAdded = v.messagesAdded
  BY <1>1 DEF Fields
<1> HIDE DEF a
<1>5. /\ a.folderState \in Seq(FolderStates) /\ Len(a.folderState) = folder
      /\ \A g \in DOMAIN v.folderState : a.folderState[g] = v.folderState[g]
      /\ a.folderState[folder] = NewFolderState
      /\ DOMAIN a.folderState = 1..folder
  BY <1>1, <1>3, <1>4, Appended
<1> HIDE DEF w
<1>6. ViewType(a)
  BY <1>1, <1>4, <1>5, FieldsOfView DEF ViewType
<1>7. FoldersKnown(u, a)
  <2>1. DOMAIN v.folderState \subseteq DOMAIN a.folderState
    BY <1>1, <1>2, <1>5
  <2>2. Len(a.folderState) <= Len(u)
    BY <1>1, <1>5
  <2> QED
    BY <1>4, <2>1, <2>2 DEF FoldersKnown, ViewGood, ViewSound
<1>8. RowsSound(u, a)
  BY <1>4 DEF RowsSound, ViewGood, ViewSound
<1>9. v.displayedFolder # 0 => StateOf(a) = StateOf(v)
  BY <1>4, <1>5 DEF StateOf, ViewGood, ViewSound, FoldersKnown
<1>10. SelectionKept(u, a)
  <2>1. ASSUME NEW g \in DOMAIN a.folderState
        PROVE  a.folderState[g].selectedMessage <= Len(u[g].messages)
    <3>1. CASE g = folder
      BY <1>2, <1>3, <1>5, <3>1, FolderFacts
    <3>2. CASE g # folder
      <4>1. g \in DOMAIN v.folderState
        BY <1>1, <1>5, <3>2
      <4> QED
        BY <1>5, <4>1 DEF ViewGood, ViewSound, SelectionKept
    <3> QED
      BY <3>1, <3>2
  <2> QED
    BY <1>4, <1>9, <2>1 DEF ViewGood, ViewSound, SelectionKept
<1>11. ComboSound(a)
  BY <1>4 DEF ViewGood, ViewSound, ComboSound, MapsSound
<1>12. ViewGood(u, a) /\ folder \in DOMAIN a.folderState
  BY <1>2, <1>5, <1>6, <1>7, <1>8, <1>10, <1>11 DEF ViewGood, ViewSound
<1>13. ViewGood(u, w) /\ Step(a, w)
  BY <1>12, TitleFacts DEF w
<1>14. Declared(v, w)
  <2>1. Undisturbed(a, w) => (v.displayedFolder # 0 => StateOf(w) = StateOf(v))
    BY <1>4, <1>9 DEF Undisturbed, StateOf
  <2> QED
    BY <1>4, <1>5, <1>13, <2>1 DEF Declared, Step, Undisturbed
<1> QED
  BY <1>13, <1>14 DEF messageFolderDeclaredHandler, w, a

------------------------------------------------------------------------------
(* One folder after the other. *)

DeclareStep(u, x, n) == The({messageFolderDeclaredHandler(u, y, n) : y \in {x}})
TitleOf(u, x, n) == The({updateMessageFolderTitle(u, y, n) : y \in {x}})

LEMMA OneByOne ==
    ASSUME NEW u, NEW x, NEW n
    PROVE  /\ DeclareStep(u, x, n) = messageFolderDeclaredHandler(u, x, n)
           /\ TitleOf(u, x, n) = updateMessageFolderTitle(u, x, n)
<1>1. {messageFolderDeclaredHandler(u, y, n) : y \in {x}} = {messageFolderDeclaredHandler(u, x, n)}
  OBVIOUS
<1>2. {updateMessageFolderTitle(u, y, n) : y \in {x}} = {updateMessageFolderTitle(u, x, n)}
  OBVIOUS
<1>3. DeclareStep(u, x, n) = messageFolderDeclaredHandler(u, x, n)
  BY <1>1, TheOnly DEF DeclareStep
<1>4. TitleOf(u, x, n) = updateMessageFolderTitle(u, x, n)
  BY <1>2, TheOnly DEF TitleOf
<1> QED
  BY <1>3, <1>4

IsDeclaring(g, u, total) ==
    g = [n \in 0..total |-> IF n = 0 THEN NewView ELSE DeclareStep(u, g[n - 1], n)]
IsTitling(g, u, v, total) ==
    g = [n \in 0..total |-> IF n = 0 THEN v ELSE TitleOf(u, g[n - 1], n)]

LEMMA ConstructDef ==
    ASSUME NEW u
    PROVE  Construct(u) = (CHOOSE g : IsDeclaring(g, u, Len(u)))[Len(u)]
BY DEF Construct, IsDeclaring, DeclareStep

LEMMA UpdateTitlesDef ==
    ASSUME NEW u, NEW v
    PROVE  UpdateTitles(u, v) = (CHOOSE g : IsTitling(g, u, v, Len(u)))[Len(u)]
BY DEF UpdateTitles, IsTitling, TitleOf

LEMMA DeclaringExists ==
    ASSUME NEW u, NEW total \in Nat
    PROVE  \E g : IsDeclaring(g, u, total)
<1> DEFINE N == {n \in Nat : \E g : IsDeclaring(g, u, n)}
<1>1. 0 \in N
  <2>1. IsDeclaring([n \in 0..0 |-> NewView], u, 0)
    BY DEF IsDeclaring
  <2> QED
    BY <2>1
<1>2. ASSUME NEW m \in N \cap Nat
      PROVE  m + 1 \in N
  <2>1. PICK g : IsDeclaring(g, u, m)
    OBVIOUS
  <2> DEFINE h == [n \in 0..(m + 1) |-> IF n = 0 THEN NewView ELSE DeclareStep(u, g[n - 1], n)]
  <2>2. ASSUME NEW n \in 0..m PROVE h[n] = g[n]
    <3>1. n \in 0..(m + 1)
      OBVIOUS
    <3> QED
      BY <2>1, <3>1 DEF IsDeclaring
  <2>3. ASSUME NEW n \in 0..(m + 1), n # 0 PROVE h[n - 1] = g[n - 1]
    <3>1. n - 1 \in 0..m
      BY <2>3
    <3> QED
      BY <2>2, <3>1
  <2>4. IsDeclaring(h, u, m + 1)
    BY <2>3 DEF IsDeclaring
  <2> QED
    BY <2>4
<1>3. Nat \subseteq N
  <2> HIDE DEF N
  <2> QED
    BY <1>1, <1>2, Induction
<1> QED
  BY <1>3

LEMMA TitlingExists ==
    ASSUME NEW u, NEW v, NEW total \in Nat
    PROVE  \E g : IsTitling(g, u, v, total)
<1> DEFINE N == {n \in Nat : \E g : IsTitling(g, u, v, n)}
<1>1. 0 \in N
  <2>1. IsTitling([n \in 0..0 |-> v], u, v, 0)
    BY DEF IsTitling
  <2> QED
    BY <2>1
<1>2. ASSUME NEW m \in N \cap Nat
      PROVE  m + 1 \in N
  <2>1. PICK g : IsTitling(g, u, v, m)
    OBVIOUS
  <2> DEFINE h == [n \in 0..(m + 1) |-> IF n = 0 THEN v ELSE TitleOf(u, g[n - 1], n)]
  <2>2. ASSUME NEW n \in 0..m PROVE h[n] = g[n]
    <3>1. n \in 0..(m + 1)
      OBVIOUS
    <3> QED
      BY <2>1, <3>1 DEF IsTitling
  <2>3. ASSUME NEW n \in 0..(m + 1), n # 0 PROVE h[n - 1] = g[n - 1]
    <3>1. n - 1 \in 0..m
      BY <2>3
    <3> QED
      BY <2>2, <3>1
  <2>4. IsTitling(h, u, v, m + 1)
    BY <2>3 DEF IsTitling
  <2> QED
    BY <2>4
<1>3. Nat \subseteq N
  <2> HIDE DEF N
  <2> QED
    BY <1>1, <1>2, Induction
<1> QED
  BY <1>3

LEMMA TitlesFacts ==
    ASSUME NEW u \in Ums, NEW v, ViewGood(u, v), Len(v.folderState) = Len(u)
    PROVE  LET w == UpdateTitles(u, v)
           IN  ViewGood(u, w) /\ Step(v, w)
<1> DEFINE total == Len(u)
           g == CHOOSE f : IsTitling(f, u, v, total)
           N == {n \in Nat : n <= total => ViewGood(u, g[n]) /\ Step(v, g[n])}
<1>1. total \in Nat
  BY DEF Ums
<1>2. IsTitling(g, u, v, total)
  BY <1>1, TitlingExists
<1>3. UpdateTitles(u, v) = g[total]
  BY UpdateTitlesDef
<1> HIDE DEF g
<1>4. 0 \in N
  <2>1. g[0] = v
    BY <1>1, <1>2 DEF IsTitling
  <2>2. Step(v, v)
    BY DEF Step, Undisturbed, ViewGood, ViewType
  <2> QED
    BY <2>1, <2>2
<1>5. ASSUME NEW n \in N \cap Nat PROVE n + 1 \in N
  <2> SUFFICES ASSUME n + 1 <= total PROVE ViewGood(u, g[n + 1]) /\ Step(v, g[n + 1])
    OBVIOUS
  <2> DEFINE x == g[n]
             w == updateMessageFolderTitle(u, x, n + 1)
  <2>1. ViewGood(u, x) /\ Step(v, x)
    BY <1>1
  <2>2. n + 1 \in DOMAIN x.folderState
    <3>1. x.folderState \in Seq(FolderStates) /\ Len(x.folderState) = total
      BY <2>1 DEF ViewGood, ViewType, Step
    <3> QED
      BY <1>1, <3>1
  <2>3. g[n + 1] = w
    <3>1. n + 1 \in 0..total /\ n + 1 # 0 /\ n + 1 - 1 = n
      BY <1>1
    <3>2. g[n + 1] = TitleOf(u, g[n + 1 - 1], n + 1)
      BY <1>2, <3>1 DEF IsTitling
    <3> QED
      BY <3>1, <3>2, OneByOne
  <2> HIDE DEF x
  <2>4. ViewGood(u, w) /\ Step(x, w)
    BY <2>1, <2>2, TitleFacts
  <2> HIDE DEF w
  <2>5. Step(v, w)
    BY <2>1, <2>4, StepAgain DEF ViewGood
  <2> QED
    BY <2>3, <2>4, <2>5
<1>6. Nat \subseteq N
  <2> HIDE DEF N
  <2> QED
    BY <1>4, <1>5, Induction
<1> QED
  BY <1>1, <1>3, <1>6

LEMMA NewViewGood ==
    ASSUME NEW u \in Ums
    PROVE  ViewGood(u, NewView) /\ Len(NewView.folderState) = 0 /\ NewView.displayedFolder = None
<1>1. Len(u) \in Nat
  BY DEF Ums
<1>2. /\ NewView.items = << >> /\ NewView.folderState = << >>
      /\ NewView.folder2combo = << >> /\ NewView.combo2folder = << >>
      /\ NewView.heads = << >> /\ NewView.rows = << >> /\ NewView.highlighted = {}
      /\ NewView.selectedFolder = 0 /\ NewView.displayedFolder = 0
      /\ NewView.currentItem = 0 /\ NewView.refreshes = 0 /\ NewView.messagesAdded = TRUE
  BY DEF NewView
<1>3. ViewType(NewView)
  <2>1. Len(<< >>) = 0 /\ 0 \in 0..0
    OBVIOUS
  <2>2. /\ << >> \in Seq([folder : Nat, count : Nat])
        /\ << >> \in Seq(Nat) /\ << >> \in Seq(FolderStates)
    OBVIOUS
  <2>3. NewView.currentItem \in 0..Len(NewView.items)
    BY <1>2, <2>1
  <2>4. NewView.refreshes \in Nat
    BY <1>2
  <2>5. NewView.messagesAdded \in BOOLEAN
    BY DEF NewView
  <2> QED
    BY <1>2, <2>2, <2>3, <2>4, <2>5 DEF ViewType
<1>4. ComboSound(NewView)
  BY <1>2 DEF ComboSound, MapsSound, Range
<1>5. FoldersKnown(u, NewView) /\ RowsSound(u, NewView) /\ SelectionKept(u, NewView)
  BY <1>1, <1>2 DEF FoldersKnown, RowsSound, SelectionKept
<1> QED
  BY <1>2, <1>3, <1>4, <1>5 DEF ViewGood, ViewSound

\* A window that shows a folder for the first time owes it a refresh.
LEMMA ConstructFacts ==
    ASSUME NEW u \in Ums
    PROVE  LET w == Construct(u)
           IN  /\ ViewGood(u, w) /\ Len(w.folderState) = Len(u)
               /\ w.displayedFolder = None \/ Posted(w)
<1> DEFINE total == Len(u)
           g == CHOOSE f : IsDeclaring(f, u, total)
           Good(w, n) == /\ ViewGood(u, w) /\ Len(w.folderState) = n
                         /\ w.displayedFolder = None \/ Posted(w)
           N == {n \in Nat : n <= total => Good(g[n], n)}
<1>1. total \in Nat
  BY DEF Ums
<1>2. IsDeclaring(g, u, total)
  BY <1>1, DeclaringExists
<1>3. Construct(u) = g[total]
  BY ConstructDef
<1> HIDE DEF g
<1>4. 0 \in N
  <2>1. g[0] = NewView
    BY <1>1, <1>2 DEF IsDeclaring
  <2> QED
    BY <2>1, NewViewGood
<1>5. ASSUME NEW n \in N \cap Nat PROVE n + 1 \in N
  <2> SUFFICES ASSUME n + 1 <= total PROVE Good(g[n + 1], n + 1)
    OBVIOUS
  <2> DEFINE x == g[n]
             w == messageFolderDeclaredHandler(u, x, n + 1)
  <2>1. Good(x, n)
    BY <1>1
  <2>2. g[n + 1] = w
    <3>1. n + 1 \in 0..total /\ n + 1 # 0 /\ n + 1 - 1 = n
      BY <1>1
    <3>2. g[n + 1] = DeclareStep(u, g[n + 1 - 1], n + 1)
      BY <1>2, <3>1 DEF IsDeclaring
    <3> QED
      BY <3>1, <3>2, OneByOne
  <2> HIDE DEF x
  <2>3. n < Len(u)
    BY <1>1
  <2>4. ViewGood(u, w) /\ Declared(x, w)
    BY <2>1, <2>3, DeclaredFacts
  <2> HIDE DEF w
  <2>5. Len(w.folderState) = n + 1
    BY <2>1, <2>4 DEF Declared
  <2>6. w.displayedFolder = None \/ Posted(w)
    <3>1. CASE Posted(x) /\ x.displayedFolder # 0 /\ ~Posted(w)
      <4>1. w.displayedFolder = x.displayedFolder /\ StateOf(w) = StateOf(x)
            /\ w.refreshes = x.refreshes
        BY <2>4, <3>1 DEF Declared
      <4> QED
        BY <3>1, <4>1 DEF Posted, StateOf
    <3>2. CASE x.displayedFolder = 0
      BY <2>4, <3>2 DEF Declared
    <3> QED
      BY <2>1, <3>1, <3>2
  <2> QED
    BY <2>2, <2>4, <2>5, <2>6
<1>6. Nat \subseteq N
  <2> HIDE DEF N
  <2> QED
    BY <1>4, <1>5, Induction
<1> QED
  BY <1>1, <1>3, <1>6

------------------------------------------------------------------------------
(* The window's other operations. *)

LEMMA SightKept ==
    ASSUME NEW u, NEW v, ViewGood(u, v), NEW added \in BOOLEAN, NEW counts
    PROVE  LET w == [v EXCEPT !.messagesAdded = added, !.displayedCount = counts]
           IN  ViewGood(u, w) /\ Step(v, w)
<1> DEFINE w == [v EXCEPT !.messagesAdded = added, !.displayedCount = counts]
<1>1. ViewType(v) /\ DOMAIN v = Fields
  BY FieldsOfView DEF ViewGood, ViewType
<1>2. /\ DOMAIN w = Fields /\ w.messagesAdded = added
      /\ w.items = v.items /\ w.currentItem = v.currentItem
      /\ w.folder2combo = v.folder2combo /\ w.combo2folder = v.combo2folder
      /\ w.displayedFolder = v.displayedFolder /\ w.selectedFolder = v.selectedFolder
      /\ w.heads = v.heads /\ w.rows = v.rows /\ w.highlighted = v.highlighted
      /\ w.folderState = v.folderState /\ w.refreshes = v.refreshes
  BY <1>1 DEF Fields
<1> HIDE DEF w
<1>3. ViewType(w)
  BY <1>1, <1>2, FieldsOfView, Zenon DEF ViewType
<1>4. ComboSound(w)
  BY <1>2 DEF ViewGood, ViewSound, ComboSound, MapsSound
<1>5. FoldersKnown(u, w) /\ RowsSound(u, w) /\ SelectionKept(u, w)
  BY <1>2 DEF ViewGood, ViewSound, FoldersKnown, RowsSound, SelectionKept, StateOf
<1>6. Step(v, w)
  BY <1>1, <1>2 DEF Step, Undisturbed, ViewType
<1> QED
  BY <1>3, <1>4, <1>5, <1>6 DEF ViewGood, ViewSound, w

LEMMA FlushFacts ==
    ASSUME NEW u \in Ums, NEW v, ViewGood(u, v), Len(v.folderState) = Len(u)
    PROVE  LET w == flushMessageUpdates(u, v)
           IN  ViewGood(u, w) /\ Step(v, w)
<1> DEFINE d == updateMessageDisplay(u, v, v.displayedFolder)
           t == UpdateTitles(u, d)
           w == flushMessageUpdates(u, v)
<1>1. GridOK(u, v) /\ ViewType(v) /\ ComboSound(v)
  BY DEF ViewGood, ViewSound, GridOK
<1>2. Step(v, v)
  BY <1>1 DEF Step, Undisturbed, ViewType
<1>3. ViewGood(u, d) /\ Step(v, d)
  <2>1. CASE v.displayedFolder = 0
    BY <1>2, <2>1 DEF updateMessageDisplay
  <2>2. CASE v.displayedFolder # 0
    <3>1. v.displayedFolder \in DOMAIN v.folderState
      BY <1>1, <2>2 DEF GridOK, FoldersKnown
    <3> HIDE DEF d
    <3>2. /\ GridOK(u, d) /\ SameCombos(v, d)
          /\ Len(d.folderState) = Len(v.folderState)
          /\ d.displayedFolder = v.displayedFolder
          /\ Posted(d) \/ Undisturbed(v, d)
          /\ v.heads # << >> => Undisturbed(v, d)
      BY <1>1, <3>1, Display DEF d
    <3>3. ComboSound(d)
      BY <1>1, <3>2 DEF ComboSound, MapsSound, SameCombos
    <3> QED
      BY <3>2, <3>3 DEF ViewGood, ViewSound, GridOK, Step
  <2> QED
    BY <2>1, <2>2
<1>4. w = IF v.messagesAdded THEN [t EXCEPT !.messagesAdded = FALSE] ELSE d
  BY DEF flushMessageUpdates
<1> HIDE DEF d, w
<1>5. CASE ~v.messagesAdded
  BY <1>3, <1>4, <1>5 DEF w
<1>6. CASE v.messagesAdded
  <2>1. Len(d.folderState) = Len(u)
    BY <1>3 DEF Step
  <2>2. ViewGood(u, t) /\ Step(d, t)
    BY <1>3, <2>1, TitlesFacts
  <2> HIDE DEF t
  <2>3. w = [t EXCEPT !.messagesAdded = FALSE, !.displayedCount = t.displayedCount]
    <3>1. DOMAIN t = Fields
      BY <2>2, FieldsOfView DEF ViewGood, ViewType
    <3> QED
      BY <3>1, <1>4, <1>6 DEF Fields
  <2>4. ViewGood(u, w) /\ Step(t, w)
    BY <2>2, <2>3, SightKept
  <2>5. Step(d, w)
    BY <1>3, <2>2, <2>4, StepAgain DEF ViewGood
  <2>6. Step(v, w)
    BY <1>1, <1>3, <2>4, <2>5, StepAgain DEF ViewGood
  <2> QED
    BY <2>4, <2>6 DEF w
<1> QED
  BY <1>5, <1>6

SelectionsKnown(u, v) ==
    \A g \in DOMAIN v.folderState : v.folderState[g].selectedMessage <= Len(u[g].messages)

\* What a step on the selection leaves alone.
SameRows(v, w) ==
    /\ DOMAIN w = DOMAIN v
    /\ w.displayedFolder = v.displayedFolder /\ w.selectedFolder = v.selectedFolder
    /\ w.heads = v.heads /\ w.rows = v.rows
    /\ w.items = v.items /\ w.currentItem = v.currentItem
    /\ w.folder2combo = v.folder2combo /\ w.combo2folder = v.combo2folder
    /\ w.messagesAdded = v.messagesAdded
    /\ Len(w.folderState) = Len(v.folderState)

LEMMA RowsKept ==
    ASSUME NEW u, NEW v, NEW w, ViewType(v), ComboSound(v), FoldersKnown(u, v), RowsSound(u, v),
           SameRows(v, w), w.folderState \in Seq(FolderStates), w.refreshes \in Nat,
           v.displayedFolder # None
    PROVE  ViewType(w) /\ ComboSound(w) /\ FoldersKnown(u, w) /\ RowsSound(u, w)
<1>1. v.folderState \in Seq(FolderStates) /\ DOMAIN w.folderState = DOMAIN v.folderState
  BY DEF ViewType, SameRows
<1>2. ViewType(w)
  BY DEF ViewType, SameRows
<1>3. ComboSound(w)
  BY DEF ComboSound, MapsSound, SameRows
<1>4. FoldersKnown(u, w)
  BY <1>1 DEF FoldersKnown, SameRows
<1>5. RowsSound(u, w)
  BY DEF RowsSound, SameRows
<1> QED
  BY <1>2, <1>3, <1>4, <1>5

\* What a click on a row needs: only lines that it redraws are highlighted.
Clickable(u, v, row) ==
    /\ ViewType(v) /\ ComboSound(v) /\ FoldersKnown(u, v) /\ RowsSound(u, v)
    /\ SelectionsKnown(u, v)
    /\ v.displayedFolder # None
    /\ row \in DOMAIN v.rows
    /\ Emits(v, row)
    /\ v.highlighted \subseteq {StateOf(v).selectedRow, v.heads[v.rows[row]]}

LEMMA ClickFacts ==
    ASSUME NEW u \in Ums, NEW v, NEW row, Clickable(u, v, row)
    PROVE  LET w == messageClickedHandler(v, row)
               message == v.rows[row]
           IN  /\ ViewGood(u, w) /\ SameRows(v, w)
               /\ message \in DOMAIN v.heads /\ message # None
               /\ StateOf(w).selectedMessage = message
               /\ w.highlighted = {v.heads[message]}
               /\ w.refreshes = v.refreshes
<1> DEFINE w == messageClickedHandler(v, row)
           message == v.rows[row]
           d == v.displayedFolder
           e == [v.folderState[d] EXCEPT !.selectedMessage = message,
                                         !.selectedRow = v.heads[message]]
<1>1. /\ ViewType(v) /\ DOMAIN v = Fields /\ v.folderState \in Seq(FolderStates)
      /\ v.heads \in Seq(Nat) /\ v.rows \in Seq(Nat) /\ v.refreshes \in Nat
      /\ d \in DOMAIN v.folderState /\ d # 0 /\ d \in DOMAIN u
  <2>1. /\ ViewType(v) /\ DOMAIN v = Fields /\ v.folderState \in Seq(FolderStates)
        /\ v.heads \in Seq(Nat) /\ v.rows \in Seq(Nat) /\ v.refreshes \in Nat
        /\ d \in DOMAIN v.folderState /\ d # 0 /\ Len(v.folderState) <= Len(u)
    BY FieldsOfView DEF Clickable, ViewType, FoldersKnown
  <2>2. d \in 1..Len(v.folderState) /\ Len(v.folderState) \in Nat /\ Len(u) \in Nat
        /\ DOMAIN u = 1..Len(u)
    BY <2>1 DEF Ums
  <2> QED
    BY <2>1, <2>2
<1>2. /\ message \in DOMAIN v.heads /\ message \in Nat /\ message # 0
      /\ v.heads[message] \in Nat /\ message <= Len(u[d].messages)
  <2>1. message \in DOMAIN v.heads /\ Len(v.heads) <= Len(u[d].messages)
    BY DEF Clickable, RowsSound
  <2>2. Len(u[d].messages) \in Nat
    BY <1>1, FolderFacts
  <2>3. /\ message \in 1..Len(v.heads) /\ Len(v.heads) \in Nat
        /\ v.heads[message] \in Nat
    BY <1>1, <2>1, Element
  <2> HIDE DEF message
  <2>4. message \in Nat /\ message # 0 /\ message <= Len(u[d].messages)
    BY <2>1, <2>2, <2>3
  <2> QED
    BY <2>1, <2>3, <2>4
<1>3. v.folderState[d] \in FolderStates
  BY <1>1, Element
<1>4. /\ e \in FolderStates
      /\ e.selectedMessage = message /\ e.selectedRow = v.heads[message]
  BY <1>2, <1>3 DEF FolderStates
<1>5. v.rows # << >>
  BY <1>1 DEF Clickable
<1>6. /\ DOMAIN w = Fields
      /\ w.folderState = [v.folderState EXCEPT ![d] = e]
      /\ w.highlighted = (v.highlighted \ {StateOf(v).selectedRow}) \cup {v.heads[message]}
      /\ w.displayedFolder = v.displayedFolder /\ w.selectedFolder = v.selectedFolder
      /\ w.heads = v.heads /\ w.rows = v.rows
      /\ w.items = v.items /\ w.currentItem = v.currentItem
      /\ w.folder2combo = v.folder2combo /\ w.combo2folder = v.combo2folder
      /\ w.messagesAdded = v.messagesAdded /\ w.refreshes = v.refreshes
  BY <1>1, <1>3, <1>5 DEF messageClickedHandler, Empty, Clickable, Fields, FolderStates
<1> HIDE DEF e, w
<1>7. /\ w.folderState \in Seq(FolderStates) /\ Len(w.folderState) = Len(v.folderState)
      /\ DOMAIN w.folderState = DOMAIN v.folderState
      /\ w.folderState[d] = e
      /\ \A g \in DOMAIN v.folderState : g # d => w.folderState[g] = v.folderState[g]
  BY <1>1, <1>4, <1>6, ChangedElement
<1>8. SameRows(v, w)
  BY <1>1, <1>6, <1>7 DEF SameRows
<1>9. ViewType(w) /\ ComboSound(w) /\ FoldersKnown(u, w) /\ RowsSound(u, w)
  BY <1>1, <1>6, <1>7, <1>8, RowsKept DEF Clickable
<1>10. StateOf(w) = e
  BY <1>6, <1>7 DEF StateOf
<1>11. w.highlighted = {v.heads[message]}
  BY <1>6 DEF Clickable
<1>12. SelectionKept(u, w)
  <2>1. \A g \in DOMAIN w.folderState : w.folderState[g].selectedMessage <= Len(u[g].messages)
    BY <1>2, <1>4, <1>7 DEF Clickable, SelectionsKnown
  <2>2. message <= Len(w.heads)
    BY <1>1, <1>2, <1>6
  <2> QED
    BY <1>2, <1>4, <1>6, <1>10, <1>11, <2>1, <2>2 DEF SelectionKept
<1> QED
  BY <1>2, <1>4, <1>6, <1>8, <1>9, <1>10, <1>11, <1>12 DEF ViewGood, ViewSound, w

\* The selected message stays what it is.
SameChoice(v, w) ==
    /\ SameRows(v, w) /\ w.highlighted = v.highlighted
    /\ StateOf(w).selectedMessage = StateOf(v).selectedMessage

LEMMA TakenFacts ==
    ASSUME NEW u, NEW v, ViewGood(u, v), v.refreshes > 0
    PROVE  LET w == [v EXCEPT !.refreshes = @ - 1]
           IN  /\ ViewGood(u, w) /\ SameChoice(v, w) /\ StateOf(w) = StateOf(v)
               /\ v.displayedFolder # None
<1> DEFINE w == [v EXCEPT !.refreshes = @ - 1]
<1>1. /\ ViewType(v) /\ DOMAIN v = Fields /\ v.folderState \in Seq(FolderStates)
      /\ v.refreshes - 1 \in Nat /\ v.displayedFolder # 0
      /\ ComboSound(v) /\ FoldersKnown(u, v) /\ RowsSound(u, v) /\ SelectionKept(u, v)
  BY FieldsOfView DEF ViewGood, ViewSound, ViewType, RowsSound
<1>2. /\ DOMAIN w = Fields /\ w.folderState = v.folderState /\ w.highlighted = v.highlighted
      /\ w.displayedFolder = v.displayedFolder /\ w.selectedFolder = v.selectedFolder
      /\ w.heads = v.heads /\ w.rows = v.rows
      /\ w.items = v.items /\ w.currentItem = v.currentItem
      /\ w.folder2combo = v.folder2combo /\ w.combo2folder = v.combo2folder
      /\ w.messagesAdded = v.messagesAdded /\ w.refreshes = v.refreshes - 1
  BY <1>1 DEF Fields
<1> HIDE DEF w
<1>3. SameRows(v, w) /\ StateOf(w) = StateOf(v)
  BY <1>1, <1>2 DEF SameRows, StateOf
<1>4. ViewType(w) /\ ComboSound(w) /\ FoldersKnown(u, w) /\ RowsSound(u, w)
  BY <1>1, <1>2, <1>3, RowsKept
<1>5. SelectionKept(u, w)
  BY <1>1, <1>2, <1>3 DEF SelectionKept
<1> QED
  BY <1>1, <1>2, <1>3, <1>4, <1>5 DEF ViewGood, ViewSound, SameChoice, w

LEMMA RefreshedFacts ==
    ASSUME NEW u, NEW v, ViewGood(u, v), v.displayedFolder # None
    PROVE  LET w == Refreshed(v)
           IN  ViewGood(u, w) /\ SameChoice(v, w) /\ w.refreshes = v.refreshes
<1> DEFINE w == Refreshed(v)
           d == v.displayedFolder
           e == [v.folderState[d] EXCEPT !.refreshView = FALSE]
<1>1. /\ ViewType(v) /\ DOMAIN v = Fields /\ v.folderState \in Seq(FolderStates)
      /\ v.refreshes \in Nat /\ d \in DOMAIN v.folderState
      /\ ComboSound(v) /\ FoldersKnown(u, v) /\ RowsSound(u, v) /\ SelectionKept(u, v)
  BY FieldsOfView DEF ViewGood, ViewSound, ViewType, FoldersKnown
<1>2. v.folderState[d] \in FolderStates
  BY <1>1, Element
<1>3. e \in FolderStates /\ e.selectedMessage = v.folderState[d].selectedMessage
      /\ e.selectedRow = v.folderState[d].selectedRow
  BY <1>2 DEF FolderStates
<1>4. /\ DOMAIN w = Fields /\ w.folderState = [v.folderState EXCEPT ![d] = e]
      /\ w.highlighted = v.highlighted
      /\ w.displayedFolder = v.displayedFolder /\ w.selectedFolder = v.selectedFolder
      /\ w.heads = v.heads /\ w.rows = v.rows
      /\ w.items = v.items /\ w.currentItem = v.currentItem
      /\ w.folder2combo = v.folder2combo /\ w.combo2folder = v.combo2folder
      /\ w.messagesAdded = v.messagesAdded /\ w.refreshes = v.refreshes
  BY <1>1 DEF Refreshed, Fields
<1> HIDE DEF e, w
<1>5. /\ w.folderState \in Seq(FolderStates) /\ Len(w.folderState) = Len(v.folderState)
      /\ DOMAIN w.folderState = DOMAIN v.folderState
      /\ w.folderState[d] = e
      /\ \A g \in DOMAIN v.folderState : g # d => w.folderState[g] = v.folderState[g]
  BY <1>1, <1>3, <1>4, ChangedElement
<1>6. SameRows(v, w)
  BY <1>1, <1>4, <1>5 DEF SameRows
<1>7. ViewType(w) /\ ComboSound(w) /\ FoldersKnown(u, w) /\ RowsSound(u, w)
  BY <1>1, <1>4, <1>5, <1>6, RowsKept
<1>8. /\ StateOf(w).selectedMessage = StateOf(v).selectedMessage
      /\ StateOf(w).selectedRow = StateOf(v).selectedRow
  BY <1>3, <1>4, <1>5 DEF StateOf
<1>9. SelectionKept(u, w)
  <2>1. \A g \in DOMAIN w.folderState : w.folderState[g].selectedMessage <= Len(u[g].messages)
    BY <1>1, <1>3, <1>5 DEF SelectionKept
  <2> QED
    BY <1>1, <1>4, <1>8, <2>1 DEF SelectionKept
<1> QED
  BY <1>4, <1>6, <1>7, <1>8, <1>9 DEF ViewGood, ViewSound, SameChoice, w

\* The state that the default click starts from.
LEMMA ForgetFacts ==
    ASSUME NEW u \in Ums, NEW v, ViewGood(u, v), v.displayedFolder # None
    PROVE  LET w == ForgetSelected(v)
               row == DefaultRow(v)
           IN  /\ SameRows(v, w) /\ w.refreshes = v.refreshes /\ w.highlighted = v.highlighted
               /\ StateOf(w).selectedMessage = None
               /\ v.rows = << >> => ViewGood(u, w)
               /\ v.rows # << >> => Clickable(u, w, row)
<1> DEFINE w == ForgetSelected(v)
           row == DefaultRow(v)
           d == v.displayedFolder
           e == [v.folderState[d] EXCEPT !.selectedMessage = 0, !.selectedRow = 0]
<1>1. /\ ViewType(v) /\ DOMAIN v = Fields /\ v.folderState \in Seq(FolderStates)
      /\ v.refreshes \in Nat /\ d \in DOMAIN v.folderState
      /\ ComboSound(v) /\ FoldersKnown(u, v) /\ RowsSound(u, v) /\ SelectionKept(u, v)
      /\ v.heads \in Seq(Nat) /\ v.rows \in Seq(Nat) /\ Len(v.folderState) <= Len(u)
  BY FieldsOfView DEF ViewGood, ViewSound, ViewType, FoldersKnown
<1>2. v.folderState[d] \in FolderStates
  BY <1>1, Element
<1>3. e \in FolderStates /\ e.selectedMessage = 0 /\ e.selectedRow = 0
  BY <1>2 DEF FolderStates
<1>4. /\ DOMAIN w = Fields /\ w.folderState = [v.folderState EXCEPT ![d] = e]
      /\ w.highlighted = v.highlighted
      /\ w.displayedFolder = v.displayedFolder /\ w.selectedFolder = v.selectedFolder
      /\ w.heads = v.heads /\ w.rows = v.rows
      /\ w.items = v.items /\ w.currentItem = v.currentItem
      /\ w.folder2combo = v.folder2combo /\ w.combo2folder = v.combo2folder
      /\ w.messagesAdded = v.messagesAdded /\ w.refreshes = v.refreshes
  BY <1>1, <1>2 DEF ForgetSelected, Fields, FolderStates
<1> HIDE DEF e, w
<1>5. /\ w.folderState \in Seq(FolderStates) /\ Len(w.folderState) = Len(v.folderState)
      /\ DOMAIN w.folderState = DOMAIN v.folderState
      /\ w.folderState[d] = e
      /\ \A g \in DOMAIN v.folderState : g # d => w.folderState[g] = v.folderState[g]
  BY <1>1, <1>3, <1>4, ChangedElement
<1>6. SameRows(v, w)
  BY <1>1, <1>4, <1>5 DEF SameRows
<1>7. ViewType(w) /\ ComboSound(w) /\ FoldersKnown(u, w) /\ RowsSound(u, w)
  BY <1>1, <1>4, <1>5, <1>6, RowsKept
<1>8. StateOf(w).selectedMessage = 0 /\ StateOf(w).selectedRow = 0
  BY <1>3, <1>4, <1>5 DEF StateOf
<1>9. d \in DOMAIN u /\ DOMAIN w.folderState \subseteq DOMAIN u
  <2>1. Len(v.folderState) \in Nat /\ Len(u) \in Nat /\ DOMAIN u = 1..Len(u)
        /\ DOMAIN v.folderState = 1..Len(v.folderState)
    BY <1>1 DEF Ums
  <2> QED
    BY <1>1, <1>5, <2>1
<1>10. SelectionsKnown(u, w)
  <2> SUFFICES ASSUME NEW g \in DOMAIN w.folderState
               PROVE  w.folderState[g].selectedMessage <= Len(u[g].messages)
    BY DEF SelectionsKnown
  <2>1. CASE g = d
    BY <1>3, <1>5, <1>9, <2>1, FolderFacts
  <2>2. CASE g # d
    BY <1>1, <1>5, <2>2 DEF SelectionKept
  <2> QED
    BY <2>1, <2>2
<1>11. StateOf(v).selectedMessage \in Nat /\ StateOf(v).selectedMessage <= Len(v.heads)
  BY <1>1, <1>2 DEF StateOf, FolderStates, SelectionKept
<1>12. ASSUME v.rows = << >> PROVE ViewGood(u, w)
  <2>1. v.heads = << >>
    BY <1>1, <1>12, RowsAndHeads DEF Showing
  <2>2. v.highlighted = {}
    BY <1>1, <1>11, <2>1 DEF SelectionKept
  <2>3. SelectionKept(u, w)
    BY <1>4, <1>7, <1>8, <1>10, <2>1, <2>2 DEF SelectionKept, SelectionsKnown
  <2> QED
    BY <1>7, <2>3 DEF ViewGood, ViewSound
<1>13. ASSUME v.rows # << >> PROVE Clickable(u, w, row)
  <2>1. v.heads # << >>
    BY <1>1, <1>13, RowsAndHeads DEF Showing
  <2>2. /\ row \in DOMAIN v.rows
        /\ StateOf(v).selectedMessage # 0 =>
               v.heads[v.rows[row]] = v.heads[StateOf(v).selectedMessage]
    <3>1. CASE StateOf(v).selectedMessage = 0
      BY <1>1, <1>13, <3>1 DEF DefaultRow
    <3>2. CASE StateOf(v).selectedMessage # 0
      <4> DEFINE m == StateOf(v).selectedMessage
      <4>1. m \in DOMAIN v.heads /\ m \in 1..Len(u[d].messages)
        <5>1. Len(v.heads) <= Len(u[d].messages) /\ Len(u[d].messages) \in Nat
          BY <1>1, <1>9, FolderFacts DEF RowsSound
        <5> QED
          BY <1>1, <1>11, <3>2, <5>1
      <4>2. row = v.heads[m] /\ v.heads[m] \in Nat /\ u[d].messages[m].lines \in Nat \ {0}
        <5>1. row = v.heads[m]
          BY <3>2 DEF DefaultRow
        <5>2. v.heads[m] \in Nat
          BY <1>1, <4>1, Element
        <5>3. u[d].messages[m].lines \in Nat \ {0}
          BY <1>9, <4>1, FolderFacts
        <5> QED
          BY <5>1, <5>2, <5>3
      <4> HIDE DEF m
      <4>3. /\ v.heads[m] >= 1
            /\ v.heads[m] + u[d].messages[m].lines <= Len(v.rows) + 1
            /\ \A r \in DOMAIN v.rows :
                  v.rows[r] = m <=> /\ r >= v.heads[m]
                                    /\ r < v.heads[m] + u[d].messages[m].lines
        BY <1>1, <4>1 DEF RowsSound
      <4>4. row \in DOMAIN v.rows
        <5>1. Len(v.rows) \in Nat /\ DOMAIN v.rows = 1..Len(v.rows)
          BY <1>1
        <5> QED
          BY <4>2, <4>3, <5>1
      <4>5. v.rows[row] = m
        BY <4>2, <4>3, <4>4
      <4> QED
        BY <4>4, <4>5 DEF m
    <3> QED
      BY <3>1, <3>2
  <2>3. v.rows[row] # 0
    BY <1>1, <2>2 DEF RowsSound
  <2>4. Emits(w, row)
    BY <1>4, <1>8, <2>3 DEF Emits
  <2>5. w.highlighted \subseteq {StateOf(w).selectedRow, w.heads[w.rows[row]]}
    <3>1. v.highlighted # {} =>
             /\ StateOf(v).selectedMessage # 0
             /\ v.highlighted = {v.heads[StateOf(v).selectedMessage]}
      BY <1>1 DEF SelectionKept
    <3> QED
      BY <1>4, <2>2, <3>1
  <2>6. row \in DOMAIN w.rows /\ w.displayedFolder # 0
    BY <1>4, <2>2
  <2> QED
    BY <1>7, <1>10, <2>4, <2>5, <2>6 DEF Clickable
<1> QED
  BY <1>4, <1>6, <1>8, <1>12, <1>13 DEF w

------------------------------------------------------------------------------
(* The source of a site. *)

TracebackFields ==
    {"tracebackString", "tracebackIndex", "grid", "highlighted", "displayedFile", "displayedLine"}
LEMMA FieldsOfTraceback == DOMAIN NewTraceback = TracebackFields
BY DEF NewTraceback, TracebackFields

\* A site with the highest priority, the first of several.
LEMMA Highest ==
    ASSUME NEW n \in Nat \ {0}, NEW rank \in [1..n -> Nat]
    PROVE  \E l \in 1..n : \A o \in 1..n :
               rank[o] < rank[l] \/ (rank[o] = rank[l] /\ l <= o)
<1> DEFINE Bounded == {m \in Nat : \E b \in Nat : \A l \in 1..n : l <= m => rank[l] <= b}
<1>1. 0 \in Bounded
  <2>1. \A l \in 1..n : l <= 0 => rank[l] <= 0
    OBVIOUS
  <2> QED
    BY <2>1
<1>2. ASSUME NEW m \in Bounded \cap Nat PROVE m + 1 \in Bounded
  <2>1. PICK b \in Nat : \A l \in 1..n : l <= m => rank[l] <= b
    OBVIOUS
  <2>2. CASE m + 1 \in 1..n /\ rank[m + 1] > b
    <3>1. rank[m + 1] \in Nat
      BY <2>2
    <3>2. \A l \in 1..n : l <= m + 1 => rank[l] <= rank[m + 1]
      <4> TAKE l \in 1..n
      <4> HAVE l <= m + 1
      <4>1. l \in Nat /\ rank[l] \in Nat
        OBVIOUS
      <4>2. CASE l <= m
        <5>1. rank[l] <= b
          BY <2>1, <4>2
        <5> QED
          BY <2>2, <3>1, <4>1, <5>1
      <4>3. CASE l = m + 1
        BY <3>1, <4>3
      <4> QED
        BY <4>1, <4>2, <4>3
    <3>3. \E c \in Nat : \A l \in 1..n : l <= m + 1 => rank[l] <= c
      BY <3>1, <3>2, Zenon
    <3> QED
      BY <3>3
  <2>3. CASE ~(m + 1 \in 1..n /\ rank[m + 1] > b)
    <3>1. \A l \in 1..n : l <= m + 1 => rank[l] <= b
      <4> TAKE l \in 1..n
      <4> HAVE l <= m + 1
      <4>1. l \in Nat /\ rank[l] \in Nat
        OBVIOUS
      <4>2. l <= m \/ l = m + 1
        BY <4>1
      <4> QED
        BY <2>1, <2>3, <4>1, <4>2
    <3> QED
      BY <3>1
  <2> QED
    BY <2>2, <2>3
<1>3. n \in Bounded
  <2> HIDE DEF Bounded
  <2>1. Nat \subseteq Bounded
    BY <1>1, <1>2, Induction
  <2> QED
    BY <2>1
<1>4. PICK b \in Nat : \A l \in 1..n : rank[l] <= b
  BY <1>3
<1> DEFINE Ranks == {rank[l] : l \in 1..n}
           top == Max(Ranks)
           Tops == {l \in 1..n : rank[l] = top}
<1>5. top \in Ranks /\ \A r \in Ranks : r <= top
  <2>1. Ranks \subseteq Nat /\ \A r \in Ranks : r <= b
    BY <1>4
  <2>2. rank[1] \in Ranks
    OBVIOUS
  <2> HIDE DEF Ranks
  <2> QED
    BY <2>1, <2>2, Greatest
<1> HIDE DEF top
<1>6. Tops \subseteq Nat /\ Tops # {}
  BY <1>5
<1>7. PICK l \in Tops : \A o \in Tops : l <= o
  <2> HIDE DEF Tops
  <2> QED
    BY <1>6, LeastElement
<1>8. l \in 1..n /\ rank[l] = top /\ top \in Nat
  BY <1>5, <1>7
<1>9. ASSUME NEW o \in 1..n PROVE rank[o] < rank[l] \/ (rank[o] = rank[l] /\ l <= o)
  <2>1. rank[o] \in Nat /\ rank[o] <= top
    BY <1>5
  <2>2. rank[o] = top => l <= o
    BY <1>7
  <2> QED
    BY <1>8, <2>1, <2>2
<1> QED
  BY <1>8, <1>9

\* The tracebacks there are.
Traceback(traceback) ==
    /\ traceback \in Seq(Sites)
    /\ \A level \in DOMAIN traceback : Priority(traceback[level]) \in Nat

LEMMA DefaultIsLevel ==
    ASSUME NEW traceback, Traceback(traceback), traceback # << >>
    PROVE  DefaultLevel(traceback) \in DOMAIN traceback
<1> DEFINE n == Len(traceback)
           rank == [l \in 1..n |-> Priority(traceback[l])]
<1>1. n \in Nat \ {0} /\ DOMAIN traceback = 1..n
  BY DEF Traceback
<1>2. rank \in [1..n -> Nat]
  BY <1>1 DEF Traceback
<1>3. \A l \in 1..n : rank[l] = Priority(traceback[l])
  OBVIOUS
<1> HIDE DEF n, rank
<1>4. \E l \in 1..n : \A o \in 1..n : rank[o] < rank[l] \/ (rank[o] = rank[l] /\ l <= o)
  BY <1>1, <1>2, Highest
<1>5. \E l \in DOMAIN traceback : \A o \in DOMAIN traceback :
         \/ Priority(traceback[o]) < Priority(traceback[l])
         \/ Priority(traceback[o]) = Priority(traceback[l]) /\ l <= o
  BY <1>1, <1>3, <1>4
<1> QED
  BY <1>5 DEF DefaultLevel

LEMMA SetTracebackFacts ==
    ASSUME NEW t, DOMAIN t = DOMAIN NewTraceback, NEW traceback
    PROVE  LET w == setTraceback(t, traceback)
           IN  /\ DOMAIN w = DOMAIN NewTraceback
               /\ w.tracebackString = traceback /\ w.tracebackIndex = DefaultLevel(traceback)
               /\ w.grid = t.grid /\ w.displayedFile = t.displayedFile
               /\ w.highlighted = t.highlighted \ {t.displayedLine}
BY FieldsOfTraceback DEF setTraceback, UndoHighlight, TracebackFields

LEMMA LevelFacts ==
    ASSUME NEW t, DOMAIN t = DOMAIN NewTraceback, NEW level
    PROVE  LET w == tracebackIndexSelectedHandler(t, level)
           IN  /\ DOMAIN w = DOMAIN NewTraceback
               /\ w.tracebackString = t.tracebackString /\ w.tracebackIndex = level
               /\ w.grid = t.grid /\ w.displayedFile = t.displayedFile
               /\ w.highlighted = t.highlighted \ {t.displayedLine}
BY FieldsOfTraceback DEF tracebackIndexSelectedHandler, UndoHighlight, TracebackFields

LEMMA ShowSiteFacts ==
    ASSUME NEW t, DOMAIN t = DOMAIN NewTraceback, t.grid = t.displayedFile, NEW site
    PROVE  LET w == ShowSite(t, site)
           IN  /\ DOMAIN w = DOMAIN NewTraceback
               /\ w.tracebackString = t.tracebackString /\ w.tracebackIndex = t.tracebackIndex
               /\ w.grid = w.displayedFile
               /\ t.highlighted \subseteq {site.line} =>
                      /\ Shows(w, site)
                      /\ w.highlighted \subseteq {w.displayedLine}
                      /\ w.highlighted \subseteq {site.line}
<1> DEFINE w == ShowSite(t, site)
<1>0. DOMAIN t = TracebackFields
  BY FieldsOfTraceback
<1>1. CASE site.file \in Missing \cup {NoFile}
  <2>1. w = Notice(t)
    BY <1>1 DEF ShowSite
  <2>2. /\ DOMAIN w = TracebackFields
        /\ w.tracebackString = t.tracebackString /\ w.tracebackIndex = t.tracebackIndex
        /\ w.grid = NoFile /\ w.displayedFile = NoFile /\ w.highlighted = {}
    BY <1>0, <2>1 DEF Notice, TracebackFields
  <2> QED
    BY <1>1, <2>2, FieldsOfTraceback DEF Shows
<1>2. CASE site.file \notin Missing \cup {NoFile}
  <2>1. w = Source(t, site)
    BY <1>2 DEF ShowSite
  <2>2. /\ DOMAIN w = TracebackFields
        /\ w.tracebackString = t.tracebackString /\ w.tracebackIndex = t.tracebackIndex
        /\ w.displayedFile = site.file /\ w.displayedLine = site.line
        /\ w.grid = site.file
        /\ w.highlighted = IF t.displayedFile = site.file
                           THEN t.highlighted \cup {site.line} ELSE {site.line}
    BY <1>0, <2>1 DEF Source, TracebackFields
  <2> QED
    BY <1>2, <2>2, FieldsOfTraceback DEF Shows
<1> QED
  BY <1>1, <1>2

WaitingCalls == Seq([site : Sites, caller : Callers])

FilesOrNone == Files \cup {NoFile}

\* A view that asks for a file shows nothing of the last one.
Asking(asking, site) ==
    /\ DOMAIN asking = DOMAIN NewTraceback
    /\ asking.grid = asking.displayedFile
    /\ ~overtaken => asking.highlighted = {}
    /\ site \in Sites \/ site = NoSite
    /\ calls \in WaitingCalls
    /\ \A k \in DOMAIN calls : calls[k].site.file # NoFile
    /\ overtaken \in BOOLEAN /\ requested \in FilesOrNone

LEMMA FileLineShown ==
    ASSUME NEW asking, NEW site, NEW caller \in Callers, Asking(asking, site),
           ShowFileLine(asking, site, caller)
    PROVE  /\ calls' \in WaitingCalls /\ overtaken' \in BOOLEAN /\ requested' \in FilesOrNone
           /\ DOMAIN tb' = DOMAIN NewTraceback
           /\ tb'.tracebackString = asking.tracebackString
           /\ tb'.tracebackIndex = asking.tracebackIndex
           /\ SourceSound'
           /\ \A k \in DOMAIN calls' : calls'[k].site.file # NoFile
           /\ ~overtaken' => ~overtaken /\ \A k \in DOMAIN calls' : calls'[k].site = site
           /\ ~overtaken' /\ calls' = << >> => Shows(tb', site)
           /\ \/ calls' = calls
              \/ /\ calls' = Append(calls, [site |-> site, caller |-> caller])
                 /\ site.file # NoFile
<1>1. /\ overtaken' \in BOOLEAN
      /\ ~overtaken' => ~overtaken /\ \A k \in DOMAIN calls : calls[k].site = site
  BY Zenon DEF ShowFileLine, Asking
<1>2. CASE site.file \in loaded \cup {NoFile}
  <2>1. tb' = ShowSite(asking, site) /\ calls' = calls /\ requested' = requested
    BY <1>2 DEF ShowFileLine
  <2>2. /\ DOMAIN tb' = DOMAIN NewTraceback
        /\ tb'.tracebackString = asking.tracebackString
        /\ tb'.tracebackIndex = asking.tracebackIndex
        /\ tb'.grid = tb'.displayedFile
        /\ asking.highlighted \subseteq {site.line} =>
              /\ Shows(tb', site)
              /\ tb'.highlighted \subseteq {tb'.displayedLine}
              /\ tb'.highlighted \subseteq {site.line}
    BY <2>1, ShowSiteFacts DEF Asking
  <2>3. ~overtaken' => asking.highlighted \subseteq {site.line}
    BY <1>1 DEF Asking
  <2>4. SourceSound'
    BY <1>1, <2>1, <2>2, <2>3 DEF SourceSound
  <2> QED
    BY <1>1, <2>1, <2>2, <2>3, <2>4 DEF Asking
<1>3. CASE site.file \notin loaded \cup {NoFile}
  <2> DEFINE call == [site |-> site, caller |-> caller]
  <2>1. tb' = asking /\ calls' = Append(calls, call) /\ site.file # NoFile
    BY <1>3 DEF ShowFileLine
  <2>2. site \in Sites
    BY <2>1 DEF Asking, NoSite
  <2>3. call \in [site : Sites, caller : Callers] /\ call.site = site
    BY <2>2
  <2>10. requested' \in FilesOrNone
    <3>1. site.file \in Files
      BY <2>2 DEF Sites
    <3> QED
      BY <1>3, <3>1 DEF ShowFileLine, Asking, FilesOrNone
  <2> HIDE DEF call
  <2>4. /\ calls' \in WaitingCalls /\ Len(calls') = Len(calls) + 1
        /\ \A k \in 1..Len(calls) : calls'[k] = calls[k]
        /\ calls'[Len(calls) + 1] = call
        /\ DOMAIN calls = 1..Len(calls) /\ Len(calls) \in Nat
        /\ DOMAIN calls' = 1..(Len(calls) + 1)
    BY <2>1, <2>3, Appended DEF Asking, WaitingCalls
  <2>5. ASSUME NEW k \in DOMAIN calls'
        PROVE  \/ calls'[k] = call
               \/ k \in DOMAIN calls /\ calls'[k] = calls[k]
    <3>1. k = Len(calls) + 1 \/ k \in 1..Len(calls)
      BY <2>4
    <3> QED
      BY <2>4, <3>1
  <2>6. \A k \in DOMAIN calls' : calls'[k].site.file # NoFile
    BY <2>1, <2>3, <2>5 DEF Asking
  <2>7. ~overtaken' => \A k \in DOMAIN calls' : calls'[k].site = site
    BY <1>1, <2>3, <2>5
  <2>8. calls' # << >>
    BY <2>4
  <2>9. SourceSound'
    BY <1>1, <2>1 DEF Asking, SourceSound
  <2> QED
    BY <1>1, <2>1, <2>4, <2>6, <2>7, <2>8, <2>9, <2>10 DEF Asking, call
<1> QED
  BY <1>2, <1>3

------------------------------------------------------------------------------
(* Steps of the view alone. *)

\* The UIManager only adds.
Grown(u, u2) ==
    /\ Len(u) <= Len(u2)
    /\ \A folder \in DOMAIN u :
          /\ Len(u[folder].messages) <= Len(u2[folder].messages)
          /\ \A m \in 1..Len(u[folder].messages) :
                u2[folder].messages[m] = u[folder].messages[m]

LEMMA ShownMessages ==
    ASSUME NEW u \in Ums, NEW v, ViewGood(u, v), v.displayedFolder # None
    PROVE  LET d == v.displayedFolder
           IN  /\ d \in DOMAIN v.folderState /\ d \in DOMAIN u
               /\ v.heads \in Seq(Nat) /\ Len(v.heads) \in Nat
               /\ DOMAIN v.heads = 1..Len(v.heads)
               /\ Len(v.heads) <= Len(u[d].messages)
               /\ DOMAIN v.heads \subseteq 1..Len(u[d].messages)
               /\ StateOf(v) \in FolderStates
               /\ StateOf(v).selectedMessage \in Nat
               /\ StateOf(v).selectedMessage <= Len(v.heads)
<1> DEFINE d == v.displayedFolder
<1>1. /\ v.folderState \in Seq(FolderStates) /\ v.heads \in Seq(Nat)
      /\ d \in DOMAIN v.folderState /\ Len(v.folderState) <= Len(u)
      /\ Len(v.heads) <= Len(u[d].messages)
      /\ StateOf(v).selectedMessage <= Len(v.heads)
  BY DEF ViewGood, ViewSound, ViewType, FoldersKnown, RowsSound, SelectionKept
<1>2. StateOf(v) \in FolderStates
  BY <1>1, Element DEF StateOf
<1>3. StateOf(v).selectedMessage \in Nat
  BY <1>2 DEF FolderStates
<1>4. d \in DOMAIN u
  <2>1. d \in 1..Len(v.folderState) /\ Len(v.folderState) \in Nat /\ Len(u) \in Nat
        /\ DOMAIN u = 1..Len(u)
    BY <1>1 DEF Ums
  <2> QED
    BY <1>1, <2>1
<1>5. /\ Len(u[d].messages) \in Nat /\ Len(v.heads) \in Nat
      /\ DOMAIN v.heads = 1..Len(v.heads)
  BY <1>1, <1>4, FolderFacts
<1>6. DOMAIN v.heads \subseteq 1..Len(u[d].messages)
  BY <1>1, <1>5
<1> QED
  BY <1>1, <1>2, <1>3, <1>4, <1>5, <1>6

LEMMA StillGood ==
    ASSUME NEW u \in Ums, NEW u2 \in Ums, Grown(u, u2), NEW v, ViewGood(u, v)
    PROVE  ViewGood(u2, v)
<1>1. /\ ViewType(v) /\ ComboSound(v) /\ v.folderState \in Seq(FolderStates)
      /\ Len(u) \in Nat /\ Len(u2) \in Nat /\ Len(u) <= Len(u2)
      /\ Len(v.folderState) <= Len(u) /\ Len(v.folderState) \in Nat
      /\ DOMAIN v.folderState = 1..Len(v.folderState) /\ DOMAIN u = 1..Len(u)
  BY DEF ViewGood, ViewSound, ViewType, FoldersKnown, Ums, Grown
<1>2. FoldersKnown(u2, v)
  <2>1. Len(v.folderState) <= Len(u2)
    BY <1>1
  <2> QED
    BY <2>1 DEF ViewGood, ViewSound, FoldersKnown
<1>3. DOMAIN v.folderState \subseteq DOMAIN u
  BY <1>1
<1>4. RowsSound(u2, v)
  <2>1. CASE v.displayedFolder = 0
    BY <2>1 DEF ViewGood, ViewSound, RowsSound
  <2>2. CASE v.displayedFolder # 0
    <3> DEFINE d == v.displayedFolder
    <3>1. /\ d \in DOMAIN u /\ Len(v.heads) \in Nat
          /\ Len(v.heads) <= Len(u[d].messages)
          /\ DOMAIN v.heads \subseteq 1..Len(u[d].messages)
          /\ d \in DOMAIN v.folderState
      BY <2>2, ShownMessages
    <3>2. d \in DOMAIN u2
      <4>1. DOMAIN u2 = 1..Len(u2)
        BY DEF Ums
      <4> QED
        BY <1>1, <3>1, <4>1
    <3>3. \A m \in DOMAIN v.heads : u2[d].messages[m] = u[d].messages[m]
      BY <3>1 DEF Grown
    <3>4. Len(v.heads) <= Len(u2[d].messages)
      <4>1. Len(u[d].messages) <= Len(u2[d].messages)
        BY <3>1 DEF Grown
      <4>2. Len(u[d].messages) \in Nat /\ Len(u2[d].messages) \in Nat
        BY <3>1, <3>2, FolderFacts
      <4> QED
        BY <3>1, <4>1, <4>2
    <3> QED
      BY <2>2, <3>3, <3>4 DEF ViewGood, ViewSound, RowsSound
  <2> QED
    BY <2>1, <2>2
<1>5. SelectionKept(u2, v)
  <2>1. ASSUME NEW g \in DOMAIN v.folderState
        PROVE  v.folderState[g].selectedMessage <= Len(u2[g].messages)
    <3>1. g \in DOMAIN u /\ g \in DOMAIN u2
      <4>1. DOMAIN u2 = 1..Len(u2)
        BY DEF Ums
      <4> QED
        BY <1>1, <1>3, <4>1
    <3>2. /\ Len(u[g].messages) \in Nat /\ Len(u2[g].messages) \in Nat
          /\ Len(u[g].messages) <= Len(u2[g].messages)
      BY <3>1, FolderFacts DEF Grown
    <3>3. /\ v.folderState[g].selectedMessage <= Len(u[g].messages)
          /\ v.folderState[g] \in FolderStates
      BY <1>1, Element DEF ViewGood, ViewSound, SelectionKept
    <3>4. v.folderState[g].selectedMessage \in Nat
      BY <3>3 DEF FolderStates
    <3> QED
      BY <3>2, <3>3, <3>4
  <2> QED
    BY <2>1 DEF ViewGood, ViewSound, SelectionKept
<1> QED
  BY <1>1, <1>2, <1>4, <1>5 DEF ViewGood, ViewSound

ChosenOf(u, v, t, c) ==
    LET state == StateOf(v)
        site == SiteAt(t, t.tracebackIndex)
    IN  /\ v.heads # << >> =>
               /\ state.selectedMessage # None
               /\ v.highlighted = {v.heads[state.selectedMessage]}
        /\ t.tracebackString =
               IF state.selectedMessage = None THEN << >>
               ELSE u[v.displayedFolder].messages[state.selectedMessage].traceback
        /\ \A k \in DOMAIN c : c[k].site = site
        /\ c = << >> => Shows(t, site)

LEMMA ChosenIs ==
    /\ Chosen <=> ChosenOf(um, view, tb, calls)
    /\ Chosen' <=> ChosenOf(um', view', tb', calls')
BY DEF Chosen, ChosenOf, SiteAt, Shows, StateOf

\* The folder shown, its selection and its refresh stay, apart from new messages.
Carried(v, w) ==
    /\ w.displayedFolder = v.displayedFolder
    /\ w.highlighted = v.highlighted
    /\ w.heads = << >> <=> v.heads = << >>
    /\ \A m \in DOMAIN v.heads : w.heads[m] = v.heads[m]
    /\ StateOf(w).selectedMessage = StateOf(v).selectedMessage

LEMMA ChosenCarried ==
    ASSUME NEW u \in Ums, NEW u2, Grown(u, u2), NEW v, NEW w, ViewGood(u, v),
           v.displayedFolder # None, Carried(v, w), NEW t, NEW c, ChosenOf(u, v, t, c)
    PROVE  ChosenOf(u2, w, t, c)
<1> DEFINE d == v.displayedFolder
           m == StateOf(v).selectedMessage
<1>1. /\ d \in DOMAIN u
      /\ Len(v.heads) \in Nat /\ DOMAIN v.heads = 1..Len(v.heads)
      /\ DOMAIN v.heads \subseteq 1..Len(u[d].messages)
      /\ m \in Nat /\ m <= Len(v.heads)
  BY ShownMessages
<1> HIDE DEF m
<1>2. m # 0 => m \in DOMAIN v.heads
  BY <1>1
<1>3. m # 0 => u2[d].messages[m] = u[d].messages[m] /\ w.heads[m] = v.heads[m]
  BY <1>1, <1>2 DEF Grown, Carried
<1>4. StateOf(w).selectedMessage = m /\ w.displayedFolder = d
  BY DEF Carried, m
<1>5. w.heads # << >> => m # 0 /\ w.highlighted = {w.heads[m]}
  BY <1>3 DEF ChosenOf, Carried, m
<1>6. t.tracebackString = IF m = 0 THEN << >> ELSE u2[d].messages[m].traceback
  BY <1>3 DEF ChosenOf, m
<1> QED
  BY <1>4, <1>5, <1>6 DEF ChosenOf

Moved(v, w) ==
    \/ v.displayedFolder = None /\ w.displayedFolder = None
    \/ /\ v.displayedFolder # None /\ Carried(v, w)
       /\ \/ ~Owed
          \/ /\ StateOf(w).refreshView = StateOf(v).refreshView
             /\ w.refreshes = v.refreshes
    \/ Posted(w) /\ (v.heads = << >> \/ overtaken' \/ calls = << >>)

ViewMoves ==
    /\ um' \in Ums /\ Grown(um, um')
    /\ ViewGood(um', view')
    /\ open' \in BOOLEAN
    /\ Len(view'.folderState) = IF open' THEN Len(um') ELSE 0
    /\ overtaken' \in BOOLEAN /\ (overtaken => overtaken')
    /\ tb' = tb /\ calls' = calls
    /\ requested' = requested \/ requested' \in FilesOrNone
    /\ Moved(view, view')

LEMMA ViewMovesWell ==
    ASSUME IInv, ViewMoves
    PROVE  IInv'
<1>1. um \in Ums /\ ViewGood(um, view) /\ view'.displayedFolder \in Nat
  <2>1. um \in Ums /\ ViewGood(um, view)
    BY DEF IInv, TypeOK, ViewGood, Ums
  <2>2. view'.displayedFolder \in Nat
    <3>1. view'.folderState \in Seq(FolderStates)
          /\ view'.displayedFolder \in {0} \cup DOMAIN view'.folderState
      BY DEF ViewMoves, ViewGood, ViewType, ViewSound, FoldersKnown
    <3> QED
      BY <3>1
  <2> QED
    BY <2>1, <2>2
<1>2. TypeOK'
  <2>1. ViewType(view)'
    BY DEF ViewMoves, ViewGood, ViewType, FolderStates
  <2> QED
    BY <2>1 DEF IInv, TypeOK, ViewMoves, Ums, FilesOrNone
<1>3. StatesKept'
  BY DEF StatesKept, ViewMoves
<1>4. ViewSound(um, view)'
  BY DEF ViewMoves, ViewGood
<1>5. midUpdate' <=> midUpdate
  BY DEF midUpdate, ViewMoves
<1>6. ~overtaken' => ~overtaken
  BY DEF ViewMoves
<1>7. Posted(view') => view'.displayedFolder # 0
  BY DEF Posted, ViewMoves, ViewGood, ViewSound, RowsSound
<1>8. ASSUME ~overtaken', midUpdate PROVE view.heads # << >> /\ calls # << >>
  <2>1. view.heads # << >>
    BY <1>6, <1>8 DEF IInv, CallsSound
  <2>2. calls # << >>
    BY <1>8 DEF midUpdate
  <2> QED
    BY <2>1, <2>2
<1>9. CallsSound'
  <2>1. view'.displayedFolder = 0 => view.displayedFolder = 0
    BY <1>7 DEF ViewMoves, Moved, Carried
  <2>2. ASSUME ~overtaken', midUpdate PROVE view'.heads # << >>
    <3>1. view.displayedFolder # 0
      BY <1>8, <2>2 DEF IInv, CallsSound
    <3>2. ~(view.heads = << >> \/ overtaken' \/ calls = << >>)
      BY <1>8, <2>2
    <3>3. Carried(view, view')
      BY <3>1, <3>2 DEF ViewMoves, Moved
    <3> QED
      BY <3>2, <3>3 DEF Carried
  <2> QED
    BY <1>5, <1>6, <2>1, <2>2 DEF IInv, CallsSound, ViewMoves
<1>10. SourceSound'
  BY <1>6 DEF IInv, SourceSound, ViewMoves
<1>11. ASSUME view'.displayedFolder # 0, ~overtaken' PROVE Chosen' \/ Owed'
  <2>1. CASE /\ view.displayedFolder # 0 /\ Carried(view, view')
             /\ \/ ~Owed
                \/ /\ StateOf(view').refreshView = StateOf(view).refreshView
                   /\ view'.refreshes = view.refreshes
    <3>1. Chosen \/ Owed
      BY <1>6, <1>11, <2>1 DEF IInv, ChosenOrOwed
    <3>2. CASE Chosen
      <4>1. ChosenOf(um, view, tb, calls)
        BY <3>2, ChosenIs
      <4>2. ChosenOf(um', view', tb, calls)
        BY <1>1, <2>1, <4>1, ChosenCarried DEF ViewMoves
      <4> QED
        BY <4>2, ChosenIs DEF ViewMoves
    <3>3. CASE Owed
      BY <1>5, <2>1, <3>3 DEF Owed, StateOf
    <3> QED
      BY <3>1, <3>2, <3>3
  <2>2. CASE Posted(view') /\ (view.heads = << >> \/ overtaken' \/ calls = << >>)
    <3>1. ~midUpdate
      BY <1>8, <1>11, <2>2
    <3> QED
      BY <1>5, <2>2, <3>1 DEF Owed, Posted, StateOf
  <2> QED
    BY <1>11, <2>1, <2>2 DEF ViewMoves, Moved
<1> QED
  BY <1>2, <1>3, <1>4, <1>9, <1>10, <1>11 DEF IInv, ChosenOrOwed

LEMMA StepMoves ==
    ASSUME NEW v, NEW w, Step(v, w)
    PROVE  Moved(v, w)
<1>1. CASE Undisturbed(v, w)
  BY <1>1 DEF Moved, Undisturbed, Carried, StateOf
<1>2. CASE Posted(w) /\ v.heads = << >>
  BY <1>2 DEF Moved
<1> QED
  BY <1>1, <1>2 DEF Step

LEMMA GrownSame ==
    ASSUME NEW u \in Ums
    PROVE  Grown(u, u)
<1>1. Len(u) \in Nat
  BY DEF Ums
<1>2. \A folder \in DOMAIN u : Len(u[folder].messages) \in Nat
  BY FolderFacts
<1> QED
  BY <1>1, <1>2 DEF Grown

\* What an inductive step starts from.
LEMMA InductionStart ==
    ASSUME IInv
    PROVE  /\ um \in Ums /\ Len(um) \in Nat /\ DOMAIN um = 1..Len(um)
           /\ ViewGood(um, view)
           /\ open \in BOOLEAN /\ overtaken \in BOOLEAN
           /\ requested \in FilesOrNone
           /\ Len(view.folderState) = IF open THEN Len(um) ELSE 0
           /\ calls \in WaitingCalls
BY DEF IInv, TypeOK, StatesKept, ViewGood, Ums, WaitingCalls, FilesOrNone

\* A folder, or a message, more.
LEMMA OneMoreFolder ==
    ASSUME NEW u \in Ums, NEW policy \in Policies
    PROVE  LET u2 == Append(u, [ifEmpty |-> policy, messages |-> << >>])
           IN  u2 \in Ums /\ Len(u2) = Len(u) + 1 /\ Grown(u, u2)
<1> DEFINE F == [ifEmpty : Policies, messages : Seq(Texts)]
           e == [ifEmpty |-> policy, messages |-> << >>]
           u2 == Append(u, e)
<1>1. e \in F /\ u \in Seq(F)
  BY DEF Ums
<1> HIDE DEF e, F
<1>2. /\ u2 \in Seq(F) /\ Len(u2) = Len(u) + 1
      /\ \A i \in 1..Len(u) : u2[i] = u[i]
      /\ Len(u) \in Nat /\ DOMAIN u = 1..Len(u)
  BY <1>1, Appended
<1> HIDE DEF u2
<1>3. \A folder \in DOMAIN u : Len(u[folder].messages) \in Nat
  BY FolderFacts
<1>4. Grown(u, u2)
  BY <1>2, <1>3 DEF Grown
<1> QED
  BY <1>2, <1>4 DEF Ums, F, u2, e

LEMMA OneMoreMessage ==
    ASSUME NEW u \in Ums, NEW folder \in DOMAIN u, NEW text \in Texts
    PROVE  LET u2 == [u EXCEPT ![folder].messages = Append(@, text)]
           IN  u2 \in Ums /\ Len(u2) = Len(u) /\ Grown(u, u2)
<1> DEFINE F == [ifEmpty : Policies, messages : Seq(Texts)]
           more == Append(u[folder].messages, text)
           e == [u[folder] EXCEPT !.messages = more]
           u2 == [u EXCEPT ![folder].messages = Append(@, text)]
<1>1. u[folder] \in F /\ u[folder].messages \in Seq(Texts) /\ u \in Seq(F)
  BY FolderFacts DEF Ums
<1>2. /\ more \in Seq(Texts) /\ Len(more) = Len(u[folder].messages) + 1
      /\ \A i \in 1..Len(u[folder].messages) : more[i] = u[folder].messages[i]
  BY <1>1, Appended
<1> HIDE DEF more
<1>3. e \in F /\ e.messages = more
  BY <1>1, <1>2
<1>4. u2 = [u EXCEPT ![folder] = e]
  BY <1>1 DEF more
<1> HIDE DEF e, u2, F
<1>5. /\ u2 \in Seq(F) /\ Len(u2) = Len(u) /\ u2[folder] = e
      /\ \A j \in DOMAIN u : j # folder => u2[j] = u[j]
      /\ Len(u) \in Nat
  BY <1>1, <1>3, <1>4, ChangedElement
<1>6. \A g \in DOMAIN u : Len(u[g].messages) \in Nat
  BY FolderFacts
<1>7. Grown(u, u2)
  <2>1. ASSUME NEW g \in DOMAIN u
        PROVE  /\ Len(u[g].messages) <= Len(u2[g].messages)
               /\ \A m \in 1..Len(u[g].messages) : u2[g].messages[m] = u[g].messages[m]
    <3>1. CASE g = folder
      BY <1>2, <1>3, <1>5, <1>6, <3>1
    <3>2. CASE g # folder
      BY <1>5, <1>6, <3>2
    <3> QED
      BY <3>1, <3>2
  <2> QED
    BY <1>5, <2>1 DEF Grown
<1> QED
  BY <1>5, <1>7 DEF Ums, F, u2

LEMMA DeclareFolderKeeps == IInv /\ DeclareFolder => IInv'
<1> SUFFICES ASSUME IInv, DeclareFolder PROVE IInv'
  OBVIOUS
<1>1. /\ um \in Ums /\ Len(um) \in Nat /\ ViewGood(um, view)
      /\ open \in BOOLEAN /\ overtaken \in BOOLEAN
      /\ Len(view.folderState) = IF open THEN Len(um) ELSE 0
  BY InductionStart
<1>2. um' \in Ums /\ Len(um') = Len(um) + 1 /\ Grown(um, um')
  <2>1. PICK policies \in Declarations :
            /\ Len(um) < Len(policies)
            /\ um' = Append(um, [ifEmpty |-> policies[Len(um) + 1], messages |-> << >>])
    BY DEF DeclareFolder
  <2>2. policies[Len(um) + 1] \in Policies
    <3>1. policies \in Seq(Policies)
      BY ViewerAssumption DEF ViewerAssumption
    <3>2. Len(um) + 1 \in DOMAIN policies
      BY <1>1, <2>1, <3>1
    <3> QED
      BY <3>1, <3>2, Element
  <2> QED
    BY <1>1, <2>1, <2>2, OneMoreFolder
<1>3. ViewGood(um', view)
  BY <1>1, <1>2, StillGood
<1>4. /\ open' = open /\ tb' = tb /\ calls' = calls /\ overtaken' = overtaken
      /\ requested' = requested
      /\ view' = IF open THEN messageFolderDeclaredHandler(um', view, Len(um')) ELSE view
  BY DEF DeclareFolder
<1>5. CASE open
  <2>1. /\ Len(view.folderState) = Len(um) /\ Len(um') = Len(view.folderState) + 1
        /\ Len(view.folderState) < Len(um')
    BY <1>1, <1>2, <1>5
  <2>2. view' = messageFolderDeclaredHandler(um', view, Len(view.folderState) + 1)
    BY <1>4, <1>5, <2>1
  <2>3. ViewGood(um', view') /\ Declared(view, view')
    BY <1>2, <1>3, <2>1, <2>2, DeclaredFacts
  <2>4. Len(view'.folderState) = Len(um')
    BY <2>1, <2>3 DEF Declared
  <2>5. Moved(view, view')
    BY <2>3 DEF Declared, Moved, Carried
  <2> QED
    BY <1>1, <1>2, <1>4, <1>5, <2>3, <2>4, <2>5, ViewMovesWell DEF ViewMoves
<1>6. CASE ~open
  <2>1. Moved(view, view)
    BY DEF Moved, Carried
  <2> QED
    BY <1>1, <1>2, <1>3, <1>4, <1>6, <2>1, ViewMovesWell DEF ViewMoves
<1> QED
  BY <1>5, <1>6

LEMMA AddMessageKeeps == IInv /\ AddMessage => IInv'
<1> SUFFICES ASSUME IInv, AddMessage PROVE IInv'
  OBVIOUS
<1>1. /\ um \in Ums /\ Len(um) \in Nat /\ ViewGood(um, view)
      /\ open \in BOOLEAN /\ overtaken \in BOOLEAN
      /\ Len(view.folderState) = IF open THEN Len(um) ELSE 0
  BY InductionStart
<1>2. um' \in Ums /\ Len(um') = Len(um) /\ Grown(um, um')
  <2>1. PICK folder \in DOMAIN um, text \in Texts :
            um' = [um EXCEPT ![folder].messages = Append(@, text)]
    BY DEF AddMessage
  <2> QED
    BY <1>1, <2>1, OneMoreMessage
<1>3. ViewGood(um', view)
  BY <1>1, <1>2, StillGood
<1>4. /\ open' = open /\ tb' = tb /\ calls' = calls /\ overtaken' = overtaken
      /\ requested' = requested
      /\ view' = [view EXCEPT !.messagesAdded = @ \/ open]
  BY DEF AddMessage
<1> DEFINE added == view.messagesAdded \/ open
<1>5. added \in BOOLEAN
  OBVIOUS
<1>6. view' = [view EXCEPT !.messagesAdded = added, !.displayedCount = view.displayedCount]
  <2>1. DOMAIN view = Fields
    BY <1>1, FieldsOfView DEF ViewGood, ViewType
  <2> QED
    BY <1>4, <2>1 DEF Fields
<1> HIDE DEF added
<1>7. ViewGood(um', view') /\ Step(view, view')
  BY <1>3, <1>5, <1>6, SightKept
<1>8. Moved(view, view') /\ Len(view'.folderState) = Len(view.folderState)
  BY <1>7, StepMoves DEF Step
<1> QED
  BY <1>1, <1>2, <1>4, <1>7, <1>8, ViewMovesWell DEF ViewMoves

\* Before the window is there it shows no folder.
LEMMA NothingShown ==
    ASSUME IInv, ~open
    PROVE  view.displayedFolder = None
<1>1. Len(view.folderState) = 0 /\ view.folderState \in Seq(FolderStates)
  BY InductionStart DEF ViewGood, ViewType
<1>2. view.displayedFolder \in {0} \cup DOMAIN view.folderState
  BY InductionStart DEF ViewGood, ViewSound, FoldersKnown
<1> QED
  BY <1>1, <1>2

LEMMA OpenWindowKeeps == IInv /\ OpenWindow => IInv'
<1> SUFFICES ASSUME IInv, OpenWindow PROVE IInv'
  OBVIOUS
<1>1. um \in Ums /\ ViewGood(um, view) /\ overtaken \in BOOLEAN /\ Grown(um, um)
  BY InductionStart, GrownSame
<1>2. /\ open' = TRUE /\ tb' = tb /\ calls' = calls /\ overtaken' = overtaken
      /\ requested' = requested
      /\ view' = Construct(um) /\ um' = um
  BY DEF OpenWindow
<1>3. /\ ViewGood(um, view') /\ Len(view'.folderState) = Len(um)
      /\ view'.displayedFolder = 0 \/ Posted(view')
  BY <1>1, <1>2, ConstructFacts
<1>4. view.displayedFolder = 0 /\ view.heads = << >>
  BY <1>1, NothingShown DEF OpenWindow, ViewGood, ViewSound, RowsSound
<1>5. Moved(view, view')
  BY <1>3, <1>4 DEF Moved
<1> QED
  BY <1>1, <1>2, <1>3, <1>5, ViewMovesWell DEF ViewMoves

LEMMA FlushKeeps == IInv /\ Flush => IInv'
<1> SUFFICES ASSUME IInv, Flush PROVE IInv'
  OBVIOUS
<1>1. /\ um \in Ums /\ ViewGood(um, view) /\ overtaken \in BOOLEAN /\ Grown(um, um)
      /\ open \in BOOLEAN /\ Len(view.folderState) = IF open THEN Len(um) ELSE 0
  BY InductionStart, GrownSame
<1>2. /\ open /\ open' = open /\ tb' = tb /\ calls' = calls /\ overtaken' = overtaken
      /\ requested' = requested
      /\ view' = flushMessageUpdates(um, view) /\ um' = um
  BY DEF Flush
<1>3. ViewGood(um, view') /\ Step(view, view')
  BY <1>1, <1>2, FlushFacts
<1>4. Moved(view, view') /\ Len(view'.folderState) = Len(view.folderState)
  BY <1>3, StepMoves DEF Step
<1> QED
  BY <1>1, <1>2, <1>3, <1>4, ViewMovesWell DEF ViewMoves

LEMMA ChangeFontKeeps == IInv /\ ChangeFont => IInv'
<1> SUFFICES ASSUME IInv, ChangeFont PROVE IInv'
  OBVIOUS
<1>1. /\ um \in Ums /\ ViewGood(um, view) /\ overtaken \in BOOLEAN /\ Grown(um, um)
      /\ open \in BOOLEAN /\ Len(view.folderState) = IF open THEN Len(um) ELSE 0
  BY InductionStart, GrownSame
<1>2. /\ open' = open /\ tb' = tb /\ calls' = calls /\ overtaken' = overtaken
      /\ requested' = requested
      /\ view' = labelFontChanged(view) /\ um' = um
  BY DEF ChangeFont
<1>3. view' = [view EXCEPT !.messagesAdded = TRUE, !.displayedCount = << >>]
  <2>1. DOMAIN view = Fields
    BY <1>1, FieldsOfView DEF ViewGood, ViewType
  <2> QED
    BY <1>2, <2>1 DEF labelFontChanged, Fields
<1>4. ViewGood(um, view') /\ Step(view, view')
  BY <1>1, <1>3, SightKept
<1>5. Moved(view, view') /\ Len(view'.folderState) = Len(view.folderState)
  BY <1>4, StepMoves DEF Step
<1> QED
  BY <1>1, <1>2, <1>4, <1>5, ViewMovesWell DEF ViewMoves

LEMMA SelectFolderKeeps == IInv /\ SelectFolder => IInv'
<1> SUFFICES ASSUME IInv, SelectFolder PROVE IInv'
  OBVIOUS
<1>1. /\ um \in Ums /\ ViewGood(um, view) /\ overtaken \in BOOLEAN /\ Grown(um, um)
      /\ open \in BOOLEAN /\ Len(view.folderState) = IF open THEN Len(um) ELSE 0
  BY InductionStart, GrownSame
<1>2. PICK combo \in DOMAIN view.items :
          view' = messageFolderSelectedHandler(um, view, combo)
  BY DEF SelectFolder
<1>3. /\ open' = open /\ tb' = tb /\ calls' = calls /\ um' = um
      /\ requested' = requested
      /\ overtaken' = (overtaken \/ calls # << >>)
  BY DEF SelectFolder
<1>4. /\ ViewGood(um, view') /\ Len(view'.folderState) = Len(view.folderState)
      /\ view'.displayedFolder # 0
      /\ Posted(view') \/ Undisturbed(view, view')
  <2>1. GridOK(um, view) /\ MapsSound(view) /\ view.selectedFolder = view.displayedFolder
    BY <1>1 DEF ViewGood, ViewSound, GridOK, ComboSound
  <2> QED
    BY <1>1, <1>2, <2>1, HandlerFacts
<1>5. Moved(view, view')
  <2>1. CASE Undisturbed(view, view')
    BY <2>1 DEF Moved, Undisturbed, Carried, StateOf
  <2>2. CASE Posted(view')
    BY <1>3, <2>2 DEF Moved
  <2> QED
    BY <1>4, <2>1, <2>2
<1>6. overtaken' \in BOOLEAN /\ (overtaken => overtaken')
  BY <1>1, <1>3
<1> QED
  BY <1>1, <1>3, <1>4, <1>5, <1>6, ViewMovesWell DEF ViewMoves

------------------------------------------------------------------------------
(* Steps that show a site, or wait for its file. *)

LEMMA FileArrivesKeeps == IInv /\ FileArrives => IInv'
<1> SUFFICES ASSUME IInv, FileArrives PROVE IInv'
  OBVIOUS
<1>1. /\ um \in Ums /\ ViewGood(um, view) /\ overtaken \in BOOLEAN /\ Grown(um, um)
      /\ open \in BOOLEAN /\ Len(view.folderState) = IF open THEN Len(um) ELSE 0
  BY InductionStart, GrownSame
<1>2. /\ open' = open /\ tb' = tb /\ calls' = calls /\ overtaken' = overtaken
      /\ view' = view /\ um' = um
      /\ requested' \in FilesOrNone
  BY DEF FileArrives, FilesOrNone
<1>3. Moved(view, view)
  BY DEF Moved, Carried
<1> QED
  BY <1>1, <1>2, <1>3, ViewMovesWell DEF ViewMoves

LEMMA Shortened ==
    ASSUME NEW S, NEW s \in Seq(S), s # << >>
    PROVE  /\ Front(s) \in Seq(S) /\ Len(Front(s)) = Len(s) - 1
           /\ \A i \in DOMAIN Front(s) : i \in DOMAIN s /\ Front(s)[i] = s[i]
           /\ Last(s) = s[Len(s)] /\ Len(s) \in DOMAIN s
           /\ Len(s) - 1 \in Nat
<1>1. Len(s) \in Nat /\ Len(s) # 0 /\ DOMAIN s = 1..Len(s)
  OBVIOUS
<1> QED
  BY <1>1 DEF Front, Last

LEMMA RequestFileKeeps == IInv /\ RequestFile => IInv'
<1> SUFFICES ASSUME IInv, RequestFile PROVE IInv'
  OBVIOUS
<1>1. /\ um \in Ums /\ ViewGood(um, view) /\ overtaken \in BOOLEAN /\ Grown(um, um)
      /\ open \in BOOLEAN /\ Len(view.folderState) = IF open THEN Len(um) ELSE 0
      /\ calls \in WaitingCalls
  BY InductionStart, GrownSame
<1>2. /\ open' = open /\ tb' = tb /\ calls' = calls /\ overtaken' = overtaken
      /\ view' = view /\ um' = um
  BY DEF RequestFile
<1>3. requested' \in FilesOrNone
  <2>1. /\ Last(calls) = calls[Len(calls)] /\ Len(calls) \in DOMAIN calls
    BY <1>1, Shortened DEF RequestFile, Resumes, WaitingCalls
  <2>2. \A k \in DOMAIN calls : calls[k] \in [site : Sites, caller : Callers]
    BY <1>1, Element DEF WaitingCalls
  <2>3. Last(calls).site \in Sites
    BY <2>1, <2>2
  <2> QED
    BY <2>3 DEF RequestFile, FilesOrNone, Sites
<1>4. Moved(view, view)
  BY DEF Moved, Carried
<1> QED
  BY <1>1, <1>2, <1>3, <1>4, ViewMovesWell DEF ViewMoves

LEMMA CallReturnsKeeps == IInv /\ CallReturns => IInv'
<1> SUFFICES ASSUME IInv, CallReturns PROVE IInv'
  OBVIOUS
<1>1. /\ um \in Ums /\ ViewGood(um, view) /\ overtaken \in BOOLEAN /\ Grown(um, um)
      /\ open \in BOOLEAN /\ Len(view.folderState) = IF open THEN Len(um) ELSE 0
      /\ calls \in WaitingCalls
  BY InductionStart, GrownSame
<1> DEFINE call == Last(calls)
<1>2. /\ calls # << >> /\ calls' = Front(calls)
      /\ tb' = ShowSite(tb, call.site)
      /\ view' = IF call.caller = "selectDefaultMessage" THEN Refreshed(view) ELSE view
      /\ um' = um /\ open' = open /\ overtaken' = overtaken
      /\ requested' = requested
  BY DEF CallReturns, Resumes
<1>3. /\ calls' \in WaitingCalls /\ Len(calls') = Len(calls) - 1
      /\ \A k \in DOMAIN calls' : k \in DOMAIN calls /\ calls'[k] = calls[k]
      /\ \E k \in DOMAIN calls : call = calls[k]
      /\ Len(calls) - 1 \in Nat /\ Len(calls) \in Nat
  BY <1>1, <1>2, Shortened DEF WaitingCalls
<1> HIDE DEF call
<1>4. view.displayedFolder # 0
  BY <1>2 DEF IInv, CallsSound
<1>5. /\ ViewGood(um, view') /\ SameChoice(view, view')
      /\ view'.refreshes = view.refreshes
      /\ call.caller # "selectDefaultMessage" => view' = view
  <2>1. CASE call.caller = "selectDefaultMessage"
    <3>1. view' = Refreshed(view)
      BY <1>2, <2>1
    <3> QED
      BY <1>1, <1>4, <2>1, <3>1, RefreshedFacts
  <2>2. CASE call.caller # "selectDefaultMessage"
    BY <1>1, <1>2, <2>2 DEF SameChoice, SameRows
  <2> QED
    BY <2>1, <2>2
<1>6. /\ DOMAIN tb = DOMAIN NewTraceback /\ tb.grid = tb.displayedFile
      /\ tb.tracebackString \in Seq(Sites)
  BY DEF IInv, TypeOK, SourceSound
<1>7. /\ DOMAIN tb' = DOMAIN NewTraceback
      /\ tb'.tracebackString = tb.tracebackString /\ tb'.tracebackIndex = tb.tracebackIndex
      /\ tb'.grid = tb'.displayedFile
      /\ tb.highlighted \subseteq {call.site.line} =>
             /\ Shows(tb', call.site)
             /\ tb'.highlighted \subseteq {tb'.displayedLine}
             /\ tb'.highlighted \subseteq {call.site.line}
  BY <1>2, <1>6, ShowSiteFacts
<1>8. ASSUME ~overtaken
      PROVE  /\ tb.highlighted \subseteq {call.site.line}
             /\ \A k \in DOMAIN calls' : calls'[k].site = call.site
  BY <1>3, <1>8 DEF IInv, SourceSound, CallsSound
<1>9. midUpdate' => midUpdate
  BY <1>3 DEF midUpdate
<1>10. TypeOK'
  <2>1. Len(calls') <= MaxWaits + 1
    <3>1. Len(calls) <= MaxWaits + 1 /\ MaxWaits \in Nat
      BY ViewerAssumption DEF IInv, TypeOK, ViewerAssumption
    <3> QED
      BY <3>1, <1>3
  <2>2. ViewType(view)'
    BY <1>5 DEF ViewGood, ViewType, FolderStates
  <2> QED
    BY <1>1, <1>2, <1>3, <1>6, <1>7, <2>1, <2>2 DEF IInv, TypeOK, Ums, WaitingCalls
<1>11. StatesKept'
  BY <1>1, <1>2, <1>5 DEF StatesKept, SameChoice, SameRows
<1>12. ViewSound(um, view)'
  BY <1>2, <1>5 DEF ViewGood
<1>13. CallsSound'
  <2>1. \A k \in DOMAIN calls' : calls'[k].site.file # NoFile
    BY <1>3 DEF IInv, CallsSound
  <2>2. Len(calls') <= MaxWaits
    <3>1. Len(calls) <= MaxWaits + 1 /\ MaxWaits \in Nat
      BY ViewerAssumption DEF IInv, TypeOK, ViewerAssumption
    <3> QED
      BY <3>1, <1>3
  <2>3. view'.displayedFolder # 0
    BY <1>4, <1>5 DEF SameChoice, SameRows
  <2>4. ASSUME ~overtaken' PROVE \A k, l \in DOMAIN calls' : calls'[k].site = calls'[l].site
    BY <1>2, <1>8, <2>4
  <2>5. ASSUME ~overtaken', midUpdate' PROVE view'.heads # << >>
    BY <1>2, <1>5, <1>9, <2>5 DEF IInv, CallsSound, SameChoice, SameRows
  <2> QED
    BY <2>1, <2>2, <2>3, <2>4, <2>5 DEF CallsSound
<1>14. SourceSound'
  BY <1>2, <1>7, <1>8 DEF SourceSound
<1>15. ASSUME view'.displayedFolder # 0, ~overtaken' PROVE Chosen' \/ Owed'
  <2>1. Chosen \/ Owed
    BY <1>2, <1>4, <1>15 DEF IInv, ChosenOrOwed
  <2>2. CASE Chosen
    <3> DEFINE site == SiteAt(tb, tb.tracebackIndex)
    <3>1. ChosenOf(um, view, tb, calls)
      BY <2>2, ChosenIs
    <3>2. call.site = site
      BY <1>3, <3>1 DEF ChosenOf
    <3>3. Carried(view, view')
      BY <1>5 DEF Carried, SameChoice, SameRows
    <3>4. ChosenOf(um, view', tb, calls)
      BY <1>1, <1>4, <3>1, <3>3, ChosenCarried
    <3>5. SiteAt(tb', tb'.tracebackIndex) = site
      BY <1>7 DEF SiteAt
    <3> HIDE DEF site
    <3>6. Shows(tb', site)
      BY <1>2, <1>7, <1>8, <1>15, <3>2
    <3>7. \A k \in DOMAIN calls' : calls'[k].site = site
      BY <1>2, <1>8, <1>15, <3>2
    <3>8. ChosenOf(um, view', tb', calls')
      BY <1>7, <3>4, <3>5, <3>6, <3>7 DEF ChosenOf
    <3> QED
      BY <1>2, <3>8, ChosenIs
  <2>3. CASE Owed
    <3>1. call.caller # "selectDefaultMessage"
      BY <1>3, <2>3 DEF Owed, midUpdate
    <3>2. view' = view
      BY <1>5, <3>1
    <3> QED
      BY <1>9, <2>3, <3>2 DEF Owed, StateOf
  <2> QED
    BY <2>1, <2>2, <2>3
<1> QED
  BY <1>10, <1>11, <1>12, <1>13, <1>14, <1>15 DEF IInv, ChosenOrOwed

SelectedOf(u, v, tracebackString) ==
    LET message == StateOf(v).selectedMessage
    IN  /\ v.heads # << >> => message # None /\ v.highlighted = {v.heads[message]}
        /\ tracebackString =
               IF message = None THEN << >>
               ELSE u[v.displayedFolder].messages[message].traceback

\* A site is shown, or asked for, in a window that has what is selected.
ShownStep(asking, site, caller) ==
    /\ Asking(asking, site) /\ ShowFileLine(asking, site, caller)
    /\ caller \in Callers
    /\ site = SiteAt(asking, asking.tracebackIndex)
    /\ asking.tracebackString \in Seq(Sites)
    /\ um' = um /\ open' = open
    /\ ViewGood(um, view') /\ Len(view'.folderState) = Len(view.folderState)
    /\ view'.displayedFolder # None /\ view'.heads = view.heads
    /\ IF caller = "selectDefaultMessage"
       THEN ~midUpdate /\ (site.file # NoFile => view.heads # << >>)
       ELSE Len(calls) < MaxWaits
    /\ \/ overtaken
       \/ SelectedOf(um, view', asking.tracebackString)
       \/ caller # "selectDefaultMessage" /\ Owed /\ view' = view

LEMMA ShownWell ==
    ASSUME IInv, NEW asking, NEW site, NEW caller, ShownStep(asking, site, caller)
    PROVE  IInv'
<1>1. /\ um \in Ums /\ open \in BOOLEAN /\ calls \in WaitingCalls
      /\ Len(view.folderState) = IF open THEN Len(um) ELSE 0
  BY InductionStart
<1>2. /\ calls' \in WaitingCalls /\ overtaken' \in BOOLEAN /\ requested' \in FilesOrNone
      /\ DOMAIN tb' = DOMAIN NewTraceback
      /\ tb'.tracebackString = asking.tracebackString
      /\ tb'.tracebackIndex = asking.tracebackIndex
      /\ SourceSound'
      /\ \A k \in DOMAIN calls' : calls'[k].site.file # NoFile
      /\ ~overtaken' => ~overtaken /\ \A k \in DOMAIN calls' : calls'[k].site = site
      /\ ~overtaken' /\ calls' = << >> => Shows(tb', site)
      /\ \/ calls' = calls
         \/ /\ calls' = Append(calls, [site |-> site, caller |-> caller])
            /\ site.file # NoFile
  BY FileLineShown DEF ShownStep
<1>3. /\ Len(calls) \in Nat /\ MaxWaits \in Nat
      /\ midUpdate \/ Len(calls) <= MaxWaits
      /\ Len(calls) <= MaxWaits + 1
  BY <1>1, ViewerAssumption DEF WaitingCalls, ViewerAssumption, IInv, CallsSound, TypeOK
<1>4. ASSUME calls' # calls
      PROVE  /\ Len(calls') = Len(calls) + 1
             /\ \A k \in 1..Len(calls) : calls'[k] = calls[k]
             /\ calls'[Len(calls) + 1].caller = caller
             /\ DOMAIN calls' = 1..(Len(calls) + 1) /\ DOMAIN calls = 1..Len(calls)
             /\ site.file # NoFile
  <2> DEFINE S == [site : Sites, caller : Callers]
             call == [site |-> site, caller |-> caller]
  <2>1. calls' = Append(calls, call) /\ site.file # NoFile
    BY <1>2, <1>4
  <2>2. call \in S /\ call.caller = caller
    BY <2>1 DEF ShownStep, Asking, NoSite
  <2>3. calls \in Seq(S)
    BY <1>1 DEF WaitingCalls
  <2> HIDE DEF S, call
  <2>4. /\ Append(calls, call) \in Seq(S)
        /\ Len(Append(calls, call)) = Len(calls) + 1
        /\ \A i \in 1..Len(calls) : Append(calls, call)[i] = calls[i]
        /\ Append(calls, call)[Len(calls) + 1] = call
    BY <2>2, <2>3, Appended
  <2> QED
    BY <2>1, <2>2, <2>3, <2>4
<1>5. midUpdate' => midUpdate \/ (caller = "selectDefaultMessage" /\ site.file # NoFile)
  <2>1. CASE calls' = calls
    BY <2>1 DEF midUpdate
  <2>2. CASE calls' # calls
    <3> SUFFICES ASSUME NEW k \in DOMAIN calls', calls'[k].caller = "selectDefaultMessage"
                 PROVE  midUpdate \/ (caller = "selectDefaultMessage" /\ site.file # NoFile)
      BY DEF midUpdate
    <3>1. k \in DOMAIN calls \/ k = Len(calls) + 1
      BY <1>3, <1>4, <2>2
    <3> QED
      BY <1>4, <2>2, <3>1 DEF midUpdate
  <2> QED
    BY <2>1, <2>2
<1>6. Len(calls') <= MaxWaits + 1 /\ (midUpdate' \/ Len(calls') <= MaxWaits)
  <2>1. CASE calls' = calls
    BY <1>3, <2>1 DEF midUpdate
  <2>2. CASE calls' # calls
    <3>1. CASE caller = "selectDefaultMessage"
      <4>1. Len(calls) <= MaxWaits
        BY <1>3, <3>1 DEF ShownStep
      <4>2. midUpdate'
        <5>1. Len(calls) + 1 \in DOMAIN calls'
          BY <1>3, <1>4, <2>2
        <5> QED
          BY <1>4, <2>2, <3>1, <5>1 DEF midUpdate
      <4> QED
        BY <1>3, <1>4, <2>2, <4>1, <4>2
    <3>2. CASE caller # "selectDefaultMessage"
      <4>1. Len(calls) < MaxWaits
        BY <3>2 DEF ShownStep
      <4> QED
        BY <1>3, <1>4, <2>2, <4>1
    <3> QED
      BY <3>1, <3>2
  <2> QED
    BY <2>1, <2>2
<1>7. TypeOK'
  <2>1. ViewType(view)'
    BY DEF ShownStep, ViewGood, ViewType, FolderStates
  <2> QED
    BY <1>1, <1>2, <1>6, <2>1 DEF TypeOK, Ums, WaitingCalls, FilesOrNone, ShownStep
<1>8. StatesKept'
  BY <1>1 DEF StatesKept, ShownStep
<1>9. ViewSound(um, view)'
  BY DEF ShownStep, ViewGood
<1>10. CallsSound'
  <2>1. ASSUME ~overtaken', midUpdate' PROVE view'.heads # << >>
    <3>1. view.heads # << >>
      BY <1>2, <1>5, <2>1 DEF IInv, CallsSound, ShownStep
    <3> QED
      BY <3>1 DEF ShownStep
  <2>2. ~overtaken' => \A k, l \in DOMAIN calls' : calls'[k].site = calls'[l].site
    BY <1>2
  <2>3. view'.displayedFolder # 0
    BY DEF ShownStep
  <2> QED
    BY <1>2, <1>6, <2>1, <2>2, <2>3 DEF CallsSound
<1>11. ASSUME ~overtaken' PROVE Chosen' \/ Owed'
  <2>1. ~overtaken
    BY <1>2, <1>11
  <2>2. CASE SelectedOf(um, view', asking.tracebackString)
    <3>1. SiteAt(tb', tb'.tracebackIndex) = site
      BY <1>2 DEF SiteAt, ShownStep
    <3>2. ChosenOf(um, view', tb', calls')
      BY <1>2, <1>11, <2>2, <3>1 DEF ChosenOf, SelectedOf
    <3> QED
      BY <3>2, ChosenIs DEF ShownStep
  <2>3. CASE caller # "selectDefaultMessage" /\ Owed /\ view' = view
    <3>1. ~midUpdate'
      BY <1>5, <2>3 DEF Owed
    <3> QED
      BY <2>3, <3>1 DEF Owed, StateOf
  <2> QED
    BY <2>1, <2>2, <2>3 DEF ShownStep
<1> QED
  BY <1>2, <1>7, <1>8, <1>9, <1>10, <1>11 DEF IInv, ChosenOrOwed

LEMMA UndoneIsEmpty ==
    ASSUME IInv, ~overtaken
    PROVE  tb.highlighted \ {tb.displayedLine} = {}
BY DEF IInv, SourceSound

\* A traceback is set, and its default site asked for.
LEMMA TracebackAsked ==
    ASSUME IInv, NEW traceback, Traceback(traceback)
    PROVE  LET asking == setTraceback(tb, traceback)
               site == SiteAt(asking, asking.tracebackIndex)
           IN  /\ Asking(asking, site)
               /\ asking.tracebackString = traceback
               /\ site.file # NoFile => traceback # << >>
<1> DEFINE asking == setTraceback(tb, traceback)
           site == SiteAt(asking, asking.tracebackIndex)
<1>1. /\ calls \in WaitingCalls /\ overtaken \in BOOLEAN /\ requested \in FilesOrNone
      /\ DOMAIN tb = DOMAIN NewTraceback /\ tb.grid = tb.displayedFile
      /\ \A k \in DOMAIN calls : calls[k].site.file # NoFile
  BY InductionStart DEF IInv, TypeOK, SourceSound, CallsSound
<1>2. /\ DOMAIN asking = DOMAIN NewTraceback
      /\ asking.tracebackString = traceback
      /\ asking.tracebackIndex = DefaultLevel(traceback)
      /\ asking.grid = tb.grid /\ asking.displayedFile = tb.displayedFile
      /\ asking.highlighted = tb.highlighted \ {tb.displayedLine}
  BY <1>1, SetTracebackFacts
<1> HIDE DEF asking
<1>3. CASE traceback = << >>
  <2>1. site = NoSite
    BY <1>2, <1>3 DEF SiteAt
  <2> HIDE DEF site
  <2>2. site.file = NoFile
    BY <2>1 DEF NoSite
  <2> QED
    BY <1>1, <1>2, <2>1, <2>2, UndoneIsEmpty DEF Asking, site, asking
<1>4. CASE traceback # << >>
  <2>1. DefaultLevel(traceback) \in DOMAIN traceback
    BY <1>4, DefaultIsLevel
  <2>2. site = traceback[DefaultLevel(traceback)]
    BY <1>2, <1>4 DEF SiteAt
  <2>3. site \in Sites
    BY <2>1, <2>2, Element DEF Traceback
  <2> HIDE DEF site
  <2> QED
    BY <1>1, <1>2, <1>4, <2>3, UndoneIsEmpty DEF Asking, site, asking
<1> QED
  BY <1>3, <1>4

LEMMA MessageTraceback ==
    ASSUME NEW u \in Ums, NEW folder \in DOMAIN u, NEW m \in 1..Len(u[folder].messages)
    PROVE  Traceback(u[folder].messages[m].traceback)
<1>1. u[folder].messages[m] \in Texts
  BY FolderFacts
<1> QED
  BY <1>1, ViewerAssumption DEF ViewerAssumption, Traceback

LEMMA EmptyTraceback == Traceback(<< >>)
BY DEF Traceback

LEMMA SelectLevelKeeps == IInv /\ SelectLevel => IInv'
<1> SUFFICES ASSUME IInv, SelectLevel PROVE IInv'
  OBVIOUS
<1>1. PICK level \in DOMAIN tb.tracebackString \ {tb.tracebackIndex} :
          ShowFileLine(tracebackIndexSelectedHandler(tb, level),
                       tb.tracebackString[level], "tracebackIndexSelectedHandler")
  BY DEF SelectLevel
<1> DEFINE asking == tracebackIndexSelectedHandler(tb, level)
           site == tb.tracebackString[level]
           caller == "tracebackIndexSelectedHandler"
<1>2. Len(calls) < MaxWaits /\ um' = um /\ open' = open /\ view' = view
  BY DEF SelectLevel
<1>3. /\ calls \in WaitingCalls /\ overtaken \in BOOLEAN /\ requested \in FilesOrNone
      /\ ViewGood(um, view)
      /\ DOMAIN tb = DOMAIN NewTraceback /\ tb.grid = tb.displayedFile
      /\ tb.tracebackString \in Seq(Sites)
      /\ \A k \in DOMAIN calls : calls[k].site.file # NoFile
  BY InductionStart DEF IInv, TypeOK, SourceSound, CallsSound
<1>4. /\ DOMAIN asking = DOMAIN NewTraceback
      /\ asking.tracebackString = tb.tracebackString /\ asking.tracebackIndex = level
      /\ asking.grid = tb.grid /\ asking.displayedFile = tb.displayedFile
      /\ asking.highlighted = tb.highlighted \ {tb.displayedLine}
  BY <1>3, LevelFacts
<1> HIDE DEF asking
<1>5. tb.tracebackString # << >> /\ site \in Sites
  BY <1>3, Element
<1>6. site = SiteAt(asking, asking.tracebackIndex)
  BY <1>4, <1>5 DEF SiteAt
<1> HIDE DEF site
<1>7. Asking(asking, site)
  BY <1>3, <1>4, <1>5, UndoneIsEmpty DEF Asking
<1>8. view.displayedFolder # 0
  BY <1>5 DEF IInv, CallsSound
<1>9. \/ overtaken
      \/ SelectedOf(um, view, asking.tracebackString)
      \/ Owed
  <2>1. ASSUME Chosen PROVE SelectedOf(um, view, asking.tracebackString)
    BY <1>4, <2>1, ChosenIs DEF ChosenOf, SelectedOf
  <2> QED
    BY <1>8, <2>1 DEF IInv, ChosenOrOwed
<1>10. caller \in Callers /\ caller # "selectDefaultMessage"
  BY DEF Callers
<1>11. ShowFileLine(asking, site, caller)
  BY <1>1 DEF asking, site
<1> HIDE DEF caller
<1>12. ShownStep(asking, site, caller)
  BY <1>2, <1>3, <1>4, <1>6, <1>7, <1>8, <1>9, <1>10, <1>11 DEF ShownStep
<1> QED
  BY <1>12, ShownWell

\* A row that the user may click on in a grid with messages.
LEMMA RowOfGrid ==
    ASSUME NEW v, ViewType(v), NEW row \in Rows(v), v.rows # << >>
    PROVE  row \in DOMAIN v.rows
<1>1. v.rows \in Seq(Nat) /\ Len(v.rows) \in Nat \ {0} /\ DOMAIN v.rows = 1..Len(v.rows)
  BY DEF ViewType
<1>2. row \in 1..Max({1, Len(v.rows)})
  BY DEF Rows
<1>3. Max({1, Len(v.rows)}) \in {1, Len(v.rows)}
  <2> DEFINE S == {1, Len(v.rows)}
  <2>1. S \subseteq Nat /\ S # {} /\ \A s \in S : s <= Len(v.rows)
    BY <1>1
  <2> HIDE DEF S
  <2>2. Max(S) \in S
    BY <1>1, <2>1, Greatest
  <2> QED
    BY <2>2 DEF S
<1> QED
  BY <1>1, <1>2, <1>3

LEMMA ClickMessageKeeps == IInv /\ ClickMessage => IInv'
<1> SUFFICES ASSUME IInv, ClickMessage PROVE IInv'
  OBVIOUS
<1>1. PICK row \in Rows(view) :
          /\ Emits(view, row)
          /\ view' = messageClickedHandler(view, row)
          /\ SetTraceback(SelectedTraceback(um, view, row), "messageClickedHandler")
  BY DEF ClickMessage
<1> DEFINE traceback == SelectedTraceback(um, view, row)
           asking == setTraceback(tb, traceback)
           site == SiteAt(asking, asking.tracebackIndex)
           caller == "messageClickedHandler"
<1>2. Len(calls) < MaxWaits /\ um' = um /\ open' = open
  BY DEF ClickMessage
<1>3. /\ um \in Ums /\ ViewGood(um, view)
      /\ view.displayedFolder # 0 /\ view.selectedFolder = view.displayedFolder
  <2>1. um \in Ums /\ ViewGood(um, view)
    BY InductionStart
  <2>2. view.selectedFolder # 0
    BY DEF Rows
  <2>3. view.selectedFolder = view.displayedFolder
    BY <2>1 DEF ViewGood, ViewSound, ComboSound
  <2> QED
    BY <2>1, <2>2, <2>3
<1>4. ShowFileLine(asking, site, caller)
  BY <1>1 DEF SetTraceback
<1>5. caller \in Callers /\ caller # "selectDefaultMessage"
  BY DEF Callers
<1> HIDE DEF caller
<1>6. /\ Traceback(traceback)
      /\ ViewGood(um, view') /\ Len(view'.folderState) = Len(view.folderState)
      /\ view'.displayedFolder # 0 /\ view'.heads = view.heads
      /\ SelectedOf(um, view', traceback)
  <2>1. CASE view.rows = << >>
    <3>1. view' = view /\ traceback = << >>
      BY <1>1, <2>1 DEF messageClickedHandler, Empty, SelectedTraceback
    <3>2. view.heads = << >>
      BY <1>3, <2>1, RowsAndHeads DEF Showing, ViewGood, ViewSound
    <3>3. StateOf(view).selectedMessage = 0
      BY <1>3, <3>2, ShownMessages
    <3>4. SelectedOf(um, view', traceback)
      BY <3>1, <3>2, <3>3 DEF SelectedOf
    <3> QED
      BY <1>3, <3>1, <3>4, EmptyTraceback
  <2>2. CASE view.rows # << >>
    <3>1. row \in DOMAIN view.rows
      BY <1>3, <2>2, RowOfGrid DEF ViewGood
    <3>2. Clickable(um, view, row)
      BY <1>1, <1>3, <3>1
         DEF Clickable, ViewGood, ViewSound, SelectionKept, SelectionsKnown
    <3> DEFINE message == view.rows[row]
    <3>3. /\ ViewGood(um, view') /\ SameRows(view, view')
          /\ message \in DOMAIN view.heads /\ message # 0
          /\ StateOf(view').selectedMessage = message
          /\ view'.highlighted = {view.heads[message]}
      BY <1>1, <1>3, <3>2, ClickFacts
    <3>4. traceback = um[view.displayedFolder].messages[message].traceback
      BY <1>3, <2>2 DEF SelectedTraceback, Empty
    <3> HIDE DEF message, traceback
    <3>5. Traceback(traceback)
      BY <1>3, <3>3, <3>4, ShownMessages, MessageTraceback
    <3>6. SelectedOf(um, view', traceback)
      BY <3>3, <3>4 DEF SelectedOf, SameRows
    <3> QED
      BY <1>3, <3>3, <3>5, <3>6 DEF SameRows
  <2> QED
    BY <2>1, <2>2
<1> HIDE DEF traceback
<1>7. Asking(asking, site) /\ asking.tracebackString = traceback
  BY <1>6, TracebackAsked
<1>8. traceback \in Seq(Sites)
  BY <1>6 DEF Traceback
<1> HIDE DEF asking
<1>9. site = SiteAt(asking, asking.tracebackIndex)
  OBVIOUS
<1> HIDE DEF site
<1>10. ShownStep(asking, site, caller)
  BY <1>2, <1>4, <1>5, <1>6, <1>7, <1>8, <1>9 DEF ShownStep
<1> QED
  BY <1>10, ShownWell

LEMMA selectDefaultMessageKeeps == IInv /\ selectDefaultMessage => IInv'
<1> SUFFICES ASSUME IInv, selectDefaultMessage PROVE IInv'
  OBVIOUS
<1> DEFINE taken == [view EXCEPT !.refreshes = @ - 1]
           cleared == ForgetSelected(taken)
           row == DefaultRow(taken)
           clicked == messageClickedHandler(cleared, row)
           traceback == SelectedTraceback(um, view, row)
           asking == setTraceback(tb, traceback)
           site == SiteAt(asking, asking.tracebackIndex)
           caller == "selectDefaultMessage"
<1>1. /\ um \in Ums /\ ViewGood(um, view) /\ Grown(um, um)
      /\ open \in BOOLEAN /\ overtaken \in BOOLEAN
      /\ Len(view.folderState) = IF open THEN Len(um) ELSE 0
  BY InductionStart, GrownSame
<1>2. view.refreshes > 0 /\ um' = um /\ open' = open
  BY DEF selectDefaultMessage
<1>3. /\ ViewGood(um, taken) /\ SameChoice(view, taken) /\ StateOf(taken) = StateOf(view)
      /\ view.displayedFolder # 0
  BY <1>1, <1>2, TakenFacts
<1>4. CASE midUpdate \/ ~StateOf(view).refreshView
  <2>1. /\ view' = taken /\ tb' = tb /\ calls' = calls /\ overtaken' = overtaken
        /\ requested' = requested
    BY <1>4 DEF selectDefaultMessage
  <2>2. ~Owed
    BY <1>4 DEF Owed
  <2>3. Moved(view, view')
    BY <1>3, <2>1, <2>2 DEF Moved, Carried, SameChoice, SameRows
  <2>4. Len(view'.folderState) = Len(view.folderState)
    BY <1>3, <2>1 DEF SameChoice, SameRows
  <2> HIDE DEF taken
  <2> QED
    BY <1>1, <1>2, <1>3, <2>1, <2>3, <2>4, ViewMovesWell DEF ViewMoves
<1>5. CASE ~(midUpdate \/ ~StateOf(view).refreshView)
  <2>1. /\ ShowFileLine(asking, site, caller)
        /\ view' = IF calls' = calls THEN Refreshed(clicked) ELSE clicked
    BY <1>5 DEF selectDefaultMessage, SetTraceback
  <2>2. caller \in Callers
    BY DEF Callers
  <2> HIDE DEF taken
  <2>3. /\ taken.displayedFolder = view.displayedFolder
        /\ taken.selectedFolder = view.displayedFolder
        /\ taken.heads = view.heads /\ taken.rows = view.rows
        /\ Len(taken.folderState) = Len(view.folderState)
    BY <1>1, <1>3 DEF SameChoice, SameRows, ViewGood, ViewSound, ComboSound
  <2>4. /\ SameRows(taken, cleared)
        /\ StateOf(cleared).selectedMessage = 0
        /\ taken.rows = << >> => ViewGood(um, cleared)
        /\ taken.rows # << >> => Clickable(um, cleared, row)
    BY <1>1, <1>3, <2>3, ForgetFacts
  <2> HIDE DEF cleared, row
  <2>5. view.selectedFolder = view.displayedFolder
    BY <1>1 DEF ViewGood, ViewSound, ComboSound
  <2>6. /\ Traceback(traceback)
        /\ traceback # << >> => view.heads # << >>
        /\ ViewGood(um, clicked) /\ SameRows(taken, clicked)
        /\ SelectedOf(um, clicked, traceback)
    <3>1. CASE view.rows = << >>
      <4>1. clicked = cleared /\ traceback = << >>
        BY <2>3, <2>4, <3>1 DEF messageClickedHandler, Empty, SelectedTraceback, SameRows
      <4>2. view.heads = << >>
        BY <1>1, <1>3, <3>1, RowsAndHeads DEF Showing, ViewGood, ViewSound
      <4>3. SelectedOf(um, cleared, << >>)
        BY <2>3, <2>4, <4>2 DEF SelectedOf, SameRows
      <4> QED
        BY <2>3, <2>4, <3>1, <4>1, <4>3, EmptyTraceback
    <3>2. CASE view.rows # << >>
      <4> DEFINE message == cleared.rows[row]
      <4>1. /\ ViewGood(um, clicked) /\ SameRows(cleared, clicked)
            /\ message \in DOMAIN cleared.heads /\ message # 0
            /\ StateOf(clicked).selectedMessage = message
            /\ clicked.highlighted = {cleared.heads[message]}
        BY <1>1, <2>3, <2>4, <3>2, ClickFacts
      <4>2. /\ traceback = um[view.displayedFolder].messages[message].traceback
            /\ cleared.heads = view.heads
        BY <2>3, <2>4, <2>5, <3>2 DEF SelectedTraceback, Empty, SameRows
      <4> HIDE DEF message, traceback, clicked
      <4>3. Traceback(traceback)
        BY <1>1, <1>3, <4>1, <4>2, ShownMessages, MessageTraceback
      <4>4. SameRows(taken, clicked)
        BY <2>4, <4>1 DEF SameRows
      <4>5. SelectedOf(um, clicked, traceback)
        BY <2>3, <4>1, <4>2, <4>4 DEF SelectedOf, SameRows
      <4>6. view.heads # << >>
        BY <1>1, <1>3, <3>2, RowsAndHeads DEF Showing, ViewGood, ViewSound
      <4> QED
        BY <4>1, <4>3, <4>4, <4>5, <4>6
    <3> QED
      BY <3>1, <3>2
  <2> HIDE DEF traceback, clicked
  <2>7. /\ ViewGood(um, view') /\ SameRows(taken, view')
        /\ SelectedOf(um, view', traceback)
    <3>1. CASE calls' = calls
      <4>1. clicked.displayedFolder # 0
        BY <1>3, <2>3, <2>6 DEF SameRows
      <4>2. view' = Refreshed(clicked)
        BY <2>1, <3>1
      <4>3. ViewGood(um, view') /\ SameChoice(clicked, view')
        BY <2>6, <4>1, <4>2, RefreshedFacts
      <4> QED
        BY <2>6, <4>3 DEF SameChoice, SameRows, SelectedOf
    <3>2. CASE calls' # calls
      BY <2>1, <2>6, <3>2
    <3> QED
      BY <3>1, <3>2
  <2>8. /\ Asking(asking, site) /\ asking.tracebackString = traceback
        /\ site.file # NoFile => traceback # << >>
    BY <2>6, TracebackAsked
  <2>9. traceback \in Seq(Sites)
    BY <2>6 DEF Traceback
  <2> HIDE DEF asking
  <2>10. site = SiteAt(asking, asking.tracebackIndex)
    OBVIOUS
  <2> HIDE DEF site
  <2>11. /\ Len(view'.folderState) = Len(view.folderState)
         /\ view'.displayedFolder # 0 /\ view'.heads = view.heads
    BY <1>3, <2>3, <2>7 DEF SameRows
  <2>12. ~midUpdate /\ (site.file # NoFile => view.heads # << >>)
    BY <1>5, <2>6, <2>8
  <2>13. ShownStep(asking, site, caller)
    BY <1>2, <2>1, <2>2, <2>7, <2>8, <2>9, <2>10, <2>11, <2>12 DEF ShownStep
  <2> QED
    BY <2>13, ShownWell
<1> QED
  BY <1>4, <1>5

------------------------------------------------------------------------------
(* The invariant, and what follows from it. *)

LEMMA InitSound == Init => IInv
<1> SUFFICES ASSUME Init PROVE IInv
  OBVIOUS
<1>1. /\ um = << >> /\ open = FALSE /\ view = NewView /\ tb = NewTraceback
      /\ calls = << >> /\ overtaken = FALSE /\ requested = NoFile
  BY DEF Init
<1>2. << >> \in Ums
  BY DEF Ums
<1>3. um \in Ums
  BY <1>1, <1>2
<1>4. ViewGood(um, view) /\ Len(view.folderState) = 0 /\ view.displayedFolder = 0
  BY <1>1, <1>3, NewViewGood
<1>5. /\ tb.tracebackString = << >> /\ tb.grid = tb.displayedFile /\ tb.highlighted = {}
      /\ DOMAIN tb = DOMAIN NewTraceback
  BY <1>1 DEF NewTraceback
<1>6. Len(calls) = 0 /\ Len(calls) <= MaxWaits /\ Len(calls) <= MaxWaits + 1
  <2>1. Len(<< >>) = 0
    OBVIOUS
  <2>2. MaxWaits \in Nat
    BY ViewerAssumption DEF ViewerAssumption
  <2> QED
    BY <1>1, <2>1, <2>2
<1>7. TypeOK
  <2>1. open \in BOOLEAN /\ overtaken \in BOOLEAN /\ requested \in Files \cup {NoFile}
    BY <1>1
  <2>2. /\ tb.tracebackString \in Seq(Sites)
        /\ calls \in Seq([site : Sites, caller : Callers])
    BY <1>1, <1>5
  <2> QED
    BY <1>3, <1>4, <1>5, <1>6, <2>1, <2>2 DEF TypeOK, Ums, ViewGood
<1>8. StatesKept
  BY <1>1, <1>4 DEF StatesKept
<1>9. CallsSound
  BY <1>1, <1>4, <1>5, <1>6 DEF CallsSound, midUpdate
<1>10. SourceSound
  BY <1>1, <1>5 DEF SourceSound
<1>11. ChosenOrOwed
  BY <1>4 DEF ChosenOrOwed
<1> QED
  BY <1>4, <1>7, <1>8, <1>9, <1>10, <1>11 DEF IInv, ViewGood

LEMMA StutteringKeeps == IInv /\ UNCHANGED vars => IInv'
<1> SUFFICES ASSUME IInv, UNCHANGED vars PROVE IInv'
  OBVIOUS
<1>1. /\ um' = um /\ open' = open /\ view' = view /\ tb' = tb
      /\ calls' = calls /\ overtaken' = overtaken /\ requested' = requested
  BY DEF vars
<1>2. Moved(view, view)
  BY DEF Moved, Carried
<1> QED
  BY <1>1, <1>2, InductionStart, GrownSame, ViewMovesWell DEF ViewMoves

LEMMA NextKeeps == IInv /\ [Next]_vars => IInv'
<1> SUFFICES ASSUME IInv, [Next]_vars PROVE IInv'
  OBVIOUS
<1> QED
  BY DeclareFolderKeeps, AddMessageKeeps, OpenWindowKeeps, FileArrivesKeeps,
     RequestFileKeeps, CallReturnsKeeps, FlushKeeps, selectDefaultMessageKeeps, SelectFolderKeeps,
     ClickMessageKeeps, SelectLevelKeeps, ChangeFontKeeps, StutteringKeeps
     DEF Next

\* Whatever order the timer, the posted events, the user and the files come in, a refresh
\* of the folder shown is on its way or the window has what is selected in it.
THEOREM Invariance == Spec => []IInv
<1> QED
  BY InitSound, NextKeeps, PTL DEF Spec

\* The rows of a message are as many as its lines.
LEMMA GridIsSound ==
    ASSUME NEW u \in Ums, NEW v, ViewGood(u, v)
    PROVE  GridSound(u, v)
<1> SUFFICES ASSUME v.displayedFolder # None PROVE GridSound(u, v)
  BY DEF GridSound
<1> DEFINE d == v.displayedFolder
           messages == u[d].messages
<1>1. /\ d \in DOMAIN u /\ v.heads \in Seq(Nat) /\ DOMAIN v.heads \subseteq 1..Len(messages)
      /\ v.rows \in Seq(Nat) /\ Len(v.rows) \in Nat /\ DOMAIN v.rows = 1..Len(v.rows)
  <2>1. /\ d \in DOMAIN u /\ v.heads \in Seq(Nat)
        /\ DOMAIN v.heads \subseteq 1..Len(messages)
    BY ShownMessages, SMTT(40)
  <2>2. v.rows \in Seq(Nat)
    BY DEF ViewGood, ViewType
  <2> HIDE DEF messages, d
  <2>3. Len(v.rows) \in Nat /\ DOMAIN v.rows = 1..Len(v.rows)
    BY <2>2, SMTT(40)
  <2> QED
    BY <2>1, <2>2, <2>3
<1>2. ASSUME NEW m \in DOMAIN v.heads
      PROVE  /\ v.heads[m] \in Nat /\ messages[m].lines \in Nat \ {0}
             /\ v.heads[m] >= 1
             /\ v.heads[m] + messages[m].lines <= Len(v.rows) + 1
             /\ \A row \in DOMAIN v.rows :
                   v.rows[row] = m <=> /\ row >= v.heads[m]
                                       /\ row < v.heads[m] + messages[m].lines
  BY <1>1, FolderFacts DEF ViewGood, ViewSound, RowsSound
<1>3. \A row \in DOMAIN v.rows : v.rows[row] \in DOMAIN v.heads
  BY DEF ViewGood, ViewSound, RowsSound
<1> HIDE DEF messages
<1>4. ASSUME NEW m \in DOMAIN v.heads
      PROVE  Cardinality({row \in DOMAIN v.rows : v.rows[row] = m}) = messages[m].lines
  <2> DEFINE h == v.heads[m]
             lines == messages[m].lines
  <2>1. h \in Nat /\ lines \in Nat \ {0} /\ h >= 1 /\ h + lines <= Len(v.rows) + 1
    BY <1>2
  <2>2. {row \in DOMAIN v.rows : v.rows[row] = m} = h..(h + lines - 1)
    <3>1. {row \in DOMAIN v.rows : v.rows[row] = m}
              = {row \in 1..Len(v.rows) : row >= h /\ row < h + lines}
      BY <1>1, <1>2
    <3> HIDE DEF h, lines
    <3>2. {row \in 1..Len(v.rows) : row >= h /\ row < h + lines} = h..(h + lines - 1)
      BY <1>1, <2>1, RowsOfOne
    <3> QED
      BY <3>1, <3>2
  <2> HIDE DEF h, lines
  <2>3. Cardinality(h..(h + lines - 1)) = lines
    BY <2>1, FS_Interval
  <2> QED
    BY <2>2, <2>3 DEF lines
<1>5. v.highlighted \subseteq
          (IF StateOf(v).selectedMessage = None THEN {}
           ELSE {v.heads[StateOf(v).selectedMessage]})
  BY DEF ViewGood, ViewSound, SelectionKept
<1> QED
  BY <1>2, <1>3, <1>4, <1>5 DEF GridSound, messages

\* A window is consistent at every moment: the entries of the combo box are the folders
\* drawn in their order, the current one is the folder shown, every row belongs to the
\* message it shows; and at rest the highlighted message, the list of sites and the source
\* are those of the selection, unless another site was chosen during a wait.
THEOREM WindowIsSound == Spec => []WindowSound
<1>1. IInv => WindowSound
  <2> SUFFICES ASSUME IInv PROVE WindowSound
    OBVIOUS
  <2>1. TypeOK /\ ComboSound(view)
    BY DEF IInv, ViewSound
  <2>2. GridSound(um, view)
    BY InductionStart, GridIsSound
  <2>3. ASSUME ~overtaken, Quiet PROVE Settled
    <3>1. Chosen
      BY <2>3 DEF IInv, ChosenOrOwed, Quiet, Owed
    <3> QED
      BY <2>3, <3>1 DEF Chosen, Settled, Quiet
  <2> QED
    BY <2>1, <2>2, <2>3 DEF WindowSound, SelectionShown
<1> QED
  BY <1>1, Invariance, PTL
===============================================================================
