--------------------------- MODULE DataStats_proofs ---------------------------
(* What DataStats promises of the maximum, the minimum and the sums, for every set  *)
(* of ids and of values: of an object alone (DataStatsOwner), and of the entries,   *)
(* functions, files and the application in the Client (DataRollup).                 *)
EXTENDS DataStatsOwner, DataRollup, FiniteSetTheorems, NaturalsInduction,
        WellFoundedInduction, TLAPS

Signs == {1, -1}

(* Ahead is a strict total order of the pairs (value, id), and one value against  *)
(* another of the same id, or a value between two others, compares as expected.    *)
LEMMA AheadAsymmetric ==
    ASSUME NEW s \in Signs, NEW v \in Int, NEW i \in Int, NEW w \in Int, NEW j \in Int,
           Ahead(s, v, i, w, j)
    PROVE  ~ Ahead(s, w, j, v, i)
<1>1. CASE s = 1 BY <1>1 DEF Ahead
<1>2. CASE s = -1 BY <1>2 DEF Ahead
<1> QED BY <1>1, <1>2 DEF Signs

LEMMA AheadTotal ==
    ASSUME NEW s \in Signs, NEW v \in Int, NEW i \in Int, NEW w \in Int, NEW j \in Int,
           i # j, ~ Ahead(s, v, i, w, j)
    PROVE  Ahead(s, w, j, v, i)
<1>1. CASE s = 1 BY <1>1 DEF Ahead
<1>2. CASE s = -1 BY <1>2 DEF Ahead
<1> QED BY <1>1, <1>2 DEF Signs

LEMMA AheadTransitive ==
    ASSUME NEW s \in Signs, NEW v \in Int, NEW i \in Int, NEW w \in Int, NEW j \in Int,
           NEW x \in Int, NEW k \in Int,
           Ahead(s, v, i, w, j), ~ Ahead(s, x, k, w, j)
    PROVE  ~ Ahead(s, x, k, v, i)
<1>1. CASE s = 1 BY <1>1 DEF Ahead
<1>2. CASE s = -1 BY <1>2 DEF Ahead
<1> QED BY <1>1, <1>2 DEF Signs

LEMMA AheadRaised ==
    ASSUME NEW s \in Signs, NEW v \in Int, NEW i \in Int, NEW w \in Int,
           NEW x \in Int, NEW k \in Int,
           s * v >= s * w, ~ Ahead(s, x, k, w, i)
    PROVE  ~ Ahead(s, x, k, v, i)
<1>1. CASE s = 1 BY <1>1 DEF Ahead
<1>2. CASE s = -1 BY <1>2 DEF Ahead
<1> QED BY <1>1, <1>2 DEF Signs

LEMMA AheadBetween ==
    ASSUME NEW s \in Signs, NEW v \in Int, NEW u \in Int, NEW i \in Int,
           NEW w \in Int, NEW j \in Int, NEW real \in Int,
           (u <= real /\ real <= v) \/ (v <= real /\ real <= u),
           ~ Ahead(s, u, i, w, j), ~ Ahead(s, v, i, w, j)
    PROVE  ~ Ahead(s, real, i, w, j)
<1>1. CASE s = 1 BY <1>1 DEF Ahead
<1>2. CASE s = -1 BY <1>2 DEF Ahead
<1> QED BY <1>1, <1>2 DEF Signs

------------------------------------------------------------------------------
(* The best of a set when one element joins or the others leave. *)

LEMMA BestShrinks ==
    ASSUME NEW s, NEW f, NEW T, NEW U \in SUBSET T, NEW b \in U, Best(s, f, T, b)
    PROVE  Best(s, f, U, b)
BY DEF Best

LEMMA BestAgrees ==
    ASSUME NEW s, NEW f, NEW g, NEW T, NEW b, Best(s, f, T, b),
           \A j \in T : g[j] = f[j]
    PROVE  Best(s, g, T, b)
BY DEF Best

LEMMA BestStays ==
    ASSUME NEW s, NEW g, NEW T, NEW b, NEW i, Best(s, g, T, b),
           ~ Ahead(s, g[i], i, g[b], b)
    PROVE  Best(s, g, T \cup {i}, b)
BY DEF Best

LEMMA BestBeaten ==
    ASSUME NEW s \in Signs, NEW g, NEW T \in SUBSET Nat, NEW b, NEW i \in Nat,
           \A j \in T \cup {i} : g[j] \in Int,
           Best(s, g, T, b), Ahead(s, g[i], i, g[b], b)
    PROVE  Best(s, g, T \cup {i}, i)
<1>1. ASSUME NEW j \in (T \cup {i}) \ {i} PROVE ~ Ahead(s, g[j], j, g[i], i)
  <2>1. j \in T /\ j \in Int /\ i \in Int /\ b \in T /\ b \in Int BY DEF Best
  <2>2. g[i] \in Int /\ g[b] \in Int /\ g[j] \in Int
    BY <2>1
  <2>3. CASE j = b
    BY <2>1, <2>2, <2>3, AheadAsymmetric
  <2>4. CASE j # b
    <3>1. ~ Ahead(s, g[j], j, g[b], b) BY <2>1, <2>4 DEF Best
    <3> QED BY <3>1, <2>1, <2>2, AheadTransitive
  <2> QED BY <2>3, <2>4
<1> QED BY <1>1 DEF Best

LEMMA BestRaised ==
    ASSUME NEW s \in Signs, NEW f, NEW g, NEW T \in SUBSET Nat, NEW i \in T,
           \A j \in T : f[j] \in Int /\ g[j] \in Int, Best(s, f, T, i), s * g[i] >= s * f[i],
           \A j \in T \ {i} : g[j] = f[j]
    PROVE  Best(s, g, T, i)
<1>1. ASSUME NEW j \in T \ {i} PROVE ~ Ahead(s, g[j], j, g[i], i)
  <2>1. ~ Ahead(s, f[j], j, f[i], i) /\ g[j] = f[j] BY DEF Best
  <2>2. j \in Int /\ i \in Int /\ g[i] \in Int /\ f[i] \in Int /\ f[j] \in Int
    OBVIOUS
  <2> QED BY <2>1, <2>2, AheadRaised
<1> QED BY <1>1 DEF Best

LEMMA BestAlone ==
    ASSUME NEW s, NEW g, NEW i PROVE Best(s, g, {i}, i)
BY DEF Best

------------------------------------------------------------------------------
(* The setting of the three operations on a side: i is the id concerned, R the     *)
(* other recorded ids, f the values before and g those after.                      *)
Setting(s, R, i, f, g) ==
    /\ s \in Signs
    /\ R \in SUBSET Nat /\ i \in Nat \ R
    /\ g[i] \in Int /\ \A j \in R : f[j] \in Int /\ g[j] = f[j]

(* i goes to the first place, the former best to the second. *)
LEMMA NewBestSound ==
    ASSUME NEW s, NEW R, NEW i, NEW f, NEW g, Setting(s, R, i, f, g),
           NEW h \in SideType, h.id1 \in R, Best(s, g, R, h.id1), g[h.id1] = h.v1,
           Ahead(s, g[i], i, h.v1, h.id1)
    PROVE  SideSound(s, NewBest(h, i, g[i]), g, R \cup {i})
<1>1. Best(s, g, R \cup {i}, i) BY BestBeaten DEF Setting
<1>2. (R \cup {i}) \ {i} = R BY DEF Setting
<1> QED BY <1>1, <1>2 DEF SideSound, NewBest, Side

(* i goes to the second place: it is alone there or beats who was second. *)
LEMMA SecondSound ==
    ASSUME NEW s, NEW R, NEW i, NEW f, NEW g, Setting(s, R, i, f, g),
           NEW h \in SideType, h.id1 \in R, Best(s, g, R, h.id1), g[h.id1] = h.v1,
           ~ Ahead(s, g[i], i, h.v1, h.id1),
           Best(s, g, (R \cup {i}) \ {h.id1}, i)
    PROVE  SideSound(s, Second(h, i, g[i]), g, R \cup {i})
<1>1. Best(s, g, R \cup {i}, h.id1) BY BestStays
<1> QED BY <1>1 DEF SideSound, Second, Side

LEMMA AloneBehind ==
    ASSUME NEW s, NEW R, NEW i, NEW b, NEW g, b \in R, i \notin R,
           \A j, k \in R : j = k
    PROVE  Best(s, g, (R \cup {i}) \ {b}, i)
<1>1. (R \cup {i}) \ {b} = {i} OBVIOUS
<1> QED BY <1>1, BestAlone

LEMMA TakesSecondSound ==
    ASSUME NEW s, NEW R, NEW i, NEW f, NEW g, Setting(s, R, i, f, g),
           NEW h \in SideType, h.id1 \in R, Best(s, g, R, h.id1), g[h.id1] = h.v1,
           ~ Ahead(s, g[i], i, h.v1, h.id1),
           NEW n, n = 2 => \A j, k \in R : j = k,
           h.id2 # NULL_INT =>
               h.id2 \in Nat /\ Best(s, g, R \ {h.id1}, h.id2) /\ g[h.id2] = h.v2
    PROVE  SideSound(s, IF TakesSecond(s, h, n, i, g[i]) THEN Second(h, i, g[i]) ELSE h,
                     g, R \cup {i})
<1> DEFINE Q == R \ {h.id1}
<1>1. (R \cup {i}) \ {h.id1} = Q \cup {i} BY DEF Setting
<1>2. CASE n = 2
  <2>1. Best(s, g, (R \cup {i}) \ {h.id1}, i) BY <1>2, AloneBehind DEF Setting
  <2> QED BY <2>1, <1>2, SecondSound DEF TakesSecond
<1>3. CASE n # 2 /\ h.id2 # NULL_INT /\ Ahead(s, g[i], i, h.v2, h.id2)
  <2>1. Best(s, g, Q, h.id2) /\ Ahead(s, g[i], i, g[h.id2], h.id2) BY <1>3
  <2>2. Best(s, g, Q \cup {i}, i) BY <2>1, <1>3, BestBeaten DEF Setting
  <2> QED BY <2>2, <1>1, <1>3, SecondSound DEF TakesSecond
<1>4. CASE n # 2 /\ ~ (h.id2 # NULL_INT /\ Ahead(s, g[i], i, h.v2, h.id2))
  <2>1. Best(s, g, R \cup {i}, h.id1) BY BestStays
  <2>2. ASSUME h.id2 # NULL_INT PROVE Best(s, g, Q \cup {i}, h.id2) /\ g[h.id2] = h.v2
    BY <2>2, <1>4, BestStays
  <2>3. ~ TakesSecond(s, h, n, i, g[i]) BY <1>4 DEF TakesSecond
  <2>4. SideSound(s, h, g, R \cup {i}) BY <1>1, <2>1, <2>2 DEF SideSound
  <2> QED BY <2>3, <2>4
<1> QED BY <1>2, <1>3, <1>4

------------------------------------------------------------------------------
(* The three operations keep a sound side sound. *)

LEMMA AddSideSound ==
    ASSUME NEW s, NEW R, NEW i, NEW f, NEW g, Setting(s, R, i, f, g),
           NEW h \in SideType, SideSound(s, h, f, R),
           NEW n, n = 2 => \A j, k \in R : j = k
    PROVE  SideSound(s, AddSide(s, h, n, i, g[i]), g, R \cup {i})
<1>1. CASE h.id1 = NULL_INT
  BY <1>1 DEF SideSound, AddSide
<1>2. CASE h.id1 # NULL_INT
  <2>1. h.id1 \in R /\ Best(s, g, R, h.id1) /\ g[h.id1] = h.v1
    BY <1>2, BestAgrees DEF SideSound, Best, Setting
  <2>2. CASE Ahead(s, g[i], i, h.v1, h.id1)
    BY <1>2, <2>1, <2>2, NewBestSound DEF AddSide
  <2>3. CASE ~ Ahead(s, g[i], i, h.v1, h.id1)
    <3>1. h.id2 # NULL_INT =>
              h.id2 \in Nat /\ Best(s, g, R \ {h.id1}, h.id2) /\ g[h.id2] = h.v2
      BY <1>2, BestAgrees DEF SideSound, Best, Setting
    <3> QED BY <1>2, <2>1, <2>3, <3>1, TakesSecondSound DEF AddSide
  <2> QED BY <2>2, <2>3
<1> QED BY <1>1, <1>2

LEMMA ChangeBestSound ==
    ASSUME NEW s, NEW R, NEW i, NEW f, NEW g, Setting(s, R, i, f, g), f[i] \in Int,
           NEW h \in SideType, SideSound(s, h, f, R \cup {i}), h.id1 = i,
           h.id1 # NULL_INT
    PROVE  SideSound(s, ChangeBest(s, h, g[i]), g, R \cup {i})
<1>1. (R \cup {i}) \ {i} = R BY DEF Setting
<1>2. Best(s, f, R \cup {i}, i) /\ f[i] = h.v1 BY DEF SideSound
<1>3. ASSUME h.id2 # NULL_INT
      PROVE  h.id2 \in R /\ Best(s, g, R, h.id2) /\ g[h.id2] = h.v2
  BY <1>1, <1>3, BestAgrees DEF SideSound, Best, Setting
<1>4. CASE s * g[i] >= s * h.v1
  <2>1. Best(s, g, R \cup {i}, i) BY <1>2, <1>4, BestRaised DEF Setting
  <2> QED BY <1>1, <1>3, <1>4, <2>1 DEF SideSound, ChangeBest, Side
<1>5. CASE h.id2 # NULL_INT /\ Ahead(s, g[i], i, h.v2, h.id2)
  <2>1. Best(s, g, R \cup {i}, i) BY <1>3, <1>5, BestBeaten DEF Setting
  <2> QED BY <1>1, <1>3, <1>5, <2>1 DEF SideSound, ChangeBest, Side
<1>6. CASE /\ ~ (s * g[i] >= s * h.v1) /\ h.id2 # NULL_INT
           /\ ~ Ahead(s, g[i], i, h.v2, h.id2)
  <2>1. Best(s, g, R \cup {i}, h.id2) BY <1>3, <1>6, BestStays
  <2>2. ChangeBest(s, h, g[i]) = Only(h.id2, h.v2) BY <1>6 DEF ChangeBest
  <2> QED BY <1>3, <1>6, <2>1, <2>2 DEF SideSound, Only, Side
<1>7. CASE ~ (s * g[i] >= s * h.v1) /\ h.id2 = NULL_INT
  <2>1. ChangeBest(s, h, g[i]) = Unknown BY <1>7 DEF ChangeBest
  <2> QED BY <2>1 DEF SideSound, Unknown, Side
<1> QED BY <1>4, <1>5, <1>6, <1>7

LEMMA ChangeSecondSound ==
    ASSUME NEW s, NEW R, NEW i, NEW f, NEW g, Setting(s, R, i, f, g), f[i] \in Int,
           NEW h \in SideType, SideSound(s, h, f, R \cup {i}), h.id1 \in R,
           Best(s, g, R, h.id1), g[h.id1] = h.v1,
           ~ Ahead(s, g[i], i, h.v1, h.id1), h.id1 # NULL_INT,
           h.id2 = i, h.id2 # NULL_INT,
           NEW n, n = 2 => \A j, k \in R : j = k
    PROVE  SideSound(s, ChangeSecond(s, h, n, g[i]), g, R \cup {i})
<1> DEFINE Q == R \ {h.id1}
<1>1. (R \cup {i}) \ {h.id1} = Q \cup {i} BY DEF Setting
<1>2. Best(s, f, Q \cup {i}, i) /\ f[i] = h.v2 BY <1>1 DEF SideSound
<1>3. CASE s * g[i] >= s * h.v2
  <2>1. Best(s, g, Q \cup {i}, i) BY <1>2, <1>3, BestRaised DEF Setting
  <2>2. ChangeSecond(s, h, n, g[i]) = Second(h, i, g[i]) BY <1>3 DEF ChangeSecond
  <2>3. Best(s, g, (R \cup {i}) \ {h.id1}, i) BY <1>1, <2>1
  <2>4. SideSound(s, Second(h, i, g[i]), g, R \cup {i}) BY <2>3, SecondSound
  <2> QED BY <2>2, <2>4
<1>4. CASE n = 2
  <2>1. Best(s, g, (R \cup {i}) \ {h.id1}, i) BY <1>4, AloneBehind DEF Setting
  <2>2. ChangeSecond(s, h, n, g[i]) = Second(h, i, g[i]) BY <1>4 DEF ChangeSecond
  <2>3. SideSound(s, Second(h, i, g[i]), g, R \cup {i}) BY <2>1, SecondSound
  <2> QED BY <2>2, <2>3
<1>5. CASE ~ (s * g[i] >= s * h.v2) /\ n # 2
  <2>1. Best(s, g, R \cup {i}, h.id1) BY BestStays
  <2>2. ChangeSecond(s, h, n, g[i]) = NoSecond(h) BY <1>5 DEF ChangeSecond
  <2> QED BY <2>1, <2>2 DEF SideSound, NoSecond, Only, Side
<1> QED BY <1>3, <1>4, <1>5

LEMMA ChangeSideSound ==
    ASSUME NEW s, NEW R, NEW i, NEW f, NEW g, Setting(s, R, i, f, g), f[i] \in Int,
           NEW h \in SideType, SideSound(s, h, f, R \cup {i}),
           NEW n, n = 2 => \A j, k \in R : j = k
    PROVE  SideSound(s, ChangeSide(s, h, n, i, g[i]), g, R \cup {i})
<1>1. CASE h.id1 = NULL_INT
  BY <1>1 DEF SideSound, ChangeSide
<1>2. CASE h.id1 # NULL_INT /\ h.id1 = i
  BY <1>2, ChangeBestSound DEF ChangeSide
<1>3. CASE h.id1 # NULL_INT /\ h.id1 # i
  <2>1. h.id1 \in R /\ Best(s, f, R, h.id1) /\ f[h.id1] = h.v1
    <3>1. h.id1 \in R \cup {i} /\ Best(s, f, R \cup {i}, h.id1) /\ f[h.id1] = h.v1
      BY <1>3 DEF SideSound, Best
    <3> QED BY <3>1, <1>3, BestShrinks
  <2>2. Best(s, g, R, h.id1) /\ g[h.id1] = h.v1
    BY <2>1, BestAgrees DEF Setting
  <2>3. CASE Ahead(s, g[i], i, h.v1, h.id1)
    BY <1>3, <2>1, <2>2, <2>3, NewBestSound DEF ChangeSide
  <2>4. CASE ~ Ahead(s, g[i], i, h.v1, h.id1) /\ h.id2 = i
    <3>1. h.id2 # NULL_INT BY <2>4 DEF Setting, NULL_INT
    <3> QED BY <1>3, <2>1, <2>2, <2>4, <3>1, ChangeSecondSound DEF ChangeSide
  <2>5. CASE ~ Ahead(s, g[i], i, h.v1, h.id1) /\ h.id2 # i
    <3>1. ASSUME h.id2 # NULL_INT
          PROVE  h.id2 \in Nat /\ Best(s, g, R \ {h.id1}, h.id2) /\ g[h.id2] = h.v2
      <4>1. Best(s, f, (R \cup {i}) \ {h.id1}, h.id2) /\ f[h.id2] = h.v2
        BY <1>3, <3>1 DEF SideSound
      <4>2. h.id2 \in R \ {h.id1} BY <4>1, <2>5 DEF Best
      <4>3. R \ {h.id1} \in SUBSET ((R \cup {i}) \ {h.id1}) OBVIOUS
      <4>4. Best(s, f, R \ {h.id1}, h.id2) BY <4>1, <4>2, <4>3, BestShrinks
      <4> QED BY <4>1, <4>2, <4>4, BestAgrees DEF Setting
    <3> QED BY <1>3, <2>1, <2>2, <2>5, <3>1, TakesSecondSound DEF ChangeSide
  <2> QED BY <2>3, <2>4, <2>5
<1> QED BY <1>1, <1>2, <1>3

(* The new value of i lies between the old one and the one passed. *)
LEMMA InvalidateSideSound ==
    ASSUME NEW s, NEW R, NEW i, NEW f, NEW g, Setting(s, R, i, f, g), f[i] \in Int,
           NEW h \in SideType, SideSound(s, h, f, R \cup {i}), NEW v \in Int,
           (f[i] <= g[i] /\ g[i] <= v) \/ (v <= g[i] /\ g[i] <= f[i])
    PROVE  SideSound(s, InvalidateSide(s, h, i, v), g, R \cup {i})
<1> DEFINE Q == R \ {h.id1}
<1>1. CASE h.id1 = NULL_INT
  BY <1>1 DEF SideSound, InvalidateSide
<1>2. CASE h.id1 # NULL_INT /\ (h.id1 = i \/ Ahead(s, v, i, h.v1, h.id1))
  BY <1>2 DEF SideSound, InvalidateSide, Unknown, Side
<1>3. CASE h.id1 # NULL_INT /\ h.id1 # i /\ ~ Ahead(s, v, i, h.v1, h.id1)
  <2>1. h.id1 \in R /\ Best(s, f, R \cup {i}, h.id1) /\ f[h.id1] = h.v1
    BY <1>3 DEF SideSound, Best
  <2>2. Best(s, g, R, h.id1) /\ g[h.id1] = h.v1
    <3>1. Best(s, f, R, h.id1) BY <2>1, BestShrinks
    <3> QED BY <3>1, <2>1, BestAgrees DEF Setting
  <2>3. h.v1 \in Int /\ h.v2 \in Int /\ f[i] \in Int /\ g[i] \in Int /\ i \in Int
    BY DEF SideType, Setting
  <2>4. Best(s, g, R \cup {i}, h.id1)
    <3>1. ~ Ahead(s, f[i], i, h.v1, h.id1) BY <1>3, <2>1 DEF Best
    <3>2. h.id1 \in Nat BY <2>1 DEF Setting
    <3>4. h.id1 \in Int BY <3>2
    <3>3. ~ Ahead(s, g[i], i, h.v1, h.id1)
      BY <1>3, <2>3, <3>1, <3>4, AheadBetween DEF Setting
    <3> QED BY <2>2, <3>3, BestStays
  <2>5. CASE h.id2 # NULL_INT /\ (h.id2 = i \/ Ahead(s, v, i, h.v2, h.id2))
    <3>1. InvalidateSide(s, h, i, v) = NoSecond(h) BY <1>3, <2>5 DEF InvalidateSide
    <3> QED BY <2>2, <2>4, <3>1 DEF SideSound, NoSecond, Only, Side
  <2>6. CASE ~ (h.id2 # NULL_INT /\ (h.id2 = i \/ Ahead(s, v, i, h.v2, h.id2)))
    <3>1. InvalidateSide(s, h, i, v) = h BY <1>3, <2>6 DEF InvalidateSide
    <3>2. ASSUME h.id2 # NULL_INT
          PROVE  Best(s, g, (R \cup {i}) \ {h.id1}, h.id2) /\ g[h.id2] = h.v2
      <4>1. (R \cup {i}) \ {h.id1} = Q \cup {i} BY <1>3
      <4>2. Best(s, f, Q \cup {i}, h.id2) /\ f[h.id2] = h.v2
        BY <1>3, <3>2, <4>1 DEF SideSound
      <4>3. h.id2 \in Q BY <4>2, <2>6, <3>2 DEF Best
      <4>4. Best(s, g, Q, h.id2) /\ g[h.id2] = h.v2
        <5>1. Best(s, f, Q, h.id2) BY <4>2, <4>3, BestShrinks
        <5> QED BY <5>1, <4>2, <4>3, BestAgrees DEF Setting
      <4>5. ~ Ahead(s, f[i], i, h.v2, h.id2) BY <4>2, <4>3, <2>6, <3>2 DEF Best, Setting
      <4>6. h.id2 \in Nat BY <4>3 DEF Setting
      <4>8. h.id2 \in Int BY <4>6
      <4>9. ~ Ahead(s, v, i, h.v2, h.id2) BY <2>6, <3>2
      <4>7. ~ Ahead(s, g[i], i, h.v2, h.id2)
        <5>1. s \in Signs BY DEF Setting
        <5>2. f[i] \in Int /\ g[i] \in Int /\ i \in Int /\ h.v2 \in Int BY <2>3
        <5> HIDE DEF Q
        <5> QED BY <5>1, <5>2, <4>5, <4>8, <4>9, AheadBetween, SMTT(30)
      <4>10. Best(s, g, Q \cup {i}, h.id2) BY <4>4, <4>7, BestStays
      <4> QED BY <4>1, <4>4, <4>10
    <3> QED BY <2>2, <2>4, <3>1, <3>2 DEF SideSound
  <2> QED BY <2>5, <2>6
<1> QED BY <1>1, <1>2, <1>3

------------------------------------------------------------------------------
(* The types of what the operations give. *)

LEMMA SideTypes ==
    ASSUME NEW s, NEW h \in SideType, NEW n, NEW i \in Nat, NEW v \in Int
    PROVE  /\ AddSide(s, h, n, i, v) \in SideType
           /\ ChangeSide(s, h, n, i, v) \in SideType
           /\ InvalidateSide(s, h, i, v) \in SideType
<1>1. /\ NewBest(h, i, v) \in SideType /\ Second(h, i, v) \in SideType
      /\ NoSecond(h) \in SideType /\ Unknown \in SideType /\ Only(i, v) \in SideType
  BY DEF SideType, NewBest, Second, NoSecond, Unknown, Only, Side, NULL_INT
<1>2. AddSide(s, h, n, i, v) \in SideType BY <1>1 DEF AddSide
<1>3. InvalidateSide(s, h, i, v) \in SideType BY <1>1 DEF InvalidateSide
<1>4. ChangeBest(s, h, v) \in SideType
  BY DEF SideType, ChangeBest, Side, Only, Unknown, NULL_INT
<1>5. ChangeSecond(s, h, n, v) \in SideType
  BY DEF SideType, ChangeSecond, Second, NoSecond, Only, Side, NULL_INT
<1>6. ChangeSide(s, h, n, i, v) \in SideType BY <1>1, <1>4, <1>5 DEF ChangeSide
<1> QED BY <1>1, <1>2, <1>3, <1>6

LEMMA OnlySound ==
    ASSUME NEW s, NEW i, NEW g
    PROVE  SideSound(s, Only(i, g[i]), g, {i})
BY BestAlone DEF SideSound, Only, Side

(* The count tells when there is one value, and when one other. *)
LEMMA CountOne ==
    ASSUME NEW R, IsFiniteSet(R), NEW i, i \notin R, Cardinality(R \cup {i}) <= 1
    PROVE  R = {}
<1>1. Cardinality(R \cup {i}) = Cardinality(R) + 1 BY FS_AddElement
<1>2. Cardinality(R) \in Nat BY FS_CardinalityType
<1>3. Cardinality(R) = 0 BY <1>1, <1>2
<1> QED BY <1>3, FS_EmptySet

LEMMA CountTwo ==
    ASSUME NEW R, IsFiniteSet(R), NEW i, i \notin R, Cardinality(R \cup {i}) = 2
    PROVE  \A j, k \in R : j = k
<1>1. Cardinality(R \cup {i}) = Cardinality(R) + 1 BY FS_AddElement
<1>2. Cardinality(R) \in Nat BY FS_CardinalityType
<1>3. Cardinality(R) = 1 BY <1>1, <1>2
<1>4. PICK x : R = {x} BY <1>3, FS_Singleton
<1> QED BY <1>4


------------------------------------------------------------------------------
(* Induction over the naturals, for a set S. *)
LEMMA LeastElement ==
    ASSUME NEW S, S \subseteq Nat, S # {}
    PROVE  \E n \in S : \A m \in S : n <= m
<1> DEFINE R == OpToRel(<, Nat)
<1>1. ASSUME NEW a \in Nat, NEW b \in Nat, a < b
      PROVE  <<a, b>> \in R
  BY <1>1 DEF OpToRel
<1>2. \E x \in S : \A y \in S : ~ (<<y, x>> \in R)
  BY WFMin, NatLessThanWellFounded
<1> HIDE DEF R
<1>3. PICK x \in S : \A y \in S : ~ (<<y, x>> \in R) BY <1>2
<1>4. ASSUME NEW y \in S PROVE x <= y
  <2>1. x \in Nat /\ y \in Nat OBVIOUS
  <2>2. ~ (y < x) BY <1>1, <1>3, <2>1
  <2> QED BY <2>1, <2>2
<1> QED BY <1>3, <1>4

LEMMA Induction ==
    ASSUME NEW S, 0 \in S, \A n \in S \cap Nat : n + 1 \in S
    PROVE  Nat \subseteq S
<1> SUFFICES ASSUME Nat \ S # {} PROVE FALSE OBVIOUS
<1>1. PICK n \in Nat \ S : \A m \in Nat \ S : n <= m BY LeastElement
<1>2. n \in Nat /\ n # 0 /\ n - 1 \in Nat /\ (n - 1) + 1 = n BY <1>1
<1>3. n - 1 \in S BY <1>1, <1>2
<1> QED BY <1>1, <1>2, <1>3

(* A set that holds the empty set, and a set when it holds those with one element   *)
(* less, holds every finite set: stated for a set G of subsets of S.               *)
LEMMA SubsetInduction ==
    ASSUME NEW S, IsFiniteSet(S), NEW G, {} \in G,
           \A s \in SUBSET S : s # {} /\ (\A x \in s : s \ {x} \in G) => s \in G
    PROVE  SUBSET S \subseteq G
<1> DEFINE N == {n \in Nat : \A s \in SUBSET S : Cardinality(s) = n => s \in G}
<1>1. ASSUME NEW s \in SUBSET S PROVE IsFiniteSet(s) /\ Cardinality(s) \in Nat
  BY FS_Subset, FS_CardinalityType
<1>2. 0 \in N
  <2> SUFFICES ASSUME NEW s \in SUBSET S, Cardinality(s) = 0 PROVE s \in G OBVIOUS
  <2> QED BY <1>1, FS_EmptySet
<1>3. ASSUME NEW n \in N \cap Nat PROVE n + 1 \in N
  <2> SUFFICES ASSUME NEW s \in SUBSET S, Cardinality(s) = n + 1 PROVE s \in G OBVIOUS
  <2>1. s # {} BY FS_EmptySet
  <2>2. ASSUME NEW x \in s PROVE s \ {x} \in G
    <3>1. Cardinality(s \ {x}) = n BY <1>1, FS_RemoveElement
    <3> QED BY <3>1
  <2> QED BY <2>1, <2>2
<1>4. Nat \subseteq N BY <1>2, <1>3, Induction
<1> QED BY <1>1, <1>4

------------------------------------------------------------------------------
(* The fold that MapThenSumSet is: the sums of all subsets of S, each from the one   *)
(* without the element that CHOOSE takes.                                          *)
Taken(s) == CHOOSE x \in s : TRUE
SumsOver(g, f, D) ==
    g = [s \in D |-> IF s = {} THEN 0 ELSE f[Taken(s)] + g[s \ {Taken(s)}]]

LEMMA TakenIn == ASSUME NEW s, s # {} PROVE Taken(s) \in s
BY DEF Taken

LEMMA SumDef ==
    ASSUME NEW f, NEW S
    PROVE  SumOf(f, S) = (CHOOSE g : SumsOver(g, f, SUBSET S))[S]
BY DEF SumOf, MapThenSumSet, MapThenFoldSet, SumsOver, Taken

LEMMA SumsExist ==
    ASSUME NEW f, NEW S, IsFiniteSet(S)
    PROVE  \E g : SumsOver(g, f, SUBSET S)
<1> DEFINE Sub(n) == {s \in SUBSET S : Cardinality(s) <= n}
           N == {n \in Nat : \E g : SumsOver(g, f, Sub(n))}
<1>1. ASSUME NEW s \in SUBSET S PROVE IsFiniteSet(s) /\ Cardinality(s) \in Nat
  BY FS_Subset, FS_CardinalityType
<1>2. 0 \in N
  <2>1. ASSUME NEW s \in Sub(0) PROVE s = {}
    <3>1. Cardinality(s) = 0 BY <1>1
    <3> QED BY <1>1, <3>1, FS_EmptySet
  <2>2. SumsOver([s \in Sub(0) |-> 0], f, Sub(0)) BY <2>1 DEF SumsOver
  <2> QED BY <2>2
<1>3. ASSUME NEW n \in N \cap Nat PROVE n + 1 \in N
  <2>1. PICK g : SumsOver(g, f, Sub(n)) OBVIOUS
  <2> DEFINE h == [s \in Sub(n + 1) |->
                     IF s = {} THEN 0 ELSE f[Taken(s)] + g[s \ {Taken(s)}]]
  <2>2. ASSUME NEW s \in Sub(n + 1), s # {}
        PROVE  s \ {Taken(s)} \in Sub(n) /\ s \ {Taken(s)} \in Sub(n + 1)
    <3>1. Taken(s) \in s BY <2>2, TakenIn
    <3>2. /\ Cardinality(s \ {Taken(s)}) = Cardinality(s) - 1
          /\ Cardinality(s) \in Nat /\ Cardinality(s) <= n + 1
      BY <1>1, <3>1, FS_RemoveElement
    <3>3. Cardinality(s \ {Taken(s)}) <= n /\ Cardinality(s \ {Taken(s)}) <= n + 1
      BY <3>2
    <3> QED BY <3>3
  <2>3. ASSUME NEW t \in Sub(n) PROVE h[t] = g[t]
    <3>1. t \in Sub(n + 1) BY <1>1
    <3> HIDE DEF Sub
    <3> QED BY <2>1, <3>1 DEF SumsOver
  <2>4. SumsOver(h, f, Sub(n + 1))
    <3> HIDE DEF Sub
    <3>1. ASSUME NEW s \in Sub(n + 1), s # {}
          PROVE  g[s \ {Taken(s)}] = h[s \ {Taken(s)}]
      BY <2>2, <2>3, <3>1
    <3> QED BY <3>1 DEF SumsOver
  <2> HIDE DEF h, Sub
  <2> QED BY <2>4
<1>4. Nat \subseteq N
  <2> HIDE DEF N
  <2> QED BY <1>2, <1>3, Induction
<1>5. Cardinality(S) \in Nat BY <1>1
<1>6. PICK g : SumsOver(g, f, Sub(Cardinality(S))) BY <1>4, <1>5
<1>7. Sub(Cardinality(S)) = SUBSET S BY FS_Subset
<1> QED BY <1>6, <1>7

LEMMA SumsAre ==
    ASSUME NEW f, NEW S, IsFiniteSet(S), NEW g, SumsOver(g, f, SUBSET S)
    PROVE  \A s \in SUBSET S : g[s] = SumOf(f, s)
<1> DEFINE G == {s \in SUBSET S : \A T \in SUBSET S : \A h :
                     s \subseteq T /\ SumsOver(h, f, SUBSET T) => h[s] = g[s]}
<1>1. {} \in G BY DEF SumsOver
<1>2. ASSUME NEW s \in SUBSET S, s # {}, \A x \in s : s \ {x} \in G PROVE s \in G
  <2> SUFFICES ASSUME NEW T \in SUBSET S, NEW h, s \subseteq T, SumsOver(h, f, SUBSET T)
               PROVE  h[s] = g[s]
    OBVIOUS
  <2>1. Taken(s) \in s BY <1>2, TakenIn
  <2>2. h[s \ {Taken(s)}] = g[s \ {Taken(s)}] BY <1>2, <2>1
  <2>3. h[s] = f[Taken(s)] + h[s \ {Taken(s)}] BY <1>2 DEF SumsOver
  <2>4. g[s] = f[Taken(s)] + g[s \ {Taken(s)}] BY <1>2 DEF SumsOver
  <2> QED BY <2>2, <2>3, <2>4
<1>3. SUBSET S \subseteq G
  <2> HIDE DEF G
  <2> QED BY <1>1, <1>2, SubsetInduction
<1>4. ASSUME NEW s \in SUBSET S PROVE g[s] = SumOf(f, s)
  <2>1. \E h : SumsOver(h, f, SUBSET s) BY FS_Subset, SumsExist
  <2>2. PICK h : h = (CHOOSE k : SumsOver(k, f, SUBSET s)) /\ SumsOver(h, f, SUBSET s)
    BY <2>1
  <2>3. h[s] = g[s] BY <1>3, <2>2
  <2> QED BY <2>2, <2>3, SumDef
<1> QED BY <1>4

LEMMA SumRecursion ==
    ASSUME NEW f, NEW S, IsFiniteSet(S)
    PROVE  /\ SumOf(f, {}) = 0
           /\ S # {} => SumOf(f, S) = f[Taken(S)] + SumOf(f, S \ {Taken(S)})
<1>1. PICK g : SumsOver(g, f, SUBSET S) BY SumsExist
<1>2. \A s \in SUBSET S : g[s] = SumOf(f, s) BY <1>1, SumsAre
<1>3. g[{}] = 0 BY <1>1 DEF SumsOver
<1>4. ASSUME S # {} PROVE g[S] = f[Taken(S)] + g[S \ {Taken(S)}]
  BY <1>1, <1>4 DEF SumsOver
<1> QED BY <1>2, <1>3, <1>4

------------------------------------------------------------------------------
(* What the proofs need of a sum: it is an integer, it depends on the values of the   *)
(* set alone, and one more element adds its value, whichever CHOOSE would take.      *)

LEMMA SumInt ==
    ASSUME NEW f, NEW S, IsFiniteSet(S), \A x \in S : f[x] \in Int
    PROVE  SumOf(f, S) \in Int
<1> DEFINE G == {s \in SUBSET S : SumOf(f, s) \in Int}
<1>1. {} \in G
  <2>1. SumOf(f, {}) = 0 BY SumRecursion
  <2> QED BY <2>1
<1>2. ASSUME NEW s \in SUBSET S, s # {}, \A x \in s : s \ {x} \in G PROVE s \in G
  <2>1. Taken(s) \in s BY <1>2, TakenIn
  <2>2. IsFiniteSet(s) BY FS_Subset
  <2>3. SumOf(f, s) = f[Taken(s)] + SumOf(f, s \ {Taken(s)}) BY <1>2, <2>2, SumRecursion
  <2>4. f[Taken(s)] \in Int /\ SumOf(f, s \ {Taken(s)}) \in Int BY <1>2, <2>1
  <2> QED BY <2>3, <2>4
<1>3. SUBSET S \subseteq G
  <2> HIDE DEF G
  <2> QED BY <1>1, <1>2, SubsetInduction
<1> QED BY <1>3

LEMMA SumAgrees ==
    ASSUME NEW f, NEW g, NEW S, IsFiniteSet(S), \A x \in S : f[x] = g[x]
    PROVE  SumOf(f, S) = SumOf(g, S)
<1> DEFINE G == {s \in SUBSET S : SumOf(f, s) = SumOf(g, s)}
<1>1. {} \in G BY SumRecursion
<1>2. ASSUME NEW s \in SUBSET S, s # {}, \A x \in s : s \ {x} \in G PROVE s \in G
  <2>1. Taken(s) \in s BY <1>2, TakenIn
  <2>2. IsFiniteSet(s) BY FS_Subset
  <2>3. /\ SumOf(f, s) = f[Taken(s)] + SumOf(f, s \ {Taken(s)})
        /\ SumOf(g, s) = g[Taken(s)] + SumOf(g, s \ {Taken(s)})
    BY <1>2, <2>2, SumRecursion
  <2>4. f[Taken(s)] = g[Taken(s)] /\ SumOf(f, s \ {Taken(s)}) = SumOf(g, s \ {Taken(s)})
    BY <1>2, <2>1
  <2> QED BY <2>3, <2>4
<1>3. SUBSET S \subseteq G
  <2> HIDE DEF G
  <2> QED BY <1>1, <1>2, SubsetInduction
<1> QED BY <1>3

LEMMA SumRemove ==
    ASSUME NEW f, NEW S, IsFiniteSet(S), \A x \in S : f[x] \in Int, NEW y \in S
    PROVE  SumOf(f, S) = SumOf(f, S \ {y}) + f[y]
<1> DEFINE G == {s \in SUBSET S : \A x \in s : SumOf(f, s) = SumOf(f, s \ {x}) + f[x]}
<1>1. {} \in G OBVIOUS
<1>2. ASSUME NEW s \in SUBSET S, s # {}, \A x \in s : s \ {x} \in G PROVE s \in G
  <2> SUFFICES ASSUME NEW x \in s PROVE SumOf(f, s) = SumOf(f, s \ {x}) + f[x] OBVIOUS
  <2> DEFINE t == Taken(s)
  <2>1. t \in s BY <1>2, TakenIn
  <2>2. IsFiniteSet(s) /\ IsFiniteSet(s \ {t}) /\ IsFiniteSet(s \ {x})
        /\ IsFiniteSet((s \ {x}) \ {t})
    BY FS_Subset
  <2>3. SumOf(f, s) = f[t] + SumOf(f, s \ {t}) BY <1>2, <2>2, SumRecursion
  <2>4. f[t] \in Int /\ f[x] \in Int BY <2>1
  <2>5. SumOf(f, s \ {t}) \in Int /\ SumOf(f, (s \ {x}) \ {t}) \in Int BY <2>2, SumInt
  <2> HIDE DEF t
  <2>6. CASE x = t BY <2>3, <2>4, <2>5, <2>6
  <2>7. CASE x # t
    <3>1. x \in s \ {t} /\ t \in s \ {x} BY <2>1, <2>7
    <3>2. s \ {t} \in G /\ s \ {x} \in G BY <1>2, <2>1
    <3>3. (s \ {t}) \ {x} = (s \ {x}) \ {t} OBVIOUS
    <3>4. SumOf(f, s \ {t}) = SumOf(f, (s \ {x}) \ {t}) + f[x]
      BY <3>1, <3>2, <3>3
    <3>5. SumOf(f, s \ {x}) = SumOf(f, (s \ {x}) \ {t}) + f[t] BY <3>1, <3>2
    <3> QED BY <2>3, <2>4, <2>5, <3>4, <3>5
  <2> QED BY <2>6, <2>7
<1>3. SUBSET S \subseteq G
  <2> HIDE DEF G
  <2> QED BY <1>1, <1>2, SubsetInduction
<1> QED BY <1>3

(* One value joins the set R, or changes beside it. *)
LEMMA SumJoin ==
    ASSUME NEW f, NEW R, NEW i, IsFiniteSet(R), i \notin R,
           \A x \in R \cup {i} : f[x] \in Int
    PROVE  SumOf(f, R \cup {i}) = SumOf(f, R) + f[i] /\ SumOf(f, R) \in Int
<1>1. IsFiniteSet(R \cup {i}) BY FS_AddElement
<1>2. (R \cup {i}) \ {i} = R OBVIOUS
<1>3. SumOf(f, R \cup {i}) = SumOf(f, (R \cup {i}) \ {i}) + f[i] BY <1>1, SumRemove
<1> QED BY <1>2, <1>3, SumInt

LEMMA SquaresJoin ==
    ASSUME NEW f, NEW R, NEW i, IsFiniteSet(R), i \notin R,
           \A x \in R \cup {i} : f[x] \in Int
    PROVE  /\ SquaresOf(f, R \cup {i}) = SquaresOf(f, R) + f[i] * f[i]
           /\ SquaresOf(f, R) \in Int
<1> DEFINE q == [x \in R \cup {i} |-> f[x] * f[x]]
<1>1. \A x \in R \cup {i} : q[x] \in Int /\ q[x] = f[x] * f[x] OBVIOUS
<1>2. SquaresOf(f, R \cup {i}) = SumOf(q, R \cup {i}) BY DEF SquaresOf
<1>3. SquaresOf(f, R) = SumOf(q, R)
  <2>1. \A x \in R : [y \in R |-> f[y] * f[y]][x] = q[x] OBVIOUS
  <2> HIDE DEF q
  <2> QED BY <2>1, SumAgrees DEF SquaresOf
<1> HIDE DEF q
<1>4. SumOf(q, R \cup {i}) = SumOf(q, R) + q[i] /\ SumOf(q, R) \in Int
  BY <1>1, SumJoin
<1> QED BY <1>1, <1>2, <1>3, <1>4

LEMMA SquaresAgrees ==
    ASSUME NEW f, NEW g, NEW S, IsFiniteSet(S), \A x \in S : f[x] = g[x]
    PROVE  SquaresOf(f, S) = SquaresOf(g, S)
BY DEF SquaresOf

------------------------------------------------------------------------------
(* A whole object: d is sound for the values f of the recorded ids S. *)

IntsOn(f, S) == \A j \in S : f[j] \in Int
SameOn(f, g, S) == \A j \in S : g[j] = f[j]

Recorded(d, f, S) ==
    /\ d \in StatsType
    /\ S \in SUBSET Nat /\ IsFiniteSet(S) /\ IntsOn(f, S)
    /\ Sound(d, f, S)

LEMMA StatsTyped ==
    ASSUME NEW n \in Nat, NEW k \in BOOLEAN, NEW a \in Int, NEW q \in Int,
           NEW x \in SideType, NEW y \in SideType
    PROVE  Stats(n, k, a, q, x, y) \in StatsType
BY DEF Stats, StatsType

LEMMA Fields ==
    ASSUME NEW d \in StatsType
    PROVE  /\ d.num \in Nat /\ d.known \in BOOLEAN /\ d.sum \in Int /\ d.squares \in Int
           /\ d.max \in SideType /\ d.min \in SideType
BY DEF StatsType

LEMMA SquareInt == \A v \in Int : v * v \in Int
OBVIOUS

LEMMA SumsOfOne ==
    ASSUME NEW g, NEW i, g[i] \in Int
    PROVE  SumOf(g, {i}) = g[i] /\ SquaresOf(g, {i}) = g[i] * g[i]
<1>1. IsFiniteSet({}) BY FS_EmptySet
<1>2. SumOf(g, {}) = 0 BY <1>1, SumRecursion
<1>3. SquaresOf(g, {}) = 0 BY <1>1, SumRecursion DEF SquaresOf
<1>4. {} \cup {i} = {i} OBVIOUS
<1>5. SumOf(g, {} \cup {i}) = SumOf(g, {}) + g[i] BY <1>1, SumJoin
<1>6. SquaresOf(g, {} \cup {i}) = SquaresOf(g, {}) + g[i] * g[i] BY <1>1, SquaresJoin
<1>7. g[i] * g[i] \in Int BY SquareInt
<1> QED BY <1>2, <1>3, <1>4, <1>5, <1>6, <1>7

LEMMA FirstSound ==
    ASSUME NEW i \in Nat, NEW v \in Int, NEW g, g[i] = v
    PROVE  Recorded(First(i, v), g, {i})
<1>1. Only(i, v) \in SideType BY DEF Only, Side, SideType, NULL_INT
<1>2. First(i, v) \in StatsType BY <1>1, SquareInt, StatsTyped DEF First
<1>3. IsFiniteSet({i}) /\ Cardinality({i}) = 1 BY FS_Singleton
<1>4. /\ First(i, v).num = 1 /\ First(i, v).max = Only(i, v) /\ First(i, v).min = Only(i, v)
      /\ First(i, v).sum = v /\ First(i, v).squares = v * v
  BY DEF First, Stats
<1>5. SideSound(1, Only(i, v), g, {i}) /\ SideSound(-1, Only(i, v), g, {i}) BY OnlySound
<1>6. SumOf(g, {i}) = v /\ SquaresOf(g, {i}) = v * v BY SumsOfOne
<1>7. Sound(First(i, v), g, {i})
  BY <1>3, <1>4, <1>5, <1>6 DEF Sound, SumsSound, ExtremaSound
<1>8. IntsOn(g, {i}) BY DEF IntsOn
<1> QED BY <1>2, <1>3, <1>7, <1>8 DEF Recorded

(* A new value. *)
LEMMA AddSound ==
    ASSUME NEW d, NEW f, NEW S, Recorded(d, f, S), NEW i \in Nat \ S, NEW v \in Int,
           NEW g, SameOn(f, g, S), g[i] = v
    PROVE  Recorded(AddStats(d, i, v), g, S \cup {i})
<1> DEFINE n == d.num + 1
           a == AddStats(d, i, v)
<1>1. /\ d.num \in Nat /\ d.known \in BOOLEAN /\ d.sum \in Int /\ d.squares \in Int
      /\ d.max \in SideType /\ d.min \in SideType
  BY Fields DEF Recorded
<1>2. d.num = Cardinality(S) /\ IsFiniteSet(S) /\ S \in SUBSET Nat /\ IntsOn(f, S)
  BY DEF Recorded, Sound
<1>3. CASE d.num = 0
  <2>1. S = {} BY <1>2, <1>3, FS_EmptySet
  <2>2. S \cup {i} = {i} BY <2>1
  <2>3. a = First(i, v) BY <1>3 DEF AddStats
  <2> QED BY <2>2, <2>3, FirstSound
<1>4. CASE d.num # 0
  <2>1. Setting(1, S, i, f, g) /\ Setting(-1, S, i, f, g)
    BY <1>2 DEF Setting, Signs, IntsOn, SameOn
  <2>2. S # {} BY <1>2, <1>4, FS_EmptySet
  <2>3. SideSound(1, d.max, f, S) /\ SideSound(-1, d.min, f, S)
    BY <2>2 DEF Recorded, Sound, ExtremaSound
  <2>4. Cardinality(S \cup {i}) = n /\ IsFiniteSet(S \cup {i}) BY <1>2, FS_AddElement
  <2>5. n = 2 => \A j, k \in S : j = k BY <1>2, <2>4, CountTwo
  <2>6. a = Stats(n, d.known, IF d.known THEN d.sum + v ELSE 0,
                  IF d.known THEN d.squares + v * v ELSE 0,
                  AddSide(1, d.max, n, i, v), AddSide(-1, d.min, n, i, v))
    BY <1>4 DEF AddStats
  <2>7. SideSound(1, AddSide(1, d.max, n, i, v), g, S \cup {i})
    BY <1>1, <2>1, <2>3, <2>5, AddSideSound
  <2>8. SideSound(-1, AddSide(-1, d.min, n, i, v), g, S \cup {i})
    BY <1>1, <2>1, <2>3, <2>5, AddSideSound
  <2>9. AddSide(1, d.max, n, i, v) \in SideType /\ AddSide(-1, d.min, n, i, v) \in SideType
    BY <1>1, SideTypes
  <2>10. /\ (IF d.known THEN d.sum + v ELSE 0) \in Int
         /\ (IF d.known THEN d.squares + v * v ELSE 0) \in Int
    BY <1>1, SquareInt
  <2>11. n \in Nat BY <1>1
  <2>12. a \in StatsType BY <1>1, <2>6, <2>9, <2>10, <2>11, StatsTyped
  <2>13. /\ a.num = n /\ a.known = d.known
         /\ d.known => a.sum = d.sum + v /\ a.squares = d.squares + v * v
         /\ a.max = AddSide(1, d.max, n, i, v) /\ a.min = AddSide(-1, d.min, n, i, v)
    BY <2>6 DEF Stats
  <2>14. d.known => d.sum = SumOf(f, S) /\ d.squares = SquaresOf(f, S)
    BY <2>2 DEF Recorded, Sound, SumsSound
  <2>15. IntsOn(g, S \cup {i}) BY <1>2 DEF IntsOn, SameOn
  <2>16. /\ SumOf(g, S \cup {i}) = SumOf(g, S) + v
         /\ SquaresOf(g, S \cup {i}) = SquaresOf(g, S) + v * v
    BY <1>2, <2>15, SumJoin, SquaresJoin DEF IntsOn
  <2>17. SumOf(g, S) = SumOf(f, S) /\ SquaresOf(g, S) = SquaresOf(f, S)
    BY <1>2, SumAgrees, SquaresAgrees DEF SameOn
  <2>18. Sound(a, g, S \cup {i})
    <3> HIDE DEF a, n
    <3>1. ExtremaSound(a, g, S \cup {i}) BY <2>7, <2>8, <2>13 DEF ExtremaSound
    <3>2. SumsSound(a, g, S \cup {i})
      BY <2>13, <2>14, <2>16, <2>17 DEF SumsSound
    <3> QED BY <2>4, <2>13, <3>1, <3>2 DEF Sound
  <2>19. S \cup {i} \in SUBSET Nat BY <1>2
  <2> QED BY <2>4, <2>12, <2>15, <2>18, <2>19 DEF Recorded
<1> QED BY <1>3, <1>4

(* Another value of a recorded id.  The old one matters when the sums are kept. *)
LEMMA ChangeSound ==
    ASSUME NEW d, NEW f, NEW S, Recorded(d, f, S), NEW i \in S, NEW v \in Int,
           NEW g, SameOn(f, g, S \ {i}), g[i] = v, NEW old, d.known => old = f[i]
    PROVE  Recorded(ChangeStats(d, i, v, old), g, S)
<1> DEFINE n == d.num
           R == S \ {i}
           u == f[i]
           a == ChangeStats(d, i, v, old)
<1>1. /\ n \in Nat /\ d.known \in BOOLEAN /\ d.sum \in Int /\ d.squares \in Int
      /\ d.max \in SideType /\ d.min \in SideType
  BY Fields DEF Recorded
<1>2. n = Cardinality(S) /\ IsFiniteSet(S) /\ S \in SUBSET Nat /\ IntsOn(f, S)
  BY DEF Recorded, Sound
<1>3. /\ i \notin R /\ S = R \cup {i} /\ IsFiniteSet(R) /\ R \in SUBSET Nat /\ u \in Int
      /\ i \in Nat
  BY <1>2, FS_RemoveElement DEF IntsOn
<1>4. CASE n <= 1
  <2>1. R = {} BY <1>2, <1>3, <1>4, CountOne
  <2>2. S = {i} BY <1>3, <2>1
  <2>3. a = First(i, v) BY <1>4 DEF ChangeStats
  <2> QED BY <1>3, <2>2, <2>3, FirstSound
<1>5. CASE ~ (n <= 1)
  <2>1. Setting(1, R, i, f, g) /\ Setting(-1, R, i, f, g)
    BY <1>2, <1>3 DEF Setting, Signs, IntsOn, SameOn
  <2>2. S # {} OBVIOUS
  <2>3. SideSound(1, d.max, f, S) /\ SideSound(-1, d.min, f, S)
    BY <2>2 DEF Recorded, Sound, ExtremaSound
  <2>4. n = 2 => \A j, k \in R : j = k BY <1>2, <1>3, CountTwo
  <2>5. a = Stats(n, d.known, IF d.known THEN d.sum + v - old ELSE 0,
                  IF d.known THEN d.squares + v * v - old * old ELSE 0,
                  ChangeSide(1, d.max, n, i, v), ChangeSide(-1, d.min, n, i, v))
    BY <1>5 DEF ChangeStats
  <2> HIDE DEF R, u, n
  <2>6. SideSound(1, ChangeSide(1, d.max, n, i, v), g, R \cup {i})
    BY <1>1, <1>3, <2>1, <2>3, <2>4, ChangeSideSound DEF u
  <2>7. SideSound(-1, ChangeSide(-1, d.min, n, i, v), g, R \cup {i})
    BY <1>1, <1>3, <2>1, <2>3, <2>4, ChangeSideSound DEF u
  <2>8. ChangeSide(1, d.max, n, i, v) \in SideType /\ ChangeSide(-1, d.min, n, i, v) \in SideType
    BY <1>1, <1>3, SideTypes
  <2>9. d.known => old = u BY DEF u
  <2>10. /\ (IF d.known THEN d.sum + v - old ELSE 0) \in Int
         /\ (IF d.known THEN d.squares + v * v - old * old ELSE 0) \in Int
    BY <1>1, <1>3, <2>9, SquareInt
  <2>11. a \in StatsType BY <1>1, <2>5, <2>8, <2>10, StatsTyped
  <2>12. /\ a.num = n /\ a.known = d.known
         /\ d.known => a.sum = d.sum + v - u /\ a.squares = d.squares + v * v - u * u
         /\ a.max = ChangeSide(1, d.max, n, i, v) /\ a.min = ChangeSide(-1, d.min, n, i, v)
    BY <2>5, <2>9 DEF Stats
  <2>13. d.known => d.sum = SumOf(f, S) /\ d.squares = SquaresOf(f, S)
    BY <2>2 DEF Recorded, Sound, SumsSound
  <2>14. IntsOn(g, S) /\ IntsOn(f, R \cup {i}) BY <1>2, <1>3 DEF IntsOn, SameOn, R
  <2>15. /\ SumOf(g, R \cup {i}) = SumOf(g, R) + v
         /\ SquaresOf(g, R \cup {i}) = SquaresOf(g, R) + v * v
         /\ SumOf(f, R \cup {i}) = SumOf(f, R) + u /\ SumOf(f, R) \in Int
         /\ SquaresOf(f, R \cup {i}) = SquaresOf(f, R) + u * u /\ SquaresOf(f, R) \in Int
    BY <1>3, <2>14, SumJoin, SquaresJoin DEF IntsOn, u
  <2>16. SumOf(g, R) = SumOf(f, R) /\ SquaresOf(g, R) = SquaresOf(f, R)
    BY <1>3, SumAgrees, SquaresAgrees DEF SameOn, R
  <2>17. v * v \in Int /\ u * u \in Int BY <1>3, SquareInt
  <2>18. \A x, y, z \in Int : (x + y) + z - y = x + z OBVIOUS
  <2>19. d.known => a.sum = SumOf(g, S) /\ a.squares = SquaresOf(g, S)
    BY <1>3, <2>12, <2>13, <2>15, <2>16, <2>17, <2>18
  <2>20. Sound(a, g, S)
    <3> HIDE DEF a
    <3>1. ExtremaSound(a, g, S) BY <1>3, <2>6, <2>7, <2>12 DEF ExtremaSound
    <3>2. SumsSound(a, g, S) BY <2>12, <2>19 DEF SumsSound
    <3> QED BY <1>2, <2>12, <3>1, <3>2 DEF Sound
  <2> QED BY <1>2, <2>11, <2>14, <2>20 DEF Recorded
<1> QED BY <1>4, <1>5

(* Another value of a recorded id, of which only a bound is known. *)
LEMMA InvalidateSound ==
    ASSUME NEW d, NEW f, NEW S, Recorded(d, f, S), NEW i \in S, NEW v \in Int,
           NEW g, SameOn(f, g, S \ {i}), g[i] \in Int,
           (f[i] <= g[i] /\ g[i] <= v) \/ (v <= g[i] /\ g[i] <= f[i])
    PROVE  Recorded(invalidateStats(d, i, v, TRUE), g, S)
<1> DEFINE R == S \ {i}
           a == invalidateStats(d, i, v, TRUE)
<1>1. /\ d.num \in Nat /\ d.max \in SideType /\ d.min \in SideType
  BY Fields DEF Recorded
<1>2. d.num = Cardinality(S) /\ IsFiniteSet(S) /\ S \in SUBSET Nat /\ IntsOn(f, S)
  BY DEF Recorded, Sound
<1>3. /\ i \notin R /\ S = R \cup {i} /\ R \in SUBSET Nat /\ f[i] \in Int /\ i \in Nat
  BY <1>2 DEF IntsOn
<1>4. Setting(1, R, i, f, g) /\ Setting(-1, R, i, f, g)
  BY <1>2, <1>3 DEF Setting, Signs, IntsOn, SameOn
<1>5. SideSound(1, d.max, f, S) /\ SideSound(-1, d.min, f, S)
  BY DEF Recorded, Sound, ExtremaSound
<1> HIDE DEF R
<1>6. SideSound(1, InvalidateSide(1, d.max, i, v), g, R \cup {i})
  BY <1>1, <1>3, <1>4, <1>5, InvalidateSideSound
<1>7. SideSound(-1, InvalidateSide(-1, d.min, i, v), g, R \cup {i})
  BY <1>1, <1>3, <1>4, <1>5, InvalidateSideSound
<1>9. InvalidateSide(1, d.max, i, v) \in SideType /\ InvalidateSide(-1, d.min, i, v) \in SideType
  BY <1>1, <1>3, SideTypes
<1>10. a \in StatsType
  BY <1>1, <1>9 DEF invalidateStats, Stats, StatsType
<1>11. /\ a.num = d.num /\ a.known = FALSE
       /\ a.max = InvalidateSide(1, d.max, i, v) /\ a.min = InvalidateSide(-1, d.min, i, v)
  BY DEF invalidateStats, Stats
<1>12. IntsOn(g, S) BY <1>2, <1>3 DEF IntsOn, SameOn, R
<1>13. ExtremaSound(a, g, S) BY <1>3, <1>6, <1>7, <1>11 DEF ExtremaSound
<1>14. SumsSound(a, g, S) BY <1>11 DEF SumsSound
<1>15. Sound(a, g, S) BY <1>2, <1>11, <1>13, <1>14 DEF Sound
<1> QED BY <1>2, <1>10, <1>12, <1>15 DEF Recorded

LEMMA ResetSound ==
    ASSUME NEW d \in StatsType, NEW f
    PROVE  Recorded(resetStats(d), f, {}) /\ resetStats(d).num = 0
<1>1. resetStats(d) \in StatsType /\ resetStats(d).num = 0
  BY DEF resetStats, StatsType
<1>2. IsFiniteSet({}) /\ Cardinality({}) = 0 BY FS_EmptySet
<1>3. Sound(resetStats(d), f, {}) BY <1>1, <1>2 DEF Sound, SumsSound, ExtremaSound
<1> QED BY <1>1, <1>2, <1>3 DEF Recorded, IntsOn

LEMMA EmptySound ==
    ASSUME NEW f PROVE Recorded(EmptyStats, f, {})
<1>1. EmptyStats \in StatsType /\ EmptyStats.num = 0
  BY DEF EmptyStats, Stats, Unknown, Side, StatsType, SideType, NULL_INT
<1>2. IsFiniteSet({}) /\ Cardinality({}) = 0 BY FS_EmptySet
<1>3. Sound(EmptyStats, f, {}) BY <1>1, <1>2 DEF Sound, SumsSound, ExtremaSound
<1> QED BY <1>1, <1>2, <1>3 DEF Recorded, IntsOn

------------------------------------------------------------------------------
(* An object alone, with an owner who keeps the rules (DataStatsOwner). *)

LEMMA OwnerRecorded ==
    ASSUME OwnerIInv
    PROVE  /\ Recorded(stats, data, has) /\ data \in [Ids -> Int] /\ has \in SUBSET Ids
           /\ Ids \subseteq Nat /\ \A v \in Numbers : v \in Int
<1>1. Sound(stats, data, has) BY DEF OwnerIInv, Extrema, Sums, Sound
<1>2. /\ has \in SUBSET Ids /\ data \in [Ids -> Int] /\ stats \in StatsType
      /\ IsFiniteSet(has)
  BY DEF OwnerIInv, OwnerTypeOK
<1> QED BY <1>1, <1>2, DataStatsAssumption DEF Recorded, IntsOn

LEMMA OwnerStep ==
    ASSUME Recorded(stats', data', has'), data' \in [Ids -> Int], has' \in SUBSET Ids
    PROVE  OwnerIInv'
BY DEF Recorded, Sound, OwnerIInv, OwnerTypeOK, Extrema, Sums

LEMMA OwnerInitial == OwnerInit => OwnerIInv
<1> SUFFICES ASSUME OwnerInit PROVE OwnerIInv OBVIOUS
<1>1. has = {} /\ stats = EmptyStats /\ data \in [Ids -> Int] BY DEF OwnerInit
<1>2. Recorded(stats, data, has) BY <1>1, EmptySound
<1> QED
  BY <1>1, <1>2 DEF Recorded, Sound, OwnerIInv, OwnerTypeOK, Extrema, Sums

LEMMA OwnerNextIInv == OwnerIInv /\ [OwnerNext]_ownerVars => OwnerIInv'
<1> SUFFICES ASSUME OwnerIInv, [OwnerNext]_ownerVars PROVE OwnerIInv' OBVIOUS
<1> USE OwnerRecorded
<1>1. ASSUME NEW i \in Ids, NEW v \in Numbers, Add(i, v) PROVE OwnerIInv'
  <2>1. /\ i \notin has /\ has' = has \cup {i} /\ data' = [data EXCEPT ![i] = v]
        /\ stats' = AddStats(stats, i, v)
    BY <1>1 DEF Add, updateStats
  <2>2. data' \in [Ids -> Int] /\ data'[i] = v /\ SameOn(data, data', has)
    BY <2>1 DEF SameOn
  <2>3. Recorded(AddStats(stats, i, v), data', has \cup {i}) BY <2>1, <2>2, AddSound
  <2> QED BY <2>1, <2>2, <2>3, OwnerStep
<1>2. ASSUME NEW i \in Ids, NEW v \in Numbers, Update(i, v) PROVE OwnerIInv'
  <2>1. /\ i \in has /\ has' = has /\ data' = [data EXCEPT ![i] = v]
        /\ stats' = ChangeStats(stats, i, v, data[i])
    BY <1>2 DEF Update, updateStats
  <2>2. data' \in [Ids -> Int] /\ data'[i] = v /\ SameOn(data, data', has \ {i})
    BY <2>1 DEF SameOn
  <2>3. Recorded(ChangeStats(stats, i, v, data[i]), data', has) BY <2>1, <2>2, ChangeSound
  <2> QED BY <2>1, <2>2, <2>3, OwnerStep
<1>3. ASSUME NEW i \in Ids, NEW v \in Numbers, NEW real \in Numbers,
             Invalidate(i, v, real)
      PROVE  OwnerIInv'
  <2>1. /\ i \in has /\ has' = has /\ data' = [data EXCEPT ![i] = real]
        /\ stats' = invalidateStats(stats, i, v, TRUE)
    BY <1>3 DEF Invalidate
  <2>2. data' \in [Ids -> Int] /\ data'[i] = real /\ SameOn(data, data', has \ {i})
    BY <2>1 DEF SameOn
  <2>3. \/ data[i] <= data'[i] /\ data'[i] <= v
        \/ v <= data'[i] /\ data'[i] <= data[i]
    BY <1>3, <2>2 DEF Invalidate
  <2>4. Recorded(invalidateStats(stats, i, v, TRUE), data', has)
    BY <2>1, <2>2, <2>3, InvalidateSound
  <2> QED BY <2>1, <2>2, <2>4, OwnerStep
<1>4. CASE Reset
  <2>1. has' = {} /\ data' = data /\ stats' = resetStats(stats) BY <1>4 DEF Reset
  <2>2. Recorded(resetStats(stats), data', {}) BY ResetSound DEF Recorded
  <2> QED BY <2>1, <2>2, OwnerStep
<1>5. CASE UNCHANGED ownerVars
  BY <1>5, OwnerStep DEF ownerVars
<1> QED BY <1>1, <1>2, <1>3, <1>4, <1>5 DEF OwnerNext

(* The inductive invariant of an object whose owner keeps the rules of the header    *)
(* comment (datastats.h): its count, its sums and its two best values of each side.  *)
THEOREM OwnerInvariance == OwnerSpec => []OwnerIInv
BY OwnerInitial, OwnerNextIInv, PTL DEF OwnerSpec

(* The maximum and the minimum that a DataStats gives, and the second ones it keeps, *)
(* are those of the recorded values with the lowest id among equals, for every       *)
(* number of ids and of values (datastats.cpp, updateStats and invalidateStats).      *)
THEOREM ExtremaTheorem == OwnerSpec => []Extrema
<1>1. OwnerIInv => Extrema BY DEF OwnerIInv
<1> QED BY <1>1, OwnerInvariance, PTL

(* The count is that of the recorded values, and the sum and the sum of the squares,  *)
(* when they are given, are theirs, for every number of ids and of values, whatever   *)
(* was added, changed, invalidated and forgotten before (datastats.cpp).               *)
THEOREM SumsTheorem == OwnerSpec => []Sums
<1>1. OwnerIInv => Sums BY DEF OwnerIInv
<1> QED BY <1>1, OwnerInvariance, PTL

------------------------------------------------------------------------------
(* A rescan: a reset, and every value of f on S as a new one, in the order of CHOOSE. *)

RescansOver(g, d, f, D) ==
    g = [s \in D |-> IF s = {} THEN resetStats(d)
                     ELSE updateStats(g[s \ {Taken(s)}], Taken(s), f[Taken(s)], FALSE, 0)]

LEMMA RescanDef ==
    ASSUME NEW d, NEW S, NEW f
    PROVE  rescan(d, S, f) = (CHOOSE g : RescansOver(g, d, f, SUBSET S))[S]
BY DEF rescan, FoldSet, MapThenFoldSet, RescansOver, Taken

LEMMA RescansExist ==
    ASSUME NEW d, NEW f, NEW S, IsFiniteSet(S)
    PROVE  \E g : RescansOver(g, d, f, SUBSET S)
<1> DEFINE Sub(n) == {s \in SUBSET S : Cardinality(s) <= n}
           N == {n \in Nat : \E g : RescansOver(g, d, f, Sub(n))}
<1>1. ASSUME NEW s \in SUBSET S PROVE IsFiniteSet(s) /\ Cardinality(s) \in Nat
  BY FS_Subset, FS_CardinalityType
<1>2. 0 \in N
  <2>1. ASSUME NEW s \in Sub(0) PROVE s = {}
    <3>1. Cardinality(s) = 0 BY <1>1
    <3> QED BY <1>1, <3>1, FS_EmptySet
  <2>2. RescansOver([s \in Sub(0) |-> resetStats(d)], d, f, Sub(0))
    BY <2>1 DEF RescansOver
  <2> QED BY <2>2
<1>3. ASSUME NEW n \in N \cap Nat PROVE n + 1 \in N
  <2>1. PICK g : RescansOver(g, d, f, Sub(n)) OBVIOUS
  <2> DEFINE h == [s \in Sub(n + 1) |->
                     IF s = {} THEN resetStats(d)
                     ELSE updateStats(g[s \ {Taken(s)}], Taken(s), f[Taken(s)], FALSE, 0)]
  <2>2. ASSUME NEW s \in Sub(n + 1), s # {}
        PROVE  s \ {Taken(s)} \in Sub(n) /\ s \ {Taken(s)} \in Sub(n + 1)
    <3>1. Taken(s) \in s BY <2>2, TakenIn
    <3>2. /\ Cardinality(s \ {Taken(s)}) = Cardinality(s) - 1
          /\ Cardinality(s) \in Nat /\ Cardinality(s) <= n + 1
      BY <1>1, <3>1, FS_RemoveElement
    <3>3. Cardinality(s \ {Taken(s)}) <= n /\ Cardinality(s \ {Taken(s)}) <= n + 1
      BY <3>2
    <3> QED BY <3>3
  <2>3. ASSUME NEW t \in Sub(n) PROVE h[t] = g[t]
    <3>1. t \in Sub(n + 1) BY <1>1
    <3> HIDE DEF Sub
    <3> QED BY <2>1, <3>1 DEF RescansOver
  <2>4. RescansOver(h, d, f, Sub(n + 1))
    <3> HIDE DEF Sub
    <3>1. ASSUME NEW s \in Sub(n + 1), s # {}
          PROVE  g[s \ {Taken(s)}] = h[s \ {Taken(s)}]
      BY <2>2, <2>3, <3>1
    <3> QED BY <3>1 DEF RescansOver
  <2> HIDE DEF h, Sub
  <2> QED BY <2>4
<1>4. Nat \subseteq N
  <2> HIDE DEF N
  <2> QED BY <1>2, <1>3, Induction
<1>5. Cardinality(S) \in Nat BY <1>1
<1>6. PICK g : RescansOver(g, d, f, Sub(Cardinality(S))) BY <1>4, <1>5
<1>7. Sub(Cardinality(S)) = SUBSET S BY FS_Subset
<1> QED BY <1>6, <1>7

(* Every maximum and minimum is known once every value has been added. *)
AllKnown(d) == d.known /\ MaxKnown(d) /\ MinKnown(d)

LEMMA FirstKnown ==
    ASSUME NEW i \in Nat, NEW v PROVE AllKnown(First(i, v))
BY DEF First, Stats, Only, Side, NULL_INT, AllKnown, MaxKnown, MinKnown

LEMMA SideStaysKnown ==
    ASSUME NEW s, NEW h, h.id1 # NULL_INT, NEW n, NEW i \in Nat, NEW v
    PROVE  /\ AddSide(s, h, n, i, v).id1 # NULL_INT
BY DEF AddSide, NewBest, Second, Side, NULL_INT

LEMMA AddKnown ==
    ASSUME NEW d \in StatsType, NEW i \in Nat, NEW v, d.num = 0 \/ AllKnown(d)
    PROVE  AllKnown(AddStats(d, i, v))
<1>1. CASE d.num = 0 BY <1>1, FirstKnown DEF AddStats
<1>2. CASE d.num # 0
  <2> DEFINE n == d.num + 1
  <2>1. n \in Nat /\ n > 0 BY Fields
  <2>2. d.known /\ d.max.id1 # NULL_INT /\ d.min.id1 # NULL_INT
    BY <1>2 DEF AllKnown, MaxKnown, MinKnown
  <2> HIDE DEF n
  <2>3. /\ AddSide(1, d.max, n, i, v).id1 # NULL_INT
        /\ AddSide(-1, d.min, n, i, v).id1 # NULL_INT
    BY <2>2, SideStaysKnown
  <2>4. /\ AddStats(d, i, v).num = n /\ AddStats(d, i, v).known = d.known
        /\ AddStats(d, i, v).max = AddSide(1, d.max, n, i, v)
        /\ AddStats(d, i, v).min = AddSide(-1, d.min, n, i, v)
    BY <1>2 DEF AddStats, Stats, n
  <2> QED BY <2>1, <2>2, <2>3, <2>4 DEF AllKnown, MaxKnown, MinKnown
<1> QED BY <1>1, <1>2

LEMMA RescanSound ==
    ASSUME NEW d \in StatsType, NEW S \in SUBSET Nat, IsFiniteSet(S), NEW f, IntsOn(f, S)
    PROVE  Recorded(rescan(d, S, f), f, S) /\ (S # {} => AllKnown(rescan(d, S, f)))
<1>1. \E k : RescansOver(k, d, f, SUBSET S) BY RescansExist
<1>2. PICK g : g = (CHOOSE k : RescansOver(k, d, f, SUBSET S)) /\ RescansOver(g, d, f, SUBSET S)
  BY <1>1
<1>3. rescan(d, S, f) = g[S] BY <1>2, RescanDef
<1> DEFINE G == {s \in SUBSET S : Recorded(g[s], f, s) /\ (s # {} => AllKnown(g[s]))}
<1>4. {} \in G
  <2>1. g[{}] = resetStats(d) BY <1>2 DEF RescansOver
  <2> QED BY <2>1, ResetSound
<1>5. ASSUME NEW s \in SUBSET S, s # {}, \A x \in s : s \ {x} \in G PROVE s \in G
  <2> DEFINE t == Taken(s)
             r == s \ {t}
  <2>1. t \in s BY <1>5, TakenIn
  <2>2. Recorded(g[r], f, r) /\ (r # {} => AllKnown(g[r])) BY <1>5, <2>1
  <2>3. g[s] = AddStats(g[r], t, f[t]) BY <1>2, <1>5 DEF RescansOver, updateStats
  <2>4. t \in Nat \ r /\ f[t] \in Int /\ s = r \cup {t} BY <2>1 DEF IntsOn
  <2> HIDE DEF t, r
  <2>5. Recorded(g[s], f, s)
    <3>1. SameOn(f, f, r) BY DEF SameOn
    <3> QED BY <2>2, <2>3, <2>4, <3>1, AddSound
  <2>6. AllKnown(g[s])
    <3>1. g[r] \in StatsType BY <2>2 DEF Recorded
    <3>2. r = {} => g[r].num = 0 BY <2>2, FS_EmptySet DEF Recorded, Sound
    <3>3. g[r].num = 0 \/ AllKnown(g[r]) BY <2>2, <3>2
    <3> QED BY <2>3, <2>4, <3>1, <3>3, AddKnown
  <2> QED BY <2>5, <2>6
<1>6. SUBSET S \subseteq G
  <2> HIDE DEF G
  <2> QED BY <1>4, <1>5, SubsetInduction
<1> QED BY <1>3, <1>6

------------------------------------------------------------------------------
(* What an entry says of itself is true of its values. *)

Kinds == {"EntrySum", "EntryMean", "EntryMax", "EntryMin", "EntrySumOfSquares",
          "EntryStdDev", "EntryCount"}

IsField(f) == DOMAIN f \subseteq Pairs /\ f \in [DOMAIN f -> Int]

LEMMA FieldFacts ==
    ASSUME NEW f, IsField(f)
    PROVE  /\ DOMAIN f \in SUBSET Nat /\ IsFiniteSet(DOMAIN f) /\ IntsOn(f, DOMAIN f)
           /\ Cardinality(DOMAIN f) \in Nat /\ Cardinality(DOMAIN f) <= Cardinality(Pairs)
           /\ (DOMAIN f # {} => Cardinality(DOMAIN f) \in 1..Cardinality(Pairs))
<1>1. DOMAIN f \subseteq Pairs /\ IsFiniteSet(Pairs) /\ Pairs \subseteq Nat
  BY DataRollupAssumption DEF IsField
<1>2. IsFiniteSet(DOMAIN f) /\ Cardinality(DOMAIN f) <= Cardinality(Pairs)
  BY <1>1, FS_Subset
<1>3. Cardinality(DOMAIN f) \in Nat /\ Cardinality(Pairs) \in Nat
  BY <1>1, <1>2, FS_CardinalityType
<1>4. DOMAIN f # {} => Cardinality(DOMAIN f) # 0 BY <1>2, FS_EmptySet
<1>5. DOMAIN f # {} => Cardinality(DOMAIN f) \in 1..Cardinality(Pairs)
  BY <1>2, <1>3, <1>4
<1>6. IntsOn(f, DOMAIN f) BY DEF IntsOn, IsField
<1>7. DOMAIN f \in SUBSET Nat BY <1>1
<1> QED BY <1>2, <1>3, <1>5, <1>6, <1>7

LEMMA MaxIs ==
    ASSUME NEW f, NEW S \in SUBSET Nat, IntsOn(f, S), NEW i, Best(1, f, S, i)
    PROVE  f[i] = Max({f[p] : p \in S}) /\ \A p \in S : f[p] <= f[i]
<1> DEFINE V == {f[p] : p \in S}
<1>1. i \in S /\ f[i] \in V BY DEF Best
<1>2. ASSUME NEW p \in S PROVE f[p] <= f[i]
  <2>1. f[p] \in Int /\ f[i] \in Int BY <1>1 DEF IntsOn
  <2>2. p = i \/ ~ Ahead(1, f[p], p, f[i], i) BY DEF Best
  <2> QED BY <2>1, <2>2 DEF Ahead
<1>3. ASSUME NEW x \in V, \A y \in V : x >= y PROVE x = f[i]
  <2>1. x \in Int /\ f[i] \in Int /\ x >= f[i] BY <1>1, <1>3 DEF IntsOn
  <2>2. x <= f[i] BY <1>2
  <2> QED BY <2>1, <2>2
<1>4. \A y \in V : f[i] >= y
  <2> SUFFICES ASSUME NEW p \in S PROVE f[i] >= f[p] OBVIOUS
  <2>1. f[p] \in Int /\ f[i] \in Int BY <1>1 DEF IntsOn
  <2> QED BY <2>1, <1>2
<1> HIDE DEF V
<1>5. Max(V) = f[i] BY <1>1, <1>3, <1>4 DEF Max
<1> QED BY <1>2, <1>5 DEF V

LEMMA MinIs ==
    ASSUME NEW f, NEW S \in SUBSET Nat, IntsOn(f, S), NEW i, Best(-1, f, S, i)
    PROVE  f[i] = Min({f[p] : p \in S}) /\ \A p \in S : f[i] <= f[p]
<1> DEFINE V == {f[p] : p \in S}
<1>1. i \in S /\ f[i] \in V BY DEF Best
<1>2. ASSUME NEW p \in S PROVE f[i] <= f[p]
  <2>1. f[p] \in Int /\ f[i] \in Int BY <1>1 DEF IntsOn
  <2>2. p = i \/ ~ Ahead(-1, f[p], p, f[i], i) BY DEF Best
  <2> QED BY <2>1, <2>2 DEF Ahead
<1>3. ASSUME NEW x \in V, \A y \in V : x =< y PROVE x = f[i]
  <2>1. x \in Int /\ f[i] \in Int /\ x <= f[i] BY <1>1, <1>3 DEF IntsOn
  <2>2. f[i] <= x BY <1>2
  <2> QED BY <2>1, <2>2
<1>4. \A y \in V : f[i] =< y BY <1>2
<1> HIDE DEF V
<1>5. Min(V) = f[i] BY <1>1, <1>3, <1>4 DEF Min
<1> QED BY <1>2, <1>5 DEF V

LEMMA DivideBack ==
    \A a \in Int, b \in Nat \ {0} : (a * b) \div b = a
<1> TAKE a \in Int, b \in Nat \ {0}
<1> DEFINE x == a * b
           q == x \div b
<1>1. x \in Int BY DEF x
<1>2. q \in Int /\ x = b * q + (x % b) /\ 0 <= x % b /\ x % b < b BY <1>1
<1> QED BY <1>2

LEMMA Multiples ==
    ASSUME NEW c \in 1..Cardinality(Pairs)
    PROVE  L \div c \in Int /\ L = c * (L \div c) /\ c \in Nat \ {0} /\ L \in Int
<1>1. L \in Nat \ {0} /\ L % c = 0 BY DataRollupAssumption
<1>2. c \in Nat \ {0} OBVIOUS
<1> QED BY <1>1, <1>2

(* The variance from the sums: the two ways to write it. *)
LEMMA VarianceIs ==
    ASSUME NEW c \in 1..Cardinality(Pairs), NEW a \in Int, NEW q \in Int
    PROVE  ((c * q - a * a) * L * L) \div (c * c) =
               L * q * (L \div c) - (a * (L \div c)) * (a * (L \div c))
<1> DEFINE m == L \div c
<1>1. m \in Int /\ L = c * m /\ c \in Nat \ {0} BY Multiples
<1> HIDE DEF m
<1>2. c * c \in Nat \ {0} BY <1>1
<1> DEFINE x == (c * q - a * a) * (m * m)
<1>3. x \in Int BY <1>1
<1>4. (c * q - a * a) * L * L = x * (c * c) BY <1>1
<1>5. (x * (c * c)) \div (c * c) = x
  <2> HIDE DEF x
  <2> QED BY <1>2, <1>3, DivideBack
<1>6. x = L * q * m - (a * m) * (a * m) BY <1>1
<1> QED BY <1>4, <1>5, <1>6 DEF m

LEMMA StatTrue ==
    ASSUME NEW f, IsField(f), DOMAIN f # {}, NEW d, Recorded(d, f, DOMAIN f), d.known,
           NEW k \in Kinds, Known(d, k)
    PROVE  EntryStat(d, k) = TruthOf(f, k) /\ EntryStat(d, k) \in Int
<1> DEFINE S == DOMAIN f
           c == Cardinality(S)
           sum == SumOf(f, S)
           sq == SquaresOf(f, S)
<1>1. /\ S \in SUBSET Nat /\ IsFiniteSet(S) /\ IntsOn(f, S)
      /\ c \in 1..Cardinality(Pairs)
  BY FieldFacts
<1>2. d.num = c /\ d.sum = sum /\ d.squares = sq
  BY DEF Recorded, Sound, SumsSound
<1>3. sum \in Int /\ sq \in Int /\ c \in Int
  <2>1. d.sum \in Int /\ d.squares \in Int BY Fields DEF Recorded
  <2>2. c \in Int BY <1>1
  <2> QED BY <1>2, <2>1, <2>2
<1>4. L \div c \in Int /\ L \in Int BY <1>1, Multiples
<1>5. SideSound(1, d.max, f, S) /\ SideSound(-1, d.min, f, S)
  BY DEF Recorded, Sound, ExtremaSound
<1>6. CASE k = "EntrySum" BY <1>2, <1>3, <1>6 DEF EntryStat, TruthOf
<1>7. CASE k = "EntryMean"
  <2>1. EntryStat(d, k) = sum * (L \div c) BY <1>2, <1>7 DEF EntryStat, Mean
  <2>2. TruthOf(f, k) = sum * (L \div c) BY <1>7 DEF TruthOf
  <2> HIDE DEF sum, c
  <2> QED BY <1>3, <1>4, <2>1, <2>2
<1>8. CASE k = "EntryMax"
  <2>1. d.max.id1 # NULL_INT BY <1>8 DEF Known, MaxKnown
  <2>2. Best(1, f, S, d.max.id1) /\ f[d.max.id1] = d.max.v1
    BY <1>5, <2>1 DEF SideSound
  <2>3. d.max.v1 = Max({f[p] : p \in S}) BY <1>1, <2>2, MaxIs
  <2>4. d.max.v1 \in Int BY <1>1, <2>2 DEF Best, IntsOn
  <2> QED BY <1>8, <2>3, <2>4 DEF EntryStat, TruthOf
<1>9. CASE k = "EntryMin"
  <2>1. d.min.id1 # NULL_INT BY <1>9 DEF Known, MinKnown
  <2>2. Best(-1, f, S, d.min.id1) /\ f[d.min.id1] = d.min.v1
    BY <1>5, <2>1 DEF SideSound
  <2>3. d.min.v1 = Min({f[p] : p \in S}) BY <1>1, <2>2, MinIs
  <2>4. d.min.v1 \in Int BY <1>1, <2>2 DEF Best, IntsOn
  <2> QED BY <1>9, <2>3, <2>4 DEF EntryStat, TruthOf
<1>10. CASE k = "EntrySumOfSquares" BY <1>2, <1>3, <1>10 DEF EntryStat, TruthOf
<1>11. CASE k = "EntryCount" BY <1>2, <1>3, <1>11 DEF EntryStat, TruthOf
<1>12. CASE k = "EntryStdDev"
  <2>1. EntryStat(d, k) = L * sq * (L \div c) - (sum * (L \div c)) * (sum * (L \div c))
    BY <1>2, <1>12 DEF EntryStat, Variance, Mean
  <2>2. TruthOf(f, k) = ((c * sq - sum * sum) * L * L) \div (c * c) BY <1>12 DEF TruthOf
  <2> HIDE DEF sum, sq, c
  <2>3. EntryStat(d, k) = TruthOf(f, k) BY <1>1, <1>3, <2>1, <2>2, VarianceIs
  <2> QED BY <1>3, <1>4, <2>1, <2>3
<1> QED BY <1>6, <1>7, <1>8, <1>9, <1>10, <1>11, <1>12 DEF Kinds

(* A statistic of a field that has values is an integer, and so there is a maximum  *)
(* and a minimum: a rescan finds them.                                             *)
LEMMA TruthFacts ==
    ASSUME NEW f, IsField(f), DOMAIN f # {}
    PROVE  /\ \A k \in Kinds : TruthOf(f, k) \in Int
           /\ \E p \in DOMAIN f : TruthOf(f, "EntryMax") = f[p]
           /\ \A p \in DOMAIN f : f[p] <= TruthOf(f, "EntryMax")
           /\ \E p \in DOMAIN f : TruthOf(f, "EntryMin") = f[p]
           /\ \A p \in DOMAIN f : TruthOf(f, "EntryMin") <= f[p]
<1> DEFINE d == rescan(EmptyStats, DOMAIN f, f)
           S == DOMAIN f
<1>1. EmptyStats \in StatsType BY EmptySound DEF Recorded
<1>2. S \in SUBSET Nat /\ IsFiniteSet(S) /\ IntsOn(f, S) BY FieldFacts
<1>3. Recorded(d, f, S) /\ AllKnown(d) BY <1>1, <1>2, RescanSound
<1> HIDE DEF d
<1>4. \A k \in Kinds : Known(d, k) BY <1>3 DEF Known, AllKnown, Kinds
<1>5. \A k \in Kinds : TruthOf(f, k) \in Int
  BY <1>3, <1>4, StatTrue DEF AllKnown
<1>6. SideSound(1, d.max, f, S) /\ SideSound(-1, d.min, f, S)
  BY <1>3 DEF Recorded, Sound, ExtremaSound
<1>7. Best(1, f, S, d.max.id1) /\ Best(-1, f, S, d.min.id1)
  BY <1>3, <1>6 DEF SideSound, AllKnown, MaxKnown, MinKnown
<1>8. /\ d.max.id1 \in S /\ f[d.max.id1] = Max({f[p] : p \in S})
      /\ \A p \in S : f[p] <= f[d.max.id1]
  BY <1>2, <1>7, MaxIs DEF Best
<1>9. /\ d.min.id1 \in S /\ f[d.min.id1] = Min({f[p] : p \in S})
      /\ \A p \in S : f[d.min.id1] <= f[p]
  BY <1>2, <1>7, MinIs DEF Best
<1>10. /\ TruthOf(f, "EntryMax") = Max({f[p] : p \in S})
       /\ TruthOf(f, "EntryMin") = Min({f[p] : p \in S})
  BY DEF TruthOf
<1> QED BY <1>5, <1>8, <1>9, <1>10

(* What is written lies on the other side of the new maximum (minimum) from the old. *)
LEMMA WrittenBetween ==
    ASSUME NEW f, IsField(f), DOMAIN f # {}, NEW p \in Pairs, NEW v \in Int,
           NEW k \in {"EntryMax", "EntryMin"}
    PROVE  LET g == Written(f, p, v) IN
           \/ TruthOf(f, k) <= TruthOf(g, k) /\ TruthOf(g, k) <= v
           \/ v <= TruthOf(g, k) /\ TruthOf(g, k) <= TruthOf(f, k)
<1> DEFINE g == Written(f, p, v)
           t == TruthOf(f, k)
           u == TruthOf(g, k)
<1>1. /\ DOMAIN g = DOMAIN f \cup {p} /\ g[p] = v
      /\ \A q \in DOMAIN f \ {p} : g[q] = f[q]
      /\ \A q \in DOMAIN g : g[q] \in Int
  BY DEF Written, IsField
<1>2. IsField(g) /\ DOMAIN g # {} BY <1>1 DEF Written, IsField
<1>3. t \in Int /\ u \in Int BY <1>2, TruthFacts DEF Kinds
<1> HIDE DEF g
<1>4. CASE k = "EntryMax"
  <2>1. \A q \in DOMAIN f : f[q] \in Int /\ f[q] <= t BY <1>4, TruthFacts DEF IsField
  <2>2. PICK q \in DOMAIN g : u = g[q] BY <1>2, <1>4, TruthFacts
  <2>3. \A r \in DOMAIN g : g[r] <= u BY <1>2, <1>4, TruthFacts
  <2>4. v <= u BY <1>1, <2>3
  <2>5. u = v \/ u <= t BY <1>1, <2>1, <2>2
  <2> HIDE DEF t, u
  <2> QED BY <1>3, <2>4, <2>5 DEF t, u, g
<1>5. CASE k = "EntryMin"
  <2>1. \A q \in DOMAIN f : f[q] \in Int /\ t <= f[q] BY <1>5, TruthFacts DEF IsField
  <2>2. PICK q \in DOMAIN g : u = g[q] BY <1>2, <1>5, TruthFacts
  <2>3. \A r \in DOMAIN g : u <= g[r] BY <1>2, <1>5, TruthFacts
  <2>4. u <= v BY <1>1, <2>3
  <2>5. u = v \/ t <= u BY <1>1, <2>1, <2>2
  <2> HIDE DEF t, u
  <2> QED BY <1>3, <2>4, <2>5 DEF t, u, g
<1> QED BY <1>4, <1>5

------------------------------------------------------------------------------
(* The invariant of the rollups as a formula of the state's four parts, so that the   *)
(* lemmas serve the state before a step and after it.                                *)

Data(val, n) == {e \in n : DOMAIN val[e] # {}}
StatsOf(val, n, k) == [e \in Data(val, n) |-> TruthOf(val[e], k)]

EntryGood(f, d) == Recorded(d, f, DOMAIN f) /\ d.known
CacheGood(m, val, n) ==
    m.type # EntryInvalid =>
        Recorded(m.stats, StatsOf(val, n, m.type), Data(val, n)) /\ AllKnown(m.stats)

Shapes(val, ent, rol, mis) ==
    /\ val = [e \in Entries |-> val[e]] /\ \A e \in Entries : IsField(val[e])
    /\ ent \in [Entries -> StatsType]
    /\ rol \in [Nodes -> [Rollups -> StatsType]]
    /\ mis \in [Nodes -> [type : MiscStats \cup {EntryInvalid}, stats : StatsType]]

State(val, ent, rol, mis) ==
    /\ Shapes(val, ent, rol, mis)
    /\ \A e \in Entries : EntryGood(val[e], ent[e])
    /\ \A n \in Nodes, k \in Rollups :
          /\ Recorded(rol[n][k], StatsOf(val, n, k), Data(val, n))
          /\ rol[n][k].known => \A e \in Data(val, n) : Known(ent[e], k)
    /\ \A n \in Nodes : CacheGood(mis[n], val, n)

LEMMA KindsHold == Rollups \subseteq Kinds /\ MiscStats \subseteq Kinds
BY DataRollupAssumption DEF Kinds

LEMMA NodeFacts ==
    ASSUME NEW val, \A e \in Entries : IsField(val[e]), NEW n \in Nodes
    PROVE  /\ n \subseteq Entries
           /\ Data(val, n) \in SUBSET Nat /\ IsFiniteSet(Data(val, n))
           /\ \A k \in Kinds : IntsOn(StatsOf(val, n, k), Data(val, n))
<1>1. n \subseteq Entries /\ Entries \subseteq Nat /\ IsFiniteSet(Entries)
  BY DataRollupAssumption
<1>2. Data(val, n) \subseteq Entries BY <1>1 DEF Data
<1>3. Data(val, n) \in SUBSET Nat /\ IsFiniteSet(Data(val, n)) BY <1>1, <1>2, FS_Subset
<1>4. ASSUME NEW k \in Kinds, NEW e \in Data(val, n) PROVE StatsOf(val, n, k)[e] \in Int
  <2>1. IsField(val[e]) /\ DOMAIN val[e] # {} BY <1>2 DEF Data
  <2> QED BY <2>1, TruthFacts DEF StatsOf
<1> QED BY <1>1, <1>3, <1>4 DEF IntsOn

LEMMA SoundRecorded ==
    ASSUME NEW d \in StatsType, NEW f, NEW S \in SUBSET Nat, IsFiniteSet(S), IntsOn(f, S)
    PROVE  Recorded(d, f, S) <=> Sound(d, f, S)
BY DEF Recorded

LEMMA SameData ==
    ASSUME NEW n
    PROVE  /\ WithData(n) = Data(value, n) /\ \A k : Truths(n, k) = StatsOf(value, n, k)
           /\ WithData(n)' = Data(value', n) /\ \A k : Truths(n, k)' = StatsOf(value', n, k)
BY DEF WithData, Data, Truths, StatsOf

LEMMA TypeIs ==
    /\ TypeOK <=> Shapes(value, entry, rollup, misc)
    /\ TypeOK' <=> Shapes(value', entry', rollup', misc')
BY DEF TypeOK, Shapes, IsField

LEMMA StateHolds == IInv => State(value, entry, rollup, misc)
<1> SUFFICES ASSUME IInv PROVE State(value, entry, rollup, misc) OBVIOUS
<1>1. Shapes(value, entry, rollup, misc) BY TypeIs DEF IInv
<1>2. ASSUME NEW e \in Entries PROVE EntryGood(value[e], entry[e])
  <2>1. IsField(value[e]) /\ entry[e] \in StatsType BY <1>1 DEF Shapes
  <2>2. Sound(entry[e], value[e], DOMAIN value[e]) /\ entry[e].known
    BY DEF IInv, StatsSound, EntrySound
  <2> QED BY <2>1, <2>2, FieldFacts, SoundRecorded DEF EntryGood
<1>3. ASSUME NEW n \in Nodes, NEW k \in Rollups
      PROVE  /\ Recorded(rollup[n][k], StatsOf(value, n, k), Data(value, n))
             /\ rollup[n][k].known => \A e \in Data(value, n) : Known(entry[e], k)
  <2>1. rollup[n][k] \in StatsType /\ k \in Kinds BY <1>1, KindsHold DEF Shapes
  <2>2. Sound(rollup[n][k], StatsOf(value, n, k), Data(value, n))
    BY SameData DEF IInv, StatsSound, NodeSound
  <2>3. Recorded(rollup[n][k], StatsOf(value, n, k), Data(value, n))
    BY <1>1, <2>1, <2>2, NodeFacts, SoundRecorded DEF Shapes
  <2>4. rollup[n][k].known => \A e \in Data(value, n) : Known(entry[e], k)
    BY SameData DEF IInv, KnownTogether
  <2> QED BY <2>3, <2>4
<1>4. ASSUME NEW n \in Nodes PROVE CacheGood(misc[n], value, n)
  <2> SUFFICES ASSUME misc[n].type # EntryInvalid
               PROVE  /\ Recorded(misc[n].stats, StatsOf(value, n, misc[n].type), Data(value, n))
                      /\ AllKnown(misc[n].stats)
    BY DEF CacheGood
  <2>1. misc[n].stats \in StatsType /\ misc[n].type \in Kinds
    BY <1>1, KindsHold DEF Shapes
  <2>2. /\ Sound(misc[n].stats, StatsOf(value, n, misc[n].type), Data(value, n))
        /\ AllKnown(misc[n].stats)
    BY SameData DEF IInv, StatsSound, NodeSound, AllKnown
  <2> QED BY <1>1, <2>1, <2>2, NodeFacts, SoundRecorded DEF Shapes
<1> QED BY <1>1, <1>2, <1>3, <1>4 DEF State

LEMMA StateSuffices == State(value', entry', rollup', misc') => IInv'
<1> SUFFICES ASSUME State(value', entry', rollup', misc') PROVE IInv' OBVIOUS
<1>1. TypeOK' BY TypeIs DEF State
<1>2. \A e \in Entries : EntrySound(e)'
  BY DEF State, EntryGood, Recorded, EntrySound
<1>3. ASSUME NEW n \in Nodes PROVE NodeSound(n)'
  <2>1. \A k \in Rollups : Sound(rollup'[n][k], Truths(n, k)', WithData(n)')
    BY SameData DEF State, Recorded
  <2>2. ASSUME misc'[n].type # EntryInvalid
        PROVE  /\ Sound(misc'[n].stats, StatsOf(value', n, misc'[n].type), Data(value', n))
               /\ AllKnown(misc'[n].stats)
    BY <2>2 DEF State, CacheGood, Recorded
  <2> QED BY <2>1, <2>2, SameData DEF NodeSound, AllKnown, Truths, StatsOf, WithData, Data
<1>4. KnownTogether' BY SameData DEF State, KnownTogether
<1> QED BY <1>1, <1>2, <1>3, <1>4 DEF IInv, StatsSound

------------------------------------------------------------------------------
(* A write. *)

LEMMA KnownKept ==
    ASSUME NEW d \in StatsType, NEW i, NEW v, NEW old
    PROVE  /\ AddStats(d, i, v).known <=> d.num = 0 \/ d.known
           /\ ChangeStats(d, i, v, old).known <=> d.num <= 1 \/ d.known
<1>1. d.known \in BOOLEAN BY Fields
<1>2. AddStats(d, i, v).known <=> d.num = 0 \/ d.known
  <2>1. CASE d.num = 0 BY <2>1 DEF AddStats, First, Stats
  <2>2. CASE d.num # 0 BY <1>1, <2>2 DEF AddStats, Stats
  <2> QED BY <2>1, <2>2
<1>3. ChangeStats(d, i, v, old).known <=> d.num <= 1 \/ d.known
  <2>1. CASE d.num <= 1 BY <2>1 DEF ChangeStats, First, Stats
  <2>2. CASE ~ (d.num <= 1) BY <1>1, <2>2 DEF ChangeStats, Stats
  <2> QED BY <2>1, <2>2
<1> QED BY <1>2, <1>3

LEMMA WrittenField ==
    ASSUME NEW f, IsField(f), NEW p \in Pairs, NEW v \in Int
    PROVE  LET g == Written(f, p, v) IN
           /\ IsField(g) /\ DOMAIN g = DOMAIN f \cup {p} /\ DOMAIN g # {}
           /\ g[p] = v /\ SameOn(f, g, DOMAIN f \ {p})
BY DEF Written, IsField, SameOn

LEMMA WrittenGood ==
    ASSUME NEW f, IsField(f), NEW d, EntryGood(f, d), NEW p \in Pairs, NEW v \in Int
    PROVE  EntryGood(Written(f, p, v),
                     updateStats(d, p, v, p \in DOMAIN f, IF p \in DOMAIN f THEN f[p] ELSE 0))
<1> DEFINE g == Written(f, p, v)
<1>1. /\ IsField(g) /\ DOMAIN g = DOMAIN f \cup {p}
      /\ g[p] = v /\ SameOn(f, g, DOMAIN f \ {p})
  BY WrittenField
<1>2. Recorded(d, f, DOMAIN f) /\ d.known /\ d \in StatsType BY DEF EntryGood, Recorded
<1>3. p \in Nat BY DataRollupAssumption
<1> HIDE DEF g
<1>4. CASE p \in DOMAIN f
  <2>1. DOMAIN g = DOMAIN f BY <1>1, <1>4
  <2>2. Recorded(ChangeStats(d, p, v, f[p]), g, DOMAIN f)
    BY <1>1, <1>2, <1>4, ChangeSound
  <2>3. ChangeStats(d, p, v, f[p]).known BY <1>2, KnownKept
  <2> QED BY <1>4, <2>1, <2>2, <2>3 DEF EntryGood, updateStats, g
<1>5. CASE p \notin DOMAIN f
  <2>1. SameOn(f, g, DOMAIN f) BY <1>1, <1>5 DEF SameOn
  <2>2. Recorded(AddStats(d, p, v), g, DOMAIN f \cup {p})
    BY <1>1, <1>2, <1>3, <1>5, <2>1, AddSound
  <2>3. AddStats(d, p, v).known BY <1>2, KnownKept
  <2> QED BY <1>1, <1>5, <2>2, <2>3 DEF EntryGood, updateStats, g
<1> QED BY <1>4, <1>5

LEMMA EntryCount ==
    ASSUME NEW f, NEW d, EntryGood(f, d)
    PROVE  d \in StatsType /\ d.num \in Nat /\ (d.num = 0 <=> DOMAIN f = {})
<1>1. d \in StatsType /\ IsFiniteSet(DOMAIN f) /\ d.num = Cardinality(DOMAIN f)
  BY DEF EntryGood, Recorded, Sound
<1> QED BY <1>1, Fields, FS_EmptySet

LEMMA AllKnownKinds ==
    ASSUME NEW d, AllKnown(d), NEW k PROVE Known(d, k)
BY DEF AllKnown, Known

(* A new entry has one value, and all its statistics are known. *)
LEMMA NewKnown ==
    ASSUME NEW f, IsField(f), NEW d, EntryGood(f, d), d.num = 0, NEW p \in Pairs, NEW v,
           NEW k
    PROVE  Known(updateStats(d, p, v, p \in DOMAIN f, IF p \in DOMAIN f THEN f[p] ELSE 0), k)
<1>1. p \notin DOMAIN f BY EntryCount
<1>2. p \in Nat BY DataRollupAssumption
<1>3. updateStats(d, p, v, p \in DOMAIN f, IF p \in DOMAIN f THEN f[p] ELSE 0) = First(p, v)
  BY <1>1 DEF updateStats, AddStats
<1> QED BY <1>2, <1>3, FirstKnown, AllKnownKinds

(* updateEntryStats: the rollup d of a node, sound for the statistics F of its        *)
(* entries S, from what the entry e says of its values f before (old) and after (new) *)
(* v is written for p.  G are the statistics after it.                               *)
EntryInNode(d, S, F, k, e, f, old) ==
    /\ Recorded(d, F, S) /\ k \in Kinds /\ e \in Nat
    /\ IsField(f) /\ EntryGood(f, old)
    /\ DOMAIN f = {} <=> e \notin S
    /\ e \in S => F[e] = TruthOf(f, k)
    /\ d.known /\ e \in S => Known(old, k)

EntryWritten(S, F, k, e, f, old, p, v, new, G) ==
    /\ p \in Pairs /\ v \in Int
    /\ new = updateStats(old, p, v, p \in DOMAIN f, IF p \in DOMAIN f THEN f[p] ELSE 0)
    /\ SameOn(F, G, S \ {e}) /\ G[e] = TruthOf(Written(f, p, v), k)

LEMMA RollupStep ==
    ASSUME NEW d, NEW S, NEW F, NEW k, NEW e, NEW f, NEW old, EntryInNode(d, S, F, k, e, f, old),
           NEW p, NEW v, NEW new, NEW G, EntryWritten(S, F, k, e, f, old, p, v, new, G)
    PROVE  LET a == updateRollup(d, e, k, old, new, v) IN
           /\ Recorded(a, G, S \cup {e})
           /\ a.known => Known(new, k) /\ (d.known \/ S \subseteq {e})
<1> USE DEF EntryInNode, EntryWritten
<1> DEFINE g == Written(f, p, v)
           a == updateRollup(d, e, k, old, new, v)
<1>1. IsField(g) /\ DOMAIN g # {} /\ EntryGood(g, new) BY WrittenField, WrittenGood
<1>2. old.num \in Nat /\ (old.num = 0 <=> e \notin S) BY EntryCount
<1>3. d \in StatsType /\ d.num = Cardinality(S) /\ IsFiniteSet(S) /\ d.num \in Nat
  BY Fields DEF Recorded, Sound
<1> HIDE DEF g
<1>4. G[e] \in Int BY <1>1, TruthFacts DEF g
<1>5. CASE Known(new, k)
  <2>1. EntryStat(new, k) = G[e]
    <3>1. EntryStat(new, k) = TruthOf(g, k) BY <1>1, <1>5, StatTrue DEF EntryGood
    <3> QED BY <3>1 DEF g
  <2>2. CASE old.num = 0
    <3>1. a = AddStats(d, e, G[e]) BY <1>5, <2>1, <2>2 DEF updateRollup, updateStats
    <3>2. e \notin S /\ SameOn(F, G, S) BY <1>2, <2>2 DEF SameOn
    <3>3. Recorded(a, G, S \cup {e}) BY <1>4, <3>1, <3>2, AddSound
    <3>4. a.known => d.num = 0 \/ d.known BY <1>3, <3>1, KnownKept
    <3>5. d.num = 0 => S \subseteq {e} BY <1>3, FS_EmptySet
    <3> QED BY <1>5, <3>3, <3>4, <3>5
  <2>3. CASE old.num # 0
    <3> DEFINE was == EntryStat(old, k)
    <3>1. a = ChangeStats(d, e, G[e], was) BY <1>5, <2>1, <2>3 DEF updateRollup, updateStats
    <3>2. e \in S /\ DOMAIN f # {} BY <1>2, <2>3
    <3>3. d.known => was = F[e]
      <4> SUFFICES ASSUME d.known PROVE was = TruthOf(f, k) BY <3>2
      <4>1. Known(old, k) BY <3>2
      <4> QED BY <3>2, <4>1, StatTrue DEF EntryGood
    <3> HIDE DEF was
    <3>4. Recorded(ChangeStats(d, e, G[e], was), G, S) BY <1>4, <3>2, <3>3, ChangeSound
    <3>5. S \cup {e} = S BY <3>2
    <3>6. a.known => d.num <= 1 \/ d.known BY <1>3, <3>1, KnownKept
    <3>7. ASSUME d.num <= 1 PROVE S \subseteq {e}
      <4>1. S = (S \ {e}) \cup {e} /\ IsFiniteSet(S \ {e}) BY <1>3, <3>2, FS_RemoveElement
      <4>2. Cardinality((S \ {e}) \cup {e}) <= 1 BY <1>3, <3>7, <4>1
      <4>3. S \ {e} = {} BY <4>1, <4>2, CountOne
      <4> QED BY <4>3
    <3> QED BY <1>5, <3>1, <3>4, <3>5, <3>6, <3>7
  <2> QED BY <2>2, <2>3
<1>6. CASE ~ Known(new, k)
  <2>1. old.num # 0 BY <1>6, NewKnown
  <2>2. e \in S /\ DOMAIN f # {} /\ F[e] = TruthOf(f, k) BY <1>2, <2>1
  <2>3. a = invalidateStats(d, e, v, TRUE) BY <1>6, <2>1 DEF updateRollup
  <2>4. k \in {"EntryMax", "EntryMin"} BY <1>6 DEF Known, Kinds
  <2>5. \/ F[e] <= G[e] /\ G[e] <= v
        \/ v <= G[e] /\ G[e] <= F[e]
    BY <2>2, <2>4, WrittenBetween
  <2>6. Recorded(invalidateStats(d, e, v, TRUE), G, S)
    BY <1>4, <2>2, <2>5, InvalidateSound
  <2>7. S \cup {e} = S BY <2>2
  <2>8. ~ a.known BY <2>3 DEF invalidateStats, Stats
  <2> QED BY <2>3, <2>6, <2>7, <2>8
<1> QED BY <1>5, <1>6

LEMMA SetValueStep ==
    ASSUME State(value, entry, rollup, misc),
           NEW e \in Entries, NEW p \in Pairs, NEW v \in Int, SetValue(e, p, v)
    PROVE  State(value', entry', rollup', misc')
<1> DEFINE f == value[e]
           g == Written(f, p, v)
           old == entry[e]
           new == updateStats(old, p, v, p \in DOMAIN f, IF p \in DOMAIN f THEN f[p] ELSE 0)
<1>1. Shapes(value, entry, rollup, misc) BY DEF State
<1>2. IsField(f) /\ EntryGood(f, old) BY <1>1 DEF State, Shapes
<1>3. /\ value' = [value EXCEPT ![e] = g]
      /\ entry' = [entry EXCEPT ![e] = new]
      /\ rollup' = [n \in Nodes |->
            IF e \in n
            THEN [k \in Rollups |-> updateRollup(rollup[n][k], e, k, old, new, v)]
            ELSE rollup[n]]
      /\ misc' = [n \in Nodes |->
            IF e \in n THEN [type |-> EntryInvalid, stats |-> EmptyStats] ELSE misc[n]]
  BY DEF SetValue
<1>4. IsField(g) /\ DOMAIN g # {} /\ EntryGood(g, new) BY <1>2, WrittenField, WrittenGood
<1> HIDE DEF g, new
<1>5. new \in StatsType BY <1>4 DEF EntryGood, Recorded
<1>6. /\ value' = [x \in Entries |-> value'[x]]
      /\ value'[e] = g /\ \A x \in Entries \ {e} : value'[x] = value[x]
  BY <1>1, <1>3 DEF Shapes
<1>7. /\ entry' \in [Entries -> StatsType] /\ entry'[e] = new
      /\ \A x \in Entries \ {e} : entry'[x] = entry[x]
  BY <1>1, <1>3, <1>5 DEF Shapes
<1>8. \A x \in Entries : IsField(value'[x]) BY <1>1, <1>4, <1>6 DEF Shapes
<1>9. \A x \in Entries : EntryGood(value'[x], entry'[x])
  BY <1>4, <1>6, <1>7 DEF State
<1>10. ASSUME NEW n \in Nodes, e \notin n
       PROVE  /\ Data(value', n) = Data(value, n)
              /\ \A k : StatsOf(value', n, k) = StatsOf(value, n, k)
              /\ \A x \in Data(value, n) : entry'[x] = entry[x]
  <2>1. \A x \in n : x \in Entries \ {e} BY <1>8, <1>10, NodeFacts
  <2>2. \A x \in n : value'[x] = value[x] /\ entry'[x] = entry[x] BY <1>6, <1>7, <2>1
  <2> QED BY <2>2 DEF Data, StatsOf
<1>11. ASSUME NEW n \in Nodes, e \in n
       PROVE  /\ Data(value', n) = Data(value, n) \cup {e}
              /\ \A k : /\ SameOn(StatsOf(value, n, k), StatsOf(value', n, k), Data(value, n) \ {e})
                        /\ StatsOf(value', n, k)[e] = TruthOf(g, k)
              /\ \A x \in Data(value, n) \ {e} : entry'[x] = entry[x]
  <2>1. \A x \in n : x \in Entries BY <1>8, NodeFacts
  <2>2. \A x \in n \ {e} : value'[x] = value[x] /\ entry'[x] = entry[x] BY <1>6, <1>7, <2>1
  <2>3. Data(value', n) = Data(value, n) \cup {e} BY <1>4, <1>6, <1>11, <2>2 DEF Data
  <2>4. ASSUME NEW k, NEW x \in Data(value, n) \ {e}
        PROVE  StatsOf(value', n, k)[x] = StatsOf(value, n, k)[x]
    BY <2>2, <2>3 DEF StatsOf, Data
  <2>5. ASSUME NEW k PROVE StatsOf(value', n, k)[e] = TruthOf(g, k)
    BY <1>6, <2>3 DEF StatsOf
  <2>6. \A x \in Data(value, n) \ {e} : entry'[x] = entry[x] BY <2>2 DEF Data
  <2> QED BY <2>3, <2>4, <2>5, <2>6 DEF SameOn
<1>12. ASSUME NEW n \in Nodes, NEW k \in Rollups
       PROVE  /\ Recorded(rollup'[n][k], StatsOf(value', n, k), Data(value', n))
              /\ rollup'[n][k].known => \A x \in Data(value', n) : Known(entry'[x], k)
  <2>1. /\ Recorded(rollup[n][k], StatsOf(value, n, k), Data(value, n))
        /\ rollup[n][k].known => \A x \in Data(value, n) : Known(entry[x], k)
    BY DEF State
  <2>2. CASE e \notin n
    <3>1. rollup'[n][k] = rollup[n][k] BY <1>3, <2>2
    <3> QED BY <1>10, <2>1, <2>2, <3>1
  <2>3. CASE e \in n
    <3> DEFINE d == rollup[n][k]
               S == Data(value, n)
               F == StatsOf(value, n, k)
               G == StatsOf(value', n, k)
               a == updateRollup(d, e, k, old, new, v)
    <3>1. rollup'[n][k] = a BY <1>3, <2>3
    <3>2. k \in Kinds /\ e \in Nat BY KindsHold, DataRollupAssumption
    <3>3. DOMAIN f = {} <=> e \notin S BY <2>3 DEF Data
    <3>4. e \in S => F[e] = TruthOf(f, k) BY DEF StatsOf
    <3>5. d.known /\ e \in S => Known(old, k) BY <2>1
    <3>6. SameOn(F, G, S \ {e}) /\ G[e] = TruthOf(Written(f, p, v), k)
      BY <1>11, <2>3 DEF g
    <3>7. new = updateStats(old, p, v, p \in DOMAIN f, IF p \in DOMAIN f THEN f[p] ELSE 0)
      BY DEF new
    <3>8. Recorded(d, F, S) BY <2>1
    <3> HIDE DEF d, S, F, G, a, f, old
    <3>9. /\ Recorded(a, G, S \cup {e})
          /\ a.known => Known(new, k) /\ (d.known \/ S \subseteq {e})
      <4>1. EntryInNode(d, S, F, k, e, f, old)
        BY <1>2, <3>2, <3>3, <3>4, <3>5, <3>8 DEF EntryInNode
      <4>2. EntryWritten(S, F, k, e, f, old, p, v, new, G) BY <3>6, <3>7 DEF EntryWritten
      <4> QED BY <4>1, <4>2, RollupStep DEF a
    <3>10. Data(value', n) = S \cup {e} BY <1>11, <2>3 DEF S
    <3>11. ASSUME a.known, NEW x \in S \cup {e} PROVE Known(entry'[x], k)
      <4>1. CASE x = e BY <1>7, <3>9, <3>11, <4>1
      <4>2. CASE x # e
        <5>1. x \in S /\ d.known BY <3>9, <3>11, <4>2
        <5>2. Known(entry[x], k) BY <2>1, <5>1 DEF d, S
        <5>3. entry'[x] = entry[x] BY <1>11, <2>3, <4>2, <5>1 DEF S
        <5> QED BY <5>2, <5>3
      <4> QED BY <4>1, <4>2
    <3>12. /\ Recorded(a, G, Data(value', n))
           /\ a.known => \A x \in Data(value', n) : Known(entry'[x], k)
      BY <3>9, <3>10, <3>11
    <3> QED BY <3>1, <3>12 DEF G
  <2> QED BY <2>2, <2>3
<1>13. rollup' \in [Nodes -> [Rollups -> StatsType]]
  <2>1. \A n \in Nodes, k \in Rollups : rollup'[n][k] \in StatsType BY <1>12 DEF Recorded
  <2>2. \A n \in Nodes : rollup'[n] = [k \in Rollups |-> rollup'[n][k]]
    BY <1>1, <1>3 DEF Shapes
  <2>3. rollup' = [n \in Nodes |-> rollup'[n]] BY <1>3
  <2> QED BY <2>1, <2>2, <2>3
<1>14. misc' \in [Nodes -> [type : MiscStats \cup {EntryInvalid}, stats : StatsType]]
  <2>1. EmptyStats \in StatsType BY EmptySound DEF Recorded
  <2> QED BY <1>1, <1>3, <2>1 DEF Shapes
<1>15. ASSUME NEW n \in Nodes PROVE CacheGood(misc'[n], value', n)
  <2>1. CASE e \in n
    <3>1. misc'[n].type = EntryInvalid BY <1>3, <2>1
    <3> QED BY <3>1 DEF CacheGood
  <2>2. CASE e \notin n
    <3>1. misc'[n] = misc[n] BY <1>3, <2>2
    <3>2. CacheGood(misc[n], value, n) BY DEF State
    <3> QED BY <1>10, <2>2, <3>1, <3>2 DEF CacheGood
  <2> QED BY <2>1, <2>2
<1> QED BY <1>6, <1>7, <1>8, <1>9, <1>12, <1>13, <1>14, <1>15 DEF State, Shapes

------------------------------------------------------------------------------
(* A query. *)

(* An entry after a query of it: rebuilt if what is asked for was not known. *)
LEMMA RebuiltGood ==
    ASSUME State(value, entry, rollup, misc), NEW e \in Entries, DOMAIN value[e] # {}
    PROVE  /\ EntryGood(value[e], rebuildEntryStats(e)) /\ AllKnown(rebuildEntryStats(e))
           /\ rebuildEntryStats(e) \in StatsType
<1>1. IsField(value[e]) /\ entry[e] \in StatsType BY DEF State, Shapes
<1>2. /\ Recorded(rebuildEntryStats(e), value[e], DOMAIN value[e])
      /\ AllKnown(rebuildEntryStats(e))
  BY <1>1, FieldFacts, RescanSound DEF rebuildEntryStats
<1> QED BY <1>2 DEF EntryGood, Recorded, AllKnown

LEMMA QueriedGood ==
    ASSUME State(value, entry, rollup, misc), NEW e \in Entries, DOMAIN value[e] # {},
           NEW k \in Kinds
    PROVE  /\ EntryGood(value[e], Queried(e, k)) /\ Queried(e, k) \in StatsType
           /\ Known(Queried(e, k), k)
           /\ \A j : Known(entry[e], j) => Known(Queried(e, k), j)
           /\ EntryStat(Queried(e, k), k) = TruthOf(value[e], k)
<1>1. /\ EntryGood(value[e], entry[e]) /\ entry[e] \in StatsType /\ IsField(value[e])
  BY DEF State, Shapes
<1>2. /\ EntryGood(value[e], Queried(e, k)) /\ Queried(e, k) \in StatsType
      /\ Known(Queried(e, k), k)
      /\ \A j : Known(entry[e], j) => Known(Queried(e, k), j)
  <2>1. CASE Known(entry[e], k) BY <1>1, <2>1 DEF Queried
  <2>2. CASE ~ Known(entry[e], k)
    <3>1. Queried(e, k) = rebuildEntryStats(e) BY <2>2 DEF Queried
    <3> QED BY <3>1, RebuiltGood, AllKnownKinds
  <2> QED BY <2>1, <2>2
<1>3. EntryStat(Queried(e, k), k) = TruthOf(value[e], k)
  BY <1>1, <1>2, StatTrue DEF EntryGood
<1> QED BY <1>2, <1>3

LEMMA CountedIs ==
    ASSUME State(value, entry, rollup, misc), NEW n \in Nodes
    PROVE  Counted(n) = Data(value, n) /\ n \subseteq Entries
<1>1. n \subseteq Entries BY NodeFacts DEF State, Shapes
<1>2. ASSUME NEW e \in n PROVE entry[e].num > 0 <=> DOMAIN value[e] # {}
  <2>1. EntryGood(value[e], entry[e]) BY <1>1 DEF State
  <2>2. entry[e].num \in Nat /\ (entry[e].num = 0 <=> DOMAIN value[e] = {})
    BY <2>1, EntryCount
  <2>3. entry[e].num > 0 <=> entry[e].num # 0 BY <2>2
  <2> QED BY <2>2, <2>3
<1> QED BY <1>1, <1>2 DEF Counted, Data

LEMMA QueryStatsTyped ==
    ASSUME State(value, entry, rollup, misc), NEW n \in Nodes,
           NEW k \in Rollups \cup MiscStats
    PROVE  queryStats(n, k) \in StatsType /\ k \in Kinds
BY KindsHold DEF State, Shapes, queryStats

(* A rebuilt object is sound and knows everything. *)
LEMMA RebuiltSound ==
    ASSUME State(value, entry, rollup, misc), NEW n \in Nodes,
           NEW k \in Rollups \cup MiscStats, Data(value, n) # {}
    PROVE  /\ Recorded(rebuilt(n, k), StatsOf(value, n, k), Data(value, n))
           /\ AllKnown(rebuilt(n, k))
<1>1. queryStats(n, k) \in StatsType /\ k \in Kinds BY QueryStatsTyped
<1>2. Counted(n) = Data(value, n) /\ n \subseteq Entries BY CountedIs
<1>3. ASSUME NEW e \in Counted(n)
      PROVE  EntryStat(Queried(e, k), k) = TruthOf(value[e], k)
  <2>1. e \in Entries /\ DOMAIN value[e] # {} BY <1>2 DEF Data
  <2> QED BY <1>1, <2>1, QueriedGood
<1>4. [e \in Counted(n) |-> EntryStat(Queried(e, k), k)] = StatsOf(value, n, k)
  BY <1>2, <1>3 DEF StatsOf
<1>5. rebuilt(n, k) = rescan(queryStats(n, k), Data(value, n), StatsOf(value, n, k))
  BY <1>2, <1>4 DEF rebuilt
<1>6. /\ Data(value, n) \in SUBSET Nat /\ IsFiniteSet(Data(value, n))
      /\ IntsOn(StatsOf(value, n, k), Data(value, n))
  BY <1>1, NodeFacts DEF State, Shapes
<1> QED BY <1>1, <1>5, <1>6, RescanSound

(* A step that rebuilds entries, and leaves the values alone. *)
LEMMA EntriesRebuilt ==
    ASSUME State(value, entry, rollup, misc), value' = value,
           entry' \in [Entries -> StatsType],
           \A e \in Entries : /\ EntryGood(value[e], entry'[e])
                              /\ \A j : Known(entry[e], j) => Known(entry'[e], j)
    PROVE  State(value, entry', rollup, misc)
<1>1. Shapes(value, entry', rollup, misc) BY DEF State, Shapes
<1>2. ASSUME NEW n \in Nodes, NEW k \in Rollups, rollup[n][k].known, NEW e \in Data(value, n)
      PROVE  Known(entry'[e], k)
  <2>1. e \in Entries BY CountedIs DEF Data
  <2>2. Known(entry[e], k) BY <1>2 DEF State
  <2> QED BY <2>1, <2>2
<1> QED BY <1>1, <1>2 DEF State

LEMMA DataStatStep ==
    ASSUME State(value, entry, rollup, misc), NEW n \in Nodes, NEW attr,
           NEW k \in Rollups \cup MiscStats, dataStat(n, attr, k)
    PROVE  State(value', entry', rollup', misc')
<1>1. k \in Kinds /\ Counted(n) = Data(value, n) /\ Data(value, n) # {} /\ n \subseteq Entries
  BY QueryStatsTyped, CountedIs DEF dataStat
<1>2. /\ value' = value
      /\ entry' = [e \in Entries |-> IF e \in Data(value, n) THEN Queried(e, k) ELSE entry[e]]
  BY <1>1 DEF dataStat
<1>3. ASSUME NEW e \in Data(value, n) PROVE e \in Entries /\ DOMAIN value[e] # {}
  BY <1>1 DEF Data
<1>4. \A e \in Entries : entry[e] \in StatsType /\ EntryGood(value[e], entry[e])
  BY DEF State, Shapes
<1>5. ASSUME NEW e \in Entries
      PROVE  /\ entry'[e] \in StatsType /\ EntryGood(value[e], entry'[e])
             /\ \A j : Known(entry[e], j) => Known(entry'[e], j)
  <2>1. CASE e \in Data(value, n)
    <3>1. entry'[e] = Queried(e, k) BY <1>2, <2>1
    <3> QED BY <1>1, <1>3, <2>1, <3>1, QueriedGood
  <2>2. CASE e \notin Data(value, n)
    <3>1. entry'[e] = entry[e] BY <1>2, <2>2
    <3> QED BY <1>4, <3>1
  <2> QED BY <2>1, <2>2
<1>6. entry' \in [Entries -> StatsType] BY <1>2, <1>5
<1>7. State(value, entry', rollup, misc) BY <1>2, <1>5, <1>6, EntriesRebuilt
<1>8. /\ Recorded(rebuilt(n, k), StatsOf(value, n, k), Data(value, n))
      /\ AllKnown(rebuilt(n, k))
  BY <1>1, RebuiltSound
<1>9. rebuilt(n, k) \in StatsType BY <1>8 DEF Recorded
<1>10. ASSUME NEW e \in Data(value, n) PROVE Known(entry'[e], k)
  <2>1. entry'[e] = Queried(e, k) BY <1>2, <1>3
  <2> QED BY <1>1, <1>3, <2>1, QueriedGood
<1>11. CASE k \in Rollups
  <2>1. rollup' = [rollup EXCEPT ![n][k] = rebuilt(n, k)] /\ misc' = misc
    BY <1>11 DEF dataStat
  <2>2. rollup \in [Nodes -> [Rollups -> StatsType]] BY DEF State, Shapes
  <2>3. /\ rollup' \in [Nodes -> [Rollups -> StatsType]]
        /\ rollup'[n][k] = rebuilt(n, k)
        /\ \A m \in Nodes, j \in Rollups : m # n \/ j # k => rollup'[m][j] = rollup[m][j]
    BY <1>9, <1>11, <2>1, <2>2
  <2>4. Shapes(value, entry', rollup', misc) BY <1>7, <2>3 DEF State, Shapes
  <2>5. ASSUME NEW m \in Nodes, NEW j \in Rollups
        PROVE  /\ Recorded(rollup'[m][j], StatsOf(value, m, j), Data(value, m))
               /\ rollup'[m][j].known => \A e \in Data(value, m) : Known(entry'[e], j)
    <3>1. CASE m = n /\ j = k BY <1>8, <1>10, <2>3, <3>1
    <3>2. CASE m # n \/ j # k
      <4>1. rollup'[m][j] = rollup[m][j] BY <2>3, <3>2
      <4> QED BY <1>7, <4>1 DEF State
    <3> QED BY <3>1, <3>2
  <2>6. State(value, entry', rollup', misc) BY <1>7, <2>4, <2>5 DEF State
  <2> QED BY <1>2, <2>1, <2>6
<1>12. CASE k \notin Rollups
  <2>1. misc' = [misc EXCEPT ![n] = [type |-> k, stats |-> rebuilt(n, k)]] /\ rollup' = rollup
    BY <1>12 DEF dataStat
  <2>2. misc \in [Nodes -> [type : MiscStats \cup {EntryInvalid}, stats : StatsType]]
    BY DEF State, Shapes
  <2>3. misc' \in [Nodes -> [type : MiscStats \cup {EntryInvalid}, stats : StatsType]]
    BY <1>9, <1>12, <2>1, <2>2
  <2>4. Shapes(value, entry', rollup, misc') BY <1>7, <2>3 DEF State, Shapes
  <2>5. ASSUME NEW m \in Nodes PROVE CacheGood(misc'[m], value, m)
    <3>1. CASE m = n
      <4>1. misc'[m].type = k /\ misc'[m].stats = rebuilt(n, k) BY <2>1, <2>2, <3>1
      <4> QED BY <1>8, <3>1, <4>1 DEF CacheGood
    <3>2. CASE m # n
      <4>1. misc'[m] = misc[m] BY <2>1, <2>2, <3>2
      <4> QED BY <1>7, <4>1 DEF State
    <3> QED BY <3>1, <3>2
  <2>6. State(value, entry', rollup, misc') BY <1>7, <2>4, <2>5 DEF State
  <2> QED BY <1>2, <2>1, <2>6
<1> QED BY <1>11, <1>12

LEMMA EntryDataStatStep ==
    ASSUME State(value, entry, rollup, misc), NEW e \in Entries, NEW k, entryDataStat(e, k)
    PROVE  State(value', entry', rollup', misc')
<1>1. /\ entry' = [entry EXCEPT ![e] = rebuildEntryStats(e)]
      /\ value' = value /\ rollup' = rollup /\ misc' = misc
  BY DEF entryDataStat
<1>2. \A x \in Entries : EntryGood(value[x], entry[x]) BY DEF State
<1>3. entry \in [Entries -> StatsType] BY DEF State, Shapes
<1>4. DOMAIN value[e] # {}
  <2>1. EntryGood(value[e], entry[e]) /\ entry[e].num > 0 BY <1>2 DEF entryDataStat
  <2>2. entry[e].num # 0 BY <2>1, EntryCount
  <2> QED BY <2>1, <2>2, EntryCount
<1>5. /\ EntryGood(value[e], rebuildEntryStats(e)) /\ AllKnown(rebuildEntryStats(e))
      /\ rebuildEntryStats(e) \in StatsType
  BY <1>4, RebuiltGood
<1>6. entry' \in [Entries -> StatsType] BY <1>1, <1>3, <1>5
<1>7. \A x \in Entries : /\ EntryGood(value[x], entry'[x])
                         /\ \A j : Known(entry[x], j) => Known(entry'[x], j)
  BY <1>1, <1>2, <1>3, <1>5, AllKnownKinds
<1> QED BY <1>1, <1>6, <1>7, EntriesRebuilt

------------------------------------------------------------------------------
LEMMA InitState == Init => State(value, entry, rollup, misc)
<1> SUFFICES ASSUME Init PROVE State(value, entry, rollup, misc) OBVIOUS
<1>1. /\ value = [e \in Entries |-> [p \in {} |-> 0]]
      /\ entry = [e \in Entries |-> EmptyStats]
      /\ rollup = [n \in Nodes |-> [k \in Rollups |-> EmptyStats]]
      /\ misc = [n \in Nodes |-> [type |-> EntryInvalid, stats |-> EmptyStats]]
  BY DEF Init
<1>2. \A e \in Entries : DOMAIN value[e] = {} /\ IsField(value[e])
  BY <1>1 DEF IsField
<1>3. EmptyStats \in StatsType /\ EmptyStats.known
  BY EmptySound DEF Recorded, EmptyStats, Stats
<1>4. Shapes(value, entry, rollup, misc) BY <1>1, <1>2, <1>3 DEF Shapes
<1>5. \A e \in Entries : EntryGood(value[e], entry[e])
  BY <1>1, <1>2, <1>3, EmptySound DEF EntryGood
<1>6. \A n \in Nodes : Data(value, n) = {} BY <1>2, <1>4, NodeFacts DEF Data
<1>7. ASSUME NEW n \in Nodes, NEW k \in Rollups
      PROVE  Recorded(rollup[n][k], StatsOf(value, n, k), Data(value, n))
  BY <1>1, <1>6, EmptySound
<1>8. \A n \in Nodes : CacheGood(misc[n], value, n) BY <1>1 DEF CacheGood
<1> QED BY <1>4, <1>5, <1>6, <1>7, <1>8 DEF State

LEMMA NextState ==
    State(value, entry, rollup, misc) /\ [Next]_vars => State(value', entry', rollup', misc')
<1> SUFFICES ASSUME State(value, entry, rollup, misc), [Next]_vars
             PROVE  State(value', entry', rollup', misc')
  OBVIOUS
<1>1. ASSUME NEW e \in Entries, NEW p \in Pairs, NEW v \in Values, SetValue(e, p, v)
      PROVE  State(value', entry', rollup', misc')
  <2>1. v \in Int BY DataRollupAssumption
  <2> QED BY <1>1, <2>1, SetValueStep
<1>2. ASSUME NEW n \in Nodes, NEW attr \in AttrStats, NEW k \in Rollups \cup MiscStats,
             dataStat(n, attr, k)
      PROVE  State(value', entry', rollup', misc')
  BY <1>2, DataStatStep
<1>3. ASSUME NEW e \in Entries, NEW k \in {"EntryMax", "EntryMin"}, entryDataStat(e, k)
      PROVE  State(value', entry', rollup', misc')
  BY <1>3, EntryDataStatStep
<1>4. CASE UNCHANGED vars BY <1>4 DEF vars
<1> QED BY <1>1, <1>2, <1>3, <1>4 DEF Next

LEMMA InitIInv == Init => IInv
<1> SUFFICES ASSUME Init PROVE IInv OBVIOUS
<1>1. State(value, entry, rollup, misc) BY InitState
<1>2. TypeOK BY <1>1, TypeIs DEF State
<1>3. \A e \in Entries : EntrySound(e)
  BY <1>1 DEF State, EntryGood, Recorded, EntrySound
<1>4. ASSUME NEW n \in Nodes PROVE NodeSound(n)
  <2>1. \A k \in Rollups : Sound(rollup[n][k], Truths(n, k), WithData(n))
    BY <1>1, SameData DEF State, Recorded
  <2>2. misc[n].type = EntryInvalid BY DEF Init
  <2> QED BY <2>1, <2>2 DEF NodeSound
<1>5. KnownTogether BY <1>1, SameData DEF State, KnownTogether
<1> QED BY <1>2, <1>3, <1>4, <1>5 DEF IInv, StatsSound

(* The statistics of the entries and of the nodes, and what ties them: the inductive *)
(* invariant of uimanager.cpp's updateEntryStats and of its queries with their        *)
(* rebuilds, for every number of entries, pairs and nodes.                           *)
THEOREM Invariance == Spec => []IInv
<1>1. IInv /\ [Next]_vars => IInv' BY StateHolds, NextState, StateSuffices
<1> QED BY <1>1, InitIInv, PTL DEF Spec

(* Every statistic that is kept, of an entry, a function, a file or the application,  *)
(* and a cache while it is valid, is true of the values or marked unknown; the check  *)
(* of rebuildEntryStats that ends the Client never fires.                            *)
THEOREM StatsSoundTheorem == Spec => []StatsSound
<1>1. IInv => StatsSound BY DEF IInv
<1> QED BY <1>1, Invariance, PTL

(* What a query reads is sound, and knows what is asked for. *)
LEMMA AnswersFollow == IInv => AnswersRight
<1> SUFFICES ASSUME IInv, NEW n \in Nodes, NEW attr \in AttrStats,
                    NEW k \in Rollups \cup MiscStats, WithData(n) # {}
             PROVE  RightAnswer(answering(n, attr, k), attr, Truths(n, k), WithData(n))
  BY DEF AnswersRight
<1> DEFINE d == answering(n, attr, k)
           F == StatsOf(value, n, k)
           S == Data(value, n)
<1>1. State(value, entry, rollup, misc) BY StateHolds
<1>2. WithData(n) = S /\ Truths(n, k) = F /\ S # {} BY SameData
<1>3. /\ Recorded(d, F, S)
      /\ (attr = "AttrSum" => d.known) /\ (attr = "AttrMax" => MaxKnown(d))
      /\ (attr = "AttrMin" => MinKnown(d))
  <2>1. CASE needRebuild(n, attr, k)
    <3>1. d = rebuilt(n, k) BY <2>1 DEF answering
    <3> QED BY <1>1, <1>2, <3>1, RebuiltSound DEF AllKnown
  <2>2. CASE ~ needRebuild(n, attr, k)
    <3>1. d = queryStats(n, k) BY <2>2 DEF answering
    <3>2. CASE k \in Rollups
      <4>1. d = rollup[n][k] BY <3>1, <3>2 DEF queryStats
      <4>2. Recorded(d, F, S) BY <1>1, <3>2, <4>1 DEF State
      <4> QED BY <2>2, <3>1, <4>2 DEF needRebuild
    <3>3. CASE k \notin Rollups
      <4>1. k \in MiscStats /\ d = misc[n].stats BY <3>1, <3>3 DEF queryStats
      <4>2. misc[n].type = k BY <2>2, <4>1 DEF needRebuild
      <4>3. k # EntryInvalid BY <4>1, DataRollupAssumption DEF EntryInvalid
      <4>4. CacheGood(misc[n], value, n) BY <1>1 DEF State
      <4> QED BY <4>1, <4>2, <4>3, <4>4 DEF CacheGood, AllKnown
    <3> QED BY <3>2, <3>3
  <2> QED BY <2>1, <2>2
<1>4. /\ d.num = Cardinality(S) /\ (d.known => d.sum = SumOf(F, S))
      /\ SideSound(1, d.max, F, S) /\ SideSound(-1, d.min, F, S)
  BY <1>2, <1>3 DEF Recorded, Sound, SumsSound, ExtremaSound
<1> HIDE DEF d, F, S
<1>5. RightAnswer(d, attr, F, S)
  BY <1>3, <1>4 DEF RightAnswer, AttrStats, SideSound, MaxKnown, MinKnown
<1> QED BY <1>2, <1>5 DEF d

(* Every query of a node that has data is answered with what the values say: the sum, *)
(* the count, or the best value with the lowest entry that has it (functionDataStat,  *)
(* fileDataStat, applicationDataStat).                                               *)
THEOREM AnswersTheorem == Spec => []AnswersRight
BY AnswersFollow, Invariance, PTL
===============================================================================
