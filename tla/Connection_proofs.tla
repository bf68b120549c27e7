--------------------------- MODULE Connection_proofs ---------------------------
(* Theorems about the connection of Client and server.  The transport          *)
(* (TGSocket), for every header length, set of body sizes, number of messages  *)
(* and kernel buffer size; its inductive invariant is IInv.  The lease         *)
(* (Heartbeat): while the Client lives its collector is not ended, for every   *)
(* interval, timeout and delay that HeartbeatAssumption admits; its inductive  *)
(* invariant is LeaseIInv.                                                     *)
EXTENDS TGSocket, Heartbeat, SequenceTheorems, TLAPS

(* ------------------------------ sequences ------------------------------- *)
\* Append keeps what was there and adds its element at the end.
LEMMA AppendFacts ==
    ASSUME NEW S, NEW s \in Seq(S), NEW e \in S
    PROVE  /\ Append(s, e) \in Seq(S)
           /\ Len(Append(s, e)) = Len(s) + 1
           /\ \A i \in 1..Len(s) : Append(s, e)[i] = s[i]
           /\ Append(s, e)[Len(s) + 1] = e
           /\ Append(s, e) # << >>
  BY AppendProperties

\* A sequence is empty exactly when its length is 0.
LEMMA EmptyFacts ==
    ASSUME NEW S, NEW s \in Seq(S)
    PROVE  /\ Len(s) \in Nat
           /\ s = << >> <=> Len(s) = 0
  BY EmptySeq, LenProperties

\* The payload of a message is typed, and two buffers with its units are equal.
LEMMA BodyFacts ==
    ASSUME NEW k \in Nat, NEW size \in Nat
    PROVE  /\ Body(k, size) \in Seq(Unit)
           /\ Len(Body(k, size)) = size
           /\ \A b \in Seq(Unit) :
                (/\ Len(b) = size
                 /\ \A j \in 1..size : b[j] = UnitOf(k, HeaderLen + j - 1))
                => b = Body(k, size)
  <1> DEFINE B == Body(k, size)
  <1>1. \A j \in 1..size : UnitOf(k, HeaderLen + j - 1) \in Unit
    BY SocketAssumption DEF UnitOf, Unit
  <1>2. B = [j \in 1..size |-> UnitOf(k, HeaderLen + j - 1)]
    BY DEF Body, UnitOf
  <1>3. B \in Seq(Unit) /\ Len(B) = size
    <2>1. B \in [1..size -> Unit]
      BY <1>1, <1>2
    <2> QED
      BY <2>1
  <1>4. ASSUME NEW b \in Seq(Unit), Len(b) = size,
               \A j \in 1..size : b[j] = UnitOf(k, HeaderLen + j - 1)
        PROVE  b = B
    <2>1. \A j \in 1..Len(b) : b[j] = B[j]
      BY <1>2, <1>4
    <2> QED
      BY <1>3, <1>4, <2>1, SeqEqual
  <1> QED
    BY <1>3, <1>4

(* --------------------- the initial state and unread steps ----------------- *)
LEMMA InitIInv == Init => IInv
  <1> SUFFICES ASSUME Init PROVE IInv
    OBVIOUS
  <1> USE SocketAssumption DEF Init
  <1>1. TypeOK
    <2>1. \A S : << >> \in Seq(S) /\ Len(<< >>) = 0
      BY EmptySeq
    <2>2. sizes \in Seq(Sizes) /\ wire \in Seq(Unit) /\ rbuf \in Seq(Unit)
      BY <2>1
    <2>3. /\ mem \in Seq([hdr : Unit, buf : Seq(Unit), next : Nat])
          /\ got \in Seq([hdr : Unit, buf : Seq(Unit)])
      BY <2>1
    <2>4. rhdr \in Unit /\ rcnt \in 0..(HeaderLen - 1) /\ Len(wire) <= Cap
      BY <2>1 DEF Unit, UnitOf
    <2>5. head \in 0..Len(mem) /\ tail \in 0..Len(mem)
      BY <2>1 DEF NULL
    <2> QED
      BY <2>2, <2>3, <2>4, <2>5 DEF TypeOK
  <1>2. QueueShape
    BY DEF QueueShape, NULL
  <1>3. Framed
    BY DEF Framed, NextRead, NextWrite, Writing, UnitOf
  <1>4. InHand /\ Stored /\ ReaderRuns
    BY DEF InHand, Stored, ReaderRuns
  <1>5. Delivered /\ NoLostWakeup /\ Exclusion /\ SeenEntry
    BY DEF Delivered, NoLostWakeup, Exclusion, SeenEntry
  <1> QED
    BY <1>1, <1>2, <1>3, <1>4, <1>5 DEF IInv

\* Closing the peer's end only weakens Framed.
LEMMA PeerCloseStep == ASSUME IInv, PeerClose PROVE IInv'
  <1> USE DEF PeerClose, readerVars, queueVars, mainVars
  <1>1. TypeOK'
    BY DEF IInv, TypeOK
  <1>2. QueueShape'
    BY DEF IInv, QueueShape
  <1>3. Framed'
    BY DEF IInv, Framed, NextRead, NextWrite, Writing, After
  <1>4. InHand' /\ Stored' /\ ReaderRuns'
    BY DEF IInv, InHand, Stored, ReaderRuns
  <1>5. Delivered' /\ NoLostWakeup' /\ Exclusion' /\ SeenEntry'
    BY DEF IInv, Delivered, SentPayload, NoLostWakeup, Exclusion, SeenEntry
  <1> QED
    BY <1>1, <1>2, <1>3, <1>4, <1>5 DEF IInv

\* A new message: the units already in the stream and the entries keep their sizes.
LEMMA TGSendStep == ASSUME IInv, NEW size \in Sizes, TGSend(size) PROVE IInv'
  <1> USE DEF TGSend, readerVars, queueVars, mainVars
  <1>0. TypeOK /\ size \in Nat /\ ~Writing
    BY SocketAssumption DEF IInv
  <1>1. /\ sizes' \in Seq(Sizes) /\ Len(sizes') = Len(sizes) + 1
        /\ \A k \in 1..Len(sizes) : sizes'[k] = sizes[k]
        /\ sizes'[Len(sizes) + 1] = size
        /\ sizes' # << >>
        /\ Len(sizes) \in Nat
    <2>1. sizes \in Seq(Sizes) /\ size \in Sizes /\ sizes' = Append(sizes, size)
      BY <1>0 DEF TypeOK
    <2> QED
      BY <2>1, AppendFacts, EmptyFacts
  <1>2. TypeOK'
    BY <1>0, <1>1 DEF TypeOK
  <1>3. QueueShape'
    BY DEF IInv, QueueShape
  <1>4. NextWrite' = NextWrite /\ NextRead' = NextRead
    <2>1. Writing'
      BY <1>0, <1>1, SocketAssumption DEF Writing
    <2> QED
      BY <1>0, <1>1, <2>1 DEF NextWrite, NextRead, UnitOf
  <1>5. Framed'
    <2>1. \A u \in Unit : u.msg \in 1..Len(sizes) => After(u)' = After(u)
      BY <1>1 DEF After, UnitOf
    <2>2. \A i \in 1..Len(wire) : wire[i] \in Unit /\ wire[i].msg \in 1..Len(sizes)
      BY <1>0 DEF IInv, TypeOK, Framed
    <2>3. wire # << >> => Len(wire) \in 1..Len(wire)
      BY <1>0, EmptyFacts DEF TypeOK
    <2>4. wire # << >> => After(wire[Len(wire)])' = NextWrite'
      BY <1>4, <2>1, <2>2, <2>3 DEF IInv, Framed
    <2>5. \A i \in 1..Len(wire) : wire'[i].off < HeaderLen + sizes'[wire'[i].msg]
      BY <1>1, <2>2 DEF IInv, Framed
    <2>6. \A i \in 1..(Len(wire) - 1) : wire'[i + 1] = After(wire[i])'
      BY <1>0, <2>1, <2>2, EmptyFacts DEF IInv, TypeOK, Framed
    <2> QED
      BY <1>1, <1>4, <2>2, <2>4, <2>5, <2>6 DEF IInv, Framed
  <1>6. InHand' /\ ReaderRuns'
    BY <1>0, <1>1 DEF IInv, TypeOK, InHand, ReaderRuns
  <1>7. Stored'
    BY <1>0, <1>1 DEF IInv, TypeOK, Stored
  <1>8. Delivered'
    <2>1. Len(got) \in Nat /\ Len(got) <= Len(sizes)
      BY <1>0, EmptyFacts DEF IInv, TypeOK, Delivered
    <2>2. \A k \in 1..Len(got) : SentPayload[k] = Payload(k, sizes[k])
      BY <1>1, <2>1 DEF SentPayload
    <2>3. \A k \in 1..Len(got) : SentPayload'[k] = Payload(k, sizes'[k])
      BY <1>1, <2>1 DEF SentPayload
    <2> QED
      BY <1>1, <2>1, <2>2, <2>3 DEF IInv, Delivered
  <1>9. NoLostWakeup' /\ Exclusion' /\ SeenEntry'
    BY DEF IInv, NoLostWakeup, Exclusion, SeenEntry
  <1> QED
    BY <1>2, <1>3, <1>5, <1>6, <1>7, <1>8, <1>9 DEF IInv

(* ------------------------- steps that move units --------------------------- *)
\* write(): the unit put on the wire is the one that was to be written next.
LEMMA TGInternalWriteStep == ASSUME IInv, TGInternalWrite PROVE IInv'
  <1> USE DEF TGInternalWrite, readerVars, queueVars, mainVars
  <1> DEFINE new == UnitOf(Len(sizes), woff)
  <1>0. TypeOK /\ Writing /\ ~closed /\ SocketAssumption
    BY SocketAssumption DEF IInv
  <1>1. new = NextWrite /\ new \in Unit /\ Len(sizes) \in Nat \ {0} /\ sizes[Len(sizes)] \in Nat
    <2>1. sizes \in Seq(Sizes) /\ sizes # << >> /\ woff \in Nat
      BY <1>0 DEF TypeOK, Writing
    <2>2. Len(sizes) \in Nat \ {0}
      BY <2>1, EmptySeq
    <2>3. sizes[Len(sizes)] \in Sizes
      BY <2>1, <2>2, ElementOfSeq
    <2> QED
      BY <1>0, <2>1, <2>2, <2>3 DEF NextWrite, Unit, UnitOf, SocketAssumption
  <1>2. /\ wire' \in Seq(Unit) /\ Len(wire') = Len(wire) + 1
        /\ \A i \in 1..Len(wire) : wire'[i] = wire[i]
        /\ wire'[Len(wire) + 1] = new
        /\ wire' # << >>
        /\ Len(wire) \in Nat
    <2>1. wire \in Seq(Unit) /\ wire' = Append(wire, new)
      BY <1>0 DEF TypeOK, UnitOf
    <2> QED
      BY <1>1, <2>1, AppendFacts, EmptyFacts
  <1>3. TypeOK'
    BY <1>0, <1>2 DEF TypeOK, SocketAssumption
  <1>4. QueueShape'
    BY DEF IInv, QueueShape
  <1>5. NextRead' = NextRead /\ NextWrite' = After(new)
    BY <1>0, <1>1 DEF NextRead, NextWrite, Writing, After, UnitOf, TypeOK
  <1>6. Framed'
    <2>2. wire'[1] = NextRead'
      <3>1. CASE wire = << >>
        BY <1>0, <1>1, <1>2, <1>5, <3>1, EmptyFacts DEF IInv, Framed, TypeOK
      <3>2. CASE wire # << >>
        BY <1>0, <1>2, <1>5, <3>2, EmptyFacts DEF IInv, Framed, TypeOK
      <3> QED
        BY <3>1, <3>2
    <2>3. After(wire[Len(wire)])' = NextWrite'
      BY <1>2, <1>5 DEF After
    <2>4. ASSUME NEW i \in 1..Len(wire')
          PROVE  /\ wire'[i].msg \in 1..Len(sizes')
                 /\ wire'[i].off < HeaderLen + sizes'[wire'[i].msg]
      <3>1. CASE i = Len(wire) + 1
        <4>1. wire'[i] = new
          BY <1>2, <3>1
        <4>2. new.msg = Len(sizes) /\ new.off = woff /\ woff < HeaderLen + sizes[Len(sizes)]
          BY <1>0 DEF UnitOf, Writing
        <4> QED
          BY <4>1, <4>2, <1>1
      <3>2. CASE i \in 1..Len(wire)
        BY <1>2, <3>2 DEF IInv, Framed
      <3> QED
        BY <1>2, <3>1, <3>2
    <2>5. ASSUME NEW i \in 1..(Len(wire') - 1)
          PROVE  wire'[i + 1] = After(wire[i])'
      <3>1. CASE i = Len(wire)
        <4>1. wire # << >> /\ wire'[i] = wire[i] /\ wire'[i + 1] = new
          BY <1>0, <1>2, <3>1, EmptyFacts DEF TypeOK
        <4>2. After(wire[i]) = NextWrite
          BY <3>1, <4>1 DEF IInv, Framed
        <4> QED
          BY <1>1, <4>1, <4>2 DEF After
      <3>2. CASE i \in 1..(Len(wire) - 1)
        <4>1. wire'[i] = wire[i] /\ wire'[i + 1] = wire[i + 1]
          BY <1>2, <3>2
        <4>2. wire[i + 1] = After(wire[i])
          BY <3>2 DEF IInv, Framed
        <4> QED
          BY <4>1, <4>2 DEF After
      <3> QED
        BY <1>2, <3>1, <3>2
    <2> QED
      BY <1>2, <2>2, <2>3, <2>4, <2>5 DEF Framed
  <1>7. InHand' /\ Stored' /\ ReaderRuns'
    BY DEF IInv, InHand, Stored, ReaderRuns
  <1>8. Delivered' /\ NoLostWakeup' /\ Exclusion' /\ SeenEntry'
    BY DEF IInv, Delivered, SentPayload, NoLostWakeup, Exclusion, SeenEntry
  <1> QED
    BY <1>3, <1>4, <1>6, <1>7, <1>8 DEF IInv

\* read(): if the reader then expects the unit after the one it took, the buffer
\* still holds the stretch of the stream it should.
LEMMA ReadKeepsFramed ==
    ASSUME TypeOK, Framed, wire # << >>, wire' = Tail(wire), UNCHANGED peerVars,
           NextRead' = After(NextRead)
    PROVE  /\ Framed'
           /\ wire' \in Seq(Unit) /\ Len(wire') <= Cap
  <1> USE DEF peerVars
  <1>1. /\ wire' \in Seq(Unit) /\ Len(wire') = Len(wire) - 1
        /\ \A i \in 1..Len(wire') : wire'[i] = wire[i + 1]
        /\ Len(wire) \in Nat \ {0}
        /\ wire' = << >> <=> Len(wire') = 0
    <2>1. wire \in Seq(Unit)
      BY DEF TypeOK
    <2>2. /\ wire' \in Seq(Unit) /\ Len(wire') = Len(wire) - 1
          /\ \A i \in 1..Len(wire') : wire'[i] = wire[i + 1]
      BY <2>1, HeadTailProperties
    <2>3. Len(wire) \in Nat \ {0}
      BY <2>1, EmptySeq
    <2>4. wire' = << >> <=> Len(wire') = 0
      BY <2>2, EmptyFacts
    <2> QED
      BY <2>2, <2>3, <2>4
  <1>2. NextWrite' = NextWrite
    BY DEF NextWrite, Writing
  <1>3. wire[1] = NextRead /\ After(wire[Len(wire)]) = NextWrite
    BY DEF Framed
  <1>4. wire' = << >> => NextRead' = NextWrite'
    BY <1>1, <1>2, <1>3
  <1>5. wire' # << >> => wire'[1] = NextRead' /\ After(wire[Len(wire)])' = NextWrite'
    <2> HAVE wire' # << >>
    <2>1. Len(wire) - 1 \in 1..Len(wire') /\ 1 \in 1..Len(wire') /\ Len(wire') = Len(wire) - 1
      BY <1>1
    <2>2. wire'[Len(wire')] = wire[Len(wire)] /\ wire'[1] = wire[2]
      BY <1>1, <2>1
    <2>3. wire[2] = After(wire[1])
      BY <1>1, <2>1 DEF Framed
    <2>4. After(wire[Len(wire)])' = After(wire[Len(wire)])
      BY <2>2 DEF After
    <2> QED
      BY <1>2, <1>3, <2>2, <2>3, <2>4
  <1>6. \A i \in 1..Len(wire') :
          /\ wire'[i].msg \in 1..Len(sizes')
          /\ wire'[i].off < HeaderLen + sizes'[wire'[i].msg]
    BY <1>1 DEF Framed
  <1>7. \A i \in 1..(Len(wire') - 1) : wire'[i + 1] = After(wire[i])'
    <2> TAKE i \in 1..(Len(wire') - 1)
    <2>1. wire'[i] = wire[i + 1] /\ wire'[i + 1] = wire[(i + 1) + 1]
      BY <1>1
    <2>2. wire[(i + 1) + 1] = After(wire[i + 1])
      BY <1>1 DEF Framed
    <2> QED
      BY <2>1, <2>2 DEF After
  <1>8. Len(wire') <= Cap
    BY <1>1, SocketAssumption DEF TypeOK
  <1> QED
    BY <1>1, <1>4, <1>5, <1>6, <1>7, <1>8 DEF Framed

LEMMA ReaderSelectStep == ASSUME IInv, ReaderSelect PROVE IInv'
  <1> USE DEF ReaderSelect, peerVars, queueVars, mainVars
  <1>1. TypeOK'
    BY SocketAssumption DEF IInv, TypeOK
  <1>2. QueueShape' /\ InHand' /\ Stored' /\ ReaderRuns'
    BY DEF IInv, QueueShape, InHand, Stored, ReaderRuns
  <1>3. Framed'
    <2>1. NextRead' = NextRead /\ NextWrite' = NextWrite
      BY DEF IInv, ReaderRuns, NextRead, NextWrite, Writing
    <2> QED
      BY <2>1 DEF IInv, Framed, After
  <1>4. Delivered' /\ NoLostWakeup' /\ Exclusion' /\ SeenEntry'
    BY DEF IInv, Delivered, SentPayload, NoLostWakeup, Exclusion, SeenEntry
  <1> QED
    BY <1>1, <1>2, <1>3, <1>4 DEF IInv

LEMMA ReadHeaderStep == ASSUME IInv, ReadHeader PROVE IInv'
  <1> USE DEF ReadHeader, queueVars, mainVars
  <1>0. TypeOK /\ Framed /\ Stored /\ ReaderRuns /\ UNCHANGED peerVars
    BY DEF IInv
  <1> DEFINE k == Len(mem) + 1
  <1>1. /\ Head(wire) = UnitOf(k, rcnt) /\ Head(wire) = NextRead /\ Head(wire) \in Unit
        /\ k \in 1..Len(sizes) /\ rcnt < HeaderLen + sizes[k] /\ sizes[k] \in Nat
    <2>1. wire \in Seq(Unit) /\ wire # << >> /\ 1 \in 1..Len(wire)
      BY <1>0, EmptyFacts DEF TypeOK
    <2>2. Head(wire) = wire[1] /\ wire[1] = NextRead /\ wire[1] \in Unit
      BY <2>1, <1>0 DEF Framed
    <2>3. NextRead = UnitOf(k, rcnt)
      BY DEF NextRead
    <2>4. wire[1].msg = k /\ wire[1].off = rcnt
      BY <2>2, <2>3 DEF UnitOf
    <2>5. k \in 1..Len(sizes) /\ rcnt < HeaderLen + sizes[k]
      BY <2>1, <2>4, <1>0 DEF Framed
    <2>6. sizes[k] \in Nat
      BY <2>5, <1>0, ElementOfSeq, SocketAssumption DEF TypeOK
    <2> QED
      BY <2>2, <2>3, <2>5, <2>6
  <1>2. NextRead' = After(NextRead)
    <2>1. CASE rcnt + 1 < HeaderLen
      BY <1>0, <1>1, <2>1, SocketAssumption DEF NextRead, After, UnitOf, TypeOK
    <2>2. CASE ~(rcnt + 1 < HeaderLen)
      <3>1. rcnt + 1 = HeaderLen /\ SizeOf(Head(wire)) = sizes[k] /\ rbuf' = << >>
        BY <1>0, <1>1, <2>2, SocketAssumption DEF TypeOK, SizeOf, UnitOf
      <3>2. After(NextRead) = IF sizes[k] = 0 THEN UnitOf(k + 1, 0)
                                              ELSE UnitOf(k, HeaderLen)
        <4>1. NextRead.msg = k /\ NextRead.off + 1 = HeaderLen
          BY <1>1, <3>1 DEF UnitOf
        <4>2. HeaderLen < HeaderLen + sizes[k] <=> sizes[k] # 0
          BY <1>1, SocketAssumption
        <4> QED
          BY <4>1, <4>2 DEF After
      <3>3. Len(rbuf') = 0
        BY <3>1
      <3>4. NextRead' = IF sizes[k] = 0 THEN UnitOf(k + 1, 0) ELSE UnitOf(k, HeaderLen)
        BY <2>2, <3>1, <3>3, <1>0, SocketAssumption, EmptyFacts DEF NextRead, TypeOK
      <3> QED
        BY <3>2, <3>4
    <2> QED
      BY <2>1, <2>2
  <1>3. Framed' /\ wire' \in Seq(Unit) /\ Len(wire') <= Cap
    BY <1>0, <1>2, ReadKeepsFramed
  <1>4. TypeOK'
    <2>1. rbuf' \in Seq(Unit) /\ rcnt' \in 0..(HeaderLen - 1) /\ rhdr' \in Unit
      <3>1. CASE rcnt + 1 < HeaderLen
        BY <1>0, <3>1, SocketAssumption DEF TypeOK
      <3>2. CASE ~(rcnt + 1 < HeaderLen)
        BY <1>1, <3>2, SocketAssumption, EmptySeq
      <3> QED
        BY <3>1, <3>2
    <2> QED
      BY <1>0, <1>3, <2>1 DEF TypeOK, peerVars
  <1>5. InHand'
    <2> SUFFICES ASSUME rpc' \in {"body", "lock", "enqueue"} PROVE InHand'
      BY DEF InHand
    <2>1. /\ rcnt + 1 = HeaderLen /\ rhdr' = Head(wire) /\ Len(rbuf') = 0
          /\ rpc' = IF SizeOf(Head(wire)) = 0 THEN "lock" ELSE "body"
      BY <1>0, SocketAssumption DEF TypeOK
    <2>2. rhdr' = UnitOf(k, HeaderLen - 1) /\ SizeOf(Head(wire)) = sizes[k]
      BY <1>0, <1>1, <2>1, SocketAssumption DEF SizeOf, UnitOf, TypeOK
    <2> QED
      BY <1>0, <1>1, <2>1, <2>2, EmptyFacts DEF InHand, peerVars, TypeOK
  <1>6. QueueShape' /\ Stored' /\ ReaderRuns'
    BY DEF IInv, QueueShape, Stored, ReaderRuns, peerVars
  <1>7. Delivered' /\ NoLostWakeup' /\ Exclusion' /\ SeenEntry'
    BY DEF IInv, Delivered, SentPayload, NoLostWakeup, Exclusion, SeenEntry, peerVars
  <1> QED
    BY <1>3, <1>4, <1>5, <1>6, <1>7 DEF IInv

LEMMA ReadBodyStep == ASSUME IInv, ReadBody PROVE IInv'
  <1> USE DEF ReadBody, queueVars, mainVars
  <1>0. TypeOK /\ Framed /\ InHand /\ UNCHANGED peerVars /\ wire # << >>
    BY DEF IInv
  <1> DEFINE k == Len(mem) + 1
  <1>1. /\ k \in 1..Len(sizes) /\ rhdr = UnitOf(k, HeaderLen - 1)
        /\ Len(rbuf) < sizes[k] /\ SizeOf(rhdr) = sizes[k]
        /\ Len(rbuf) \in Nat /\ sizes[k] \in Nat
    <2>1. Len(mem) \in Nat /\ Len(sizes) \in Nat /\ Len(rbuf) \in Nat
      BY <1>0, EmptyFacts DEF TypeOK
    <2>2. /\ k \in 1..Len(sizes) /\ rhdr = UnitOf(k, HeaderLen - 1)
          /\ Len(rbuf) < sizes[k]
      BY <1>0, <2>1 DEF InHand
    <2>3. sizes[k] \in Nat
      BY <2>2, <1>0, ElementOfSeq, SocketAssumption DEF TypeOK
    <2> QED
      BY <2>1, <2>2, <2>3 DEF SizeOf, UnitOf
  <1>2. Head(wire) = UnitOf(k, HeaderLen + Len(rbuf)) /\ Head(wire) = NextRead /\ Head(wire) \in Unit
    <2>1. wire \in Seq(Unit) /\ 1 \in 1..Len(wire)
      BY <1>0, EmptyFacts DEF TypeOK
    <2>2. Head(wire) = wire[1] /\ wire[1] = NextRead /\ wire[1] \in Unit
      BY <2>1, <1>0 DEF Framed
    <2> QED
      BY <2>2 DEF NextRead
  <1>3. /\ rbuf' \in Seq(Unit) /\ Len(rbuf') = Len(rbuf) + 1
        /\ \A j \in 1..Len(rbuf) : rbuf'[j] = rbuf[j]
        /\ rbuf'[Len(rbuf) + 1] = Head(wire)
    <2>1. rbuf \in Seq(Unit) /\ rbuf' = Append(rbuf, Head(wire))
      BY <1>0 DEF TypeOK
    <2> QED
      BY <1>2, <2>1, AppendFacts
  <1>4. NextRead' = After(NextRead)
    <2>1. After(NextRead) = IF Len(rbuf) + 1 < sizes[k]
                              THEN UnitOf(k, HeaderLen + (Len(rbuf) + 1))
                              ELSE UnitOf(k + 1, 0)
      BY <1>1, <1>2, SocketAssumption DEF After, UnitOf
    <2>2. NextRead' = IF Len(rbuf) + 1 < sizes[k]
                              THEN UnitOf(k, HeaderLen + (Len(rbuf) + 1))
                              ELSE UnitOf(k + 1, 0)
      BY <1>0, <1>1, <1>3, EmptyFacts DEF NextRead, TypeOK
    <2> QED
      BY <2>1, <2>2
  <1>5. Framed' /\ wire' \in Seq(Unit) /\ Len(wire') <= Cap
    BY <1>0, <1>4, ReadKeepsFramed
  <1>6. TypeOK'
    BY <1>0, <1>3, <1>5 DEF TypeOK, peerVars
  <1>7. InHand'
    <2>1. \A j \in 1..Len(rbuf') : rbuf'[j] = UnitOf(k, HeaderLen + j - 1)
      <3> TAKE j \in 1..Len(rbuf')
      <3>1. CASE j = Len(rbuf) + 1
        <4>1. HeaderLen + Len(rbuf) = HeaderLen + j - 1
          BY <1>1, <3>1, SocketAssumption
        <4> QED
          BY <1>2, <1>3, <3>1, <4>1
      <3>2. CASE j \in 1..Len(rbuf)
        BY <1>0, <1>3, <3>2 DEF InHand
      <3> QED
        BY <1>1, <1>3, <3>1, <3>2
    <2>2. rpc' = IF Len(rbuf') < sizes[k] THEN "body" ELSE "lock"
      BY <1>1
    <2>3. Len(mem) < Len(sizes) /\ Len(rbuf') <= sizes[k]
      BY <1>0, <1>1, <1>3, EmptyFacts DEF TypeOK
    <2> QED
      BY <1>1, <2>1, <2>2, <2>3, <1>0 DEF InHand, peerVars
  <1>8. QueueShape' /\ Stored' /\ ReaderRuns'
    BY DEF IInv, QueueShape, Stored, ReaderRuns, peerVars
  <1>9. Delivered' /\ NoLostWakeup' /\ Exclusion' /\ SeenEntry'
    BY DEF IInv, Delivered, SentPayload, NoLostWakeup, Exclusion, SeenEntry, peerVars
  <1> QED
    BY <1>5, <1>6, <1>7, <1>8, <1>9 DEF IInv

LEMMA ReadEOFStep == ASSUME IInv, ReadEOF PROVE IInv'
  <1> USE DEF ReadEOF, peerVars, queueVars, mainVars
  <1>1. TypeOK'
    BY SocketAssumption DEF IInv, TypeOK
  <1>2. QueueShape' /\ InHand' /\ Stored' /\ ReaderRuns'
    BY DEF IInv, QueueShape, InHand, Stored, ReaderRuns
  <1>3. Framed'
    BY EmptySeq DEF IInv, Framed
  <1>4. Delivered' /\ NoLostWakeup' /\ Exclusion' /\ SeenEntry'
    BY DEF IInv, Delivered, SentPayload, NoLostWakeup, Exclusion, SeenEntry
  <1> QED
    BY <1>1, <1>2, <1>3, <1>4 DEF IInv

LEMMA ReaderLockStep == ASSUME IInv, ReaderLock PROVE IInv'
  <1> USE DEF ReaderLock, peerVars, queueVars, mainVars
  <1>1. TypeOK'
    BY DEF IInv, TypeOK
  <1>2. QueueShape' /\ InHand' /\ Stored' /\ ReaderRuns'
    BY DEF IInv, QueueShape, InHand, Stored, ReaderRuns
  <1>3. Framed'
    <2>1. NextRead' = NextRead /\ NextWrite' = NextWrite
      BY DEF NextRead, NextWrite, Writing
    <2> QED
      BY <2>1 DEF IInv, Framed, After
  <1>4. Delivered' /\ NoLostWakeup' /\ Exclusion' /\ SeenEntry'
    BY DEF IInv, Delivered, SentPayload, NoLostWakeup, Exclusion, SeenEntry
  <1> QED
    BY <1>1, <1>2, <1>3, <1>4 DEF IInv

(* ----------------------- steps on the shared queue ------------------------ *)
\* The new entry is message Len(mem) + 1, linked behind the old tail.
LEMMA ReaderEnqueueStep == ASSUME IInv, ReaderEnqueue PROVE IInv'
  <1> USE DEF ReaderEnqueue, peerVars, mainVars
  <1> DEFINE k     == Len(mem) + 1
             Entry == [hdr : Unit, buf : Seq(Unit), next : Nat]
             entry == [hdr |-> rhdr, buf |-> rbuf, next |-> NULL]
             old   == IF tail # NULL THEN [mem EXCEPT ![tail].next = k] ELSE mem
  <1>0. TypeOK /\ QueueShape /\ InHand /\ Stored /\ Len(mem) \in Nat /\ Len(got) \in Nat
    BY EmptyFacts DEF IInv, TypeOK
  <1>1. /\ k \in 1..Len(sizes) /\ rhdr = UnitOf(k, HeaderLen - 1)
        /\ rbuf = Body(k, sizes[k])
    <2>1. /\ k \in 1..Len(sizes) /\ rhdr = UnitOf(k, HeaderLen - 1)
          /\ Len(rbuf) <= sizes[k] /\ ~(Len(rbuf) < sizes[k])
          /\ \A j \in 1..Len(rbuf) : rbuf[j] = UnitOf(k, HeaderLen + j - 1)
      BY <1>0, EmptyFacts DEF InHand, TypeOK
    <2>2. sizes[k] \in Nat /\ Len(rbuf) \in Nat /\ k \in Nat /\ rbuf \in Seq(Unit)
      <3>1. sizes \in Seq(Sizes) /\ rbuf \in Seq(Unit)
        BY <1>0 DEF TypeOK
      <3>2. sizes[k] \in Sizes
        BY <2>1, <3>1, ElementOfSeq
      <3> QED
        <4>1. Len(rbuf) \in Nat
          BY <3>1, EmptyFacts
        <4>2. sizes[k] \in Nat
          BY <3>2, SocketAssumption
        <4>3. k \in Nat
          BY <1>0
        <4> QED
          BY <3>1, <4>1, <4>2, <4>3
    <2>3. Len(rbuf) = sizes[k] /\ \A j \in 1..sizes[k] : rbuf[j] = UnitOf(k, HeaderLen + j - 1)
      BY <2>1, <2>2
    <2>4. rbuf = Body(k, sizes[k])
      BY <2>2, <2>3, BodyFacts
    <2> QED
      BY <2>1, <2>4
  <1>2. /\ old \in Seq(Entry) /\ Len(old) = Len(mem)
        /\ \A i \in 1..Len(mem) :
              /\ old[i].hdr = mem[i].hdr
              /\ old[i].buf = mem[i].buf
              /\ i # tail => old[i].next = mem[i].next
        /\ tail # NULL => old[tail].next = k
    <2>1. CASE tail = NULL
      BY <1>0, <2>1 DEF TypeOK
    <2>2. CASE tail # NULL
      <3>1. tail \in 1..Len(mem) /\ mem \in Seq(Entry)
        BY <1>0, <2>2 DEF TypeOK, NULL
      <3>2. mem[tail] \in Entry
        BY <3>1, ElementOfSeq
      <3> DEFINE e == [mem[tail] EXCEPT !.next = k]
      <3>3. /\ e \in Entry /\ e.hdr = mem[tail].hdr /\ e.buf = mem[tail].buf
            /\ e.next = k
        BY <1>0, <3>2
      <3>4. old = [mem EXCEPT ![tail] = e]
        BY <2>2
      <3> HIDE DEF e, old
      <3>5. /\ old \in Seq(Entry) /\ Len(old) = Len(mem)
            /\ \A i \in 1..Len(mem) : old[i] = IF i = tail THEN e ELSE mem[i]
        BY <3>1, <3>3, <3>4, ExceptSeq
      <3> QED
        BY <3>1, <3>3, <3>5
    <2> QED
      BY <2>1, <2>2
  <1>3. entry \in Entry /\ mem' = Append(old, entry) /\ tail' = k
        /\ head' = IF head = NULL THEN k ELSE head
    BY <1>0 DEF TypeOK, Link, NULL
  <1> HIDE DEF old, entry, Entry
  <1>4. /\ mem' \in Seq(Entry) /\ Len(mem') = k
        /\ \A i \in 1..Len(mem) : mem'[i] = old[i]
        /\ mem'[k] = entry
    BY <1>2, <1>3, AppendFacts
  <1>5. TypeOK'
    BY <1>0, <1>3, <1>4 DEF TypeOK, NULL, Entry
  <1>6. QueueShape'
    <2>1. head' # NULL /\ tail' # NULL /\ mem'[tail'].next = NULL
      BY <1>0, <1>3, <1>4 DEF TypeOK, NULL, entry
    <2>2. head' = Len(got) + 1
      BY <1>0, <1>3 DEF QueueShape
    <2>3. \A i \in head'..(tail' - 1) : mem'[i].next = i + 1
      <3> TAKE i \in head'..(tail' - 1)
      <3>1. head # NULL /\ tail = Len(mem) /\ tail # NULL /\ i \in head..tail /\ i \in 1..Len(mem)
        BY <1>0, <1>3 DEF TypeOK, QueueShape, NULL
      <3>2. CASE i = tail
        BY <1>2, <1>4, <3>1, <3>2
      <3>3. CASE i # tail
        <4>1. i \in head..(tail - 1)
          BY <1>0, <3>1, <3>3 DEF TypeOK
        <4>2. mem[i].next = i + 1
          BY <1>0, <3>1, <4>1 DEF QueueShape
        <4>3. old[i].next = mem[i].next
          BY <1>2, <3>1, <3>3
        <4> QED
          BY <1>4, <3>1, <4>2, <4>3
      <3> QED
        BY <3>2, <3>3
    <2> QED
      BY <1>3, <1>4, <2>1, <2>2, <2>3 DEF QueueShape
  <1>7. Framed'
    <2>1. NextRead' = NextRead /\ NextWrite' = NextWrite
      <3>1. rcnt = 0
        BY DEF IInv, ReaderRuns
      <3> QED
        BY <1>0, <1>4, <3>1 DEF NextRead, NextWrite, Writing
    <2> QED
      BY <2>1 DEF IInv, Framed, After
  <1>8. InHand' /\ ReaderRuns'
    BY DEF IInv, InHand, ReaderRuns
  <1>9. Stored'
    <2>1. \A i \in 1..Len(mem) : mem'[i].hdr = UnitOf(i, HeaderLen - 1) /\ mem'[i].buf = Body(i, sizes[i])
      <3> TAKE i \in 1..Len(mem)
      <3>1. mem[i].hdr = UnitOf(i, HeaderLen - 1) /\ mem[i].buf = Body(i, sizes[i])
        BY <1>0 DEF Stored
      <3>2. mem'[i].hdr = mem[i].hdr /\ mem'[i].buf = mem[i].buf
        <4>1. mem'[i] = old[i]
          BY <1>4
        <4>2. old[i].hdr = mem[i].hdr /\ old[i].buf = mem[i].buf
          BY <1>2
        <4> QED
          BY <4>1, <4>2
      <3> QED
        BY <3>1, <3>2
    <2>2. mem'[k].hdr = UnitOf(k, HeaderLen - 1) /\ mem'[k].buf = Body(k, sizes[k])
      BY <1>1, <1>4 DEF entry
    <2>3. \A i \in 1..Len(mem') : mem'[i].hdr = UnitOf(i, HeaderLen - 1) /\ mem'[i].buf = Body(i, sizes[i])
      BY <1>0, <1>4, <2>1, <2>2
    <2>4. Len(mem') <= Len(sizes')
      BY <1>1, <1>4
    <2> QED
      BY <2>3, <2>4 DEF Stored
  <1>10. Delivered' /\ Exclusion'
    BY DEF IInv, Delivered, SentPayload, Exclusion
  <1>11. NoLostWakeup' /\ SeenEntry'
    BY <1>0, <1>3 DEF IInv, NoLostWakeup, SeenEntry, TypeOK, NULL
  <1> QED
    BY <1>5, <1>6, <1>7, <1>8, <1>9, <1>10, <1>11 DEF IInv

LEMMA ReaderSignalStep == ASSUME IInv, ReaderSignal PROVE IInv'
  <1> USE DEF ReaderSignal, peerVars, queueVars
  <1>1. TypeOK'
    BY DEF IInv, TypeOK
  <1>2. QueueShape' /\ InHand' /\ Stored' /\ ReaderRuns'
    BY DEF IInv, QueueShape, InHand, Stored, ReaderRuns
  <1>3. Framed'
    <2>1. NextRead' = NextRead /\ NextWrite' = NextWrite
      BY DEF NextRead, NextWrite, Writing
    <2> QED
      BY <2>1 DEF IInv, Framed, After
  <1>4. Delivered' /\ NoLostWakeup' /\ Exclusion' /\ SeenEntry'
    BY DEF IInv, Delivered, SentPayload, NoLostWakeup, Exclusion, SeenEntry
  <1> QED
    BY <1>1, <1>2, <1>3, <1>4 DEF IInv

\* Steps of the main thread that leave the stream, the reader and the list alone.
LEMMA MainKeepsReader ==
    ASSUME IInv, UNCHANGED <<peerVars, wire, started, readerVars, queueVars, got>>
    PROVE  QueueShape' /\ Framed' /\ InHand' /\ Stored' /\ ReaderRuns' /\ Delivered'
  <1> USE DEF peerVars, readerVars, queueVars
  <1>1. QueueShape' /\ InHand' /\ Stored' /\ ReaderRuns'
    BY DEF IInv, QueueShape, InHand, Stored, ReaderRuns
  <1>2. Framed'
    BY DEF IInv, Framed, After, NextRead, NextWrite, Writing
  <1>3. Delivered'
    BY DEF IInv, Delivered, SentPayload
  <1> QED
    BY <1>1, <1>2, <1>3

LEMMA CallRecvStep == ASSUME IInv, CallRecv PROVE IInv'
  <1> USE DEF CallRecv, peerVars, queueVars
  <1>1. TypeOK'
    BY DEF IInv, TypeOK
  <1>2. QueueShape' /\ InHand' /\ Stored' /\ ReaderRuns'
    BY DEF IInv, QueueShape, InHand, Stored, ReaderRuns
  <1>3. Framed'
    <2>1. NextRead' = NextRead /\ NextWrite' = NextWrite
      BY DEF IInv, ReaderRuns, NextRead, NextWrite, Writing
    <2> QED
      BY <2>1 DEF IInv, Framed, After
  <1>4. Delivered' /\ NoLostWakeup' /\ Exclusion' /\ SeenEntry'
    BY DEF IInv, ReaderRuns, Delivered, SentPayload, NoLostWakeup, Exclusion, SeenEntry
  <1> QED
    BY <1>1, <1>2, <1>3, <1>4 DEF IInv

LEMMA CallNbRecvStep == ASSUME IInv, CallNbRecv PROVE IInv'
  <1> USE DEF CallNbRecv
  <1>1. TypeOK'
    BY DEF IInv, TypeOK, peerVars, readerVars, queueVars
  <1>2. NoLostWakeup' /\ Exclusion' /\ SeenEntry'
    BY DEF IInv, NoLostWakeup, Exclusion, SeenEntry, peerVars, readerVars, queueVars
  <1> QED
    BY <1>1, <1>2, MainKeepsReader DEF IInv

LEMMA ReadDataQueuedStep == ASSUME IInv, ReadDataQueued PROVE IInv'
  <1> USE DEF ReadDataQueued, socket_closed
  <1>1. TypeOK'
    BY DEF IInv, TypeOK, peerVars, readerVars, queueVars
  <1>2. NoLostWakeup' /\ Exclusion' /\ SeenEntry'
    BY DEF IInv, NoLostWakeup, Exclusion, SeenEntry, peerVars, readerVars, queueVars
  <1> QED
    BY <1>1, <1>2, MainKeepsReader DEF IInv

LEMMA RecvLockStep == ASSUME IInv, RecvLock PROVE IInv'
  <1> USE DEF RecvLock, socket_closed
  <1>1. TypeOK'
    BY DEF IInv, TypeOK, peerVars, readerVars, queueVars
  <1>2. NoLostWakeup' /\ Exclusion' /\ SeenEntry'
    BY DEF IInv, NoLostWakeup, Exclusion, SeenEntry, peerVars, readerVars, queueVars
  <1> QED
    BY <1>1, <1>2, MainKeepsReader DEF IInv

\* The main thread goes to sleep only while the queue is empty.
LEMMA CondWaitStep == ASSUME IInv, CondWait PROVE IInv'
  <1> USE DEF CondWait
  <1>1. TypeOK'
    BY DEF IInv, TypeOK, peerVars, readerVars, queueVars
  <1>2. NoLostWakeup' /\ Exclusion' /\ SeenEntry'
    BY DEF IInv, NoLostWakeup, Exclusion, SeenEntry, peerVars, readerVars, queueVars
  <1> QED
    BY <1>1, <1>2, MainKeepsReader DEF IInv

LEMMA SpuriousWakeupStep == ASSUME IInv, SpuriousWakeup PROVE IInv'
  <1> USE DEF SpuriousWakeup
  <1>1. TypeOK'
    BY DEF IInv, TypeOK, peerVars, readerVars, queueVars
  <1>2. NoLostWakeup' /\ Exclusion' /\ SeenEntry'
    BY DEF IInv, NoLostWakeup, Exclusion, SeenEntry, peerVars, readerVars, queueVars
  <1> QED
    BY <1>1, <1>2, MainKeepsReader DEF IInv

\* The entry taken off is message Len(got) + 1, so what is handed over goes on.
LEMMA DequeueFacts ==
    ASSUME IInv, Dequeue
    PROVE  /\ head = Len(got) + 1 /\ head \in 1..Len(mem) /\ head \in 1..Len(sizes)
           /\ got' = Append(got, SentPayload[head])
           /\ SentPayload[head] \in [hdr : Unit, buf : Seq(Unit)]
  <1>1. /\ head = Len(got) + 1 /\ head \in 1..Len(mem) /\ head \in 1..Len(sizes)
        /\ Len(got) \in Nat /\ Len(mem) \in Nat /\ Len(sizes) \in Nat
    <2>1. Len(got) \in Nat /\ Len(mem) \in Nat /\ Len(sizes) \in Nat
      BY EmptyFacts DEF IInv, TypeOK
    <2> QED
      BY <2>1 DEF IInv, TypeOK, QueueShape, Stored, Dequeue, NULL
  <1>2. mem[head].hdr = UnitOf(head, HeaderLen - 1) /\ mem[head].buf = Body(head, sizes[head])
    BY <1>1 DEF IInv, Stored
  <1>3. SentPayload[head] = [hdr |-> mem[head].hdr, buf |-> mem[head].buf]
    BY <1>1, <1>2 DEF SentPayload, Payload
  <1>4. mem[head] \in [hdr : Unit, buf : Seq(Unit), next : Nat]
    <2>1. mem \in Seq([hdr : Unit, buf : Seq(Unit), next : Nat])
      BY DEF IInv, TypeOK
    <2> QED
      BY <1>1, <2>1, ElementOfSeq
  <1> QED
    BY <1>1, <1>3, <1>4 DEF Dequeue

LEMMA DequeueStep == ASSUME IInv, Dequeue PROVE IInv'
  <1> USE DEF peerVars, readerVars
  <1>0. TypeOK /\ QueueShape /\ Len(mem) \in Nat
    BY EmptyFacts DEF IInv, TypeOK
  <1>1. /\ got' \in Seq([hdr : Unit, buf : Seq(Unit)]) /\ Len(got') = Len(got) + 1
        /\ \A k \in 1..Len(got) : got'[k] = got[k]
        /\ got'[head] = SentPayload[head]
        /\ Len(got) \in Nat
    <2> DEFINE Given == [hdr : Unit, buf : Seq(Unit)]
               e     == SentPayload[head]
    <2>1. got \in Seq(Given)
      BY DEF IInv, TypeOK
    <2>2. e \in Given /\ got' = Append(got, e) /\ head = Len(got) + 1
      BY DequeueFacts
    <2> HIDE DEF Given, e
    <2>3. /\ got' \in Seq(Given) /\ Len(got') = Len(got) + 1
          /\ \A k \in 1..Len(got) : got'[k] = got[k]
          /\ got'[Len(got) + 1] = e
      BY <2>1, <2>2, AppendFacts
    <2>4. Len(got) \in Nat
      BY <2>1, EmptyFacts
    <2> QED
      BY <2>2, <2>3, <2>4 DEF Given, e
  <1>2. /\ head' = mem[head].next
        /\ tail' = IF head = tail THEN NULL ELSE tail
        /\ mem[head].next = IF head = tail THEN NULL ELSE head + 1
        /\ mem' = mem /\ tail = Len(mem)
    <2>1. head # NULL /\ tail = Len(mem) /\ head \in 1..Len(mem)
      BY <1>0, DequeueFacts DEF QueueShape, Dequeue
    <2>2. CASE head = tail
      BY <1>0, <2>1, <2>2 DEF QueueShape, Dequeue, Unlink
    <2>3. CASE head # tail
      <3>1. head \in head..(tail - 1)
        BY <1>0, <2>1, <2>3
      <3>2. mem[head].next = head + 1
        BY <1>0, <2>1, <3>1 DEF QueueShape
      <3> QED
        BY <1>0, <2>1, <2>3, <3>2 DEF Dequeue, Unlink, NULL
    <2> QED
      BY <2>1, <2>2, <2>3
  <1>3. head' \in 0..Len(mem') /\ tail' \in 0..Len(mem')
    BY <1>0, <1>2, DequeueFacts DEF TypeOK, NULL
  <1>4. TypeOK'
    BY <1>0, <1>1, <1>2, <1>3 DEF TypeOK, Dequeue, Unlink
  <1>5. QueueShape'
    BY <1>0, <1>1, <1>2, <1>3, DequeueFacts DEF QueueShape, NULL
  <1>6. Framed' /\ InHand' /\ Stored' /\ ReaderRuns'
    <2>1. Framed'
      BY <1>2 DEF IInv, Framed, After, NextRead, NextWrite, Writing, Dequeue
    <2> QED
      BY <1>2, <2>1 DEF IInv, InHand, Stored, ReaderRuns, Dequeue
  <1>7. Delivered'
    <2>1. SentPayload' = SentPayload /\ sizes' = sizes
      BY DEF SentPayload, Dequeue
    <2> QED
      <3>1. Len(got') <= Len(sizes')
        BY <1>1, <2>1, DequeueFacts, EmptyFacts DEF IInv, TypeOK
      <3>2. ASSUME NEW k \in 1..Len(got') PROVE got'[k] = SentPayload'[k]
        <4>1. CASE k = head
          BY <1>1, <2>1, <4>1
        <4>2. CASE k \in 1..Len(got)
          BY <1>1, <2>1, <4>2 DEF IInv, Delivered
        <4> QED
          BY <1>1, <4>1, <4>2, DequeueFacts
      <3> QED
        BY <3>1, <3>2 DEF Delivered
  <1>8. NoLostWakeup' /\ Exclusion' /\ SeenEntry'
    BY DEF IInv, NoLostWakeup, Exclusion, SeenEntry, Dequeue
  <1> QED
    BY <1>4, <1>5, <1>6, <1>7, <1>8 DEF IInv

(* ------------------------------- the theorems ----------------------------- *)
LEMMA StepIInv == ASSUME IInv, [Next]_vars PROVE IInv'
  <1>1. CASE TGInternalWrite BY <1>1, TGInternalWriteStep
  <1>2. CASE PeerClose BY <1>2, PeerCloseStep
  <1>3. CASE \E size \in Sizes : TGSend(size) BY <1>3, TGSendStep
  <1>4. CASE ReaderSelect BY <1>4, ReaderSelectStep
  <1>5. CASE ReadHeader BY <1>5, ReadHeaderStep
  <1>6. CASE ReadBody BY <1>6, ReadBodyStep
  <1>7. CASE ReadEOF BY <1>7, ReadEOFStep
  <1>8. CASE ReaderLock BY <1>8, ReaderLockStep
  <1>9. CASE ReaderEnqueue BY <1>9, ReaderEnqueueStep
  <1>10. CASE ReaderSignal BY <1>10, ReaderSignalStep
  <1>11. CASE CallRecv BY <1>11, CallRecvStep
  <1>12. CASE CallNbRecv BY <1>12, CallNbRecvStep
  <1>13. CASE ReadDataQueued BY <1>13, ReadDataQueuedStep
  <1>14. CASE RecvLock BY <1>14, RecvLockStep
  <1>15. CASE CondWait BY <1>15, CondWaitStep
  <1>16. CASE Dequeue BY <1>16, DequeueStep
  <1>17. CASE SpuriousWakeup BY <1>17, SpuriousWakeupStep
  <1>18. CASE UNCHANGED vars
    <2>1. TypeOK'
      BY <1>18 DEF IInv, TypeOK, vars, peerVars, readerVars, queueVars, mainVars
    <2>2. NoLostWakeup' /\ Exclusion' /\ SeenEntry'
      BY <1>18 DEF IInv, NoLostWakeup, Exclusion, SeenEntry, vars, peerVars,
                   readerVars, queueVars, mainVars
    <2> QED
      BY <1>18, <2>1, <2>2, MainKeepsReader DEF IInv, vars, mainVars
  <1> QED
    BY <1>1, <1>2, <1>3, <1>4, <1>5, <1>6, <1>7, <1>8, <1>9, <1>10, <1>11, <1>12,
       <1>13, <1>14, <1>15, <1>16, <1>17, <1>18
       DEF Next, Peer, Reader, Main, InCall

\* IInv holds in every reachable state: the reader never loses the boundaries of
\* the messages in the byte stream, and the list it shares is always sound.
THEOREM Invariance == Spec => []IInv
  <1>1. Init => IInv
    BY InitIInv
  <1>2. IInv /\ [Next]_vars => IInv'
    BY StepIInv
  <1> QED
    BY <1>1, <1>2, PTL DEF Spec

\* TG_recv hands over the messages sent: whole, in order, and each once.
THEOREM FIFODelivery == Spec => []Delivered
  <1>1. IInv => Delivered
    BY DEF IInv
  <1> QED
    BY <1>1, Invariance, PTL

\* The linked list is sound, and neither of its ends names a freed entry.
THEOREM SoundQueue == Spec => []QueueShape
  <1>1. IInv => QueueShape
    BY DEF IInv
  <1> QED
    BY <1>1, Invariance, PTL

\* The main thread never sleeps on a queue with a message in it, and TG_nb_recv
\* never makes it sleep.
THEOREM NoSleeper == Spec => []NeverStuck
  <1>1. IInv => NeverStuck
    BY DEF IInv, SeenEntry, NbRecvNeverBlocks, NeverStuck
  <1> QED
    BY <1>1, Invariance, PTL

\* A new message is sent at the end of what the channel was given.
LEMMA SendMaps ==
    ASSUME IInv, NEW size \in Sizes, TGSend(size)
    PROVE  Channel!Send(Payload(Len(sizes) + 1, size)) /\ Len(sizes) + 1 \in 1..MaxMsgs
  <1> DEFINE n   == Len(sizes)
             new == Payload(n + 1, size)
             old == [k \in 1..n |-> Payload(k, sizes[k])]
  <1>1. /\ n \in Nat /\ sizes' = Append(sizes, size) /\ Len(sizes') = n + 1
        /\ \A k \in 1..n : sizes'[k] = sizes[k]
        /\ sizes'[n + 1] = size
    <2>1. sizes \in Seq(Sizes) /\ sizes' = Append(sizes, size)
      BY DEF IInv, TypeOK, TGSend
    <2> QED
      BY <2>1, AppendFacts, EmptyFacts
  <1>2. SentPayload' = [k \in 1..(n + 1) |-> IF k = n + 1 THEN new ELSE old[k]]
    <2>1. SentPayload' = [k \in 1..(n + 1) |-> Payload(k, sizes'[k])]
      BY <1>1 DEF SentPayload
    <2>2. \A k \in 1..(n + 1) : Payload(k, sizes'[k]) = IF k = n + 1 THEN new ELSE old[k]
      BY <1>1
    <2> QED
      BY <2>1, <2>2
  <1>3. Append(old, new) = [k \in 1..(n + 1) |-> IF k = n + 1 THEN new ELSE old[k]]
    <2> HIDE DEF new
    <2>1. \A k \in 1..n : old[k] \in {old[j] : j \in 1..n}
      OBVIOUS
    <2> DEFINE P == {old[j] : j \in 1..n} \cup {new}
    <2>2. old \in [1..n -> P] /\ new \in P
      BY <2>1
    <2>3. old \in Seq(P) /\ Len(old) = n
      BY <1>1, <2>2
    <2>4. /\ Append(old, new) \in [1..(n + 1) -> P]
          /\ \A k \in 1..n : Append(old, new)[k] = old[k]
          /\ Append(old, new)[n + 1] = new
      <3> HIDE DEF old, P, n
      <3> DEFINE app == Append(old, new)
      <3>1. /\ app \in Seq(P) /\ Len(app) = Len(old) + 1
            /\ \A k \in 1..Len(old) : app[k] = old[k]
            /\ app[Len(old) + 1] = new
        BY <2>2, <2>3, AppendFacts
      <3>2. app \in [1..Len(app) -> P]
        BY <3>1, LenProperties
      <3> HIDE DEF app
      <3>3. /\ app \in [1..(n + 1) -> P]
            /\ \A k \in 1..n : app[k] = old[k]
            /\ app[n + 1] = new
        BY <2>3, <3>1, <3>2
      <3> QED
        BY <3>3 DEF app
    <2> HIDE DEF old, P, n
    <2> DEFINE fn == [k \in 1..(n + 1) |-> IF k = n + 1 THEN new ELSE old[k]]
    <2>5. n \in Nat
      BY <1>1
    <2>6. \A k \in 1..(n + 1) : Append(old, new)[k] = fn[k]
      BY <2>4, <2>5
    <2> QED
      BY <2>4, <2>6
  <1>4. SentPayload = old
    BY DEF SentPayload
  <1>5. n + 1 \in 1..MaxMsgs /\ UNCHANGED got
    BY <1>1, SocketAssumption DEF TGSend, mainVars
  <1> QED
    BY <1>2, <1>3, <1>4, <1>5 DEF Channel!Send

\* TGSocket implements TGChannel: what the Client is handed is a step of a reliable
\* FIFO channel, and every other step of the peer and the threads is a stutter.
THEOREM Refinement == Spec => ImplementsChannel
  <1> DEFINE chan == <<SentPayload, got>>
  <1>1. Init => Channel!Init
    <2> SUFFICES ASSUME Init PROVE SentPayload = << >> /\ got = << >>
      BY DEF Channel!Init
    <2>1. Len(sizes) = 0
      BY EmptySeq DEF Init
    <2> QED
      BY <2>1 DEF Init, SentPayload
  <1>2. IInv /\ [Next]_vars => [Channel!Next]_chan
    <2> SUFFICES ASSUME IInv, [Next]_vars PROVE Channel!Next \/ UNCHANGED chan
      OBVIOUS
    <2>1. CASE \E size \in Sizes : TGSend(size)
      <3>1. PICK size \in Sizes : TGSend(size)
        BY <2>1
      <3> QED
        BY <3>1, SendMaps DEF Channel!Next
    <2>2. CASE Dequeue
      <3>1. UNCHANGED SentPayload
        BY <2>2 DEF Dequeue, peerVars, SentPayload
      <3>2. Len(got) < Len(SentPayload)
        <4>1. Len(sizes) \in Nat /\ Len(got) \in Nat
          BY EmptyFacts DEF IInv, TypeOK
        <4>2. Len(SentPayload) = Len(sizes)
          BY <4>1 DEF SentPayload
        <4> QED
          BY <2>2, <4>1, <4>2, DequeueFacts
      <3> QED
        BY <2>2, <3>1, <3>2, DequeueFacts DEF Channel!Next, Channel!Receive
    <2>3. CASE UNCHANGED <<sizes, got>>
      BY <2>3 DEF SentPayload
    <2>4. QED
      BY <2>1, <2>2, <2>3
         DEF Next, Peer, Reader, Main, InCall, vars, peerVars, readerVars, queueVars,
             mainVars, TGInternalWrite, PeerClose, ReaderSelect, ReadHeader, ReadBody,
             ReadEOF, ReaderLock, ReaderEnqueue, ReaderSignal, CallRecv, CallNbRecv,
             ReadDataQueued, RecvLock, CondWait, SpuriousWakeup
  <1> QED
    BY <1>1, <1>2, Invariance, PTL DEF Spec, ImplementsChannel, Channel!Spec

(* ------------------------------ the lease ------------------------------- *)

USE HeartbeatAssumption DEF HeartbeatAssumption

\* One tick takes from the alarm what it adds to the age of the lease.
LEMMA OneTick ==
  ASSUME NEW a \in Nat, NEW b \in Nat, NEW age \in Nat,
         a = 0 \/ a > 1, a > 0 => b = a - 1,
         a + age >= Timeout, age < Timeout
  PROVE  b + age + 1 >= Timeout
<1>1. a > 1 /\ b = a - 1
  OBVIOUS
<1>2. QED
  BY <1>1

LEMMA InitLease == LeaseInit => LeaseIInv
<1> SUFFICES ASSUME LeaseInit
             PROVE  LeaseIInv
  OBVIOUS
<1>1. LeaseTypeOK
  BY DEF LeaseInit, LeaseTypeOK
<1>2. NoFalseAlarm
  BY Zenon DEF LeaseInit, NoFalseAlarm
<1>3. sinceSent <= Interval + MaxBlock /\ waiting <= MaxBusy
  BY DEF LeaseInit
<1>4. link = "open" /\ unread /\ ~ activated /\ alarm = 0
  BY Zenon DEF LeaseInit
<1>5. QED
  BY <1>1, <1>2, <1>3, <1>4, Zenon DEF LeaseIInv

LEMMA NextLease == LeaseIInv /\ [LeaseNext]_leaseVars => LeaseIInv'
<1> SUFFICES ASSUME LeaseIInv, [LeaseNext]_leaseVars
             PROVE  LeaseIInv'
  OBVIOUS
<1> USE DEF LeaseIInv, LeaseTypeOK, NoFalseAlarm, clientVars, channelVars, timerVars
<1>1. CASE timerEvent
  <2>1. client = "up" /\ client' = client /\ link' = link /\ unread'
    BY <1>1 DEF timerEvent
  <2>2. sinceSent' = 0 /\ activated' = activated /\ alarm' = alarm
    BY <1>1 DEF timerEvent
  <2>3. waiting' \in Nat /\ waiting' <= MaxBusy
    BY <1>1 DEF timerEvent
  <2>4. LeaseTypeOK'
    BY <1>1, <2>3 DEF timerEvent
  <2>5. NoFalseAlarm'
    BY <1>1, Zenon DEF timerEvent
  <2>6. sinceSent' <= Interval + MaxBlock
    BY <2>2
  <2>7. activated => alarm + Interval + MaxBlock + waiting' >= Timeout
    <3>1. CASE unread
      <4>1. waiting' = waiting
        BY <1>1, <3>1 DEF timerEvent
      <4>2. QED
        BY <2>1, <3>1, <4>1, Zenon
    <3>2. CASE ~ unread
      <4>1. waiting' = 0
        BY <1>1, <3>2 DEF timerEvent
      <4>2. activated => alarm + sinceSent >= Timeout
        BY <2>1, <3>2, Zenon
      <4>3. sinceSent <= Interval + MaxBlock
        BY <2>1, Zenon
      <4>4. QED
        BY <4>1, <4>2, <4>3
    <3>3. QED
      BY <3>1, <3>2
  <2>8. ~ activated => alarm = 0
    BY <2>1, Zenon
  <2>9. link = "open"
    BY <2>1, Zenon
  <2>10. QED
    BY <2>1, <2>2, <2>3, <2>4, <2>5, <2>6, <2>7, <2>8, <2>9, Zenon
<1>2. CASE Crash
  <2>1. client' = "crashed" /\ link' \in {"closed", "silent"}
    BY <1>2 DEF Crash
  <2>2. LeaseTypeOK'
    BY <1>2, <2>1 DEF Crash
  <2>3. QED
    BY <2>1, <2>2, Zenon
<1>3. CASE unpack_heartbeat
  <2>1. alarm' = Timeout /\ waiting' = 0 /\ sinceSent' = sinceSent
    BY <1>3 DEF unpack_heartbeat
  <2>2. activated' /\ ~ unread' /\ client' = client /\ link' = link
    BY <1>3 DEF unpack_heartbeat
  <2>3. LeaseTypeOK'
    BY <1>3 DEF unpack_heartbeat
  <2>4. NoFalseAlarm'
    BY <1>3, Zenon DEF unpack_heartbeat
  <2>5. alarm' + sinceSent' >= Timeout /\ waiting' <= MaxBusy
    BY <2>1
  <2>6. QED
    BY <2>1, <2>2, <2>3, <2>4, <2>5, Zenon
<1>4. CASE dpcl_socket_handler
  <2>1. client = "crashed"
    BY <1>4 DEF dpcl_socket_handler
  <2>2. QED
    BY <1>4, <2>1 DEF dpcl_socket_handler
<1>5. CASE heartbeat_handler
  <2>1. client = "crashed"
    BY <1>5 DEF heartbeat_handler
  <2>2. QED
    BY <1>5, <2>1 DEF heartbeat_handler
<1>6. CASE Tick
  <2>1. CASE client = "crashed"
    BY <1>6, <2>1 DEF Tick
  <2>2. CASE client = "up"
    <3>1. /\ sinceSent' = sinceSent + 1
          /\ sinceSent' <= Interval + MaxBlock
      BY <1>6, <2>2 DEF Tick
    <3>2. /\ unread' = unread
          /\ activated' = activated
          /\ client' = client
          /\ link' = link
          /\ collector' = collector
      BY <1>6 DEF Tick
    <3>3. /\ unread => waiting' = waiting + 1 /\ waiting' <= MaxBusy
          /\ ~ unread => waiting' = waiting
      BY <1>6, <2>2 DEF Tick
    <3>4. alarm = 0 \/ alarm > 1
      <4>1. CASE unread
        BY <1>6, <2>2, <3>3, <4>1 DEF Tick
      <4>2. CASE ~ unread
        BY <1>6, <2>2, <3>1, <4>2 DEF Tick
      <4>3. QED
        BY <4>1, <4>2
    <3>5. /\ signal' = signal
          /\ alarm' \in Nat
          /\ alarm > 0 => alarm' = alarm - 1
          /\ alarm = 0 => alarm' = 0
      BY <1>6, <3>4 DEF Tick
    <3>6. waiting' \in Nat /\ waiting' <= MaxBusy
      BY <2>2, <3>3
    <3>7. ~ activated => unread' /\ alarm' = 0
      BY <2>2, <3>2, <3>5
    <3>8. activated /\ ~ unread => alarm' + sinceSent' >= Timeout
      <4>1. sinceSent \in Nat /\ sinceSent < Timeout
        BY <3>1
      <4>2. ASSUME alarm + sinceSent >= Timeout
            PROVE  alarm' + sinceSent' >= Timeout
        <5>1. alarm' + sinceSent + 1 >= Timeout
          BY <4>1, <4>2, <3>4, <3>5, OneTick
        <5>2. alarm' + sinceSent' = alarm' + sinceSent + 1
          BY <4>1, <3>1, <3>5
        <5>3. QED
          BY <5>1, <5>2, Zenon
      <4>3. QED
        BY <2>2, <4>2, Zenon
    <3>9. activated /\ unread => alarm' + Interval + MaxBlock + waiting' >= Timeout
      <4> DEFINE age == Interval + MaxBlock + waiting
      <4>1. ASSUME alarm + Interval + MaxBlock + waiting >= Timeout,
                   waiting' = waiting + 1, waiting' <= MaxBusy
            PROVE  alarm' + Interval + MaxBlock + waiting' >= Timeout
        <5>1. age \in Nat /\ age < Timeout
          BY <4>1
        <5>2. alarm + age >= Timeout
          BY <4>1
        <5>3. alarm' + Interval + MaxBlock + waiting' = alarm' + age + 1
          BY <4>1, <3>5
        <5> HIDE DEF age
        <5>4. alarm' + age + 1 >= Timeout
          BY <5>1, <5>2, <3>4, <3>5, OneTick
        <5>5. QED
          BY <5>3, <5>4, Zenon
      <4>2. QED
        BY <2>2, <3>3, <4>1, Zenon
    <3>10. LeaseTypeOK'
      BY <3>1, <3>2, <3>5, <3>6
    <3>11. NoFalseAlarm'
      BY <2>2, <3>2, <3>5, Zenon
    <3>12. QED
      BY <2>2, <3>1, <3>2, <3>6, <3>7, <3>8, <3>9, <3>10, <3>11, Zenon
  <2>3. QED
    BY <2>1, <2>2
<1>7. CASE UNCHANGED leaseVars
  BY <1>7 DEF leaseVars
<1>8. QED
  BY <1>1, <1>2, <1>3, <1>4, <1>5, <1>6, <1>7 DEF LeaseNext

\* The inductive invariant of the lease.
THEOREM LeaseInvariance == LeaseSpec => []LeaseIInv
<1>1. LeaseInit => LeaseIInv
  BY InitLease
<1>2. LeaseIInv /\ [LeaseNext]_leaseVars => LeaseIInv'
  BY NextLease
<1>3. QED
  BY <1>1, <1>2, PTL DEF LeaseSpec

\* A collector is never ended by the heartbeat while its Client lives
\* (unpack_heartbeat, heartbeat_handler).
THEOREM NoFalseAlarmTheorem == LeaseSpec => []NoFalseAlarm
<1>1. LeaseIInv => NoFalseAlarm
  BY DEF LeaseIInv
<1>2. QED
  BY <1>1, LeaseInvariance, PTL
============================================================================
