------------------------------- MODULE TGSocket -------------------------------
(* One direction of a Tool Gear connection, from the collector or XML server  *)
(* (the peer, built without threads) to the Client (built with                 *)
(* USE_READ_THREAD): TG_send at the peer, the kernel's bounded socket buffer,  *)
(* TG_read_queue_handler in the Client's reader thread, the linked list it     *)
(* shares with the Client's main thread, and TG_recv, TG_nb_recv and           *)
(* TG_read_data_queued in the main thread.  Source: Utils/tg_socket.c.         *)
(*                                                                             *)
(* A message is HeaderLen units of header (tag, id, size) and then a body of   *)
(* "size" units.  read() and write() move one unit at a time, which allows     *)
(* every partial transfer the kernel can make.                                 *)
EXTENDS Naturals, Sequences

CONSTANTS HeaderLen,  \* units in a header
          Sizes,      \* body sizes the peer may send
          MaxMsgs,    \* bound: messages the peer sends
          Cap         \* units the kernel buffers between the processes

ASSUME SocketAssumption ==
    /\ HeaderLen \in Nat \ {0}
    /\ Sizes \subseteq Nat
    /\ MaxMsgs \in Nat
    /\ Cap \in Nat \ {0}

VARIABLES
    sizes,    \* peer: the sizes of the messages sent so far (message k has id k)
    woff,     \* peer: units of the last message that have been written
    closed,   \* the peer has closed its end, or died
    wire,     \* the kernel's buffer: the units written and not yet read
    started,  \* read_socket_thread[i].fd is set and the reader thread runs
    rpc,      \* reader thread: where it is
    rcnt,     \* reader thread: header units read
    rhdr,     \* reader thread: tag, id and size of the message being read
    rbuf,     \* reader thread: body units read
    mem,      \* the Queue_entry records allocated, in order
    head,     \* the queue: index in mem of its first entry, 0 is NULL
    tail,     \* the queue: index in mem of its last entry, 0 is NULL
    lock,     \* who holds the queue's mutex
    mpc,      \* main thread: where it is in TG_recv or TG_nb_recv
    nb,       \* main thread: the call it is in is TG_nb_recv
    retval,   \* main thread: result of the last call that returned
    got       \* main thread: what TG_recv has handed over, in order

peerVars == <<sizes, woff, closed>>
readerVars == <<rpc, rcnt, rhdr, rbuf>>
queueVars == <<mem, head, tail>>
mainVars == <<mpc, nb, retval, got>>
vars == <<peerVars, wire, started, readerVars, queueVars, lock, mainVars>>

NULL == 0

(* A unit of the byte stream is known by its message and its offset there.     *)
Unit == [msg : Nat, off : Nat]
UnitOf(k, off) == [msg |-> k, off |-> off]
Body(k, size) == [j \in 1..size |-> [msg |-> k, off |-> HeaderLen + j - 1]]

\* What TG_recv should hand over for message k: its own header and body.
Payload(k, size) == [hdr |-> UnitOf(k, HeaderLen - 1), buf |-> Body(k, size)]
SentPayload == [k \in 1..Len(sizes) |-> Payload(k, sizes[k])]

\* The size field of a header that was read.  (Any size if the unit is no header.)
SizeOf(u) == sizes[u.msg]

\* "set to nonzero if socket is seen to be closed": no code assigns it.
socket_closed == FALSE

TypeOK ==
    /\ sizes \in Seq(Sizes)
    /\ woff \in Nat
    /\ closed \in BOOLEAN
    /\ wire \in Seq(Unit)
    /\ Len(wire) <= Cap
    /\ started \in BOOLEAN
    /\ rpc \in {"none", "select", "header", "body", "lock", "enqueue", "signal"}
    /\ rcnt \in 0..(HeaderLen - 1)
    /\ rhdr \in Unit
    /\ rbuf \in Seq(Unit)
    /\ mem \in Seq([hdr : Unit, buf : Seq(Unit), next : Nat])
    /\ head \in 0..Len(mem)
    /\ tail \in 0..Len(mem)
    /\ lock \in {"free", "main", "reader"}
    /\ mpc \in {"run", "queued", "recv", "check", "wait"}
    /\ nb \in BOOLEAN
    /\ retval \in {"none", "empty", "message", "closed"}
    /\ got \in Seq([hdr : Unit, buf : Seq(Unit)])

Init ==
    /\ sizes = << >> /\ woff = 0 /\ closed = FALSE
    /\ wire = << >>
    /\ started = FALSE
    /\ rpc = "none" /\ rcnt = 0 /\ rhdr = UnitOf(0, 0) /\ rbuf = << >>
    /\ mem = << >> /\ head = NULL /\ tail = NULL
    /\ lock = "free"
    /\ mpc = "run" /\ nb = FALSE /\ retval = "none" /\ got = << >>

(* --------------------------------- the peer -------------------------------- *)
\* TG_internal_write is still looping over the last message.
Writing == sizes # << >> /\ woff < HeaderLen + sizes[Len(sizes)]

\* TG_send is called with a message of the given size.
TGSend(size) ==
    /\ ~closed /\ ~Writing
    /\ Len(sizes) < MaxMsgs
    /\ sizes' = Append(sizes, size)
    /\ woff' = 0
    /\ UNCHANGED <<closed, wire, started, readerVars, queueVars, lock, mainVars>>

\* write() takes a unit; while the buffer is full it fails with EAGAIN.
TGInternalWrite ==
    /\ ~closed /\ Writing
    /\ Len(wire) < Cap
    /\ wire' = Append(wire, [msg |-> Len(sizes), off |-> woff])
    /\ woff' = woff + 1
    /\ UNCHANGED <<sizes, closed, started, readerVars, queueVars, lock, mainVars>>

\* The peer exits or is killed, even half way through a message.
PeerClose ==
    /\ ~closed
    /\ closed' = TRUE
    /\ UNCHANGED <<sizes, woff, wire, started, readerVars, queueVars, lock, mainVars>>

(* ----------------------------- the reader thread ---------------------------- *)
\* select() returns: there is data to read, or end of file.
ReaderSelect ==
    /\ rpc = "select"
    /\ wire # << >> \/ closed
    /\ rpc' = "header"
    /\ rcnt' = 0
    /\ UNCHANGED <<peerVars, wire, started, rhdr, rbuf, queueVars, lock, mainVars>>

\* Mutant: a body is read even when the header says that there is none.
ReadHeaderThenBody ==
    /\ rpc = "header" /\ wire # << >>
    /\ wire' = Tail(wire)
    /\ IF rcnt + 1 < HeaderLen
         THEN rcnt' = rcnt + 1 /\ UNCHANGED <<rpc, rhdr, rbuf>>
         ELSE rhdr' = Head(wire) /\ rbuf' = << >> /\ rcnt' = 0 /\ rpc' = "body"
    /\ UNCHANGED <<peerVars, started, queueVars, lock, mainVars>>

\* read() of a header unit; the last one gives the size of the body to come.
ReadHeader ==
    /\ rpc = "header" /\ wire # << >>
    /\ wire' = Tail(wire)
    /\ IF rcnt + 1 < HeaderLen
         THEN /\ rcnt' = rcnt + 1
              /\ UNCHANGED <<rpc, rhdr, rbuf>>
         ELSE /\ rhdr' = Head(wire)
              /\ rbuf' = << >>
              /\ rcnt' = 0
              /\ rpc' = IF SizeOf(Head(wire)) = 0 THEN "lock" ELSE "body"
    /\ UNCHANGED <<peerVars, started, queueVars, lock, mainVars>>

\* Mutant: one read() is taken for the whole body.
ReadBodyOnce ==
    /\ rpc = "body" /\ wire # << >>
    /\ wire' = Tail(wire)
    /\ rbuf' = Append(rbuf, Head(wire))
    /\ rpc' = "lock"
    /\ UNCHANGED <<peerVars, started, rcnt, rhdr, queueVars, lock, mainVars>>

\* read() of a body unit, until the size in the header is reached.
ReadBody ==
    /\ rpc = "body" /\ wire # << >>
    /\ wire' = Tail(wire)
    /\ rbuf' = Append(rbuf, Head(wire))
    /\ rpc' = IF Len(rbuf') < SizeOf(rhdr) THEN "body" ELSE "lock"
    /\ UNCHANGED <<peerVars, started, rcnt, rhdr, queueVars, lock, mainVars>>

\* read() returns 0: TG_internal_nb_recv returns -1, which is not 1, so the
\* handler goes back to select().
ReadEOF ==
    /\ rpc \in {"header", "body"}
    /\ wire = << >> /\ closed
    /\ rpc' = "select"
    /\ rcnt' = 0
    /\ UNCHANGED <<peerVars, wire, started, rhdr, rbuf, queueVars, lock, mainVars>>

\* pthread_mutex_lock in the reader thread.
ReaderLock ==
    /\ rpc = "lock" /\ lock = "free"
    /\ lock' = "reader"
    /\ rpc' = "enqueue"
    /\ UNCHANGED <<peerVars, wire, started, rcnt, rhdr, rbuf, queueVars, mainVars>>

\* Mutant: a new entry goes before the head.
LinkAtHead(entry) ==
    LET new == Len(mem) + 1
    IN  /\ mem' = Append(mem, [entry EXCEPT !.next = head])
        /\ head' = new
        /\ tail' = IF tail = NULL THEN new ELSE tail

\* A new entry goes behind the tail, and is the head of an empty queue.
Link(entry) ==
    LET new == Len(mem) + 1
        old == IF tail # NULL THEN [mem EXCEPT ![tail].next = new] ELSE mem
    IN  /\ mem' = Append(old, entry)
        /\ tail' = new
        /\ head' = IF head = NULL THEN new ELSE head

\* Mutant: the signal is forgotten, as in the write queue of TG_send.
EnqueueWithoutSignal ==
    /\ rpc = "enqueue"
    /\ Link([hdr |-> rhdr, buf |-> rbuf, next |-> NULL])
    /\ lock' = "free"
    /\ rpc' = "select"
    /\ UNCHANGED <<peerVars, wire, started, rcnt, rhdr, rbuf, mainVars>>

\* The new entry is put on the list and the mutex released.
ReaderEnqueue ==
    /\ rpc = "enqueue"
    /\ Link([hdr |-> rhdr, buf |-> rbuf, next |-> NULL])
    /\ lock' = "free"
    /\ rpc' = "signal"
    /\ UNCHANGED <<peerVars, wire, started, rcnt, rhdr, rbuf, mainVars>>

\* pthread_cond_signal, after the mutex has been released.
ReaderSignal ==
    /\ rpc = "signal"
    /\ rpc' = "select"
    /\ mpc' = IF mpc = "wait" THEN "recv" ELSE mpc
    /\ UNCHANGED <<peerVars, wire, started, rcnt, rhdr, rbuf, queueVars, lock,
                   nb, retval, got>>

(* ------------------------------ the main thread ----------------------------- *)
\* TG_recv is called; the first call starts the reader thread.
CallRecv ==
    /\ mpc = "run"
    /\ mpc' = "recv"
    /\ nb' = FALSE
    /\ started' = TRUE
    /\ rpc' = IF started THEN rpc ELSE "select"
    /\ UNCHANGED <<peerVars, wire, rcnt, rhdr, rbuf, queueVars, lock, retval, got>>

\* TG_nb_recv is called: no reader thread serves this socket, or it asks the queue.
CallNbRecv ==
    /\ mpc = "run"
    /\ nb' = TRUE
    /\ IF started THEN mpc' = "queued" /\ UNCHANGED retval
                  ELSE retval' = "empty" /\ UNCHANGED mpc
    /\ UNCHANGED <<peerVars, wire, started, readerVars, queueVars, lock, got>>

\* TG_read_data_queued looks at the queue under the mutex, and TG_nb_recv goes
\* on to TG_recv only if an entry was there.
ReadDataQueued ==
    /\ mpc = "queued" /\ lock = "free"
    /\ IF head # NULL
         THEN mpc' = "recv" /\ UNCHANGED retval
         ELSE mpc' = "run" /\ retval' = IF socket_closed THEN "closed" ELSE "empty"
    /\ UNCHANGED <<peerVars, wire, started, readerVars, queueVars, lock, nb, got>>

\* TG_recv takes the mutex: at its start, or inside pthread_cond_wait when that
\* returns.  (socket_closed is looked at only at the start; it is never set.)
RecvLock ==
    /\ mpc = "recv" /\ lock = "free"
    /\ IF socket_closed THEN mpc' = "run" /\ retval' = "closed" /\ UNCHANGED lock
                        ELSE mpc' = "check" /\ lock' = "main" /\ UNCHANGED retval
    /\ UNCHANGED <<peerVars, wire, started, readerVars, queueVars, nb, got>>

\* The queue is empty: pthread_cond_wait releases the mutex and sleeps.
CondWait ==
    /\ mpc = "check" /\ head = NULL
    /\ mpc' = "wait"
    /\ lock' = "free"
    /\ UNCHANGED <<peerVars, wire, started, readerVars, queueVars, nb, retval, got>>

\* pthread_cond_wait may also return without a signal.
SpuriousWakeup ==
    /\ mpc = "wait"
    /\ mpc' = "recv"
    /\ UNCHANGED <<peerVars, wire, started, readerVars, queueVars, lock, nb, retval, got>>

\* Mutant: the tail is left alone when the queue becomes empty.
UnlinkKeepingTail ==
    /\ head' = mem[head].next
    /\ UNCHANGED <<mem, tail>>

\* The first entry is unlinked; taking the last one clears the tail.
Unlink ==
    /\ head' = mem[head].next
    /\ tail' = IF mem[head].next = NULL THEN NULL ELSE tail
    /\ UNCHANGED mem

\* The entry's message is handed over and the mutex released.
Dequeue ==
    /\ mpc = "check" /\ head # NULL
    /\ got' = Append(got, [hdr |-> mem[head].hdr, buf |-> mem[head].buf])
    /\ Unlink
    /\ lock' = "free"
    /\ mpc' = "run"
    /\ retval' = "message"
    /\ UNCHANGED <<peerVars, wire, started, readerVars, nb>>

Peer == TGInternalWrite \/ PeerClose \/ \E size \in Sizes : TGSend(size)
Reader == ReaderSelect \/ ReadHeader \/ ReadBody \/ ReadEOF
            \/ ReaderLock \/ ReaderEnqueue \/ ReaderSignal
InCall == ReadDataQueued \/ RecvLock \/ CondWait \/ Dequeue
Main == CallRecv \/ CallNbRecv \/ InCall \/ SpuriousWakeup

Next == Peer \/ Reader \/ Main

Spec == Init /\ [][Next]_vars

(* The scheduler runs each thread that can run, and a thread that keeps asking *)
(* for the mutex gets it.  Nothing is assumed of the peer, which may stop half *)
(* way through a message, and no spurious wakeup is ever owed.                 *)
Fairness == WF_vars(Reader) /\ SF_vars(ReaderLock) /\ SF_vars(InCall)
FairSpec == Spec /\ Fairness

\* A Client that has called TG_recv nowhere or somewhere, and keeps polling.
PollingSpec == FairSpec /\ SF_vars(CallNbRecv)

(* -------------------------------- properties -------------------------------- *)
\* The queue's list is sound whoever looks: it holds, in order, the entries that
\* were put on it and not yet taken off, it ends at the tail, and neither end
\* names an entry TG_recv has freed.
QueueShape ==
    /\ head = NULL <=> tail = NULL
    /\ head = NULL => Len(got) = Len(mem)
    /\ head # NULL =>
         /\ head = Len(got) + 1
         /\ tail = Len(mem)
         /\ mem[tail].next = NULL
         /\ \A k \in head..(tail - 1) : mem[k].next = k + 1

\* The messages TG_recv hands over are the messages sent, whole, in order and
\* once, whatever partial reads and writes happened between the two.
Delivered ==
    /\ Len(got) <= Len(sizes)
    /\ \A k \in 1..Len(got) : got[k] = SentPayload[k]

\* The main thread never sleeps in pthread_cond_wait on a queue with something
\* in it, unless the reader thread is about to signal.
NoLostWakeup == mpc = "wait" /\ head # NULL => rpc = "signal"

\* The list is only changed by the thread that holds the mutex.
Exclusion ==
    /\ rpc = "enqueue" <=> lock = "reader"
    /\ mpc = "check" <=> lock = "main"

\* TG_nb_recv never sleeps, although it looks at the queue under one hold of the
\* mutex and TG_recv takes the entry under another: what TG_read_data_queued saw
\* is still there, because only the main thread takes entries off.
NbRecvNeverBlocks == mpc = "wait" => ~nb

\* The main thread is never left asleep beside a message, nor put to sleep by
\* the call that promises not to block (TG_recv, TG_nb_recv).
NeverStuck == NoLostWakeup /\ NbRecvNeverBlocks

(* The inductive invariant behind Delivered: the position of the reader in the *)
(* byte stream, and what it has in hand there.                                 *)
\* The next unit the peer writes, and the unit that follows u in the stream.
NextWrite == IF Writing THEN UnitOf(Len(sizes), woff)
                        ELSE UnitOf(Len(sizes) + 1, 0)
After(u) == IF u.off + 1 < HeaderLen + sizes[u.msg]
              THEN UnitOf(u.msg, u.off + 1)
              ELSE UnitOf(u.msg + 1, 0)

\* The unit the reader must read next if it has not lost the message boundaries.
NextRead ==
    IF rpc = "body" THEN UnitOf(Len(mem) + 1, HeaderLen + Len(rbuf))
    ELSE IF rpc \in {"lock", "enqueue"} THEN UnitOf(Len(mem) + 2, 0)
    ELSE UnitOf(Len(mem) + 1, rcnt)

\* The buffer holds the stretch of the stream from NextRead up to NextWrite.
Framed ==
    /\ wire = << >> => closed \/ NextRead = NextWrite
    /\ wire # << >> => wire[1] = NextRead /\ After(wire[Len(wire)]) = NextWrite
    /\ \A i \in 1..Len(wire) :
         /\ wire[i].msg \in 1..Len(sizes)
         /\ wire[i].off < HeaderLen + sizes[wire[i].msg]
    /\ \A i \in 1..(Len(wire) - 1) : wire[i + 1] = After(wire[i])

\* Between a header and its enqueueing the reader holds the next message's parts.
InHand ==
    rpc \in {"body", "lock", "enqueue"} =>
        /\ Len(mem) < Len(sizes)
        /\ rhdr = UnitOf(Len(mem) + 1, HeaderLen - 1)
        /\ Len(rbuf) <= sizes[Len(mem) + 1]
        /\ rpc = "body" <=> Len(rbuf) < sizes[Len(mem) + 1]
        /\ \A j \in 1..Len(rbuf) :
             rbuf[j] = UnitOf(Len(mem) + 1, HeaderLen + j - 1)

\* Entry k of the queue carries message k.
Stored ==
    /\ Len(mem) <= Len(sizes)
    /\ \A k \in 1..Len(mem) :
         /\ mem[k].hdr = UnitOf(k, HeaderLen - 1)
         /\ mem[k].buf = Body(k, sizes[k])

\* The reader runs once started, and counts header units only within a header.
ReaderRuns ==
    /\ started <=> rpc # "none"
    /\ rpc # "header" => rcnt = 0

\* TG_nb_recv goes past its look at the queue only if there is an entry.
SeenEntry == nb /\ mpc \in {"recv", "check", "wait"} => head # NULL /\ mpc # "wait"

IInv == /\ TypeOK /\ QueueShape /\ Framed /\ InHand /\ Stored /\ ReaderRuns
        /\ Delivered /\ NoLostWakeup /\ Exclusion /\ SeenEntry

\* A main thread in TG_recv comes back once the message it waits for is complete.
Complete(k) == k < Len(sizes) \/ (k = Len(sizes) /\ ~Writing)
RecvReturns ==
    \A k \in 1..MaxMsgs :
        (Complete(k) /\ Len(got) = k - 1 /\ mpc \in {"recv", "check", "wait"})
            ~> Len(got) >= k

Channel == INSTANCE TGChannel WITH
    Message <- {Payload(k, size) : k \in 1..MaxMsgs, size \in Sizes},
    sent <- SentPayload

\* tg_socket is a reliable FIFO channel.
ImplementsChannel == Channel!Spec

\* "Returns -1 if the socket has closed" (TG_nb_recv): a Client that keeps polling
\* a connection it has read from is told, in the end, that the peer has closed it.
CloseReported == (closed /\ started) ~> (retval = "closed")
==============================================================================
