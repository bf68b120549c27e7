------------------------------- MODULE Heartbeat -------------------------------
(* The lease that keeps dynTG alive: the Client sends a heartbeat every Interval, *)
(* each one gives the collector Timeout more time, and a collector that hears no  *)
(* heartbeat for that long quits.                                                 *)
(*                                                                                *)
(* Client: GUIActionSender (constructor, timerEvent).  Collector:                 *)
(* unpack_heartbeat, heartbeat_handler and the loop of dpcl_socket_handler, which *)
(* is built without the reader thread.  Ais_main_loop, which calls the handlers,  *)
(* and the clock are external.                                                    *)
EXTENDS Naturals

CONSTANTS Interval,   \* HEARTBEAT_INTERVAL, in ticks
          Timeout,    \* HEARTBEAT_TIMEOUT, in ticks
          MaxBlock,   \* how long the Client may be away from its event loop
          MaxBusy     \* how long a message waits until the collector reads it

ASSUME HeartbeatAssumption ==
    /\ Interval \in Nat \ {0}
    /\ Timeout \in Nat
    /\ MaxBlock \in Nat
    /\ MaxBusy \in Nat
    /\ Interval + MaxBlock + MaxBusy < Timeout

VARIABLES
    client,      \* "up" or "crashed"
    link,        \* "open"; "closed" if the collector can see that the Client is
                 \* gone, "silent" if it cannot
    sinceSent,   \* ticks since the Client's last heartbeat
    unread,      \* there are heartbeats the collector has not read
    waiting,     \* ticks since the first of them was sent
    collector,   \* "up", "spinning" in dpcl_socket_handler, or "gone"
    activated,   \* heartbeat_activated
    alarm,       \* ticks left until SIGALRM
    signal       \* SIGALRM has come and heartbeat_handler is to be called

clientVars == <<client, link, sinceSent>>
channelVars == <<unread, waiting>>
timerVars == <<activated, alarm, signal>>
leaseVars == <<clientVars, channelVars, collector, timerVars>>

\* The sender has just been made: it sends the first heartbeat at once.
LeaseInit ==
    /\ client = "up"
    /\ link = "open"
    /\ sinceSent = 0
    /\ unread = TRUE
    /\ waiting = 0
    /\ collector = "up"
    /\ activated = FALSE
    /\ alarm = 0
    /\ signal = FALSE

timerEvent ==
    /\ client = "up"
    /\ sinceSent >= Interval
    /\ sinceSent' = 0
    /\ unread' = TRUE
    /\ waiting' = IF unread THEN waiting ELSE 0
    /\ UNCHANGED <<client, link, collector, timerVars>>

\* The process dies and its socket is closed, or its machine or the net goes.
Crash ==
    /\ client = "up"
    /\ client' = "crashed"
    /\ link' \in {"closed", "silent"}
    /\ UNCHANGED <<sinceSent, channelVars, collector, timerVars>>

\* Mutant: a running alarm is not set anew.
unpack_heartbeatOnce ==
    /\ collector = "up" /\ unread
    /\ unread' = FALSE
    /\ waiting' = 0
    /\ activated' = TRUE
    /\ alarm' = IF activated THEN alarm ELSE Timeout
    /\ UNCHANGED <<clientVars, collector, signal>>

\* Mutant: the alarm is taken off and not set again.
unpack_heartbeatOff ==
    /\ collector = "up" /\ unread
    /\ unread' = FALSE
    /\ waiting' = 0
    /\ activated' = ~ activated
    /\ alarm' = IF activated THEN 0 ELSE Timeout
    /\ UNCHANGED <<clientVars, collector, signal>>

\* dpcl_socket_handler reads all there is.  The Client never asks for less than a
\* second, which would take the alarm off.
unpack_heartbeat ==
    /\ collector = "up" /\ unread
    /\ unread' = FALSE
    /\ waiting' = 0
    /\ activated' = TRUE
    /\ alarm' = Timeout
    /\ UNCHANGED <<clientVars, collector, signal>>

\* TG_nb_recv says -1 for a closed socket, which is not 0: the handler never
\* returns to Ais_main_loop.  A reset connection ends it (TG_errno).
dpcl_socket_handler ==
    /\ collector = "up" /\ ~ unread
    /\ link = "closed"
    /\ collector' \in {"spinning", "gone"}
    /\ UNCHANGED <<clientVars, channelVars, timerVars>>

heartbeat_handler ==
    /\ collector = "up"
    /\ signal
    /\ collector' = "gone"
    /\ UNCHANGED <<clientVars, channelVars, timerVars>>

\* A tick of the clock: not before the Client's timer, or the collector's reading
\* of what was sent, is as late as it may be.
Tick ==
    /\ client = "up" => sinceSent < Interval + MaxBlock
    /\ collector = "up" /\ unread => waiting < MaxBusy
    /\ sinceSent' = IF client = "up" THEN sinceSent + 1 ELSE sinceSent
    /\ waiting' = IF collector = "up" /\ unread THEN waiting + 1 ELSE waiting
    /\ alarm' = IF alarm > 0 THEN alarm - 1 ELSE 0
    /\ signal' = (signal \/ alarm = 1)
    /\ UNCHANGED <<client, link, unread, collector, activated>>

LeaseNext ==
    \/ timerEvent \/ Crash
    \/ unpack_heartbeat \/ dpcl_socket_handler \/ heartbeat_handler
    \/ Tick

LeaseSpec == LeaseInit /\ [][LeaseNext]_leaseVars

\* The clock goes on, Qt's timer fires and Ais_main_loop calls its handlers.
FairLeaseSpec ==
    /\ LeaseSpec
    /\ WF_leaseVars(Tick)
    /\ WF_leaseVars(timerEvent)
    /\ WF_leaseVars(unpack_heartbeat)
    /\ WF_leaseVars(dpcl_socket_handler)
    /\ WF_leaseVars(heartbeat_handler)

------------------------------------------------------------------------------

LeaseTypeOK ==
    /\ client \in {"up", "crashed"} /\ link \in {"open", "closed", "silent"}
    /\ collector \in {"up", "spinning", "gone"}
    /\ unread \in BOOLEAN /\ activated \in BOOLEAN /\ signal \in BOOLEAN
    /\ sinceSent \in Nat /\ waiting \in Nat /\ alarm \in Nat

\* A collector is not ended, nor about to be, while its Client is alive: a signal
\* that came before the heartbeat was read would end it all the same.
NoFalseAlarm == client = "up" => ~ signal /\ collector = "up"

\* Why: an alarm that is set is as old as the last heartbeat read, and the one that
\* follows that was sent in time.
LeaseIInv ==
    /\ LeaseTypeOK
    /\ NoFalseAlarm
    /\ client = "up" =>
         /\ link = "open"
         /\ sinceSent <= Interval + MaxBlock
         /\ waiting <= MaxBusy
         /\ ~ activated => unread /\ alarm = 0
         /\ activated /\ ~ unread => alarm + sinceSent >= Timeout
         /\ activated /\ unread => alarm + Interval + MaxBlock + waiting >= Timeout

\* A Client that falls silent is noticed: the collector quits.
SilenceEnds == client = "crashed" /\ link = "silent" ~> collector = "gone"

\* The collector quits unless it gets another heartbeat in time (the comment of
\* unpack_heartbeat), whatever became of the Client.
CrashEnds == client = "crashed" ~> collector = "gone"
================================================================================
