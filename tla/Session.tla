------------------------------- MODULE Session -------------------------------
(* The life of a session: the Client launches the XML data server, recognises   *)
(* it by a number, waits for the type of view, sends the input parameters, runs  *)
(* its event loop and, at the end, asks the server to quit.                      *)
(*                                                                               *)
(* Client: gui_main.cpp (main), tg_collector.cpp (TGCollector).  Server: main of *)
(* TGxmlserver.cpp.  Messages are the tags of command_tags.h; that none of them  *)
(* is lost or overtaken is what TGSocket shows.                                  *)
EXTENDS Naturals, Sequences, SequencesExt

CONSTANTS StrayKinds,     \* what a stray program that connects to the port may do
          MaxData,        \* bound: pieces of the input file
          MaxHeartbeats   \* bound: heartbeats of the Client

ASSUME SessionAssumption ==
    /\ StrayKinds \subseteq {"garbage", "hangup", "silent"}
    /\ MaxData \in Nat
    /\ MaxHeartbeats \in Nat

VARIABLES
    remote,      \* the server runs on another machine, the Client's child is ssh
    remoteDir,   \* the user gave -d <remote-directory>
    phase,       \* where main, or a slot it called, is
    back,        \* where listenerConnected returns to
    status,      \* TGCollector's status
    sock,        \* whose connection TGCollector's sock is
    viewer,      \* the view type has been read
    ended,       \* how the Client ended
    heartbeats,  \* heartbeats sent
    killed,      \* SIGKILL was sent to the child
    server,      \* where the server is
    data,        \* pieces of the input sent
    acked,       \* the server has answered GUI_SAYS_QUIT
    stray,       \* the stray connection: what it does, or "none"
    backlog,     \* connections not yet accepted
    challenge,   \* the last number the Client made
    stdin,       \* the numbers in the pipe to the server's standard input
    answer,      \* the number the server wrote to its connection
    toServer, toClient   \* the messages under way

choices == <<remote, remoteDir>>
clientVars == <<phase, back, status, sock, viewer, ended, heartbeats, killed>>
serverVars == <<server, data, acked>>
handshake == <<stray, backlog, challenge, stdin, answer>>
vars == <<choices, clientVars, serverVars, handshake, toServer, toClient>>

Init ==
    /\ remote \in BOOLEAN
    /\ remoteDir \in BOOLEAN
    /\ phase = "start" /\ back = "start"
    /\ status = "Launching"
    /\ sock = "none"
    /\ viewer = FALSE
    /\ ended = "no"
    /\ heartbeats = 0
    /\ killed = FALSE
    /\ server = "none"
    /\ data = 0
    /\ acked = FALSE
    /\ stray \in StrayKinds \cup {"none"}
    /\ backlog = << >>
    /\ challenge = 0
    /\ stdin = << >>
    /\ answer = 0
    /\ toServer = << >>
    /\ toClient = << >>

\* What the server sees when the Client, or the ssh between them, is gone.
LinkDown == phase = "done" \/ killed

\* Mutant: the child is not killed.
KillNobody == UNCHANGED <<killed, server>>

Kill ==
    /\ killed' = TRUE
    /\ server' = IF remote THEN server ELSE "gone"

Finish(how) ==
    /\ phase' = "done"
    /\ ended' = how

------------------------------------------------------------------------------
(* The Client starts up. *)

Launch ==
    /\ phase = "start"
    /\ phase' = "launching"
    /\ server' = "starting"
    /\ UNCHANGED <<choices, back, status, sock, viewer, ended, heartbeats, killed,
                   data, acked, handshake, toServer, toClient>>

\* No port to listen on, or fork fails.
LaunchFails ==
    /\ phase = "start"
    /\ status' = "Failed"
    /\ Finish("failed")
    /\ UNCHANGED <<choices, back, sock, viewer, heartbeats, killed, serverVars,
                   handshake, toServer, toClient>>

EventLoop == \/ phase = "launching" /\ status = "Launching"
             \/ phase \in {"main", "quitting"}

\* newConnection and the first half of listenerConnected, which then blocks.
Accept ==
    /\ EventLoop
    /\ backlog # << >>
    /\ phase' = "auth"
    /\ back' = phase
    /\ sock' = Head(backlog)
    /\ backlog' = Tail(backlog)
    /\ challenge' = challenge + 1
    /\ stdin' = IF status = "Terminated" THEN stdin ELSE Append(stdin, challenge + 1)
    /\ UNCHANGED <<choices, status, viewer, ended, heartbeats, killed, serverVars,
                   stray, answer, toServer, toClient>>

\* Mutant: whoever connects is taken for the server.
RecogniseAnyone ==
    /\ phase = "auth"
    /\ status' = "Connected"
    /\ phase' = back
    /\ UNCHANGED <<choices, back, sock, viewer, ended, heartbeats, killed, serverVars,
                   handshake, toServer, toClient>>

Recognise ==
    /\ phase = "auth"
    /\ sock = "server"
    /\ answer # 0
    /\ answer = challenge
    /\ status' = "Connected"
    /\ phase' = back
    /\ UNCHANGED <<choices, back, sock, viewer, ended, heartbeats, killed, serverVars,
                   handshake, toServer, toClient>>

PeerClosed == \/ sock = "server" /\ server = "gone" /\ answer = 0
              \/ sock = "stray" /\ stray = "hangup"

\* A wrong number, or the peer hangs up and errno is not EAGAIN or EINTR.
Refuse ==
    /\ phase = "auth"
    /\ \/ sock = "server" /\ answer \notin {0, challenge}
       \/ sock = "stray" /\ stray = "garbage"
       \/ PeerClosed
    /\ Kill
    /\ status' = "Terminated"
    /\ phase' = back
    /\ UNCHANGED <<choices, back, sock, viewer, ended, heartbeats, data, acked,
                   handshake, toServer, toClient>>

\* read returns 0, which sets no errno; an old EAGAIN makes the loop go round.
Spin ==
    /\ phase = "auth"
    /\ PeerClosed
    /\ phase' = "spinning"
    /\ UNCHANGED <<choices, back, status, sock, viewer, ended, heartbeats, killed,
                   serverVars, handshake, toServer, toClient>>

\* Mutant: main waits until the collector is connected.
NotConnectedNever == FALSE /\ UNCHANGED vars

NotConnected ==
    /\ phase = "launching"
    /\ status = "Terminated"
    /\ Finish("terminated")
    /\ UNCHANGED <<choices, back, status, sock, viewer, heartbeats, killed, serverVars,
                   handshake, toServer, toClient>>

\* The reader and the sender are made; the sender sends a heartbeat at once.
Setup ==
    /\ phase = "launching"
    /\ status = "Connected"
    /\ toServer' = toServer \o IF remoteDir THEN <<"HEARTBEAT", "CHANGE_DIR">>
                                            ELSE <<"HEARTBEAT">>
    /\ phase' = IF remoteDir THEN "cdwait" ELSE "viewwait"
    /\ UNCHANGED <<choices, back, status, sock, viewer, ended, heartbeats, killed,
                   serverVars, handshake, toClient>>

\* check_socket outside the event loop: it blocks until there is a message.
CheckSocket(where) ==
    /\ phase = where
    /\ toClient # << >>
    /\ toClient' = Tail(toClient)

SaysQuit == Head(toClient) \in {"QUIT", "CD_FAILED"}

\* The one check_socket after changeDirectory: any message will do.
CheckResponse ==
    /\ CheckSocket("cdwait")
    /\ ~ SaysQuit
    /\ phase' = "viewwait"
    /\ UNCHANGED <<choices, back, status, sock, viewer, ended, heartbeats, killed,
                   serverVars, handshake, toServer>>

ReadViewType ==
    /\ CheckSocket("viewwait")
    /\ Head(toClient) = "VIEW"
    /\ viewer' = TRUE
    /\ toServer' = Append(toServer, "INITIALIZE")
    /\ phase' = "main"
    /\ UNCHANGED <<choices, back, status, sock, ended, heartbeats, killed,
                   serverVars, handshake>>

ReadOther ==
    /\ CheckSocket("viewwait")
    /\ Head(toClient) # "VIEW"
    /\ ~ SaysQuit
    /\ UNCHANGED <<choices, clientVars, serverVars, handshake, toServer>>

GiveUp ==
    /\ CheckSocket("cdwait") \/ CheckSocket("viewwait")
    /\ SaysQuit
    /\ toServer' = Append(toServer, "QUIT")
    /\ phase' = "quitting"
    /\ UNCHANGED <<choices, back, status, sock, viewer, ended, heartbeats, killed,
                   serverVars, handshake>>

------------------------------------------------------------------------------
(* The Client in its event loop, and its end. *)

\* Mutant: the reader's timer is left on while the Client waits for the answer.
AutoReadStaysOn ==
    /\ phase \in {"main", "quitting"}
    /\ toClient # << >>
    /\ toClient' = Tail(toClient)
    /\ UNCHANGED <<choices, clientVars, serverVars, handshake, toServer>>

\* get_pending_data: DPCL_SAYS_QUIT is read like the others and ignored.
AutoRead ==
    /\ phase = "main"
    /\ toClient # << >>
    /\ toClient' = Tail(toClient)
    /\ UNCHANGED <<choices, clientVars, serverVars, handshake, toServer>>

Heartbeat ==
    /\ phase \in {"main", "quitting"}
    /\ heartbeats < MaxHeartbeats
    /\ heartbeats' = heartbeats + 1
    /\ toServer' = Append(toServer, "HEARTBEAT")
    /\ UNCHANGED <<choices, phase, back, status, sock, viewer, ended, killed,
                   serverVars, handshake, toClient>>

\* The server's standard output ends; not watched while the Client quits.
OutputEnds ==
    /\ \/ phase = "launching" /\ status = "Launching"
       \/ phase = "main" /\ status = "Connected"
    /\ server = "gone"
    /\ status' = "Terminated"
    /\ UNCHANGED <<choices, phase, back, sock, viewer, ended, heartbeats, killed,
                   serverVars, handshake, toServer, toClient>>

\* The last window is closed while the server is there.
UserCloses ==
    /\ phase = "main"
    /\ status = "Connected"
    /\ toServer' = Append(toServer, "QUIT")
    /\ phase' = "quitting"
    /\ UNCHANGED <<choices, back, status, sock, viewer, ended, heartbeats, killed,
                   serverVars, handshake, toClient>>

UserClosesTerminated ==
    /\ phase = "main"
    /\ status # "Connected"
    /\ Kill
    /\ Finish("terminated")
    /\ UNCHANGED <<choices, back, status, sock, viewer, heartbeats, data, acked,
                   handshake, toServer, toClient>>

\* The destructor reads what is queued for its own sock.
Drain(answers) ==
    /\ phase = "quitting"
    /\ sock = "server"
    /\ toClient # << >>
    /\ toClient' = Tail(toClient)
    /\ IF Head(toClient) \in answers
       THEN Kill /\ Finish("answered")
       ELSE UNCHANGED <<phase, ended, killed, server>>
    /\ UNCHANGED <<choices, back, status, sock, viewer, heartbeats, data, acked,
                   handshake, toServer>>

\* Mutant: any message ends the wait.
DrainAny == Drain({"QUIT", "DATA", "COMPLETE"})
DrainQuit == Drain({"QUIT"})

\* Mutant: the clock is restarted by every round of the loop.
QuitTimeoutRestarted == FALSE /\ UNCHANGED vars

\* QUIT_TIMEOUT_MILLISEC have passed.
QuitTimeout ==
    /\ phase = "quitting"
    /\ Kill
    /\ Finish("timeout")
    /\ UNCHANGED <<choices, back, status, sock, viewer, heartbeats, data, acked,
                   handshake, toServer, toClient>>

\* The user types ^C, or the Client crashes: nobody is told.
Interrupt ==
    /\ phase \notin {"start", "done"}
    /\ Finish("interrupted")
    /\ UNCHANGED <<choices, back, status, sock, viewer, heartbeats, killed, serverVars,
                   handshake, toServer, toClient>>

------------------------------------------------------------------------------
(* The server. *)

\* What is sent after the link went down is lost.
Send(message) == toClient' = IF LinkDown THEN toClient ELSE Append(toClient, message)

Connect ==
    /\ server = "starting"
    /\ ~ LinkDown
    /\ backlog' = Append(backlog, "server")
    /\ server' = "auth"
    /\ UNCHANGED <<choices, clientVars, data, acked, stray, challenge, stdin, answer,
                   toServer, toClient>>

\* fgets gives the number, which goes back over the connection.
Answer ==
    /\ server = "auth"
    /\ stdin # << >>
    /\ answer' = Head(stdin)
    /\ stdin' = Tail(stdin)
    /\ server' = "greeting"
    /\ UNCHANGED <<choices, clientVars, data, acked, stray, backlog, challenge,
                   toServer, toClient>>

Greet ==
    /\ server = "greeting"
    /\ Send("VIEW")
    /\ server' = "params"
    /\ UNCHANGED <<choices, clientVars, data, acked, handshake, toServer>>

\* The loop that waits for the input parameters; GUI_SAYS_QUIT does not end it.
ParamsLoop(message) ==
    /\ server = "params"
    /\ toServer # << >>
    /\ Head(toServer) = message
    /\ toServer' = Tail(toServer)
    /\ UNCHANGED <<choices, clientVars, data, acked, handshake>>

IgnoreMessage ==
    /\ ParamsLoop("HEARTBEAT") \/ ParamsLoop("QUIT")
    /\ UNCHANGED <<server, toClient>>

ChangeDir ==
    /\ ParamsLoop("CHANGE_DIR")
    /\ Send("CD_OK") \/ Send("CD_FAILED")
    /\ UNCHANGED server

OpenInput ==
    /\ ParamsLoop("INITIALIZE")
    /\ server' = "parsing"
    /\ UNCHANGED toClient

\* exit(-1): exit_cleanup tells the Client and lingers.
InputFails ==
    /\ ParamsLoop("INITIALIZE")
    /\ Send("QUIT")
    /\ server' = "flushing"

SendData ==
    /\ server \in {"parsing", "serving"}
    /\ data < MaxData
    /\ data' = data + 1
    /\ Send("DATA")
    /\ UNCHANGED <<choices, clientVars, server, acked, handshake, toServer>>

DataComplete ==
    /\ server = "parsing"
    /\ Send("COMPLETE")
    /\ server' = "serving"
    /\ UNCHANGED <<choices, clientVars, data, acked, handshake, toServer>>

\* Mutant: the quit is answered and the loop goes on, as in the callback of a search.
ServeOn ==
    /\ server = "serving"
    /\ toServer # << >>
    /\ toServer' = Tail(toServer)
    /\ IF Head(toServer) = "QUIT"
       THEN Send("QUIT") /\ acked' = TRUE
       ELSE UNCHANGED <<acked, toClient>>
    /\ UNCHANGED <<choices, clientVars, server, data, handshake>>

ServeMessage ==
    /\ server = "serving"
    /\ toServer # << >>
    /\ toServer' = Tail(toServer)
    /\ IF Head(toServer) = "QUIT"
       THEN Send("QUIT") /\ server' = "gone" /\ acked' = TRUE
       ELSE UNCHANGED <<server, acked, toClient>>
    /\ UNCHANGED <<choices, clientVars, data, handshake>>

\* Mutant: a closed socket does not end the serving loop.
ServerMissesLinkDown ==
    /\ LinkDown
    /\ server \notin {"none", "serving", "flushing", "gone"}
    /\ server' = "flushing"
    /\ UNCHANGED <<choices, clientVars, data, acked, handshake, toServer, toClient>>

\* connect, fgets, a read or a write fails: exit(-1).
ServerFindsLinkDown ==
    /\ LinkDown
    /\ server \notin {"none", "flushing", "gone"}
    /\ server' = "flushing"
    /\ UNCHANGED <<choices, clientVars, data, acked, handshake, toServer, toClient>>

\* The sleep of exit_cleanup is over.
Flushed ==
    /\ server = "flushing"
    /\ server' = "gone"
    /\ UNCHANGED <<choices, clientVars, data, acked, handshake, toServer, toClient>>

Crash ==
    /\ server \notin {"none", "gone"}
    /\ server' = "gone"
    /\ UNCHANGED <<choices, clientVars, data, acked, handshake, toServer, toClient>>

\* Another program connects to the Client's port.
StrayConnects ==
    /\ stray \in StrayKinds
    /\ ~ Contains(backlog, "stray")
    /\ sock # "stray"
    /\ phase \notin {"start", "done"}
    /\ backlog' = Append(backlog, "stray")
    /\ UNCHANGED <<choices, clientVars, serverVars, stray, challenge, stdin, answer,
                   toServer, toClient>>
------------------------------------------------------------------------------

ClientStarts == \/ Accept \/ Recognise \/ Refuse \/ Spin \/ NotConnected \/ Setup
                \/ CheckResponse \/ ReadViewType \/ ReadOther \/ GiveUp \/ OutputEnds

ServerStep == \/ Connect \/ Answer \/ Greet \/ IgnoreMessage \/ ChangeDir \/ OpenInput
              \/ InputFails \/ SendData \/ DataComplete \/ ServeMessage
              \/ ServerFindsLinkDown \/ Flushed

Environment == UserCloses \/ UserClosesTerminated \/ Interrupt \/ Crash \/ StrayConnects

Next == \/ Launch \/ LaunchFails \/ ClientStarts \/ AutoRead \/ Heartbeat
        \/ DrainQuit \/ QuitTimeout \/ ServerStep \/ Environment

Spec == Init /\ [][Next]_vars

\* Both programs run; the user, crashes and strays are under no obligation.
FairSpec == Spec /\ WF_vars(ClientStarts) /\ WF_vars(AutoRead) /\ WF_vars(DrainQuit)
                 /\ WF_vars(QuitTimeout) /\ WF_vars(ServerStep)

------------------------------------------------------------------------------
(* Properties. *)

\* The variables have their types.
TypeOK ==
    /\ remote \in BOOLEAN /\ remoteDir \in BOOLEAN /\ viewer \in BOOLEAN
    /\ killed \in BOOLEAN /\ acked \in BOOLEAN
    /\ phase \in {"start", "launching", "auth", "spinning", "cdwait", "viewwait",
                  "main", "quitting", "done"}
    /\ back \in {"start", "launching", "main", "quitting"}
    /\ status \in {"Launching", "Connected", "Terminated", "Failed"}
    /\ sock \in {"none", "server", "stray"}
    /\ ended \in {"no", "failed", "terminated", "answered", "timeout", "interrupted"}
    /\ server \in {"none", "starting", "auth", "greeting", "params", "parsing",
                   "serving", "flushing", "gone"}
    /\ heartbeats \in 0..MaxHeartbeats
    /\ data \in 0..MaxData
    /\ stray \in StrayKinds \cup {"none"}
    /\ backlog \in Seq({"server", "stray"})
    /\ challenge \in Nat /\ answer \in Nat /\ stdin \in Seq(Nat)
    /\ toServer \in Seq({"HEARTBEAT", "CHANGE_DIR", "INITIALIZE", "QUIT"})
    /\ toClient \in Seq({"VIEW", "CD_OK", "CD_FAILED", "DATA", "COMPLETE", "QUIT"})

\* A Client that calls itself connected talks to the server it launched
\* (listenerConnected's check of the number), whoever else has connected.
Authentic ==
    status = "Connected" /\ phase \notin {"auth", "spinning", "done"} => sock = "server"

\* While the destructor waits, the server's answer is still there to be read:
\* no other reader of the socket takes it.
NoStolenAnswer == phase = "quitting" /\ acked /\ ~ killed => Contains(toClient, "QUIT")

\* A Client that has given the server up leaves no server running: it is gone,
\* or the kill has reached the child.
TerminatedServerDown == status = "Terminated" => server = "gone" \/ killed

\* The Client has asked the server to quit, or a slot will return to where it has.
Leaving == \/ phase \in {"quitting", "done"}
           \/ phase \in {"auth", "spinning"} /\ back = "quitting"

\* main is past the launch, or a slot will return to where it is.
Launched == \/ phase \in {"cdwait", "viewwait", "main", "quitting"}
            \/ phase \in {"auth", "spinning"} /\ back \in {"main", "quitting"}

\* Why the properties hold: the messages of the quit are under way only after
\* they were sent for a reason, and the server's answer waits for the destructor.
IInv ==
    /\ TypeOK
    /\ Authentic
    /\ TerminatedServerDown
    /\ phase = "start" => status = "Launching" /\ server = "none"
    /\ phase \in {"auth", "spinning"} => back # "start"
    /\ Launched => status \in {"Connected", "Terminated"}
    /\ acked \/ Contains(toServer, "QUIT") => Leaving
    /\ Contains(toClient, "QUIT") => server \in {"flushing", "gone"}
    /\ Leaving /\ phase # "done" /\ acked /\ ~ killed => Contains(toClient, "QUIT")

\* A server that has not yet left its loop is killed only when the wait for
\* its answer is over or the handshake failed.
NoHastyKill ==
    [][~ killed /\ killed' => \/ server \in {"flushing", "gone"}
                              \/ ended' = "timeout"
                              \/ phase = "auth"]_vars

\* The states in which the Client waits and nothing will come: the handshake
\* has no timeout, a closed socket is never reported to check_socket, and the
\* view type was taken for the response to -d.
Hung ==
    \/ phase = "spinning"
    \/ phase = "auth" /\ sock = "stray" /\ stray = "silent"
    \/ phase \in {"cdwait", "viewwait"} /\ server = "gone" /\ toClient = << >>
    \/ /\ remoteDir /\ phase = "viewwait" /\ server = "params"
       /\ toClient = << >> /\ toServer = << >>

\* A Client that was launched shows its window or ends, or is caught in one of
\* the states of Hung.
OnlyKnownHangs == phase = "launching" ~> phase \in {"main", "done"} \/ Hung

\* The wait for the server's answer ends.
QuitEnds == phase = "quitting" ~> phase = "done" \/ Hung

\* No server outlives its Client, however the Client ended.
ServerExits == phase = "done" ~> server \in {"none", "gone"}

\* With -d, as without, the window is shown as long as the server is there.
DirectoryStartsUp == phase = "cdwait" ~> phase \in {"main", "done"} \/ server = "gone"
==============================================================================
