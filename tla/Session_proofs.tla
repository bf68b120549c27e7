---------------------------- MODULE Session_proofs ----------------------------
(* The Client talks only to the server it launched, leaves none running that it  *)
(* has given up, does not read past the answer to its quit and kills no server   *)
(* too early, whatever programs connect to its port.                             *)
EXTENDS Session, TLAPS

ServerMessages == {"HEARTBEAT", "CHANGE_DIR", "INITIALIZE", "QUIT"}
ClientMessages == {"VIEW", "CD_OK", "CD_FAILED", "DATA", "COMPLETE", "QUIT"}

\* The types of the choices, the two programs and the handshake, and of the messages.
StateTypes ==
    /\ remote \in BOOLEAN /\ remoteDir \in BOOLEAN /\ viewer \in BOOLEAN
    /\ killed \in BOOLEAN /\ acked \in BOOLEAN
    /\ phase \in {"start", "launching", "auth", "spinning", "cdwait", "viewwait",
                  "main", "quitting", "done"}
    /\ back \in {"start", "launching", "main", "quitting"}
    /\ status \in {"Launching", "Connected", "Terminated", "Failed"}
    /\ ended \in {"no", "failed", "terminated", "answered", "timeout", "interrupted"}
    /\ server \in {"none", "starting", "auth", "greeting", "params", "parsing",
                   "serving", "flushing", "gone"}
HandshakeTypes ==
    /\ sock \in {"none", "server", "stray"}
    /\ stray \in StrayKinds \cup {"none"}
    /\ backlog \in Seq({"server", "stray"})
    /\ challenge \in Nat /\ answer \in Nat /\ stdin \in Seq(Nat)
CounterTypes == heartbeats \in 0..MaxHeartbeats /\ data \in 0..MaxData
MessageTypes == toServer \in Seq(ServerMessages) /\ toClient \in Seq(ClientMessages)

------------------------------------------------------------------------------
(* Types. *)

LEMMA TypeParts ==
    TypeOK <=> StateTypes /\ HandshakeTypes /\ CounterTypes /\ MessageTypes
BY DEF TypeOK, StateTypes, HandshakeTypes, CounterTypes, MessageTypes, ServerMessages,
       ClientMessages

LEMMA QueueFacts ==
  ASSUME NEW S, NEW s \in Seq(S)
  PROVE  /\ \A e \in S : Append(s, e) \in Seq(S)
         /\ s # << >> => Tail(s) \in Seq(S) /\ Head(s) \in S
OBVIOUS

LEMMA StateTyped == ASSUME StateTypes, [Next]_vars PROVE StateTypes'
<1>1. CASE Launch \/ LaunchFails \/ AutoRead \/ Heartbeat
  BY <1>1 DEF StateTypes, Launch, LaunchFails, AutoRead, Heartbeat, Finish, choices,
     serverVars, clientVars
<1>2. CASE DrainQuit \/ QuitTimeout
  <2>1. CASE QuitTimeout
    BY <2>1 DEF StateTypes, QuitTimeout, Finish, Kill, choices
  <2>2. CASE DrainQuit /\ UNCHANGED <<phase, ended, killed, server>>
    BY <2>2 DEF StateTypes, DrainQuit, Drain, choices
  <2>3. CASE DrainQuit /\ Kill /\ Finish("answered")
    BY <2>3 DEF StateTypes, DrainQuit, Drain, Finish, Kill, choices
  <2>4. QED
    BY <1>2, <2>1, <2>2, <2>3 DEF DrainQuit, Drain
<1>3. CASE ClientStarts
  <2>1. CASE Accept \/ Recognise \/ Spin \/ Setup \/ OutputEnds
    BY <2>1 DEF StateTypes, Accept, EventLoop, Recognise, Spin, Setup, OutputEnds,
       choices, serverVars
  <2>2. CASE Refuse
    BY <2>2 DEF StateTypes, Refuse, Kill, choices
  <2>3. CASE NotConnected \/ CheckResponse \/ ReadViewType \/ ReadOther \/ GiveUp
    BY <2>3 DEF StateTypes, NotConnected, CheckResponse, ReadViewType, ReadOther, GiveUp,
       Finish, choices, serverVars, clientVars
  <2>4. QED
    BY <1>3, <2>1, <2>2, <2>3 DEF ClientStarts
<1>4. CASE ServerStep
  <2>1. CASE Connect \/ Answer \/ Greet \/ IgnoreMessage \/ ChangeDir \/ OpenInput
             \/ InputFails
    BY <2>1 DEF StateTypes, Connect, Answer, Greet, IgnoreMessage, ChangeDir, OpenInput,
       InputFails, ParamsLoop, choices, clientVars
  <2>2. CASE ServeMessage
    <3>1. UNCHANGED <<choices, clientVars>>
      BY <2>2 DEF ServeMessage
    <3>2. CASE Head(toServer) = "QUIT"
      BY <2>2, <3>1, <3>2 DEF StateTypes, ServeMessage, choices, clientVars
    <3>3. CASE Head(toServer) # "QUIT"
      BY <2>2, <3>1, <3>3 DEF StateTypes, ServeMessage, choices, clientVars
    <3>4. QED
      BY <3>2, <3>3
  <2>3. CASE SendData \/ DataComplete \/ ServerFindsLinkDown \/ Flushed
    BY <2>3 DEF StateTypes, SendData, DataComplete, ServerFindsLinkDown, Flushed,
       choices, clientVars
  <2>4. QED
    BY <1>4, <2>1, <2>2, <2>3 DEF ServerStep
<1>5. CASE Environment
  <2>1. CASE UserCloses \/ Interrupt
    BY <2>1 DEF StateTypes, UserCloses, Interrupt, Finish, choices, serverVars
  <2>2. CASE UserClosesTerminated
    BY <2>2 DEF StateTypes, UserClosesTerminated, Finish, Kill, choices
  <2>3. CASE Crash \/ StrayConnects
    BY <2>3 DEF StateTypes, Crash, StrayConnects, choices, serverVars, clientVars
  <2>4. QED
    BY <1>5, <2>1, <2>2, <2>3 DEF Environment
<1>6. CASE UNCHANGED vars
  BY <1>6 DEF StateTypes, vars, choices, serverVars, clientVars
<1>7. QED
  BY <1>1, <1>2, <1>3, <1>4, <1>5, <1>6 DEF Next

LEMMA HandshakeTyped == ASSUME HandshakeTypes, [Next]_vars PROVE HandshakeTypes'
<1>1. CASE Accept
  <2>1. /\ Tail(backlog) \in Seq({"server", "stray"})
        /\ Head(backlog) \in {"server", "stray"}
    BY <1>1, QueueFacts DEF Accept, HandshakeTypes
  <2>2. challenge + 1 \in Nat /\ Append(stdin, challenge + 1) \in Seq(Nat)
    BY QueueFacts DEF HandshakeTypes
  <2>3. QED
    BY <1>1, <2>1, <2>2 DEF Accept, HandshakeTypes
<1>2. CASE Connect \/ StrayConnects
  <2>1. /\ Append(backlog, "server") \in Seq({"server", "stray"})
        /\ Append(backlog, "stray") \in Seq({"server", "stray"})
    BY QueueFacts DEF HandshakeTypes
  <2>2. QED
    BY <1>2, <2>1 DEF Connect, StrayConnects, HandshakeTypes, clientVars
<1>3. CASE Answer
  <2>1. Tail(stdin) \in Seq(Nat) /\ Head(stdin) \in Nat
    BY <1>3, QueueFacts DEF Answer, HandshakeTypes
  <2>2. QED
    BY <1>3, <2>1 DEF Answer, HandshakeTypes, clientVars
<1>4. CASE Launch \/ LaunchFails \/ AutoRead \/ Heartbeat \/ DrainQuit \/ QuitTimeout
  BY <1>4 DEF HandshakeTypes, Launch, LaunchFails, AutoRead, Heartbeat, DrainQuit, Drain,
     QuitTimeout, clientVars, handshake
<1>5. CASE ClientStarts /\ ~ Accept
  BY <1>5 DEF HandshakeTypes, ClientStarts, Recognise, Refuse, Spin, NotConnected, Setup,
     CheckResponse, ReadViewType, ReadOther, GiveUp, OutputEnds, clientVars, handshake
<1>6. CASE ServerStep /\ ~ Connect /\ ~ Answer
  BY <1>6 DEF HandshakeTypes, ServerStep, Greet, IgnoreMessage, ChangeDir, OpenInput,
     InputFails, ParamsLoop, SendData, DataComplete, ServeMessage, ServerFindsLinkDown,
     Flushed, clientVars, handshake
<1>7. CASE Environment /\ ~ StrayConnects
  BY <1>7 DEF HandshakeTypes, Environment, UserCloses, UserClosesTerminated, Interrupt,
     Crash, clientVars, handshake
<1>8. CASE UNCHANGED vars
  BY <1>8 DEF HandshakeTypes, vars, clientVars, handshake
<1>9. QED
  BY <1>1, <1>2, <1>3, <1>4, <1>5, <1>6, <1>7, <1>8 DEF Next, ClientStarts, ServerStep,
     Environment

LEMMA CountersTyped == ASSUME CounterTypes, [Next]_vars PROVE CounterTypes'
<1> USE SessionAssumption DEF SessionAssumption
<1>1. CASE Heartbeat
  BY <1>1 DEF CounterTypes, Heartbeat, serverVars
<1>2. CASE SendData
  BY <1>2 DEF CounterTypes, SendData, clientVars
<1>3. CASE Launch \/ LaunchFails \/ AutoRead \/ DrainQuit \/ QuitTimeout
  BY <1>3 DEF CounterTypes, Launch, LaunchFails, AutoRead, DrainQuit, Drain, QuitTimeout,
     serverVars, clientVars
<1>4. CASE ClientStarts
  BY <1>4 DEF CounterTypes, ClientStarts, Accept, Recognise, Refuse, Spin, NotConnected,
     Setup, CheckResponse, ReadViewType, ReadOther, GiveUp, OutputEnds, serverVars,
     clientVars
<1>5. CASE ServerStep /\ ~ SendData
  BY <1>5 DEF CounterTypes, ServerStep, Connect, Answer, Greet, IgnoreMessage, ChangeDir,
     OpenInput, InputFails, ParamsLoop, DataComplete, ServeMessage, ServerFindsLinkDown,
     Flushed, serverVars, clientVars
<1>6. CASE Environment
  BY <1>6 DEF CounterTypes, Environment, UserCloses, UserClosesTerminated, Interrupt,
     Crash, StrayConnects, serverVars, clientVars
<1>7. CASE UNCHANGED vars
  BY <1>7 DEF CounterTypes, vars, serverVars, clientVars
<1>8. QED
  BY <1>1, <1>2, <1>3, <1>4, <1>5, <1>6, <1>7 DEF Next, ServerStep

LEMMA MessagesTyped == ASSUME MessageTypes, [Next]_vars PROVE MessageTypes'
<1> USE DEF MessageTypes
<1>1. ASSUME NEW m \in ClientMessages, Send(m)
      PROVE  toClient' \in Seq(ClientMessages)
  BY <1>1, QueueFacts DEF Send
<1>2. ASSUME NEW m \in ServerMessages
      PROVE  Append(toServer, m) \in Seq(ServerMessages)
  BY QueueFacts
<1>3. toServer # << >> => Tail(toServer) \in Seq(ServerMessages)
  BY QueueFacts
<1>4. toClient # << >> => Tail(toClient) \in Seq(ClientMessages)
  BY QueueFacts
<1>5. CASE Setup
  <2>1. /\ toServer \o <<"HEARTBEAT", "CHANGE_DIR">> \in Seq(ServerMessages)
        /\ toServer \o <<"HEARTBEAT">> \in Seq(ServerMessages)
    BY DEF ServerMessages
  <2>2. QED
    BY <1>5, <2>1 DEF Setup
<1>6. CASE GiveUp \/ ReadViewType \/ ReadOther \/ CheckResponse
  <2>1. toServer' \in Seq(ServerMessages)
    BY <1>2, <1>6 DEF GiveUp, ReadViewType, ReadOther, CheckResponse, ServerMessages
  <2>2. toClient' \in Seq(ClientMessages)
    BY <1>4, <1>6 DEF GiveUp, ReadViewType, ReadOther, CheckResponse, CheckSocket
  <2>3. QED
    BY <2>1, <2>2
<1>7. CASE AutoRead \/ DrainQuit
  BY <1>4, <1>7 DEF AutoRead, DrainQuit, Drain
<1>8. CASE Heartbeat \/ UserCloses
  BY <1>2, <1>8 DEF Heartbeat, UserCloses, ServerMessages
<1>9. CASE Greet \/ SendData \/ DataComplete
  BY <1>1, <1>9 DEF Greet, SendData, DataComplete, ClientMessages
<1>10. CASE ChangeDir \/ InputFails \/ IgnoreMessage \/ OpenInput
  BY <1>1, <1>3, <1>10 DEF ChangeDir, InputFails, IgnoreMessage, OpenInput, ParamsLoop,
     ClientMessages
<1>11. CASE ServeMessage
  BY <1>1, <1>3, <1>11 DEF ServeMessage, ClientMessages
<1>12. CASE Launch \/ LaunchFails \/ QuitTimeout \/ Accept \/ Recognise \/ Refuse
            \/ Spin \/ NotConnected \/ OutputEnds
  BY <1>12 DEF Launch, LaunchFails, QuitTimeout, Accept, Recognise, Refuse, Spin,
     NotConnected, OutputEnds
<1>13. CASE Connect \/ Answer \/ ServerFindsLinkDown \/ Flushed
            \/ UserClosesTerminated \/ Interrupt \/ Crash \/ StrayConnects
  BY <1>13 DEF Connect, Answer, ServerFindsLinkDown, Flushed, UserClosesTerminated,
     Interrupt, Crash, StrayConnects
<1>14. CASE UNCHANGED vars
  BY <1>14 DEF vars
<1>15. QED
  BY <1>5, <1>6, <1>7, <1>8, <1>9, <1>10, <1>11, <1>12, <1>13, <1>14 DEF Next,
     ClientStarts, ServerStep, Environment

LEMMA Typed == ASSUME TypeOK, [Next]_vars PROVE TypeOK'
<1>1. StateTypes' /\ HandshakeTypes' /\ CounterTypes' /\ MessageTypes'
  BY TypeParts, StateTyped, HandshakeTyped, CountersTyped, MessagesTyped
<1>2. QED
  BY <1>1 DEF TypeOK, StateTypes, HandshakeTypes, CounterTypes, MessageTypes,
     ServerMessages, ClientMessages

------------------------------------------------------------------------------
(* Where the Client is, what it takes the server for, and where the server is. *)

\* The parts of IInv that no message matters to.
Control ==
    /\ Authentic
    /\ TerminatedServerDown
    /\ phase = "start" => status = "Launching" /\ server = "none"
    /\ phase \in {"auth", "spinning"} => back # "start"
    /\ Launched => status \in {"Connected", "Terminated"}

LEMMA ControlKept == ASSUME StateTypes, Control, [Next]_vars PROVE Control'
<1> USE DEF Control, Authentic, TerminatedServerDown, Launched
<1>1. CASE Launch
  BY <1>1 DEF Launch
<1>2. CASE LaunchFails
  BY <1>2 DEF LaunchFails, Finish
<1>3. CASE Accept
  BY <1>3 DEF Accept, EventLoop, serverVars
<1>4. CASE Recognise
  BY <1>4 DEF Recognise, serverVars, StateTypes
<1>5. CASE Refuse
  BY <1>5 DEF Refuse, Kill, StateTypes
<1>6. CASE Spin
  BY <1>6 DEF Spin, serverVars
<1>7. CASE NotConnected
  BY <1>7 DEF NotConnected, Finish, serverVars
<1>8. CASE Setup
  BY <1>8 DEF Setup, serverVars
<1>9. CASE CheckResponse \/ ReadViewType \/ ReadOther \/ GiveUp
  BY <1>9 DEF CheckResponse, ReadViewType, ReadOther, GiveUp, CheckSocket, serverVars,
     clientVars
<1>10. CASE OutputEnds
  BY <1>10 DEF OutputEnds, serverVars
<1>11. CASE AutoRead \/ Heartbeat \/ UserCloses
  BY <1>11 DEF AutoRead, Heartbeat, UserCloses, serverVars, clientVars
<1>12. CASE DrainQuit \/ QuitTimeout
  BY <1>12 DEF DrainQuit, Drain, QuitTimeout, Finish, Kill
<1>13. CASE UserClosesTerminated
  BY <1>13 DEF UserClosesTerminated, Finish, Kill
<1>14. CASE Interrupt
  BY <1>14 DEF Interrupt, Finish, serverVars
<1>15. CASE Connect \/ Answer \/ Greet \/ IgnoreMessage \/ ChangeDir \/ OpenInput
            \/ InputFails
  BY <1>15 DEF Connect, Answer, Greet, IgnoreMessage, ChangeDir, OpenInput, InputFails,
     ParamsLoop, clientVars
<1>16. CASE SendData \/ DataComplete \/ ServeMessage \/ ServerFindsLinkDown \/ Flushed
  BY <1>16 DEF SendData, DataComplete, ServeMessage, ServerFindsLinkDown, Flushed,
     clientVars
<1>17. CASE Crash \/ StrayConnects
  BY <1>17 DEF Crash, StrayConnects, clientVars, serverVars
<1>18. CASE UNCHANGED vars
  BY <1>18 DEF vars, clientVars, serverVars
<1>19. QED
  BY <1>1, <1>2, <1>3, <1>4, <1>5, <1>6, <1>7, <1>8, <1>9, <1>10, <1>11, <1>12, <1>13,
     <1>14, <1>15, <1>16, <1>17, <1>18 DEF Next, ClientStarts, ServerStep, Environment

------------------------------------------------------------------------------
(* The messages of the quit. *)

LEMMA ContainsAppend ==
  ASSUME NEW S, NEW s \in Seq(S), NEW e \in S, NEW x
  PROVE  Contains(Append(s, e), x) <=> Contains(s, x) \/ e = x
<1>1. /\ Len(Append(s, e)) = Len(s) + 1 /\ Len(s) \in Nat
      /\ \A i \in 1..Len(s) : Append(s, e)[i] = s[i]
      /\ Append(s, e)[Len(s) + 1] = e
  OBVIOUS
<1>2. 1..(Len(s) + 1) = 1..Len(s) \cup {Len(s) + 1}
  BY <1>1
<1>3. QED
  BY <1>1, <1>2 DEF Contains

LEMMA ContainsTail ==
  ASSUME NEW S, NEW s \in Seq(S), s # << >>, NEW x
  PROVE  Contains(s, x) <=> Head(s) = x \/ Contains(Tail(s), x)
<1>1. /\ Len(Tail(s)) = Len(s) - 1 /\ Len(s) \in Nat \ {0}
      /\ \A i \in 1..Len(Tail(s)) : Tail(s)[i] = s[i + 1]
      /\ Head(s) = s[1]
  OBVIOUS
<1>2. ASSUME NEW i \in 1..Len(s), s[i] = x
      PROVE  Head(s) = x \/ Contains(Tail(s), x)
  <2>1. CASE i = 1
    BY <1>1, <1>2, <2>1
  <2>2. CASE i # 1
    <3>1. i - 1 \in 1..Len(Tail(s)) /\ Tail(s)[i - 1] = x
      BY <1>1, <1>2, <2>2
    <3>2. QED
      BY <3>1 DEF Contains
  <2>3. QED
    BY <2>1, <2>2
<1>3. ASSUME NEW i \in 1..Len(Tail(s)), Tail(s)[i] = x
      PROVE  Contains(s, x)
  <2>1. i + 1 \in 1..Len(s) /\ s[i + 1] = x
    BY <1>1, <1>3
  <2>2. QED
    BY <2>1 DEF Contains
<1>4. Head(s) = x => Contains(s, x)
  BY <1>1 DEF Contains
<1>5. QED
  BY <1>2, <1>3, <1>4 DEF Contains

\* The parts of IInv about the messages of the quit.
QuitAsked == acked \/ Contains(toServer, "QUIT") => Leaving
AnswerSent == Contains(toClient, "QUIT") => server \in {"flushing", "gone"}
AnswerUnread ==
    Leaving /\ phase # "done" /\ acked /\ ~ killed => Contains(toClient, "QUIT")

\* GUI_SAYS_QUIT is sent by a Client that waits for the answer from then on.
LEMMA QuitAskedKept ==
  ASSUME StateTypes, MessageTypes, Control, QuitAsked, [Next]_vars
  PROVE  QuitAsked'
<1> USE DEF QuitAsked, Leaving
<1>1. ASSUME toServer # << >>, toServer' = Tail(toServer)
      PROVE  /\ Contains(toServer', "QUIT") => Contains(toServer, "QUIT")
             /\ Head(toServer) = "QUIT" => Contains(toServer, "QUIT")
  BY <1>1, ContainsTail DEF MessageTypes
<1>2. ASSUME NEW m \in ServerMessages \ {"QUIT"}, NEW s \in Seq(ServerMessages)
      PROVE  Contains(Append(s, m), "QUIT") => Contains(s, "QUIT")
  BY <1>2, ContainsAppend
<1>3. CASE Setup
  <2>1. toServer \o <<"HEARTBEAT">> = Append(toServer, "HEARTBEAT")
    BY DEF MessageTypes
  <2>2. toServer \o <<"HEARTBEAT", "CHANGE_DIR">>
          = Append(Append(toServer, "HEARTBEAT"), "CHANGE_DIR")
    BY DEF MessageTypes, ServerMessages
  <2>3. Append(toServer, "HEARTBEAT") \in Seq(ServerMessages)
    BY QueueFacts DEF MessageTypes, ServerMessages
  <2>4. Contains(toServer', "QUIT") => Contains(toServer, "QUIT")
    BY <1>2, <1>3, <2>1, <2>2, <2>3 DEF Setup, MessageTypes, ServerMessages
  <2>5. QED
    BY <1>3, <2>4 DEF Setup, serverVars
<1>4. CASE ReadViewType
  <2>1. Contains(toServer', "QUIT") => Contains(toServer, "QUIT")
    BY <1>2, <1>4 DEF ReadViewType, MessageTypes, ServerMessages
  <2>2. QED
    BY <1>4, <2>1 DEF ReadViewType, CheckSocket, serverVars
<1>5. CASE Heartbeat
  <2>1. Contains(toServer', "QUIT") => Contains(toServer, "QUIT")
    BY <1>2, <1>5 DEF Heartbeat, MessageTypes, ServerMessages
  <2>2. QED
    BY <1>5, <2>1 DEF Heartbeat, serverVars
<1>6. CASE GiveUp \/ UserCloses
  BY <1>6 DEF GiveUp, UserCloses
<1>7. CASE IgnoreMessage \/ ChangeDir \/ OpenInput \/ InputFails
  <2>1. Contains(toServer', "QUIT") => Contains(toServer, "QUIT")
    BY <1>1, <1>7 DEF IgnoreMessage, ChangeDir, OpenInput, InputFails, ParamsLoop
  <2>2. QED
    BY <1>7, <2>1 DEF IgnoreMessage, ChangeDir, OpenInput, InputFails, ParamsLoop,
       clientVars
<1>8. CASE ServeMessage
  <2>1. /\ Contains(toServer', "QUIT") => Contains(toServer, "QUIT")
        /\ Head(toServer) = "QUIT" => Contains(toServer, "QUIT")
    BY <1>1, <1>8 DEF ServeMessage
  <2>2. acked' = acked \/ Head(toServer) = "QUIT"
    BY <1>8 DEF ServeMessage
  <2>3. Leaving' <=> Leaving
    BY <1>8 DEF ServeMessage, clientVars
  <2>4. QED
    BY <2>1, <2>2, <2>3
<1>9. CASE Launch \/ LaunchFails \/ Accept \/ Recognise \/ Refuse \/ Spin
  BY <1>9 DEF Launch, LaunchFails, Accept, EventLoop, Recognise, Refuse, Spin, Finish,
     Kill, serverVars
<1>10. CASE NotConnected \/ CheckResponse \/ ReadOther \/ OutputEnds \/ AutoRead
  BY <1>10 DEF NotConnected, CheckResponse, ReadOther, OutputEnds, AutoRead, CheckSocket,
     Finish, serverVars, clientVars
<1>11. CASE DrainQuit \/ QuitTimeout \/ UserClosesTerminated \/ Interrupt
  BY <1>11 DEF DrainQuit, Drain, QuitTimeout, UserClosesTerminated, Interrupt, Finish,
     Kill, serverVars
<1>12. CASE Connect \/ Answer \/ Greet \/ SendData \/ DataComplete
  BY <1>12 DEF Connect, Answer, Greet, SendData, DataComplete, clientVars
<1>13. CASE ServerFindsLinkDown \/ Flushed \/ Crash \/ StrayConnects
  BY <1>13 DEF ServerFindsLinkDown, Flushed, Crash, StrayConnects, clientVars, serverVars
<1>14. CASE UNCHANGED vars
  BY <1>14 DEF vars, clientVars, serverVars
<1>15. QED
  BY <1>3, <1>4, <1>5, <1>6, <1>7, <1>8, <1>9, <1>10, <1>11, <1>12, <1>13, <1>14
     DEF Next, ClientStarts, ServerStep, Environment

\* DPCL_SAYS_QUIT is the last thing a server says.
LEMMA AnswerSentKept ==
  ASSUME StateTypes, MessageTypes, Control, AnswerSent, [Next]_vars
  PROVE  AnswerSent'
<1> USE DEF AnswerSent
<1>1. ASSUME toClient # << >>, toClient' = Tail(toClient)
      PROVE  Contains(toClient', "QUIT") => Contains(toClient, "QUIT")
  BY <1>1, ContainsTail DEF MessageTypes
<1>2. ASSUME NEW m \in ClientMessages \ {"QUIT"}, Send(m)
      PROVE  Contains(toClient', "QUIT") => Contains(toClient, "QUIT")
  BY <1>2, ContainsAppend DEF Send, MessageTypes
<1>3. CASE CheckResponse \/ ReadViewType \/ ReadOther \/ GiveUp \/ AutoRead
  BY <1>1, <1>3 DEF CheckResponse, ReadViewType, ReadOther, GiveUp, AutoRead, CheckSocket,
     serverVars
<1>4. CASE DrainQuit
  <2>1. Contains(toClient', "QUIT") => Contains(toClient, "QUIT")
    BY <1>1, <1>4 DEF DrainQuit, Drain
  <2>2. server' = server \/ server' = "gone"
    BY <1>4 DEF DrainQuit, Drain, Kill
  <2>3. QED
    BY <2>1, <2>2
<1>5. CASE Refuse \/ QuitTimeout \/ UserClosesTerminated
  BY <1>5 DEF Refuse, QuitTimeout, UserClosesTerminated, Kill
<1>6. CASE Launch
  BY <1>6 DEF Launch, Control
<1>7. CASE LaunchFails \/ Accept \/ Recognise \/ Spin \/ NotConnected \/ Setup
           \/ OutputEnds \/ Heartbeat \/ UserCloses \/ Interrupt
  BY <1>7 DEF LaunchFails, Accept, Recognise, Spin, NotConnected, Setup, OutputEnds,
     Heartbeat, UserCloses, Interrupt, serverVars
<1>8. CASE Greet \/ ChangeDir \/ SendData \/ DataComplete
  <2>1. Contains(toClient', "QUIT") => Contains(toClient, "QUIT")
    BY <1>2, <1>8 DEF Greet, ChangeDir, SendData, DataComplete, ClientMessages
  <2>2. server \notin {"flushing", "gone"}
    BY <1>8 DEF Greet, ChangeDir, ParamsLoop, SendData, DataComplete
  <2>3. QED
    BY <2>1, <2>2
<1>9. CASE ServeMessage
  BY <1>9 DEF ServeMessage
<1>10. CASE Connect \/ Answer \/ IgnoreMessage \/ OpenInput \/ InputFails
  BY <1>10 DEF Connect, Answer, IgnoreMessage, OpenInput, InputFails, ParamsLoop
<1>11. CASE ServerFindsLinkDown \/ Flushed \/ Crash \/ StrayConnects
  BY <1>11 DEF ServerFindsLinkDown, Flushed, Crash, StrayConnects, serverVars
<1>12. CASE UNCHANGED vars
  BY <1>12 DEF vars, serverVars
<1>13. QED
  BY <1>3, <1>4, <1>5, <1>6, <1>7, <1>8, <1>9, <1>10, <1>11, <1>12 DEF Next,
     ClientStarts, ServerStep, Environment

\* Nobody but the destructor reads once the answer may be there.
LEMMA AnswerUnreadKept ==
  ASSUME StateTypes, MessageTypes, Control, QuitAsked, AnswerUnread, [Next]_vars
  PROVE  AnswerUnread'
<1> USE DEF AnswerUnread
<1>1. ASSUME NEW m \in ClientMessages, Send(m)
      PROVE  Contains(toClient, "QUIT") => Contains(toClient', "QUIT")
  BY <1>1, ContainsAppend DEF Send, MessageTypes
<1>2. CASE DrainQuit
  <2>1. CASE Head(toClient) = "QUIT"
    BY <1>2, <2>1 DEF DrainQuit, Drain, Kill
  <2>2. CASE Head(toClient) # "QUIT"
    <3>1. Contains(toClient, "QUIT") => Contains(toClient', "QUIT")
      BY <1>2, <2>2, ContainsTail DEF DrainQuit, Drain, MessageTypes
    <3>2. QED
      BY <1>2, <2>2, <3>1 DEF DrainQuit, Drain, Leaving
  <2>3. QED
    BY <2>1, <2>2
<1>3. CASE Refuse \/ QuitTimeout \/ UserClosesTerminated
  BY <1>3 DEF Refuse, QuitTimeout, UserClosesTerminated, Kill
<1>4. CASE LaunchFails \/ NotConnected \/ Interrupt
  BY <1>4 DEF LaunchFails, NotConnected, Interrupt, Finish
<1>5. CASE GiveUp \/ UserCloses
  <2>1. ~ Leaving
    BY <1>5 DEF GiveUp, UserCloses, CheckSocket, Leaving
  <2>2. ~ acked
    BY <2>1 DEF QuitAsked
  <2>3. QED
    BY <1>5, <2>2 DEF GiveUp, UserCloses, StateTypes, serverVars
<1>6. CASE Launch \/ Setup \/ CheckResponse \/ ReadViewType \/ ReadOther \/ AutoRead
  BY <1>6 DEF Launch, Setup, CheckResponse, ReadViewType, ReadOther, AutoRead,
     CheckSocket, Leaving, clientVars
<1>7. CASE Accept \/ Recognise \/ Spin
  BY <1>7 DEF Accept, EventLoop, Recognise, Spin, Leaving, serverVars, StateTypes
<1>8. CASE OutputEnds \/ Heartbeat
  BY <1>8 DEF OutputEnds, Heartbeat, Leaving, serverVars
<1>9. CASE Greet \/ ChangeDir \/ InputFails \/ SendData \/ DataComplete
  <2>1. Contains(toClient, "QUIT") => Contains(toClient', "QUIT")
    BY <1>1, <1>9 DEF Greet, ChangeDir, InputFails, SendData, DataComplete,
       ClientMessages
  <2>2. QED
    BY <1>9, <2>1 DEF Greet, ChangeDir, InputFails, ParamsLoop, SendData, DataComplete,
       Leaving, clientVars
<1>10. CASE ServeMessage
  <2>1. CASE Head(toServer) = "QUIT"
    <3>1. ~ LinkDown => Contains(toClient', "QUIT")
      <4>1. ~ LinkDown => toClient' = Append(toClient, "QUIT")
        BY <1>10, <2>1 DEF ServeMessage, Send
      <4>2. Contains(Append(toClient, "QUIT"), "QUIT")
        BY ContainsAppend DEF MessageTypes, ClientMessages
      <4>3. QED
        BY <4>1, <4>2
    <3>2. QED
      BY <1>10, <3>1 DEF ServeMessage, LinkDown, Leaving, clientVars
  <2>2. CASE Head(toServer) # "QUIT"
    BY <1>10, <2>2 DEF ServeMessage, Leaving, clientVars
  <2>3. QED
    BY <2>1, <2>2
<1>11. CASE Connect \/ Answer \/ IgnoreMessage \/ OpenInput
  BY <1>11 DEF Connect, Answer, IgnoreMessage, OpenInput, ParamsLoop, Leaving, clientVars
<1>12. CASE ServerFindsLinkDown \/ Flushed \/ Crash \/ StrayConnects
  BY <1>12 DEF ServerFindsLinkDown, Flushed, Crash, StrayConnects, Leaving, clientVars,
     serverVars
<1>13. CASE UNCHANGED vars
  BY <1>13 DEF vars, Leaving, clientVars, serverVars
<1>14. QED
  BY <1>2, <1>3, <1>4, <1>5, <1>6, <1>7, <1>8, <1>9, <1>10, <1>11, <1>12, <1>13
     DEF Next, ClientStarts, ServerStep, Environment

------------------------------------------------------------------------------
(* The invariant. *)

LEMMA Parts ==
    IInv <=> TypeOK /\ Control /\ QuitAsked /\ AnswerSent /\ AnswerUnread
BY DEF IInv, Control, QuitAsked, AnswerSent, AnswerUnread

LEMMA InitIInv == ASSUME Init PROVE IInv
<1> USE SessionAssumption DEF SessionAssumption
<1>1. StateTypes /\ HandshakeTypes /\ CounterTypes /\ MessageTypes
  <2>1. StateTypes
    BY DEF Init, StateTypes
  <2>2. << >> \in Seq({"server", "stray"}) /\ << >> \in Seq(Nat)
    OBVIOUS
  <2>3. HandshakeTypes
    BY <2>2 DEF Init, HandshakeTypes
  <2>4. CounterTypes /\ MessageTypes
    BY DEF Init, CounterTypes, MessageTypes
  <2>5. QED
    BY <2>1, <2>3, <2>4
<1>2. Control
  BY DEF Init, Control, Authentic, TerminatedServerDown, Launched
<1>3. ~ Contains(toServer, "QUIT") /\ ~ Contains(toClient, "QUIT")
  BY DEF Init, Contains
<1>4. QuitAsked /\ AnswerSent /\ AnswerUnread
  BY <1>3 DEF Init, QuitAsked, AnswerSent, AnswerUnread
<1>5. QED
  BY <1>1, <1>2, <1>4, TypeParts, Parts

LEMMA NextIInv == ASSUME IInv, [Next]_vars PROVE IInv'
<1>1. StateTypes /\ MessageTypes /\ TypeOK'
  BY Parts, TypeParts, Typed
<1>2. Control' /\ QuitAsked' /\ AnswerSent' /\ AnswerUnread'
  BY <1>1, Parts, ControlKept, QuitAskedKept, AnswerSentKept, AnswerUnreadKept
<1>3. QED
  BY <1>1, <1>2 DEF IInv, Control, QuitAsked, AnswerSent, AnswerUnread

\* The invariant holds for any strays and any number of heartbeats and pieces
\* of data.
THEOREM Invariance == Spec => []IInv
<1>1. QED
  BY InitIInv, NextIInv, PTL DEF Spec

\* A Client that calls itself connected talks to the server it launched: the
\* check of the number in listenerConnected lets no other program through.
THEOREM Authenticity == Spec => []Authentic
<1>1. IInv => Authentic
  BY DEF IInv
<1>2. QED
  BY <1>1, Invariance, PTL

\* A Client that has given the server up leaves no server running.
THEOREM TerminatedIsDown == Spec => []TerminatedServerDown
<1>1. IInv => TerminatedServerDown
  BY DEF IInv
<1>2. QED
  BY <1>1, Invariance, PTL

\* No reader but the destructor takes the server's answer to GUI_SAYS_QUIT.
THEOREM AnswerNotStolen == Spec => []NoStolenAnswer
<1>1. IInv => NoStolenAnswer
  BY DEF IInv, NoStolenAnswer, Leaving
<1>2. QED
  BY <1>1, Invariance, PTL

LEMMA KilledLate ==
  ASSUME IInv, [Next]_vars, ~ killed, killed'
  PROVE  server \in {"flushing", "gone"} \/ ended' = "timeout" \/ phase = "auth"
<1>1. CASE Refuse
  BY <1>1 DEF Refuse
<1>2. CASE QuitTimeout
  BY <1>2 DEF QuitTimeout, Finish
<1>3. CASE UserClosesTerminated
  <2>1. status = "Terminated"
    BY <1>3 DEF UserClosesTerminated, IInv, Launched
  <2>2. QED
    BY <2>1 DEF IInv, TerminatedServerDown
<1>4. CASE DrainQuit
  <2>1. toClient # << >> /\ Head(toClient) = "QUIT"
    BY <1>4 DEF DrainQuit, Drain
  <2>2. Contains(toClient, "QUIT")
    BY <2>1, Parts, TypeParts, ContainsTail DEF MessageTypes
  <2>3. QED
    BY <2>2 DEF IInv
<1>5. CASE Launch \/ LaunchFails \/ AutoRead \/ Heartbeat \/ UserCloses \/ Interrupt
           \/ Crash \/ StrayConnects
  BY <1>5 DEF Launch, LaunchFails, AutoRead, Heartbeat, UserCloses, Interrupt, Crash,
     StrayConnects, clientVars
<1>6. CASE ClientStarts /\ ~ Refuse
  BY <1>6 DEF ClientStarts, Accept, Recognise, Spin, NotConnected, Setup, CheckResponse,
     ReadViewType, ReadOther, GiveUp, OutputEnds, clientVars
<1>7. CASE ServerStep
  BY <1>7 DEF ServerStep, Connect, Answer, Greet, IgnoreMessage, ChangeDir, OpenInput,
     InputFails, ParamsLoop, SendData, DataComplete, ServeMessage, ServerFindsLinkDown,
     Flushed, clientVars
<1>8. CASE UNCHANGED vars
  BY <1>8 DEF vars, clientVars
<1>9. QED
  BY <1>1, <1>2, <1>3, <1>4, <1>5, <1>6, <1>7, <1>8 DEF Next, ClientStarts, Environment

\* A server that has not left its loop is killed only when the wait for its
\* answer is over or the handshake failed: the destructor's kill comes last.
THEOREM KillsLate == Spec => NoHastyKill
<1>1. IInv /\ [Next]_vars =>
        [~ killed /\ killed' => \/ server \in {"flushing", "gone"}
                                \/ ended' = "timeout"
                                \/ phase = "auth"]_vars
  BY KilledLate
<1>2. QED
  BY <1>1, Invariance, PTL DEF Spec, NoHastyKill
==============================================================================
