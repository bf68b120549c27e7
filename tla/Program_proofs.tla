----------------------------- MODULE Program_proofs -----------------------------
(* For any number of processes: the target program is started only when          *)
(* startup_cb has finished with it, a program that stands still is reported, and  *)
(* one that has ended cannot be asked for.                                        *)
EXTENDS Program, FiniteSetTheorems, TLAPS

------------------------------------------------------------------------------
(* Queues. *)

LEMMA AppendFacts ==
  ASSUME NEW S, NEW s \in Seq(S), NEW e \in S
  PROVE  /\ Append(s, e) \in Seq(S)
         /\ Len(Append(s, e)) = Len(s) + 1
         /\ \A i \in 1..Len(s) : Append(s, e)[i] = s[i]
         /\ Append(s, e)[Len(s) + 1] = e
OBVIOUS

LEMMA TailFacts ==
  ASSUME NEW S, NEW s \in Seq(S), s # << >>
  PROVE  /\ Tail(s) \in Seq(S)
         /\ Len(Tail(s)) = Len(s) - 1
         /\ \A i \in 1..Len(Tail(s)) : Tail(s)[i] = s[i + 1] /\ i + 1 \in 1..Len(s)
         /\ Head(s) = s[1] /\ 1 \in 1..Len(s)
OBVIOUS

\* What every element of a queue has, every element of its rest has.
LEMMA AnswersTail ==
  ASSUME toClient \in Seq(Answers), toClient # << >>, toClient' = Tail(toClient),
         AnswersSound, app' = app
  PROVE  AnswersSound' /\ toClient' \in Seq(Answers)
<1>1. /\ toClient' \in Seq(Answers)
      /\ \A i \in 1..Len(toClient') :
            toClient'[i] = toClient[i + 1] /\ i + 1 \in 1..Len(toClient)
  BY TailFacts
<1>2. QED
  BY <1>1 DEF AnswersSound

LEMMA AnswersAppend ==
  ASSUME toClient \in Seq(Answers), NEW m \in Answers, toClient' = Append(toClient, m),
         AnswersSound, app' = app \/ app # "ready",
         m \in {"INIT_OK", "HALTED", "TERMINATED"} => app' = "ready"
  PROVE  AnswersSound' /\ toClient' \in Seq(Answers)
<1>1. /\ toClient' \in Seq(Answers)
      /\ Len(toClient') = Len(toClient) + 1
      /\ \A i \in 1..Len(toClient) : toClient'[i] = toClient[i]
      /\ toClient'[Len(toClient) + 1] = m
  BY AppendFacts
<1>2. ASSUME NEW i \in 1..Len(toClient'),
             toClient'[i] \in {"INIT_OK", "HALTED", "TERMINATED"}
      PROVE  app' = "ready"
  <2>1. CASE i = Len(toClient) + 1
    BY <1>1, <1>2, <2>1
  <2>2. CASE i # Len(toClient) + 1
    <3>1. i \in 1..Len(toClient)
      BY <1>1, <2>2
    <3>2. app = "ready"
      BY <1>1, <1>2, <3>1 DEF AnswersSound
    <3>3. QED
      BY <3>2
  <2>3. QED
    BY <2>1, <2>2
<1>3. QED
  BY <1>1, <1>2 DEF AnswersSound

LEMMA RequestsAppend ==
  ASSUME toCollector \in Seq(Requests), NEW m \in Requests \ {"INITIALIZE"},
         toCollector' = Append(toCollector, m), RequestsSound, app' = app,
         m \in {"START", "STOP"} => app = "ready"
  PROVE  RequestsSound' /\ toCollector' \in Seq(Requests)
<1>1. /\ toCollector' \in Seq(Requests)
      /\ Len(toCollector') = Len(toCollector) + 1
      /\ \A i \in 1..Len(toCollector) : toCollector'[i] = toCollector[i]
      /\ toCollector'[Len(toCollector) + 1] = m
  BY AppendFacts
<1>2. ASSUME NEW i \in 1..Len(toCollector')
      PROVE  /\ toCollector'[i] = "INITIALIZE" => i = 1 /\ app = "none"
             /\ toCollector'[i] \in {"START", "STOP"} => app = "ready"
  <2>1. CASE i = Len(toCollector) + 1
    BY <1>1, <2>1
  <2>2. CASE i # Len(toCollector) + 1
    <3>1. i \in 1..Len(toCollector)
      BY <1>1, <2>2
    <3>2. QED
      BY <1>1, <3>1 DEF RequestsSound
  <2>3. QED
    BY <2>1, <2>2
<1>3. QED
  BY <1>1, <1>2 DEF RequestsSound

\* Taking a request leaves no INITIALIZE behind: it can only be the first.
LEMMA RequestsTail ==
  ASSUME toCollector \in Seq(Requests), toCollector # << >>,
         toCollector' = Tail(toCollector), RequestsSound,
         app' = app \/ app # "ready"
  PROVE  RequestsSound' /\ toCollector' \in Seq(Requests)
<1>1. /\ toCollector' \in Seq(Requests)
      /\ \A i \in 1..Len(toCollector') :
            toCollector'[i] = toCollector[i + 1] /\ i + 1 \in 1..Len(toCollector)
  BY TailFacts
<1>2. ASSUME NEW i \in 1..Len(toCollector')
      PROVE  /\ toCollector'[i] # "INITIALIZE"
             /\ toCollector'[i] \in {"START", "STOP"} => app' = "ready"
  <2>1. toCollector'[i] = toCollector[i + 1] /\ i + 1 \in 1..Len(toCollector)
    BY <1>1
  <2>2. i + 1 # 1
    BY <1>1
  <2>3. toCollector[i + 1] # "INITIALIZE"
    BY <2>1, <2>2 DEF RequestsSound
  <2>4. toCollector[i + 1] \in {"START", "STOP"} => app = "ready"
    BY <2>1 DEF RequestsSound
  <2>5. QED
    BY <2>1, <2>3, <2>4
<1>3. QED
  BY <1>1, <1>2 DEF RequestsSound

LEMMA QueuesSame ==
  ASSUME RequestsSound, AnswersSound,
         app' = app \/ app \notin {"none", "ready"}
  PROVE  /\ toCollector' = toCollector => RequestsSound'
         /\ toClient' = toClient => AnswersSound'
<1>1. ASSUME toCollector' = toCollector
      PROVE  RequestsSound'
  BY <1>1 DEF RequestsSound
<1>2. ASSUME toClient' = toClient
      PROVE  AnswersSound'
  BY <1>2 DEF AnswersSound
<1>3. QED
  BY <1>1, <1>2

------------------------------------------------------------------------------
(* The Client. *)

LEMMA PressSound == Sound /\ Press => Sound'
<1> SUFFICES ASSUME Sound, Press
             PROVE  Sound'
  OBVIOUS
<1>1. TypeOK /\ RequestsSound /\ AnswersSound /\ ButtonSound /\ ProcessesSound
  BY DEF Sound
<1>2. /\ app' = app /\ proc' = proc /\ callbacks' = callbacks
      /\ toClient' = toClient /\ enabled' = enabled /\ hits' = hits
      /\ quitting' = quitting /\ hasrun' = hasrun /\ collector' = collector
      /\ process_count' = process_count /\ presses' = presses + 1
  BY DEF Press, collectorVars, processVars
<1>3. app = "ready"
  BY <1>1 DEF Press, ButtonSound
<1>4. PICK m \in {"START", "STOP"} : toCollector' = Append(toCollector, m)
  BY DEF Press, startStopProgram
<1>5. activity' \in Activities /\ runButton' \in ButtonStates
  BY DEF Press, startStopProgram, Activities, ButtonStates
<1>6. RequestsSound' /\ toCollector' \in Seq(Requests)
  <2>1. m \in Requests \ {"INITIALIZE"}
    BY DEF Requests
  <2>2. toCollector \in Seq(Requests)
    BY <1>1 DEF TypeOK
  <2>3. QED
    BY <1>1, <1>2, <1>3, <1>4, <2>1, <2>2, RequestsAppend
<1>7. AnswersSound'
  BY <1>1, <1>2, QueuesSame
<1>8. ButtonSound' /\ ProcessesSound'
  BY <1>1, <1>2, <1>3 DEF ButtonSound, ProcessesSound
<1>9. TypeOK'
  BY <1>1, <1>2, <1>5, <1>6 DEF TypeOK
<1>10. QED
  BY <1>6, <1>7, <1>8, <1>9 DEF Sound

LEMMA WindowSound == Sound /\ menuCloneViewer => Sound'
<1> SUFFICES ASSUME Sound, menuCloneViewer
             PROVE  Sound'
  OBVIOUS
<1>1. TypeOK /\ RequestsSound /\ AnswersSound /\ ButtonSound /\ ProcessesSound
  BY DEF Sound
<1>2. /\ app' = app /\ proc' = proc /\ callbacks' = callbacks /\ hits' = hits
      /\ toClient' = toClient /\ toCollector' = toCollector
      /\ quitting' = quitting /\ hasrun' = hasrun /\ collector' = collector
      /\ process_count' = process_count /\ presses' = presses
      /\ activity' = activity /\ runButton' = runButton
  BY DEF menuCloneViewer, collectorVars, processVars, messages
<1>3. enabled' \in BOOLEAN
  BY DEF menuCloneViewer
<1>4. enabled' => enabled \/ runButton # "DISABLED"
  BY DEF menuCloneViewer
<1>5. ButtonSound'
  BY <1>1, <1>2, <1>4, Zenon DEF ButtonSound
<1>6. RequestsSound' /\ AnswersSound' /\ ProcessesSound'
  BY <1>1, <1>2, QueuesSame DEF ProcessesSound
<1>7. TypeOK'
  BY <1>1, <1>2, <1>3 DEF TypeOK
<1>8. QED
  BY <1>5, <1>6, <1>7 DEF Sound

LEMMA QuitSound == Sound /\ Quit => Sound'
<1> SUFFICES ASSUME Sound, Quit
             PROVE  Sound'
  OBVIOUS
<1>1. TypeOK /\ RequestsSound /\ AnswersSound /\ ButtonSound /\ ProcessesSound
  BY DEF Sound
<1>2. /\ app' = app /\ proc' = proc /\ callbacks' = callbacks /\ hits' = hits
      /\ toClient' = toClient /\ toCollector' = Append(toCollector, "QUIT")
      /\ quitting' = TRUE /\ hasrun' = hasrun /\ collector' = collector
      /\ process_count' = process_count /\ presses' = presses
      /\ activity' = activity /\ runButton' = runButton /\ enabled' = enabled
  BY DEF Quit, collectorVars, processVars
<1>3. RequestsSound' /\ toCollector' \in Seq(Requests)
  <2>1. "QUIT" \in Requests \ {"INITIALIZE"} /\ "QUIT" \notin {"START", "STOP"}
    BY DEF Requests
  <2>2. toCollector \in Seq(Requests)
    BY <1>1 DEF TypeOK
  <2>3. QED
    BY <1>1, <1>2, <2>1, <2>2, RequestsAppend
<1>4. ButtonSound'
  BY <1>1, <1>2, Zenon DEF ButtonSound
<1>5. AnswersSound' /\ ProcessesSound'
  BY <1>1, <1>2, QueuesSame DEF ProcessesSound
<1>6. TypeOK'
  BY <1>1, <1>2, <1>3 DEF TypeOK
<1>7. QED
  BY <1>3, <1>4, <1>5, <1>6 DEF Sound

\* Every message read: the button becomes usable only by one that says that the
\* application is ready.
LEMMA ReceiveSound ==
  ASSUME Sound, NEW m, Receive(m),
         activity' \in Activities, runButton' \in ButtonStates, enabled' \in BOOLEAN,
         \/ runButton' = runButton /\ enabled' = enabled
         \/ m \in {"INIT_OK", "HALTED", "TERMINATED"}
  PROVE  Sound'
<1>1. TypeOK /\ RequestsSound /\ AnswersSound /\ ButtonSound /\ ProcessesSound
  BY DEF Sound
<1>2. /\ app' = app /\ proc' = proc /\ callbacks' = callbacks /\ hits' = hits
      /\ toCollector' = toCollector
      /\ quitting' = quitting /\ hasrun' = hasrun /\ collector' = collector
      /\ process_count' = process_count /\ presses' = presses
  BY DEF Receive, collectorVars, processVars
<1>3. toClient # << >> /\ Head(toClient) = m /\ toClient' = Tail(toClient)
  BY DEF Receive
<1>4. toClient \in Seq(Answers)
  BY <1>1 DEF TypeOK
<1>5. AnswersSound' /\ toClient' \in Seq(Answers)
  BY <1>1, <1>2, <1>3, <1>4, AnswersTail
<1>6. toClient[1] = m /\ 1 \in 1..Len(toClient)
  BY <1>3, <1>4, TailFacts
<1>7. m \in {"INIT_OK", "HALTED", "TERMINATED"} => app = "ready"
  BY <1>1, <1>6 DEF AnswersSound
<1>8. ButtonSound'
  BY <1>1, <1>2, <1>7, Zenon DEF ButtonSound
<1>9. RequestsSound' /\ ProcessesSound'
  BY <1>1, <1>2, QueuesSame DEF ProcessesSound
<1>10. TypeOK'
  BY <1>1, <1>2, <1>5 DEF TypeOK
<1>11. QED
  BY <1>5, <1>8, <1>9, <1>10 DEF Sound

------------------------------------------------------------------------------
(* The collector and the processes. *)

\* What every step of the collector that takes a request has in common.
LEMMA TakeFacts ==
  ASSUME TypeOK, RequestsSound, NEW m, Take(m), app' = app \/ app # "ready"
  PROVE  /\ RequestsSound' /\ toCollector' \in Seq(Requests)
         /\ m = "INITIALIZE" => app = "none"
         /\ m \in {"START", "STOP"} => app = "ready"
<1>1. toCollector \in Seq(Requests) /\ toCollector # << >>
  BY DEF Take, TypeOK
<1>2. Head(toCollector) = m /\ toCollector' = Tail(toCollector)
  BY DEF Take
<1>3. toCollector[1] = m /\ 1 \in 1..Len(toCollector)
  BY <1>1, <1>2, TailFacts
<1>4. RequestsSound' /\ toCollector' \in Seq(Requests)
  BY <1>1, <1>2, RequestsTail
<1>5. QED
  BY <1>3, <1>4 DEF RequestsSound

\* Before the application is ready the Client's side of the invariant says little,
\* and stays true while the Client does nothing.
LEMMA ClientSame ==
  ASSUME ButtonSound, UNCHANGED clientVars, app' = app \/ app # "ready"
  PROVE  ButtonSound'
<1>1. runButton' = runButton /\ enabled' = enabled
  BY DEF clientVars
<1>2. QED
  BY <1>1, Zenon DEF ButtonSound

LEMMA RunAppSound == Sound /\ (run_app \/ run_app_returns \/ run_app_error) => Sound'
<1> SUFFICES ASSUME Sound, run_app \/ run_app_returns \/ run_app_error
             PROVE  Sound'
  OBVIOUS
<1>1. TypeOK /\ RequestsSound /\ AnswersSound /\ ButtonSound /\ ProcessesSound
  BY DEF Sound
<1>2. /\ Take("INITIALIZE") /\ UNCHANGED clientVars
      /\ app' \in {"creating", "half"} /\ hasrun' = hasrun
      /\ process_count' = process_count /\ UNCHANGED processVars
      /\ collector' \in {collector, "gone"}
  BY DEF run_app, run_app_returns, run_app_error
<1>3. app # "ready"
  <2>1. "INITIALIZE" \in {toCollector[1]} /\ 1 \in 1..Len(toCollector)
    <3>1. toCollector \in Seq(Requests)
      BY <1>1 DEF TypeOK
    <3>2. QED
      BY <1>2, <3>1, TailFacts DEF Take
  <2>2. QED
    BY <1>1, <2>1 DEF RequestsSound
<1>4. RequestsSound' /\ toCollector' \in Seq(Requests)
  BY <1>1, <1>2, <1>3, TakeFacts
<1>5. /\ proc' = proc /\ callbacks' = callbacks /\ hits' = hits
      /\ activity' = activity /\ runButton' = runButton /\ enabled' = enabled
      /\ presses' = presses /\ quitting' = quitting
  BY <1>2 DEF clientVars, processVars
<1>6. AnswersSound' /\ toClient' \in Seq(Answers)
  <2>1. toClient \in Seq(Answers)
    BY <1>1 DEF TypeOK
  <2>2. CASE toClient' = toClient
    BY <1>1, <1>3, <2>1, <2>2 DEF AnswersSound
  <2>3. CASE toClient' = toClient \o <<"SAYS_QUIT", "SAYS_QUIT">>
    <3>1. /\ toClient' \in Seq(Answers)
          /\ \A i \in 1..Len(toClient') :
                \/ toClient'[i] = "SAYS_QUIT"
                \/ i \in 1..Len(toClient) /\ toClient'[i] = toClient[i]
      BY <2>1, <2>3 DEF Answers
    <3>2. QED
      BY <1>1, <1>3, <3>1 DEF AnswersSound
  <2>4. QED
    BY <2>2, <2>3 DEF run_app, run_app_returns, run_app_error
<1>7. ButtonSound'
  BY <1>1, <1>2, <1>3, ClientSame
<1>8. ProcessesSound'
  BY <1>1, <1>3, <1>5 DEF ProcessesSound
<1>9. TypeOK'
  BY <1>1, <1>2, <1>4, <1>5, <1>6 DEF TypeOK, AppStates
<1>10. QED
  BY <1>4, <1>6, <1>7, <1>8, <1>9 DEF Sound

LEMMA StartStopSound == Sound /\ (start_program \/ stop_program) => Sound'
<1> SUFFICES ASSUME Sound, start_program \/ stop_program
             PROVE  Sound'
  OBVIOUS
<1>1. TypeOK /\ RequestsSound /\ AnswersSound /\ ButtonSound /\ ProcessesSound
  BY DEF Sound
<1>2. PICK m \in {"START", "STOP"} : Take(m)
  BY DEF start_program, stop_program
<1>3. /\ UNCHANGED clientVars /\ collector' = collector /\ app' = app
      /\ process_count' = process_count /\ callbacks' = callbacks /\ hits' = hits
      /\ toClient' = toClient
  BY DEF start_program, stop_program
<1>4. /\ RequestsSound' /\ toCollector' \in Seq(Requests)
      /\ app = "ready"
  BY <1>1, <1>2, <1>3, TakeFacts
<1>5. proc' \in [Processes -> ProcessStates]
  <2>1. proc \in [Processes -> ProcessStates]
    BY <1>1 DEF TypeOK
  <2>2. \A from : Move(from, "running") \/ Move(from, "attached")
                    => proc' \in [Processes -> ProcessStates]
    BY <2>1 DEF Move, ProcessStates
  <2>3. QED
    BY <2>1, <2>2 DEF start_program, stop_program
<1>6. hasrun' \in BOOLEAN
  <2>1. hasrun \in BOOLEAN
    BY <1>1 DEF TypeOK
  <2>2. QED
    BY <2>1, Zenon DEF start_program, stop_program
<1>7. AnswersSound' /\ ProcessesSound'
  BY <1>1, <1>3, <1>4, QueuesSame DEF ProcessesSound
<1>8. ButtonSound'
  BY <1>1, <1>3, ClientSame
<1>9. TypeOK'
  BY <1>1, <1>3, <1>4, <1>5, <1>6 DEF TypeOK, clientVars
<1>10. QED
  BY <1>4, <1>7, <1>8, <1>9 DEF Sound

LEMMA ShutdownSound == Sound /\ shutdown_app => Sound'
<1> SUFFICES ASSUME Sound, shutdown_app
             PROVE  Sound'
  OBVIOUS
<1>1. TypeOK /\ RequestsSound /\ AnswersSound /\ ButtonSound /\ ProcessesSound
  BY DEF Sound
<1>2. /\ Take("QUIT") /\ UNCHANGED clientVars /\ collector' = "gone" /\ app' = app
      /\ process_count' = process_count /\ callbacks' = callbacks /\ hits' = hits
      /\ hasrun' = hasrun
  BY DEF shutdown_app
<1>3. RequestsSound' /\ toCollector' \in Seq(Requests)
  BY <1>1, <1>2, TakeFacts
<1>4. /\ proc' \in [Processes -> ProcessStates]
      /\ \A p \in Processes : proc'[p] \in {proc[p], "terminated"}
  <2>1. proc \in [Processes -> ProcessStates]
    BY <1>1 DEF TypeOK
  <2>2. CASE proc' = proc
    BY <2>1, <2>2
  <2>3. CASE Move({"created", "running", "attached"}, "terminated")
    BY <2>1, <2>3 DEF Move, ProcessStates
  <2>4. QED
    BY <2>2, <2>3 DEF shutdown_app
<1>5. AnswersSound' /\ toClient' \in Seq(Answers)
  <2>1. toClient \in Seq(Answers)
    BY <1>1 DEF TypeOK
  <2>2. CASE toClient' = toClient
    BY <1>1, <1>2, <2>1, <2>2 DEF AnswersSound
  <2>3. CASE toClient' = toClient \o <<"SAYS_QUIT", "SAYS_QUIT">>
    <3>1. /\ toClient' \in Seq(Answers)
          /\ \A i \in 1..Len(toClient') :
                \/ toClient'[i] = "SAYS_QUIT"
                \/ i \in 1..Len(toClient) /\ toClient'[i] = toClient[i]
      BY <2>1, <2>3 DEF Answers
    <3>2. QED
      BY <1>1, <1>2, <3>1 DEF AnswersSound
  <2>4. QED
    BY <2>2, <2>3 DEF shutdown_app
<1>6. ProcessesSound'
  BY <1>1, <1>2, <1>4 DEF ProcessesSound
<1>7. ButtonSound'
  BY <1>1, <1>2, ClientSame
<1>8. TypeOK'
  BY <1>1, <1>2, <1>3, <1>4, <1>5 DEF TypeOK, clientVars
<1>9. QED
  BY <1>3, <1>5, <1>6, <1>7, <1>8 DEF Sound

LEMMA StartupSound ==
    Sound /\ (startup_cb \/ startup_cb_failed \/ startup_cb_returns) => Sound'
<1> SUFFICES ASSUME Sound, startup_cb \/ startup_cb_failed \/ startup_cb_returns
             PROVE  Sound'
  OBVIOUS
<1>1. TypeOK /\ RequestsSound /\ AnswersSound /\ ButtonSound /\ ProcessesSound
  BY DEF Sound
<1>2. /\ app \in {"creating", "parsing"} /\ app' \in AppStates
      /\ UNCHANGED clientVars /\ collector' = collector /\ hasrun' = hasrun
      /\ process_count' = process_count /\ callbacks' = callbacks /\ hits' = hits
      /\ toCollector' = toCollector
  BY DEF startup_cb, startup_cb_failed, startup_cb_returns, processVars, messages,
         AppStates
<1>3. RequestsSound'
  BY <1>1, <1>2, QueuesSame
<1>4. /\ proc' \in [Processes -> ProcessStates]
      /\ \A p \in Processes : proc'[p] \in {proc[p], "created"}
  <2>1. proc \in [Processes -> ProcessStates]
    BY <1>1 DEF TypeOK
  <2>2. proc' = proc \/ proc' = [p \in Processes |-> "created"]
    BY DEF startup_cb, startup_cb_failed, startup_cb_returns, processVars
  <2>3. QED
    BY <2>1, <2>2 DEF ProcessStates
<1>5. AnswersSound' /\ toClient' \in Seq(Answers)
  <2>1. toClient \in Seq(Answers)
    BY <1>1 DEF TypeOK
  <2>2. CASE startup_cb
    BY <1>1, <1>2, <2>1, <2>2, QueuesSame DEF startup_cb, messages
  <2>3. CASE startup_cb_failed
    <3>1. toClient' = Append(toClient, "INIT_FAILED") /\ "INIT_FAILED" \in Answers
      BY <2>3 DEF startup_cb_failed, Answers
    <3>2. app # "ready" /\ "INIT_FAILED" \notin {"INIT_OK", "HALTED", "TERMINATED"}
      BY <1>2
    <3>3. QED
      BY <1>1, <2>1, <3>1, <3>2, AnswersAppend
  <2>4. CASE startup_cb_returns
    <3>1. toClient' = Append(toClient, "INIT_OK") /\ "INIT_OK" \in Answers
      BY <2>4 DEF startup_cb_returns, Answers
    <3>2. app # "ready" /\ app' = "ready"
      BY <1>2, <2>4 DEF startup_cb_returns
    <3>3. QED
      BY <1>1, <2>1, <3>1, <3>2, AnswersAppend
  <2>5. QED
    BY <2>2, <2>3, <2>4
<1>6. ProcessesSound'
  BY <1>1, <1>2, <1>4 DEF ProcessesSound
<1>7. ButtonSound'
  BY <1>1, <1>2, ClientSame
<1>8. TypeOK'
  BY <1>1, <1>2, <1>4, <1>5 DEF TypeOK, clientVars
<1>9. QED
  BY <1>3, <1>5, <1>6, <1>7, <1>8 DEF Sound

LEMMA CallbackSound ==
  ASSUME Sound, NEW p \in Processes, HaltTarget_cb(p) \/ termination_cb(p)
  PROVE  Sound'
<1>1. TypeOK /\ RequestsSound /\ AnswersSound /\ ButtonSound /\ ProcessesSound
  BY DEF Sound
<1>2. /\ callbacks[p] # << >>
      /\ callbacks' = [callbacks EXCEPT ![p] = Tail(@)]
      /\ UNCHANGED clientVars /\ collector' = collector /\ app' = app
      /\ hasrun' = hasrun /\ hits' = hits /\ toCollector' = toCollector
  BY DEF HaltTarget_cb, termination_cb, Called
<1>3. app = "ready"
  BY <1>1, <1>2 DEF ProcessesSound
<1>4. callbacks' \in [Processes -> Seq({"halt", "exit"})]
  <2>1. callbacks \in [Processes -> Seq({"halt", "exit"})]
    BY <1>1 DEF TypeOK
  <2>2. Tail(callbacks[p]) \in Seq({"halt", "exit"})
    BY <1>2, <2>1, TailFacts
  <2>3. QED
    BY <1>2, <2>1, <2>2
<1>5. proc' \in [Processes -> ProcessStates] /\ process_count' \in Nat
  <2>1. proc \in [Processes -> ProcessStates] /\ process_count \in Nat
    BY <1>1 DEF TypeOK
  <2>2. CASE HaltTarget_cb(p)
    <3>1. Attach(p) \in [Processes -> ProcessStates]
      BY <2>1 DEF Attach, ProcessStates
    <3>2. process_count' \in Nat
      BY <2>1, <2>2 DEF HaltTarget_cb
    <3>3. QED
      BY <2>2, <3>1, <3>2 DEF HaltTarget_cb
  <2>3. CASE termination_cb(p)
    BY <2>1, <2>3 DEF termination_cb
  <2>4. QED
    BY <2>2, <2>3
<1>6. AnswersSound' /\ toClient' \in Seq(Answers)
  <2>1. toClient \in Seq(Answers)
    BY <1>1 DEF TypeOK
  <2>2. CASE toClient' = toClient
    BY <1>1, <1>2, <2>1, <2>2 DEF AnswersSound
  <2>3. CASE \E m \in {"HALTED", "TERMINATED"} : toClient' = Append(toClient, m)
    <3>1. PICK m \in {"HALTED", "TERMINATED"} : toClient' = Append(toClient, m)
      BY <2>3
    <3>2. m \in Answers
      BY DEF Answers
    <3>3. QED
      BY <1>1, <1>2, <1>3, <2>1, <3>1, <3>2, AnswersAppend
  <2>4. QED
    BY <2>2, <2>3 DEF HaltTarget_cb, termination_cb
<1>7. RequestsSound'
  BY <1>1, <1>2, QueuesSame
<1>8. ProcessesSound'
  BY <1>2, <1>3 DEF ProcessesSound
<1>9. ButtonSound'
  BY <1>1, <1>2, ClientSame
<1>10. TypeOK'
  BY <1>1, <1>2, <1>4, <1>5, <1>6 DEF TypeOK, clientVars
<1>11. QED
  BY <1>6, <1>7, <1>8, <1>9, <1>10 DEF Sound

LEMMA ProcessSound ==
  ASSUME Sound, NEW p \in Processes, Hit(p) \/ Exit(p)
  PROVE  Sound'
<1>1. TypeOK /\ RequestsSound /\ AnswersSound /\ ButtonSound /\ ProcessesSound
  BY DEF Sound
<1>2. /\ proc[p] = "running"
      /\ UNCHANGED clientVars /\ collector' = collector /\ app' = app
      /\ hasrun' = hasrun /\ process_count' = process_count
      /\ toCollector' = toCollector /\ toClient' = toClient
  BY DEF Hit, Exit, collectorVars, messages
<1>3. app = "ready"
  BY <1>1, <1>2 DEF ProcessesSound
<1>4. PICK c \in {"halt", "exit"} : callbacks' = [callbacks EXCEPT ![p] = Append(@, c)]
  BY DEF Hit, Exit
<1>5. callbacks' \in [Processes -> Seq({"halt", "exit"})]
  <2>1. callbacks \in [Processes -> Seq({"halt", "exit"})]
    BY <1>1 DEF TypeOK
  <2>2. Append(callbacks[p], c) \in Seq({"halt", "exit"})
    BY <2>1, AppendFacts
  <2>3. QED
    BY <1>4, <2>1, <2>2
<1>6. proc' \in [Processes -> ProcessStates] /\ hits' \in [Processes -> Nat]
  <2>1. proc \in [Processes -> ProcessStates] /\ hits \in [Processes -> Nat]
    BY <1>1 DEF TypeOK
  <2>2. CASE Hit(p)
    BY <2>1, <2>2 DEF Hit
  <2>3. CASE Exit(p)
    BY <2>1, <2>3 DEF Exit, ProcessStates
  <2>4. QED
    BY <2>2, <2>3
<1>7. RequestsSound' /\ AnswersSound'
  BY <1>1, <1>2, QueuesSame
<1>8. ProcessesSound'
  BY <1>2, <1>3 DEF ProcessesSound
<1>9. ButtonSound'
  BY <1>1, <1>2, ClientSame
<1>10. TypeOK'
  BY <1>1, <1>2, <1>5, <1>6 DEF TypeOK, clientVars
<1>11. QED
  BY <1>7, <1>8, <1>9, <1>10 DEF Sound

------------------------------------------------------------------------------

LEMMA InitSound == Init => Sound
<1> SUFFICES ASSUME Init
             PROVE  Sound
  OBVIOUS
<1>1. /\ activity \in Activities /\ runButton \in ButtonStates /\ app \in AppStates
      /\ presses \in Nat /\ process_count \in Nat
      /\ collector \in {"up", "gone"}
  BY DEF Init, Activities, ButtonStates, AppStates
<1>2. enabled \in BOOLEAN /\ quitting \in BOOLEAN /\ hasrun \in BOOLEAN
  BY DEF Init
<1>3. /\ proc \in [Processes -> ProcessStates] /\ hits \in [Processes -> Nat]
      /\ callbacks \in [Processes -> Seq({"halt", "exit"})]
  BY DEF Init, ProcessStates
<1>4. toCollector \in Seq(Requests) /\ toClient \in Seq(Answers)
  BY DEF Init, Requests
<1>5. TypeOK
  BY <1>1, <1>2, <1>3, <1>4 DEF TypeOK
<1>6. RequestsSound /\ AnswersSound
  BY DEF Init, RequestsSound, AnswersSound
<1>7. ButtonSound
  BY Zenon DEF Init, ButtonSound
<1>8. ProcessesSound
  BY DEF Init, ProcessesSound
<1>9. QED
  BY <1>5, <1>6, <1>7, <1>8 DEF Sound

LEMMA StutterSound == Sound /\ UNCHANGED vars => Sound'
<1> SUFFICES ASSUME Sound, UNCHANGED vars
             PROVE  Sound'
  OBVIOUS
<1>1. TypeOK /\ RequestsSound /\ AnswersSound /\ ButtonSound /\ ProcessesSound
  BY DEF Sound
<1>2. /\ UNCHANGED clientVars /\ UNCHANGED collectorVars /\ UNCHANGED processVars
      /\ UNCHANGED messages
  BY DEF vars
<1>3. app' = app /\ toCollector' = toCollector /\ toClient' = toClient
  BY <1>2 DEF collectorVars, messages
<1>4. RequestsSound' /\ AnswersSound'
  BY <1>1, <1>3, QueuesSame
<1>5. ButtonSound'
  BY <1>1, <1>2, <1>3, ClientSame
<1>6. ProcessesSound'
  BY <1>1, <1>2, <1>3 DEF ProcessesSound, processVars
<1>7. TypeOK'
  BY <1>1, <1>2 DEF TypeOK, clientVars, collectorVars, processVars, messages
<1>8. QED
  BY <1>4, <1>5, <1>6, <1>7 DEF Sound

LEMMA NextSound == Sound /\ [Next]_vars => Sound'
<1> SUFFICES ASSUME Sound, [Next]_vars
             PROVE  Sound'
  OBVIOUS
<1>1. CASE unpack_init_app_result
  BY <1>1, ReceiveSound DEF unpack_init_app_result, Sound, TypeOK, Activities, ButtonStates
<1>2. CASE unpack_target_halted
  BY <1>2, ReceiveSound DEF unpack_target_halted, Sound, TypeOK, Activities, ButtonStates
<1>3. CASE unpack_target_terminated
  BY <1>3, ReceiveSound DEF unpack_target_terminated, Sound, TypeOK, Activities,
                           ButtonStates
<1>4. CASE Ignore
  BY <1>4, ReceiveSound DEF Ignore, Sound, TypeOK
<1>5. CASE Press \/ menuCloneViewer \/ Quit
  BY <1>5, PressSound, WindowSound, QuitSound
<1>6. CASE CollectorNext
  <2>1. CASE \E p \in Processes : HaltTarget_cb(p) \/ termination_cb(p)
    BY <2>1, CallbackSound
  <2>2. CASE run_app \/ run_app_returns \/ run_app_error
    BY <2>2, RunAppSound
  <2>3. CASE start_program \/ stop_program \/ shutdown_app
    BY <2>3, StartStopSound, ShutdownSound
  <2>4. CASE startup_cb \/ startup_cb_failed \/ startup_cb_returns
    BY <2>4, StartupSound
  <2>5. QED
    BY <1>6, <2>1, <2>2, <2>3, <2>4 DEF CollectorNext
<1>7. CASE \E p \in Processes : Hit(p) \/ Exit(p)
  BY <1>7, ProcessSound
<1>8. CASE UNCHANGED vars
  BY <1>8, StutterSound
<1>9. QED
  BY <1>1, <1>2, <1>3, <1>4, <1>5, <1>6, <1>7, <1>8 DEF Next, ClientNext

------------------------------------------------------------------------------
(* The processes are created once, together, and started together. *)

\* What each kind of step leaves alone.
LEMMA ClientStep ==
  ASSUME ClientNext
  PROVE  UNCHANGED <<collector, app, hasrun, process_count, proc, callbacks>>
BY DEF ClientNext, Press, menuCloneViewer, Quit, unpack_init_app_result,
       unpack_target_halted, unpack_target_terminated, Ignore, Receive, collectorVars,
       processVars

LEMMA CollectorStep ==
  ASSUME CollectorNext \/ \E p \in Processes : Hit(p) \/ Exit(p)
  PROVE  UNCHANGED clientVars
BY DEF CollectorNext, run_app, run_app_returns, run_app_error, start_program, stop_program,
       shutdown_app, startup_cb, startup_cb_failed, startup_cb_returns, HaltTarget_cb,
       termination_cb, Called, Hit, Exit

\* The application is asked for in the first message, and started when it is ready.
LEMMA AppWhen ==
  ASSUME Sound
  PROVE  /\ run_app \/ run_app_returns \/ run_app_error => app = "none"
         /\ start_program \/ stop_program => app = "ready" /\ HasApp
         /\ startup_cb \/ startup_cb_failed \/ startup_cb_returns => app # "ready"
         /\ \A p \in Processes : HaltTarget_cb(p) \/ termination_cb(p) => app = "ready"
         /\ \A p \in Processes : Hit(p) \/ Exit(p) => app = "ready"
<1>1. ASSUME NEW m, Take(m)
      PROVE  /\ m = "INITIALIZE" => app = "none"
             /\ m \in {"START", "STOP"} => app = "ready"
  <2>1. toCollector \in Seq(Requests) /\ toCollector # << >>
    BY <1>1 DEF Take, Sound, TypeOK
  <2>2. toCollector[1] = m /\ 1 \in 1..Len(toCollector)
    BY <1>1, <2>1, TailFacts DEF Take
  <2>3. QED
    BY <2>2 DEF Sound, RequestsSound
<1>2. run_app \/ run_app_returns \/ run_app_error => app = "none"
  BY <1>1 DEF run_app, run_app_returns, run_app_error
<1>3. start_program \/ stop_program => app = "ready" /\ HasApp
  BY <1>1 DEF start_program, stop_program, HasApp
<1>4. startup_cb \/ startup_cb_failed \/ startup_cb_returns => app # "ready"
  BY DEF startup_cb, startup_cb_failed, startup_cb_returns
<1>5. \A p \in Processes : HaltTarget_cb(p) \/ termination_cb(p) => app = "ready"
  BY DEF Sound, ProcessesSound, HaltTarget_cb, termination_cb, Called
<1>6. \A p \in Processes : Hit(p) \/ Exit(p) => app = "ready"
  BY DEF Sound, ProcessesSound, Hit, Exit
<1>7. QED
  BY <1>2, <1>3, <1>4, <1>5, <1>6

\* What start_program and stop_program do to each process.
LEMMA Moves ==
  ASSUME TypeOK, NEW from, NEW to, Move(from, to)
  PROVE  \A p \in Processes : proc'[p] = IF proc[p] \in from THEN to ELSE proc[p]
BY DEF Move

LEMMA Attaches ==
  ASSUME TypeOK, NEW p \in Processes, proc' = Attach(p)
  PROVE  \A q \in Processes :
             proc'[q] = IF q = p /\ proc[q] = "running" THEN "attached" ELSE proc[q]
BY DEF TypeOK, Attach

LEMMA LaunchedNext ==
  ASSUME IInv, [Next]_vars
  PROVE  Launched'
<1>1. TypeOK /\ Sound /\ Launched
  BY DEF IInv, Sound
<1>2. CASE UNCHANGED <<collector, app, hasrun, proc>>
  BY <1>1, <1>2 DEF Launched
<1>3. CASE ClientNext
  BY <1>2, <1>3, ClientStep
<1>4. CASE run_app \/ run_app_returns \/ run_app_error
  <2>1. app = "none"
    BY <1>1, <1>4, AppWhen
  <2>2. app' \in {"creating", "half"} /\ hasrun' = hasrun /\ proc' = proc
        /\ collector' \in {collector, "gone"}
    BY <1>4 DEF run_app, run_app_returns, run_app_error, processVars
  <2>3. QED
    BY <1>1, <2>1, <2>2 DEF Launched
<1>5. CASE start_program
  <2>1. app = "ready" /\ HasApp
    BY <1>1, <1>5, AppWhen
  <2>2. hasrun' = TRUE /\ app' = app /\ collector' = collector
        /\ Move({IF hasrun THEN "attached" ELSE "created"}, "running")
    BY <1>5, <2>1 DEF start_program
  <2>3. \A p \in Processes : proc'[p] =
            IF proc[p] = IF hasrun THEN "attached" ELSE "created" THEN "running" ELSE proc[p]
    BY <1>1, <2>2, Moves
  <2>4. CASE hasrun
    BY <1>1, <2>1, <2>2, <2>3, <2>4 DEF Launched
  <2>5. CASE ~ hasrun
    BY <1>1, <2>1, <2>2, <2>3, <2>5 DEF Launched
  <2>6. QED
    BY <2>4, <2>5
<1>6. CASE stop_program
  <2>1. app = "ready" /\ HasApp
    BY <1>1, <1>6, AppWhen
  <2>2. hasrun' = hasrun /\ app' = app /\ collector' = collector
        /\ Move({"running"}, "attached")
    BY <1>6, <2>1 DEF stop_program
  <2>3. \A p \in Processes :
            proc'[p] = IF proc[p] = "running" THEN "attached" ELSE proc[p]
    BY <1>1, <2>2, Moves
  <2>4. QED
    BY <1>1, <2>1, <2>2, <2>3 DEF Launched
<1>7. CASE shutdown_app
  BY <1>1, <1>7 DEF Launched, shutdown_app
<1>8. CASE startup_cb \/ startup_cb_failed \/ startup_cb_returns
  <2>1. ~ hasrun /\ hasrun' = hasrun
    BY <1>1, <1>8, AppWhen
      DEF Launched, startup_cb, startup_cb_failed, startup_cb_returns
  <2>2. CASE startup_cb
    <3>1. \A p \in Processes : proc'[p] = "created"
      BY <2>2 DEF startup_cb
    <3>2. QED
      BY <2>1, <3>1 DEF Launched
  <2>3. CASE startup_cb_failed \/ startup_cb_returns
    <3>1. app \in {"creating", "parsing"} /\ app' \in {"failed", "ready"} /\ proc' = proc
          /\ collector' = collector /\ (app' = "ready" => app = "parsing")
      BY <2>3 DEF startup_cb_failed, startup_cb_returns, processVars
    <3>2. QED
      BY <1>1, <2>1, <3>1 DEF Launched
  <2>4. QED
    BY <1>8, <2>2, <2>3
<1>9. ASSUME NEW p \in Processes, HaltTarget_cb(p)
      PROVE  Launched'
  <2>1. UNCHANGED <<collector, app, hasrun>> /\ proc' = Attach(p)
    BY <1>9 DEF HaltTarget_cb, Called
  <2>2. \A q \in Processes :
            proc'[q] = IF q = p /\ proc[q] = "running" THEN "attached" ELSE proc[q]
    BY <1>1, <2>1, Attaches
  <2>3. QED
    BY <1>1, <2>1, <2>2 DEF Launched
<1>10. ASSUME NEW p \in Processes, termination_cb(p)
       PROVE  Launched'
  BY <1>2, <1>10 DEF termination_cb, Called
<1>11. ASSUME NEW p \in Processes, Hit(p)
       PROVE  Launched'
  BY <1>2, <1>11 DEF Hit, collectorVars
<1>12. ASSUME NEW p \in Processes, Exit(p)
       PROVE  Launched'
  <2>1. app = "ready" /\ UNCHANGED <<collector, app, hasrun>>
    BY <1>1, <1>12, AppWhen DEF Exit, collectorVars
  <2>2. \A q \in Processes : proc'[q] = IF q = p THEN "terminated" ELSE proc[q]
    BY <1>1, <1>12 DEF Exit, TypeOK
  <2>3. QED
    BY <1>1, <2>1, <2>2 DEF Launched
<1>13. CASE UNCHANGED vars
  BY <1>2, <1>13 DEF vars, collectorVars, processVars
<1>14. QED
  BY <1>3, <1>4, <1>5, <1>6, <1>7, <1>8, <1>9, <1>10, <1>11, <1>12, <1>13
    DEF Next, CollectorNext

------------------------------------------------------------------------------
(* A Client that shows a running program has not asked to stop it since. *)

LEMMA AskedNext ==
  ASSUME IInv, [Next]_vars
  PROVE  Asked'
<1>1. /\ Sound /\ Asked /\ toCollector \in Seq(Requests) /\ ButtonSound
  BY DEF IInv, Sound, TypeOK
<1>2. CASE activity' # "Running"
  BY <1>2 DEF Asked
<1>3. CASE UNCHANGED <<activity, app, toCollector>>
  BY <1>1, <1>3 DEF Asked
<1>4. CASE Press
  <2>1. app = "ready" /\ app' = app
    BY <1>1, <1>4 DEF Press, ButtonSound, collectorVars
  <2>2. CASE toCollector' = Append(toCollector, "START")
    <3>1. /\ Len(toCollector') = Len(toCollector) + 1 /\ Len(toCollector) \in Nat
          /\ toCollector'[Len(toCollector) + 1] = "START"
      BY <1>1, <2>2
    <3>2. ASSUME NEW i \in 1..Len(toCollector'), toCollector'[i] = "STOP"
          PROVE  \E j \in (i + 1)..Len(toCollector') : toCollector'[j] = "START"
      <4>1. i # Len(toCollector) + 1
        BY <3>1, <3>2
      <4>2. Len(toCollector) + 1 \in (i + 1)..Len(toCollector')
        BY <3>1, <4>1
      <4>3. QED
        BY <3>1, <4>2
    <3>3. QED
      BY <2>1, <3>2 DEF Asked
  <2>3. CASE activity' = "Stopped"
    BY <1>2, <2>3
  <2>4. QED
    BY <1>4, <2>2, <2>3 DEF Press, startStopProgram
<1>5. CASE Quit
  <2>1. /\ activity' = activity /\ app' = app
        /\ toCollector' = Append(toCollector, "QUIT")
    BY <1>5 DEF Quit, collectorVars
  <2>2. /\ Len(toCollector') = Len(toCollector) + 1 /\ Len(toCollector) \in Nat
        /\ toCollector'[Len(toCollector) + 1] = "QUIT"
        /\ \A i \in 1..Len(toCollector) : toCollector'[i] = toCollector[i]
    BY <1>1, <2>1
  <2>3. ASSUME activity = "Running", NEW i \in 1..Len(toCollector'), toCollector'[i] = "STOP"
        PROVE  \E j \in (i + 1)..Len(toCollector') : toCollector'[j] = "START"
    <3>1. i # Len(toCollector) + 1
      BY <2>2, <2>3
    <3>2. i \in 1..Len(toCollector) /\ toCollector[i] = "STOP"
      BY <2>2, <2>3, <3>1
    <3>3. PICK j \in (i + 1)..Len(toCollector) : toCollector[j] = "START"
      BY <1>1, <2>3, <3>2 DEF Asked
    <3>4. j \in 1..Len(toCollector) /\ j \in (i + 1)..Len(toCollector')
      BY <2>2
    <3>5. QED
      BY <2>2, <3>3, <3>4
  <2>4. QED
    BY <1>1, <2>1, <2>3 DEF Asked
<1>6. ASSUME NEW m, Take(m), activity' = activity, app' = app
      PROVE  Asked'
  <2>1. /\ toCollector # << >> /\ toCollector' = Tail(toCollector)
    BY <1>6 DEF Take
  <2>2. /\ Len(toCollector') = Len(toCollector) - 1 /\ Len(toCollector) \in Nat
        /\ \A i \in 1..Len(toCollector') :
              toCollector'[i] = toCollector[i + 1] /\ i + 1 \in 1..Len(toCollector)
    BY <1>1, <2>1
  <2>3. ASSUME activity = "Running", NEW i \in 1..Len(toCollector'), toCollector'[i] = "STOP"
        PROVE  \E j \in (i + 1)..Len(toCollector') : toCollector'[j] = "START"
    <3>1. i + 1 \in 1..Len(toCollector) /\ toCollector[i + 1] = "STOP"
      BY <2>2, <2>3
    <3>2. PICK j \in (i + 1 + 1)..Len(toCollector) : toCollector[j] = "START"
      BY <1>1, <2>3, <3>1 DEF Asked
    <3>3. /\ j - 1 \in (i + 1)..Len(toCollector') /\ j - 1 \in 1..Len(toCollector')
          /\ (j - 1) + 1 = j
      BY <2>2
    <3>4. QED
      BY <2>2, <3>2, <3>3
  <2>4. QED
    BY <1>1, <1>6, <2>3 DEF Asked
<1>7. CASE menuCloneViewer \/ unpack_init_app_result \/ Ignore
  BY <1>3, <1>7 DEF menuCloneViewer, unpack_init_app_result, Ignore, Receive, collectorVars,
                    messages
<1>8. CASE unpack_target_halted \/ unpack_target_terminated
  BY <1>2, <1>8 DEF unpack_target_halted, unpack_target_terminated
<1>9. CASE activity' = activity /\ app # "ready"
  BY <1>1, <1>2, <1>9 DEF Asked
<1>10. CASE run_app \/ run_app_returns \/ run_app_error
  BY <1>1, <1>9, <1>10, AppWhen, CollectorStep DEF CollectorNext, clientVars
<1>11. CASE startup_cb \/ startup_cb_failed \/ startup_cb_returns
  BY <1>1, <1>9, <1>11, AppWhen, CollectorStep DEF CollectorNext, clientVars
<1>12. CASE start_program \/ stop_program \/ shutdown_app
  BY <1>6, <1>12 DEF start_program, stop_program, shutdown_app, clientVars
<1>13. ASSUME NEW p \in Processes, HaltTarget_cb(p) \/ termination_cb(p)
       PROVE  Asked'
  BY <1>3, <1>13 DEF HaltTarget_cb, termination_cb, Called, clientVars
<1>14. ASSUME NEW p \in Processes, Hit(p) \/ Exit(p)
       PROVE  Asked'
  BY <1>3, <1>14 DEF Hit, Exit, clientVars, collectorVars, messages
<1>15. CASE UNCHANGED vars
  BY <1>3, <1>15 DEF vars, clientVars, collectorVars, messages
<1>16. QED
  BY <1>4, <1>5, <1>7, <1>8, <1>10, <1>11, <1>12, <1>13, <1>14, <1>15
    DEF Next, ClientNext, CollectorNext

------------------------------------------------------------------------------
(* The end of a process is the last that is reported of it. *)

LEMMA CalledTail ==
  ASSUME TypeOK, NEW p \in Processes, NEW r, Called(p, r)
  PROVE  /\ callbacks[p] # << >> /\ callbacks[p][1] = r
         /\ callbacks[p] \in Seq({"halt", "exit"}) /\ callbacks'[p] = Tail(callbacks[p])
         /\ \A q \in Processes : q # p => callbacks'[q] = callbacks[q]
         /\ callbacks'[p] # << >> =>
                callbacks'[p][Len(callbacks'[p])] = callbacks[p][Len(callbacks[p])]
<1>1. /\ callbacks[p] # << >> /\ Head(callbacks[p]) = r
      /\ callbacks' = [callbacks EXCEPT ![p] = Tail(callbacks[p])]
      /\ callbacks \in [Processes -> Seq({"halt", "exit"})]
  BY DEF Called, TypeOK
<1>2. callbacks'[p] = Tail(callbacks[p]) /\ callbacks[p] \in Seq({"halt", "exit"})
      /\ \A q \in Processes : q # p => callbacks'[q] = callbacks[q]
  BY <1>1
<1> DEFINE s == callbacks[p]
<1>3. \A t \in Seq({"halt", "exit"}) : t # << >> =>
          t[1] = Head(t) /\ (Tail(t) # << >> => Tail(t)[Len(Tail(t))] = t[Len(t)])
  OBVIOUS
<1>4. QED
  BY <1>1, <1>2, <1>3

LEMMA ExitLastNext ==
  ASSUME IInv, [Next]_vars
  PROVE  ExitLast'
<1>1. TypeOK /\ Sound /\ ExitLast
  BY DEF IInv, Sound
<1>2. ASSUME collector' = "up" => collector = "up", callbacks' = callbacks,
             \A p \in Processes : proc'[p] = "terminated" => proc[p] = "terminated"
      PROVE  ExitLast'
  BY <1>1, <1>2 DEF ExitLast
<1>3. CASE ClientNext
  BY <1>2, <1>3, ClientStep
<1>4. CASE run_app \/ run_app_returns \/ run_app_error
  BY <1>2, <1>4 DEF run_app, run_app_returns, run_app_error, processVars
<1>5. CASE start_program \/ stop_program
  <2>1. UNCHANGED <<collector, callbacks>>
    BY <1>5 DEF start_program, stop_program
  <2>2. PICK to \in {"running", "attached"} : \E from : Move(from, to)
    BY <1>1, <1>5, AppWhen DEF start_program, stop_program
  <2>3. \A p \in Processes : proc'[p] = "terminated" => proc[p] = "terminated"
    BY <1>1, <2>2, Moves
  <2>4. QED
    BY <1>2, <2>1, <2>3
<1>6. CASE shutdown_app
  BY <1>6 DEF shutdown_app, ExitLast
<1>7. CASE startup_cb \/ startup_cb_failed \/ startup_cb_returns
  BY <1>2, <1>7 DEF startup_cb, startup_cb_failed, startup_cb_returns, processVars
<1>8. ASSUME NEW p \in Processes, HaltTarget_cb(p) \/ termination_cb(p)
      PROVE  ExitLast'
  <2>1. PICK r : Called(p, r)
    BY <1>8 DEF HaltTarget_cb, termination_cb
  <2>2. collector' = collector
    BY <2>1 DEF Called
  <2>3. \A q \in Processes : proc'[q] = "terminated" => proc[q] = "terminated"
    <3>1. CASE HaltTarget_cb(p)
      BY <1>1, <3>1, Attaches DEF HaltTarget_cb
    <3>2. CASE termination_cb(p)
      BY <3>2 DEF termination_cb
    <3>3. QED
      BY <1>8, <3>1, <3>2
  <2>4. ASSUME NEW q \in Processes, collector = "up", proc[q] = "terminated",
               callbacks'[q] # << >>
        PROVE  callbacks'[q][Len(callbacks'[q])] = "exit"
    <3>1. CASE q = p
      BY <1>1, <2>1, <2>4, <3>1, CalledTail DEF ExitLast
    <3>2. CASE q # p
      BY <1>1, <2>1, <2>4, <3>2, CalledTail DEF ExitLast
    <3>3. QED
      BY <3>1, <3>2
  <2>5. QED
    BY <2>2, <2>3, <2>4 DEF ExitLast
<1>9. ASSUME NEW p \in Processes, Hit(p)
      PROVE  ExitLast'
  <2>1. /\ proc[p] = "running" /\ UNCHANGED <<collector, proc>>
        /\ \A q \in Processes : q # p => callbacks'[q] = callbacks[q]
    BY <1>1, <1>9 DEF Hit, collectorVars, TypeOK
  <2>2. QED
    BY <1>1, <2>1 DEF ExitLast
<1>10. ASSUME NEW p \in Processes, Exit(p)
       PROVE  ExitLast'
  <2>1. /\ UNCHANGED collector /\ proc' = [proc EXCEPT ![p] = "terminated"]
        /\ callbacks' = [callbacks EXCEPT ![p] = Append(callbacks[p], "exit")]
        /\ callbacks \in [Processes -> Seq({"halt", "exit"})]
        /\ proc \in [Processes -> ProcessStates]
    BY <1>1, <1>10 DEF Exit, collectorVars, TypeOK
  <2>2. callbacks'[p][Len(callbacks'[p])] = "exit"
    <3>1. callbacks'[p] = Append(callbacks[p], "exit")
          /\ callbacks[p] \in Seq({"halt", "exit"})
      BY <2>1
    <3>2. \A t \in Seq({"halt", "exit"}) : Append(t, "exit")[Len(Append(t, "exit"))] = "exit"
      OBVIOUS
    <3>3. QED
      BY <3>1, <3>2
  <2>3. \A q \in Processes : q # p => callbacks'[q] = callbacks[q] /\ proc'[q] = proc[q]
    BY <2>1
  <2>4. QED
    BY <1>1, <2>1, <2>2, <2>3 DEF ExitLast
<1>11. CASE UNCHANGED vars
  BY <1>2, <1>11 DEF vars, collectorVars, processVars
<1>12. QED
  BY <1>3, <1>4, <1>5, <1>6, <1>7, <1>8, <1>9, <1>10, <1>11 DEF Next, CollectorNext

------------------------------------------------------------------------------
(* The end of the program is told, and greys the button out. *)

LEMMA EndToldNext ==
  ASSUME IInv, [Next]_vars
  PROVE  EndTold'
<1>1. /\ TypeOK /\ Sound /\ Launched /\ ExitLast /\ EndTold
      /\ toClient \in Seq(Answers) /\ First \in Processes
  BY ProgramAssumption DEF IInv, Sound, TypeOK
<1>2. ASSUME EndComes'
      PROVE  EndTold'
  BY <1>2 DEF EndTold
<1> SUFFICES ASSUME collector' = "up", \A p \in Processes : proc'[p] = "terminated",
                    ~ EndComes'
             PROVE  EndSent' \/ EndShown'
  BY <1>2 DEF EndTold
<1>3. \A p \in Processes : callbacks'[p] = << >>
  BY DEF EndComes
<1>4. ASSUME collector = "up", callbacks' = callbacks,
             \A p \in Processes : proc[p] = "terminated"
      PROVE  EndSent \/ EndShown
  BY <1>1, <1>3, <1>4 DEF EndTold, EndComes
<1>5. ASSUME UNCHANGED <<collector, proc, callbacks, toClient, runButton, enabled>>
      PROVE  EndSent' \/ EndShown'
  <2>1. CASE EndSent
    BY <1>5, <2>1 DEF EndSent
  <2>2. CASE EndShown
    BY <1>5, <2>2, Zenon DEF EndShown
  <2>3. QED
    BY <1>4, <1>5, <2>1, <2>2
<1>6. CASE Press
  <2>1. UNCHANGED <<collector, proc, callbacks, toClient>> /\ enabled
    BY <1>6 DEF Press, collectorVars, processVars
  <2>2. ~ EndShown
    BY <2>1, Zenon DEF EndShown
  <2>3. EndSent
    BY <1>4, <2>1, <2>2
  <2>4. QED
    BY <2>1, <2>3 DEF EndSent
<1>7. CASE menuCloneViewer
  <2>1. /\ UNCHANGED <<collector, proc, callbacks, toClient, runButton>>
        /\ enabled' = (enabled \/ runButton # "DISABLED")
    BY <1>7 DEF menuCloneViewer, collectorVars, processVars, messages
  <2>2. CASE EndSent
    BY <2>1, <2>2 DEF EndSent
  <2>3. CASE EndShown
    <3>1. enabled' <=> enabled \/ runButton # "DISABLED"
      BY <2>1
    <3>2. runButton' = runButton /\ toClient' = toClient
      BY <2>1
    <3>3. ~ enabled'
      BY <2>3, <3>1, Zenon DEF EndShown
    <3>4. QED
      BY <2>3, <3>2, <3>3, Zenon DEF EndShown
  <2>4. QED
    BY <1>4, <2>1, <2>2, <2>3
<1>8. CASE Quit
  BY <1>5, <1>8 DEF Quit, collectorVars, processVars
<1>9. ASSUME NEW m, Receive(m),
             m = "TERMINATED" => runButton' = "DISABLED" /\ ~ enabled',
             m \notin Enables /\ m # "TERMINATED" =>
                 runButton' = runButton /\ enabled' = enabled
      PROVE  EndSent' \/ EndShown'
  <2>1. /\ UNCHANGED <<collector, proc, callbacks>>
        /\ toClient # << >> /\ Head(toClient) = m /\ toClient' = Tail(toClient)
    BY <1>9 DEF Receive, collectorVars, processVars
  <2>2. /\ Len(toClient') = Len(toClient) - 1 /\ Len(toClient) \in Nat
        /\ \A i \in 1..Len(toClient') :
              toClient'[i] = toClient[i + 1] /\ i + 1 \in 1..Len(toClient)
        /\ toClient[1] = m /\ 1 \in 1..Len(toClient)
    BY <1>1, <2>1
  <2>3. CASE EndSent
    <3>1. PICK i \in 1..Len(toClient) :
             /\ toClient[i] = "TERMINATED"
             /\ \A j \in (i + 1)..Len(toClient) : toClient[j] \notin Enables
      BY <2>3 DEF EndSent
    <3>2. CASE i = 1
      <4>1. \A j \in 1..Len(toClient') : toClient'[j] \notin Enables
        <5>1. \A j \in 1..Len(toClient') : j + 1 \in (i + 1)..Len(toClient)
          BY <2>2, <3>2
        <5>2. QED
          BY <2>2, <3>1, <5>1
      <4>2. runButton' = "DISABLED" /\ ~ enabled'
        BY <1>9, <2>2, <3>1, <3>2
      <4>3. QED
        BY <4>1, <4>2, Zenon DEF EndShown
    <3>3. CASE i # 1
      <4>1. i - 1 \in 1..Len(toClient') /\ (i - 1) + 1 = i
        BY <2>2, <3>3
      <4>2. toClient'[i - 1] = "TERMINATED"
        BY <2>2, <3>1, <4>1
      <4>3. ASSUME NEW j \in (i - 1 + 1)..Len(toClient')
            PROVE  toClient'[j] \notin Enables
        <5>1. j \in 1..Len(toClient') /\ j + 1 \in (i + 1)..Len(toClient)
          BY <2>2
        <5>2. QED
          BY <2>2, <3>1, <5>1
      <4>4. QED
        BY <4>1, <4>2, <4>3 DEF EndSent
    <3>4. QED
      BY <3>2, <3>3
  <2>4. CASE EndShown
    <3>1. \A j \in 1..Len(toClient') : toClient'[j] \notin Enables
      BY <2>2, <2>4 DEF EndShown
    <3>2. m \notin Enables
      BY <2>2, <2>4 DEF EndShown
    <3>3. CASE m = "TERMINATED"
      BY <1>9, <3>1, <3>3, Zenon DEF EndShown
    <3>4. CASE runButton' = runButton /\ enabled' = enabled
      BY <2>4, <3>1, <3>4, Zenon DEF EndShown
    <3>5. QED
      BY <1>9, <3>2, <3>3, <3>4
  <2>5. QED
    BY <1>4, <2>1, <2>3, <2>4
<1>10. CASE unpack_init_app_result
  BY <1>9, <1>10 DEF unpack_init_app_result, Enables
<1>11. CASE unpack_target_halted
  BY <1>9, <1>11 DEF unpack_target_halted, Enables
<1>12. CASE unpack_target_terminated
  <2>1. Receive("TERMINATED") /\ runButton' = "DISABLED" /\ ~ enabled'
    BY <1>12 DEF unpack_target_terminated
  <2>2. QED
    BY <1>9, <2>1
<1>13. CASE Ignore
  <2>1. runButton' = runButton /\ enabled' = enabled
    BY <1>13 DEF Ignore
  <2>2. PICK m \in {"INIT_FAILED", "SAYS_QUIT"} : Receive(m)
    BY <1>13 DEF Ignore
  <2>3. QED
    BY <1>9, <2>1, <2>2
<1>14. ASSUME app # "ready", proc' = proc
       PROVE  FALSE
  <2>1. proc[First] = "terminated"
    BY <1>1, <1>14
  <2>2. collector # "up"
    BY <1>1, <1>14, <2>1 DEF Launched
  <2>3. collector' = "up" => collector = "up"
    BY DEF Next, vars, ClientNext, CollectorNext, Press, menuCloneViewer, Quit,
           unpack_init_app_result, unpack_target_halted, unpack_target_terminated, Ignore,
           Receive, run_app, run_app_returns, run_app_error, start_program, stop_program,
           shutdown_app, startup_cb, startup_cb_failed, startup_cb_returns, HaltTarget_cb,
           termination_cb, Called, Take, Hit, Exit, collectorVars
  <2>4. QED
    BY <2>2, <2>3
<1>15. CASE run_app \/ run_app_returns \/ run_app_error
  BY <1>1, <1>14, <1>15, AppWhen DEF run_app, run_app_returns, run_app_error, processVars
<1>16. CASE startup_cb_failed \/ startup_cb_returns
  BY <1>14, <1>16 DEF startup_cb_failed, startup_cb_returns, processVars
<1>17. CASE startup_cb
  BY <1>1, <1>17 DEF startup_cb
<1>18. CASE start_program \/ stop_program
  <2>1. UNCHANGED <<collector, callbacks, toClient, runButton, enabled>>
    BY <1>18 DEF start_program, stop_program, clientVars
  <2>2. PICK to \in {"running", "attached"} : \E from : Move(from, to)
    BY <1>1, <1>18, AppWhen DEF start_program, stop_program
  <2>3. \A p \in Processes : proc[p] = "terminated"
    BY <1>1, <2>2, Moves
  <2>4. CASE EndSent
    BY <2>1, <2>4 DEF EndSent
  <2>5. CASE EndShown
    BY <2>1, <2>5, Zenon DEF EndShown
  <2>6. QED
    BY <1>4, <2>1, <2>3, <2>4, <2>5
<1>19. CASE shutdown_app
  BY <1>19 DEF shutdown_app
<1>20. ASSUME NEW p \in Processes, HaltTarget_cb(p)
       PROVE  FALSE
  <2>1. Called(p, "halt") /\ proc' = Attach(p) /\ collector = "up"
    BY <1>20 DEF HaltTarget_cb, Called
  <2>2. proc[p] = "terminated"
    BY <1>1, <2>1, Attaches
  <2>3. /\ callbacks[p] # << >> /\ callbacks[p][1] = "halt"
        /\ callbacks[p] \in Seq({"halt", "exit"}) /\ callbacks'[p] = Tail(callbacks[p])
    BY <1>1, <2>1, CalledTail
  <2>4. callbacks[p][Len(callbacks[p])] = "exit"
    BY <1>1, <2>1, <2>2, <2>3 DEF ExitLast
  <2>5. Tail(callbacks[p]) = << >>
    BY <1>3, <2>3
  <2>6. Len(callbacks[p]) = 1
    <3>1. Len(Tail(callbacks[p])) = Len(callbacks[p]) - 1 /\ Len(callbacks[p]) \in Nat
      BY <2>3, TailFacts
    <3>2. Len(Tail(callbacks[p])) = 0
      <4>1. \A t : t = << >> => Len(t) = 0
        OBVIOUS
      <4>2. QED
        BY ONLY <2>5, <4>1
    <3>3. QED
      BY <3>1, <3>2
  <2>7. QED
    BY <2>3, <2>4, <2>6
<1>21. ASSUME NEW p \in Processes, termination_cb(p)
       PROVE  EndSent'
  <2>1. toClient' = Append(toClient, "TERMINATED")
    BY <1>21 DEF termination_cb
  <2>2. /\ Len(toClient') = Len(toClient) + 1 /\ Len(toClient) \in Nat
        /\ toClient'[Len(toClient) + 1] = "TERMINATED"
    BY <1>1, <2>1
  <2>3. /\ Len(toClient) + 1 \in 1..Len(toClient')
        /\ \A j \in (Len(toClient) + 1 + 1)..Len(toClient') : FALSE
    BY <2>2
  <2>4. QED
    BY <2>2, <2>3 DEF EndSent
<1>22. ASSUME NEW p \in Processes, Hit(p) \/ Exit(p)
       PROVE  FALSE
  <2>1. PICK c \in {"halt", "exit"} : callbacks' = [callbacks EXCEPT ![p] = Append(callbacks[p], c)]
    BY <1>22 DEF Hit, Exit
  <2>2. callbacks \in [Processes -> Seq({"halt", "exit"})]
    BY <1>1 DEF TypeOK
  <2>3. callbacks'[p] = Append(callbacks[p], c) /\ callbacks[p] \in Seq({"halt", "exit"})
    BY <2>1, <2>2
  <2>4. callbacks'[p] # << >>
    BY <2>3
  <2>5. QED
    BY <1>3, <2>4
<1>23. CASE UNCHANGED vars
  BY <1>5, <1>23 DEF vars, collectorVars, processVars, clientVars, messages
<1>24. QED
  BY <1>6, <1>7, <1>8, <1>10, <1>11, <1>12, <1>13, <1>15, <1>16, <1>17, <1>18, <1>19, <1>20,
     <1>21, <1>22, <1>23 DEF Next, ClientNext, CollectorNext

------------------------------------------------------------------------------
(* Every process that stands still has been counted. *)

LEMMA AttachedFinite ==
  /\ IsFiniteSet(Attached) /\ Cardinality(Attached) \in Nat
  /\ Cardinality(Processes) \in Nat /\ Cardinality(Processes) > 0
<1>1. Attached \in SUBSET Processes
  BY DEF Attached
<1>2. IsFiniteSet(Processes) /\ IsFiniteSet(Attached)
  BY <1>1, ProgramAssumption, FS_Subset
<1>3. Cardinality(Attached) \in Nat /\ Cardinality(Processes) \in Nat
  BY <1>2, FS_CardinalityType
<1>4. Cardinality(Processes) # 0
  BY <1>2, ProgramAssumption, FS_EmptySet
<1>5. QED
  BY <1>2, <1>3, <1>4

\* What Counted says of a program that the Client shows as running.
Standing ==
    Cardinality(Attached) <= process_count /\ \A p \in Processes : proc[p] # "created"
Watched ==
    /\ collector = "up" /\ activity = "Running"
    /\ \A i \in 1..Len(toCollector) : toCollector[i] # "START"
    /\ \A i \in 1..Len(toClient) : toClient[i] # "HALTED"

LEMMA CountedNext ==
  ASSUME IInv, [Next]_vars
  PROVE  Counted'
<1>1. /\ TypeOK /\ Sound /\ Launched /\ Asked /\ Counted
      /\ toClient \in Seq(Answers) /\ toCollector \in Seq(Requests)
      /\ process_count \in Nat
  BY DEF IInv, Sound, TypeOK
<1>2. process_count < Cardinality(Processes) /\ (Watched => Standing)
  BY <1>1 DEF Counted, Watched, Standing
<1>3. ASSUME process_count' = process_count, Watched' => Standing'
      PROVE  Counted'
  BY <1>2, <1>3 DEF Counted, Watched, Standing
<1>4. ASSUME UNCHANGED <<process_count, proc>>, Watched' => Watched
      PROVE  Counted'
  BY <1>2, <1>3, <1>4 DEF Standing, Attached
<1>5. ASSUME process_count' = process_count,
             activity' # "Running" \/ collector' # "up"
      PROVE  Counted'
  BY <1>3, <1>5 DEF Watched
<1>6. CASE Press
  <2>1. UNCHANGED <<collector, process_count, proc>>
    BY <1>6 DEF Press, collectorVars, processVars
  <2>2. CASE toCollector' = Append(toCollector, "START")
    <3>1. Len(toCollector) + 1 \in 1..Len(toCollector')
          /\ toCollector'[Len(toCollector) + 1] = "START"
      BY <1>1, <2>2
    <3>2. ~ Watched'
      BY <3>1 DEF Watched
    <3>3. QED
      BY <1>3, <2>1, <3>2
  <2>3. CASE activity' = "Stopped"
    BY <1>5, <2>1, <2>3
  <2>4. QED
    BY <1>6, <2>2, <2>3 DEF Press, startStopProgram
<1>7. CASE menuCloneViewer
  BY <1>4, <1>7 DEF menuCloneViewer, collectorVars, processVars, messages, Watched
<1>8. CASE Quit
  <2>1. /\ UNCHANGED <<collector, process_count, proc, activity, toClient>>
        /\ toCollector' = Append(toCollector, "QUIT")
    BY <1>8 DEF Quit, collectorVars, processVars
  <2>2. \A i \in 1..Len(toCollector) :
            i \in 1..Len(toCollector') /\ toCollector'[i] = toCollector[i]
    BY <1>1, <2>1
  <2>3. Watched' => Watched
    BY <2>1, <2>2 DEF Watched
  <2>4. QED
    BY <1>4, <2>1, <2>3
<1>9. ASSUME NEW m, Receive(m), m # "HALTED", activity' = activity
      PROVE  Counted'
  <2>1. /\ UNCHANGED <<collector, process_count, proc, toCollector>>
        /\ toClient # << >> /\ Head(toClient) = m /\ toClient' = Tail(toClient)
    BY <1>9 DEF Receive, collectorVars, processVars
  <2>2. /\ Len(toClient') = Len(toClient) - 1 /\ Len(toClient) \in Nat
        /\ \A i \in 1..Len(toClient') :
              toClient'[i] = toClient[i + 1] /\ i + 1 \in 1..Len(toClient)
        /\ toClient[1] = m
    BY <1>1, <2>1
  <2>3. ASSUME \A i \in 1..Len(toClient') : toClient'[i] # "HALTED",
               NEW i \in 1..Len(toClient)
        PROVE  toClient[i] # "HALTED"
    <3>1. CASE i = 1
      BY <1>9, <2>2, <3>1
    <3>2. CASE i # 1
      <4>1. i - 1 \in 1..Len(toClient') /\ (i - 1) + 1 = i
        BY <2>2, <3>2
      <4>2. QED
        BY <2>2, <2>3, <4>1
    <3>3. QED
      BY <3>1, <3>2
  <2>4. Watched' => Watched
    BY <1>9, <2>1, <2>3 DEF Watched
  <2>5. QED
    BY <1>4, <2>1, <2>4
<1>10. CASE unpack_init_app_result \/ Ignore
  BY <1>9, <1>10 DEF unpack_init_app_result, Ignore
<1>11. CASE unpack_target_halted \/ unpack_target_terminated
  BY <1>5, <1>11 DEF unpack_target_halted, unpack_target_terminated, Receive, collectorVars
<1>12. ASSUME app # "ready", UNCHANGED <<process_count, activity>>
       PROVE  Counted'
  BY <1>1, <1>5, <1>12 DEF Asked
<1>13. CASE run_app \/ run_app_returns \/ run_app_error
  BY <1>1, <1>12, <1>13, AppWhen DEF run_app, run_app_returns, run_app_error, clientVars
<1>14. CASE startup_cb \/ startup_cb_failed \/ startup_cb_returns
  BY <1>1, <1>12, <1>14, AppWhen
    DEF startup_cb, startup_cb_failed, startup_cb_returns, clientVars
<1>15. CASE start_program
  <2>1. app = "ready" /\ HasApp
    BY <1>1, <1>15, AppWhen
  <2>2. /\ process_count' = process_count /\ collector' = collector
        /\ Move({IF hasrun THEN "attached" ELSE "created"}, "running")
    BY <1>15, <2>1 DEF start_program
  <2>3. \A p \in Processes : proc'[p] =
            IF proc[p] = IF hasrun THEN "attached" ELSE "created" THEN "running" ELSE proc[p]
    BY <1>1, <2>2, Moves
  <2>4. ASSUME collector = "up"
        PROVE  \A p \in Processes : proc'[p] \notin {"attached", "created"}
    <3>1. CASE hasrun
      BY <1>1, <2>3, <2>4, <3>1 DEF Launched
    <3>2. CASE ~ hasrun
      BY <1>1, <2>3, <2>4, <3>2 DEF Launched
    <3>3. QED
      BY <3>1, <3>2
  <2>5. ASSUME collector = "up"
        PROVE  Standing'
    <3>1. Attached' = {}
      BY <2>4, <2>5 DEF Attached
    <3>2. Cardinality(Attached') = 0
      BY <3>1, FS_EmptySet
    <3>3. QED
      BY <1>1, <2>2, <2>4, <2>5, <3>2 DEF Standing
  <2>6. QED
    BY <1>3, <2>2, <2>5 DEF Watched
<1>16. CASE stop_program
  <2>1. /\ toCollector # << >> /\ Head(toCollector) = "STOP"
        /\ toCollector' = Tail(toCollector)
        /\ UNCHANGED <<process_count, activity>>
    BY <1>16 DEF stop_program, Take, clientVars
  <2>2. CASE activity = "Running"
    <3>1. /\ Len(toCollector') = Len(toCollector) - 1 /\ Len(toCollector) \in Nat
          /\ \A i \in 1..Len(toCollector') : toCollector'[i] = toCollector[i + 1]
          /\ toCollector[1] = "STOP" /\ 1 \in 1..Len(toCollector)
      BY <1>1, <2>1
    <3>2. PICK j \in (1 + 1)..Len(toCollector) : toCollector[j] = "START"
      BY <1>1, <2>2, <3>1 DEF Asked
    <3>3. j - 1 \in 1..Len(toCollector') /\ (j - 1) + 1 = j
      BY <3>1
    <3>4. ~ Watched'
      BY <3>1, <3>2, <3>3 DEF Watched
    <3>5. QED
      BY <1>3, <2>1, <3>4
  <2>3. CASE activity # "Running"
    BY <1>5, <2>1, <2>3
  <2>4. QED
    BY <2>2, <2>3
<1>17. CASE shutdown_app
  BY <1>5, <1>17 DEF shutdown_app
<1>18. ASSUME NEW p \in Processes, HaltTarget_cb(p)
       PROVE  Counted'
  <2>1. /\ proc' = Attach(p)
        /\ UNCHANGED <<collector, activity, toCollector>>
    BY <1>18 DEF HaltTarget_cb, Called, clientVars
  <2>2. CASE process_count + 1 = Cardinality(Processes)
    <3>1. toClient' = Append(toClient, "HALTED") /\ process_count' = 0
      BY <1>18, <2>2 DEF HaltTarget_cb
    <3>2. Len(toClient) + 1 \in 1..Len(toClient') /\ toClient'[Len(toClient) + 1] = "HALTED"
      BY <1>1, <3>1
    <3>3. ~ Watched'
      BY <3>2 DEF Watched
    <3>4. process_count' < Cardinality(Processes)
      BY <3>1, AttachedFinite
    <3>5. QED
      BY <3>3, <3>4 DEF Counted, Watched
  <2>3. CASE process_count + 1 # Cardinality(Processes)
    <3>1. toClient' = toClient /\ process_count' = process_count + 1
      BY <1>18, <2>3 DEF HaltTarget_cb
    <3>2. process_count' < Cardinality(Processes)
      BY <1>1, <1>2, <2>3, <3>1, AttachedFinite
    <3>3. ASSUME Watched'
          PROVE  Standing'
      <4>1. Standing
        BY <1>2, <2>1, <3>1, <3>3 DEF Watched
      <4>2. \A q \in Processes :
                proc'[q] = IF q = p /\ proc[q] = "running" THEN "attached" ELSE proc[q]
        BY <1>1, <2>1, Attaches
      <4>3. Attached' \subseteq Attached \cup {p}
        BY <4>2 DEF Attached
      <4>4. /\ IsFiniteSet(Attached \cup {p})
            /\ Cardinality(Attached \cup {p}) <= Cardinality(Attached) + 1
        <5>1. Cardinality(Attached \cup {p}) =
                  IF p \in Attached THEN Cardinality(Attached) ELSE Cardinality(Attached) + 1
          BY AttachedFinite, FS_AddElement
        <5>2. QED
          BY <5>1, AttachedFinite, FS_AddElement
      <4>5. Cardinality(Attached') <= Cardinality(Attached \cup {p})
            /\ Cardinality(Attached') \in Nat /\ Cardinality(Attached \cup {p}) \in Nat
        BY <4>3, <4>4, FS_Subset, FS_CardinalityType
      <4>6. Cardinality(Attached') <= process_count + 1
        BY <1>1, <4>1, <4>4, <4>5, AttachedFinite DEF Standing
      <4>7. \A q \in Processes : proc'[q] # "created"
        BY <4>1, <4>2 DEF Standing
      <4>8. QED
        BY <3>1, <4>6, <4>7 DEF Standing
    <3>4. QED
      BY <3>2, <3>3 DEF Counted, Watched, Standing
  <2>4. QED
    BY <2>2, <2>3
<1>19. ASSUME NEW p \in Processes, termination_cb(p)
       PROVE  Counted'
  <2>1. /\ UNCHANGED <<collector, activity, toCollector, process_count, proc>>
        /\ toClient' = Append(toClient, "TERMINATED")
    BY <1>19 DEF termination_cb, Called, clientVars
  <2>2. \A i \in 1..Len(toClient) : i \in 1..Len(toClient') /\ toClient'[i] = toClient[i]
    BY <1>1, <2>1
  <2>3. Watched' => Watched
    BY <2>1, <2>2 DEF Watched
  <2>4. QED
    BY <1>4, <2>1, <2>3
<1>20. ASSUME NEW p \in Processes, Hit(p)
       PROVE  Counted'
  BY <1>4, <1>20 DEF Hit, clientVars, collectorVars, messages, Watched
<1>21. ASSUME NEW p \in Processes, Exit(p)
       PROVE  Counted'
  <2>1. UNCHANGED <<collector, activity, toCollector, toClient, process_count>>
    BY <1>21 DEF Exit, clientVars, collectorVars, messages
  <2>2. /\ proc[p] = "running"
        /\ \A q \in Processes : proc'[q] = IF q = p THEN "terminated" ELSE proc[q]
    BY <1>1, <1>21 DEF Exit, TypeOK
  <2>3. Attached' = Attached
    BY <2>2 DEF Attached
  <2>4. Standing => Standing'
    BY <2>1, <2>2, <2>3 DEF Standing
  <2>5. QED
    BY <1>2, <1>3, <2>1, <2>4 DEF Watched
<1>22. CASE UNCHANGED vars
  BY <1>4, <1>22 DEF vars, clientVars, collectorVars, processVars, messages, Watched
<1>23. QED
  BY <1>6, <1>7, <1>8, <1>10, <1>11, <1>13, <1>14, <1>15, <1>16, <1>17, <1>18, <1>19, <1>20,
     <1>21, <1>22 DEF Next, ClientNext, CollectorNext

LEMMA InitIInv == Init => IInv
<1> SUFFICES ASSUME Init
             PROVE  IInv
  OBVIOUS
<1>1. Sound
  BY InitSound
<1>2. /\ \A p \in Processes : proc[p] = "none" /\ callbacks[p] = << >>
      /\ app = "none" /\ hasrun = FALSE /\ activity = "Stopped" /\ process_count = 0
  BY DEF Init
<1>3. Launched
  BY <1>2 DEF Launched
<1>4. Asked
  BY <1>2 DEF Asked
<1>5. Counted
  BY <1>2, AttachedFinite DEF Counted
<1>6. ExitLast
  BY <1>2 DEF ExitLast
<1>7. EndTold
  BY <1>2, ProgramAssumption DEF EndTold
<1>8. QED
  BY <1>1, <1>3, <1>4, <1>5, <1>6, <1>7 DEF IInv

\* The inductive invariant of program control.
THEOREM Invariance == Spec => []IInv
<1>1. IInv /\ [Next]_vars => IInv'
  <2> SUFFICES ASSUME IInv, [Next]_vars PROVE IInv'
    OBVIOUS
  <2>1. Sound'
    BY NextSound DEF IInv
  <2>2. QED
    BY <2>1, LaunchedNext, AskedNext, CountedNext, ExitLastNext, EndToldNext DEF IInv
<1>2. QED
  BY <1>1, InitIInv, PTL DEF Spec

\* Nobody can start the program before startup_cb has parsed it
\* (dpcl_callbacks.cpp, the last lines of startup_cb).
THEOREM ReadyTheorem == Spec => []ReadyBeforeStart
<1>1. IInv => ReadyBeforeStart
  <2> SUFFICES ASSUME IInv, "START" \in Range(toCollector)
               PROVE  app = "ready"
    BY DEF ReadyBeforeStart
  <2>1. toCollector \in Seq(Requests)
    BY DEF IInv, Sound, TypeOK
  <2>2. PICK i \in DOMAIN toCollector : toCollector[i] = "START"
    BY DEF Range
  <2>3. i \in 1..Len(toCollector)
    BY <2>1, <2>2
  <2>4. QED
    BY <2>2, <2>3 DEF IInv, Sound, RequestsSound
<1>2. QED
  BY <1>1, Invariance, PTL

\* A program whose processes have all been halted is reported (HaltTarget_cb), and no
\* process is left behind when it is started (start_program).
THEOREM HaltsAreReported == Spec => []NoSilentHalt
<1>1. IInv => NoSilentHalt
  <2> SUFFICES ASSUME IInv, Quiet, activity = "Running",
                      \A p \in Processes : proc[p] # "terminated"
               PROVE  /\ \E p \in Processes : proc[p] = "running"
                      /\ \A p \in Processes : proc[p] # "created"
    BY DEF NoSilentHalt
  <2>1. /\ process_count < Cardinality(Processes) /\ process_count \in Nat
        /\ Cardinality(Attached) <= process_count
        /\ \A p \in Processes : proc[p] # "created"
    BY DEF IInv, Sound, TypeOK, Counted, Quiet
  <2>2. app = "ready" /\ proc \in [Processes -> ProcessStates]
    BY DEF IInv, Sound, TypeOK, Asked
  <2>3. \A p \in Processes : proc[p] \in {"running", "attached"}
    BY <2>1, <2>2 DEF IInv, Launched, Quiet, ProcessStates
  <2>4. Attached # Processes
    BY <2>1, AttachedFinite
  <2>5. PICK p \in Processes : proc[p] # "attached"
    BY <2>4 DEF Attached
  <2>6. QED
    BY <2>1, <2>3, <2>5
<1>2. QED
  BY <1>1, Invariance, PTL

\* Once its end is known no window can start or stop the program
\* (unpack_target_terminated and the windows that are opened later).
THEOREM EndGreysOut == Spec => []GreyedOut
<1>1. IInv => GreyedOut
  <2> SUFFICES ASSUME IInv, Quiet, enabled
               PROVE  app = "ready" /\ \E p \in Processes : Alive(p)
    BY DEF GreyedOut
  <2>1. app = "ready" /\ proc \in [Processes -> ProcessStates]
    BY DEF IInv, Sound, TypeOK, ButtonSound
  <2>2. ~ EndComes /\ ~ EndSent
    BY DEF EndComes, EndSent, Quiet
  <2>3. ~ EndShown
    BY Zenon DEF EndShown
  <2>4. PICK p \in Processes : proc[p] # "terminated"
    BY <2>2, <2>3 DEF IInv, EndTold, Quiet
  <2>5. proc[p] # "none"
    BY <2>1 DEF IInv, Launched, Quiet
  <2>6. QED
    BY <2>1, <2>4, <2>5 DEF Alive, ProcessStates
<1>2. QED
  BY <1>1, Invariance, PTL
===============================================================================
