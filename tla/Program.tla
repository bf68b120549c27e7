-------------------------------- MODULE Program --------------------------------
(* Control of the target program: the Run button of the Client, dynTG, which     *)
(* obeys it through DPCL, and the processes of the program.                      *)
(*                                                                               *)
(* Client: GUIActionSender::startStopProgram, GUISocketReader, MainView.         *)
(* Collector: dpcl_socket.cpp, dpcl_run_app.cpp, dpcl_callbacks.cpp and          *)
(* HaltTarget_cb of the mpx module.  DPCL itself (what bstart, battach, bdetach  *)
(* and bdestroy do to a process, and that it reports what a process does) is     *)
(* external.  Messages arrive unchanged and in order: TGSocket.                  *)
EXTENDS Naturals, Sequences, FiniteSets, Functions

CONSTANTS Processes,   \* the tasks of the target program
          First,       \* get_process( 0 )
          MaxPresses,  \* bound: uses of the Run button
          MaxHits      \* bound: breakpoints hit by each process

ASSUME ProgramAssumption ==
    /\ IsFiniteSet(Processes)
    /\ First \in Processes
    /\ MaxPresses \in Nat
    /\ MaxHits \in Nat

VARIABLES
    activity,       \* TGProgramState
    runButton,      \* runButtonState, which the windows share
    enabled,        \* some window has a Run button that can be pressed
    presses,        \* times it was
    quitting,       \* the Client has asked the collector to quit
    collector,      \* "up" or "gone"
    app,            \* how far TG_app is
    hasrun,         \* start_program has been called
    process_count,  \* processes that HaltTarget_cb has stopped
    proc,           \* what each process does
    callbacks,      \* what DPCL has to report of each process
    hits,           \* breakpoints each process has hit
    toCollector, toClient

clientVars == <<activity, runButton, enabled, presses, quitting>>
collectorVars == <<collector, app, hasrun, process_count>>
processVars == <<proc, callbacks, hits>>
messages == <<toCollector, toClient>>
vars == <<clientVars, collectorVars, processVars, messages>>

Activities == {"Stopped", "Running", "Terminated"}
ButtonStates == {"DISABLED", "STOPPED", "RUNNING"}
AppStates == {"none", "creating", "half", "parsing", "ready", "failed"}
ProcessStates == {"none", "created", "running", "attached", "terminated"}
Requests == {"INITIALIZE", "START", "STOP", "QUIT"}
Answers == {"INIT_OK", "INIT_FAILED", "HALTED", "TERMINATED", "SAYS_QUIT"}

\* The Client has just asked for the application.
Init ==
    /\ activity = "Stopped"
    /\ runButton = "DISABLED"
    /\ enabled = FALSE
    /\ presses = 0
    /\ quitting = FALSE
    /\ collector = "up"
    /\ app = "none"
    /\ hasrun = FALSE
    /\ process_count = 0
    /\ proc = [p \in Processes |-> "none"]
    /\ callbacks = [p \in Processes |-> << >>]
    /\ hits = [p \in Processes |-> 0]
    /\ toCollector = <<"INITIALIZE">>
    /\ toClient = << >>

\* What DPCL does to every process that is in one of the given states.
Move(from, to) ==
    proc' = [p \in Processes |-> IF proc[p] \in from THEN to ELSE proc[p]]

------------------------------------------------------------------------------
(* The Client. *)

startStopProgram(start) ==
    \/ /\ start /\ activity = "Stopped"
       /\ activity' = "Running"
       /\ runButton' = "RUNNING"
       /\ toCollector' = Append(toCollector, "START")
    \/ /\ ~ start /\ activity = "Running"
       /\ activity' = "Stopped"
       /\ runButton' = "STOPPED"
       /\ toCollector' = Append(toCollector, "STOP")

\* The button toggles: what it asks for depends on what it showed.
Press ==
    /\ enabled /\ ~ quitting
    /\ presses < MaxPresses
    /\ presses' = presses + 1
    /\ startStopProgram(runButton # "RUNNING")
    /\ UNCHANGED <<enabled, quitting, collectorVars, processVars, toClient>>

\* The button of a new window starts in the state that was kept.
menuCloneViewer ==
    /\ ~ quitting
    /\ enabled' = (enabled \/ runButton # "DISABLED")
    /\ UNCHANGED <<activity, runButton, presses, quitting, collectorVars, processVars,
                   messages>>

Quit ==
    /\ ~ quitting
    /\ quitting' = TRUE
    /\ toCollector' = Append(toCollector, "QUIT")
    /\ UNCHANGED <<activity, runButton, enabled, presses, collectorVars, processVars,
                   toClient>>

Receive(message) ==
    /\ ~ quitting
    /\ toClient # << >>
    /\ Head(toClient) = message
    /\ toClient' = Tail(toClient)
    /\ UNCHANGED <<presses, quitting, collectorVars, processVars, toCollector>>

unpack_init_app_result ==
    /\ Receive("INIT_OK")
    /\ runButton' = "STOPPED"
    /\ enabled' = TRUE
    /\ UNCHANGED activity

unpack_target_halted ==
    /\ Receive("HALTED")
    /\ activity' = "Stopped"
    /\ runButton' = "STOPPED"
    /\ UNCHANGED enabled

\* A bug the code does not have: the windows there are do not grey their button out.
unpack_target_terminatedNew ==
    /\ Receive("TERMINATED")
    /\ activity' = "Terminated"
    /\ runButton' = "DISABLED"
    /\ UNCHANGED enabled

unpack_target_terminated ==
    /\ Receive("TERMINATED")
    /\ activity' = "Terminated"
    /\ runButton' = "DISABLED"
    /\ enabled' = FALSE

\* A warning, or nothing: get_pending_data drops what the reader returns.
Ignore ==
    /\ Receive("INIT_FAILED") \/ Receive("SAYS_QUIT")
    /\ UNCHANGED <<activity, runButton, enabled>>

------------------------------------------------------------------------------
(* The collector: what the Client asks for. *)

Take(message) ==
    /\ collector = "up"
    /\ toCollector # << >>
    /\ Head(toCollector) = message
    /\ toCollector' = Tail(toCollector)

\* TG_app # NULL.
HasApp == app \notin {"none", "failed"}

\* run_app_sequential and run_app_parallel: create succeeds so far, ...
run_app ==
    /\ Take("INITIALIZE")
    /\ app' = "creating"
    /\ UNCHANGED <<clientVars, collector, hasrun, process_count, processVars, toClient>>

\* ... a name is too long: they return with TG_app set and nobody is told, ...
run_app_returns ==
    /\ Take("INITIALIZE")
    /\ app' = "half"
    /\ UNCHANGED <<clientVars, collector, hasrun, process_count, processVars, toClient>>

\* ... or create fails: DPCL_error ends the collector.
run_app_error ==
    /\ Take("INITIALIZE")
    /\ app' = "half"
    /\ collector' = "gone"
    /\ toClient' = toClient \o <<"SAYS_QUIT", "SAYS_QUIT">>
    /\ UNCHANGED <<clientVars, hasrun, process_count, processVars>>

\* A bug the code does not have: bdetach also the first time.
start_programDetach ==
    /\ Take("START")
    /\ IF HasApp
         THEN /\ Move({"attached"}, "running")
              /\ hasrun' = TRUE
         ELSE UNCHANGED <<proc, hasrun>>
    /\ UNCHANGED <<clientVars, collector, app, process_count, callbacks, hits, toClient>>

\* bstart the first time, bdetach afterwards.
start_program ==
    /\ Take("START")
    /\ IF HasApp
         THEN /\ Move({IF hasrun THEN "attached" ELSE "created"}, "running")
              /\ hasrun' = TRUE
         ELSE UNCHANGED <<proc, hasrun>>
    /\ UNCHANGED <<clientVars, collector, app, process_count, callbacks, hits, toClient>>

stop_program ==
    /\ Take("STOP")
    /\ IF HasApp THEN Move({"running"}, "attached") ELSE UNCHANGED proc
    /\ UNCHANGED <<clientVars, collector, app, hasrun, process_count, callbacks, hits,
                   toClient>>

Alive(p) == proc[p] \in {"created", "running", "attached"}

\* The early return of shutdown_app.
NothingToDo == HasApp /\ proc[First] = "terminated"

shutdown_app ==
    /\ Take("QUIT")
    /\ collector' = "gone"
    /\ IF NothingToDo
         THEN UNCHANGED <<proc, toClient>>
         ELSE /\ Move({"created", "running", "attached"}, "terminated")
              /\ toClient' = toClient \o <<"SAYS_QUIT", "SAYS_QUIT">>
    /\ UNCHANGED <<clientVars, app, hasrun, process_count, callbacks, hits>>

------------------------------------------------------------------------------
(* The collector: what DPCL calls back. *)

\* A bug the code does not have: the result is sent before the program is parsed.
startup_cbFirst ==
    /\ collector = "up"
    /\ app = "creating"
    /\ app' = "parsing"
    /\ proc' = [p \in Processes |-> "created"]
    /\ toClient' = Append(toClient, "INIT_OK")
    /\ UNCHANGED <<clientVars, collector, hasrun, process_count, callbacks, hits,
                   toCollector>>

\* startup_cb parses the program; DPCL may call other handlers meanwhile.
startup_cb ==
    /\ collector = "up"
    /\ app = "creating"
    /\ app' = "parsing"
    /\ proc' = [p \in Processes |-> "created"]
    /\ UNCHANGED <<clientVars, collector, hasrun, process_count, callbacks, hits,
                   messages>>

startup_cb_failed ==
    /\ collector = "up"
    /\ app = "creating"
    /\ app' = "failed"
    /\ toClient' = Append(toClient, "INIT_FAILED")
    /\ UNCHANGED <<clientVars, collector, hasrun, process_count, processVars,
                   toCollector>>

startup_cb_returns ==
    /\ collector = "up"
    /\ app = "parsing"
    /\ app' = "ready"
    /\ toClient' = Append(toClient, "INIT_OK")
    /\ UNCHANGED <<clientVars, collector, hasrun, process_count, processVars,
                   toCollector>>

Called(p, report) ==
    /\ collector = "up"
    /\ callbacks[p] # << >>
    /\ Head(callbacks[p]) = report
    /\ callbacks' = [callbacks EXCEPT ![p] = Tail(@)]
    /\ UNCHANGED <<clientVars, collector, app, hasrun, hits, toCollector>>

Attach(p) == IF proc[p] = "running" THEN [proc EXCEPT ![p] = "attached"] ELSE proc

HaltTarget_cb(p) ==
    /\ Called(p, "halt")
    /\ proc' = Attach(p)
    /\ IF process_count + 1 = Cardinality(Processes)
         THEN /\ toClient' = Append(toClient, "HALTED")
              /\ process_count' = 0
         ELSE /\ process_count' = process_count + 1
              /\ UNCHANGED toClient

termination_cb(p) ==
    /\ Called(p, "exit")
    /\ toClient' = Append(toClient, "TERMINATED")
    /\ UNCHANGED <<proc, process_count>>

------------------------------------------------------------------------------
(* The processes of the target program. *)

\* The probe reports; the process goes on until it is attached.
Hit(p) ==
    /\ proc[p] = "running"
    /\ hits[p] < MaxHits
    /\ hits' = [hits EXCEPT ![p] = @ + 1]
    /\ callbacks' = [callbacks EXCEPT ![p] = Append(@, "halt")]
    /\ UNCHANGED <<clientVars, collectorVars, proc, messages>>

Exit(p) ==
    /\ proc[p] = "running"
    /\ proc' = [proc EXCEPT ![p] = "terminated"]
    /\ callbacks' = [callbacks EXCEPT ![p] = Append(@, "exit")]
    /\ UNCHANGED <<clientVars, collectorVars, hits, messages>>

------------------------------------------------------------------------------

ClientNext ==
    \/ Press \/ menuCloneViewer \/ Quit
    \/ unpack_init_app_result \/ unpack_target_halted \/ unpack_target_terminated
    \/ Ignore

CollectorNext ==
    \/ run_app \/ run_app_returns \/ run_app_error
    \/ start_program \/ stop_program \/ shutdown_app
    \/ startup_cb \/ startup_cb_failed \/ startup_cb_returns
    \/ \E p \in Processes : HaltTarget_cb(p) \/ termination_cb(p)

Next ==
    \/ ClientNext
    \/ CollectorNext
    \/ \E p \in Processes : Hit(p) \/ Exit(p)

Spec == Init /\ [][Next]_vars

------------------------------------------------------------------------------

TypeOK ==
    /\ activity \in Activities /\ runButton \in ButtonStates
    /\ enabled \in BOOLEAN /\ quitting \in BOOLEAN /\ hasrun \in BOOLEAN
    /\ presses \in Nat /\ process_count \in Nat
    /\ collector \in {"up", "gone"} /\ app \in AppStates
    /\ proc \in [Processes -> ProcessStates]
    /\ callbacks \in [Processes -> Seq({"halt", "exit"})]
    /\ hits \in [Processes -> Nat]
    /\ toCollector \in Seq(Requests) /\ toClient \in Seq(Answers)

\* The program is started only when startup_cb has parsed it: its last line is
\* there so that nobody can start it before (dpcl_callbacks.cpp).
ReadyBeforeStart == "START" \in Range(toCollector) => app = "ready"

\* What makes it so: the Client asks for one application, in its first message, and
\* nothing moves, or asks to be moved, before that application is ready.
RequestsSound ==
    \A i \in 1..Len(toCollector) :
       /\ toCollector[i] = "INITIALIZE" => i = 1 /\ app = "none"
       /\ toCollector[i] \in {"START", "STOP"} => app = "ready"
AnswersSound ==
    \A i \in 1..Len(toClient) :
       toClient[i] \in {"INIT_OK", "HALTED", "TERMINATED"} => app = "ready"
ButtonSound == runButton # "DISABLED" \/ enabled => app = "ready"
ProcessesSound ==
    \A p \in Processes :
       proc[p] \in {"running", "attached"} \/ callbacks[p] # << >> => app = "ready"

Sound == TypeOK /\ RequestsSound /\ AnswersSound /\ ButtonSound /\ ProcessesSound

\* The processes are created once, together, and started together.
Launched ==
    /\ hasrun => app = "ready"
    /\ collector = "up" => \A p \in Processes :
          /\ proc[p] = "terminated" => app = "ready"
          /\ proc[p] = "none" => app \notin {"parsing", "ready"}
          /\ proc[p] \in {"running", "attached"} => hasrun
          /\ proc[p] = "created" => ~ hasrun

\* A Client that shows a running program has not asked to stop it since.
Asked ==
    activity = "Running" =>
        /\ app = "ready"
        /\ \A i \in 1..Len(toCollector) : toCollector[i] = "STOP" =>
               \E j \in (i + 1)..Len(toCollector) : toCollector[j] = "START"

Attached == {p \in Processes : proc[p] = "attached"}

\* Since the program was started every process that stands still has been counted;
\* the count comes full only with a message.
Counted ==
    /\ process_count < Cardinality(Processes)
    /\ collector = "up" /\ activity = "Running"
       /\ (\A i \in 1..Len(toCollector) : toCollector[i] # "START")
       /\ (\A i \in 1..Len(toClient) : toClient[i] # "HALTED")
       => /\ Cardinality(Attached) <= process_count
          /\ \A p \in Processes : proc[p] # "created"

\* The end of a process is the last that is reported of it; once all have ended
\* either the message that greys the button out is to come, or it is.
Enables == {"INIT_OK", "HALTED"}
EndComes == \E p \in Processes : callbacks[p] # << >>
EndSent ==
    \E i \in 1..Len(toClient) :
       /\ toClient[i] = "TERMINATED"
       /\ \A j \in (i + 1)..Len(toClient) : toClient[j] \notin Enables
EndShown ==
    /\ runButton = "DISABLED" /\ ~ enabled
    /\ \A i \in 1..Len(toClient) : toClient[i] \notin Enables
ExitLast ==
    collector = "up" => \A p \in Processes :
        proc[p] = "terminated" /\ callbacks[p] # << >>
        => callbacks[p][Len(callbacks[p])] = "exit"
EndTold ==
    collector = "up" /\ (\A p \in Processes : proc[p] = "terminated") =>
        EndComes \/ EndSent \/ EndShown

IInv == Sound /\ Launched /\ Asked /\ Counted /\ ExitLast /\ EndTold

\* Nothing is under way.
Quiet ==
    /\ collector = "up"
    /\ toCollector = << >> /\ toClient = << >>
    /\ \A p \in Processes : callbacks[p] = << >>

\* A Client that shows a running program has one: if every process had stopped at
\* a breakpoint it would have been told, and none was left behind when it started.
\* HaltTarget_cb assumes that every process is still there to reach the breakpoint.
NoSilentHalt ==
    Quiet /\ activity = "Running" /\ (\A p \in Processes : proc[p] # "terminated") =>
        /\ \E p \in Processes : proc[p] = "running"
        /\ \A p \in Processes : proc[p] # "created"

\* The Run button is unavailable while the application is created and after it
\* has terminated (the text of the button in mainview.cpp).
GreyedOut ==
    Quiet /\ enabled =>
        /\ app = "ready"
        /\ \E p \in Processes : Alive(p)

\* What the Client shows is what the program does (the text of the status bar).
StatusTrue ==
    Quiet /\ activity = "Stopped" => \A p \in Processes : proc[p] # "running"

\* When shutdown_app finds nothing to do, the program is already shut down.
AlreadyShutDown ==
    [][shutdown_app /\ NothingToDo => \A p \in Processes : ~ Alive(p)]_vars
================================================================================
