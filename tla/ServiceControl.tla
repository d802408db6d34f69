--------------------------- MODULE ServiceControl ---------------------------
(***************************************************************************)
(* A process run as a Windows service (NativeServiceControl.cpp): the      *)
(* dispatcher's thread in service_main, the controls the Service Control   *)
(* Manager (SCM) sends, and the program, which attaches, polls for a       *)
(* shutdown (ProcessLifecycle.poll) and reports that it has stopped.       *)
(***************************************************************************)
EXTENDS Naturals

CONSTANTS
  SelfStops,   \* whether the program also asks for its own shutdown: choices
  MaxReports   \* bound: reports made while the program may ask for time

ASSUME ServiceAssumption == SelfStops \subseteq BOOLEAN /\ MaxReports \in Nat

Pending == {"startPending", "stopPending"}

VARIABLES
  attach,      \* g_attach_state
  main,        \* where the dispatcher's thread is
  filled,      \* whether g_status says which controls are accepted
  published,   \* g_status_handle
  status,      \* g_status: its state and checkpoint
  scm,         \* what the SCM was last told: state, checkpoint, controls
  control,     \* the control being handled, and how far
  stopSent,    \* whether the SCM has asked for a stop
  stopEvent,   \* g_stop_event
  latched,     \* g_shutdown_requested
  program,     \* where the program's thread is
  torn,        \* whether its runtime has been torn down
  selfStops,   \* the choice made of SelfStops
  reports,     \* report_status calls that told the SCM something
  late         \* whether anything was reported after "stopped"

service == <<attach, main, filled, published, stopEvent>>
serviceVars ==
  <<service, status, scm, control, stopSent, latched, program, torn, selfStops,
    reports, late>>

Unknown == [state |-> "none", check |-> 0, controls |-> FALSE]

ServiceInit ==
  /\ attach = "pending" /\ main = "none"
  /\ filled = FALSE /\ published = FALSE /\ stopEvent = FALSE
  /\ status = [state |-> "none", check |-> 0]
  /\ scm = Unknown
  /\ control = "none" /\ stopSent = FALSE /\ latched = FALSE
  /\ program = "attach" /\ torn = FALSE /\ late = FALSE
  /\ selfStops \in SelfStops /\ reports = 0

-----------------------------------------------------------------------------

\* A checkpoint that keeps moving while a start or a stop is pending.
Checkpoint(state) == IF state \in Pending THEN status.check + 1 ELSE 0

\* SetServiceStatus, under the status lock.
Tell(st) ==
  /\ scm' = [state |-> st.state, check |-> st.check, controls |-> filled]
  /\ late' = (late \/ (scm.state = "stopped" /\ st.state # "stopped"))

\* report_status: nothing until the handle is published.
ReportStatus(state) ==
  IF published
  THEN /\ status' = [state |-> state, check |-> Checkpoint(state)]
       /\ Tell(status')
       /\ reports' = reports + 1
  ELSE UNCHANGED <<status, scm, late, reports>>

\* report_current_status: what was last reported, again.
ReportCurrentStatus ==
  /\ IF published THEN Tell(status) ELSE UNCHANGED <<scm, late>>
  /\ UNCHANGED <<status, reports>>

-----------------------------------------------------------------------------
\* crossbyte_service_attach: the dispatcher's thread is started, once.
Attach ==
  /\ program = "attach" /\ program' = "handshake"
  /\ \/ main' = "dispatch" /\ UNCHANGED attach
     \/ attach' = "unavailable" /\ UNCHANGED main
  /\ UNCHANGED <<filled, published, stopEvent, status, scm, control, stopSent,
                 latched, torn, late, selfStops, reports>>

\* StartServiceCtrlDispatcher: not a service, or the SCM's service_main call.
Dispatch ==
  /\ main = "dispatch"
  /\ \/ main' = "register" /\ UNCHANGED attach
     \/ main' = "returned" /\ attach' \in {"not_a_service", "unavailable"}
  /\ UNCHANGED <<filled, published, stopEvent, status, scm, control, stopSent,
                 latched, program, torn, late, selfStops, reports>>

\* RegisterServiceCtrlHandlerEx: from here on the SCM may send controls.
Register ==
  /\ main = "register"
  /\ \/ main' = "fill" /\ UNCHANGED attach
     \/ main' = "returned" /\ attach' = "unavailable"
  /\ UNCHANGED <<filled, published, stopEvent, status, scm, control, stopSent,
                 latched, program, torn, late, selfStops, reports>>

\* The status filled in, then the handle published.
Fill ==
  /\ main = "fill" /\ main' = "publish"
  /\ filled' = TRUE
  /\ status' = [status EXCEPT !.state = "startPending"]
  /\ UNCHANGED <<attach, published, stopEvent, scm, control, stopSent, latched,
                 program, torn, late, selfStops, reports>>

Publish ==
  /\ main = "publish" /\ main' = "starting"
  /\ published' = TRUE
  /\ UNCHANGED <<attach, filled, stopEvent, status, scm, control, stopSent, latched,
                 program, torn, late, selfStops, reports>>

ReportStarting ==
  /\ main = "starting" /\ main' = "attached"
  /\ ReportStatus("startPending")
  /\ UNCHANGED <<attach, filled, published, stopEvent, control, stopSent, latched,
                 program, torn, selfStops>>

\* ATTACHED before RUNNING, so that a stop finds a service.
SetAttached ==
  /\ main = "attached" /\ main' = "running"
  /\ attach' = "attached"
  /\ UNCHANGED <<filled, published, stopEvent, status, scm, control, stopSent,
                 latched, program, torn, late, selfStops, reports>>

ReportRunning ==
  /\ main = "running" /\ main' = "parked"
  /\ ReportStatus("running")
  /\ UNCHANGED <<attach, filled, published, stopEvent, control, stopSent, latched,
                 program, torn, selfStops>>

\* Parked until the program has stopped.
Unpark ==
  /\ main = "parked" /\ stopEvent
  /\ main' = "returned"
  /\ UNCHANGED <<attach, filled, published, stopEvent, status, scm, control, stopSent,
                 latched, program, torn, late, selfStops, reports>>

-----------------------------------------------------------------------------
\* The SCM: an interrogation at any time, a stop (or the system's shutdown) of
\* a service it was told is running.
SendControl(c) ==
  /\ main \in {"fill", "publish", "starting", "attached", "running", "parked"}
  /\ control = "none" /\ control' = c
  /\ c = "stop" => scm.state = "running" /\ scm.controls /\ ~stopSent
  /\ stopSent' = (stopSent \/ c = "stop")
  /\ UNCHANGED <<service, status, scm, latched, program, torn, late, selfStops, reports>>

\* Variant of HandleControl: the request first.
LatchFirst ==
  /\ \/ /\ control = "stop" /\ ~latched /\ latched' = TRUE
        /\ UNCHANGED <<control, status, scm, late, reports>>
     \/ /\ control = "stop" /\ latched /\ control' = "latch"
        /\ ReportStatus("stopPending") /\ UNCHANGED latched
     \/ /\ control = "interrogate" /\ control' = "none"
        /\ ReportCurrentStatus /\ UNCHANGED latched
  /\ UNCHANGED <<service, stopSent, program, torn, selfStops>>

\* control_handler: a stop is acknowledged, then latched.
HandleControl ==
  /\ \/ /\ control = "stop" /\ control' = "latch"
        /\ ReportStatus("stopPending")
     \/ /\ control = "interrogate" /\ control' = "none"
        /\ ReportCurrentStatus
  /\ UNCHANGED <<service, stopSent, latched, program, torn, selfStops>>

LatchStop ==
  /\ control = "latch" /\ control' = "none"
  /\ latched' = TRUE
  /\ UNCHANGED <<service, status, scm, stopSent, program, torn, late, selfStops, reports>>

-----------------------------------------------------------------------------
\* installServiceControl waits for the handshake, at most so long.
Handshake ==
  /\ program = "handshake" /\ program' = "loop"
  /\ UNCHANGED <<service, status, scm, control, stopSent, latched, torn, late, selfStops, reports>>

\* The program's own request, a console's, or Windows' (NativeLifecycle).
SelfStop ==
  /\ selfStops /\ program = "loop" /\ ~latched
  /\ latched' = TRUE
  /\ UNCHANGED <<service, status, scm, control, stopSent, program, torn, late, selfStops, reports>>

\* poll, on a tick: the callbacks are begun ...
Poll ==
  /\ program = "loop" /\ latched
  /\ program' = "callbacks"
  /\ UNCHANGED <<service, status, scm, control, stopSent, latched, torn, late, selfStops, reports>>

\* ... and a slow one asks for more time (crossbyte_service_report_stop_pending).
ReportStopPending ==
  /\ program = "callbacks" /\ attach = "attached"
  /\ reports < MaxReports
  /\ ReportStatus("stopPending")
  /\ UNCHANGED <<service, control, stopSent, latched, program, torn, selfStops>>

\* The runtime is told to exit, and will, once this tick is over.
PollEnds ==
  /\ program = "callbacks" /\ program' = "report"
  /\ UNCHANGED <<service, status, scm, control, stopSent, latched, torn, late, selfStops, reports>>

\* crossbyte_service_report_stopped: nothing unless attached.
ReportStopped ==
  /\ program = "report" /\ program' = "ending"
  /\ IF attach = "attached"
     THEN ReportStatus("stopped") /\ stopEvent' = TRUE
     ELSE UNCHANGED <<status, scm, late, reports, stopEvent>>
  /\ UNCHANGED <<attach, main, filled, published, control, stopSent, latched, torn, selfStops>>

\* The loop ends, and with it the runtime's sockets, timers and children.
TearDown ==
  /\ program = "ending" /\ program' = "ended"
  /\ torn' = TRUE
  /\ UNCHANGED <<service, status, scm, control, stopSent, latched, late, selfStops, reports>>

-----------------------------------------------------------------------------
MainStep ==
  \/ Dispatch \/ Register \/ Fill \/ Publish \/ ReportStarting \/ SetAttached
  \/ ReportRunning \/ Unpark
HandlerStep == HandleControl \/ LatchStop
ProgramStep ==
  Attach \/ Handshake \/ Poll \/ PollEnds \/ ReportStopped \/ TearDown

ServiceNext ==
  \/ MainStep \/ HandlerStep \/ ProgramStep \/ SelfStop \/ ReportStopPending
  \/ \E c \in {"stop", "interrogate"} : SendControl(c)

ServiceSpec == ServiceInit /\ [][ServiceNext]_serviceVars

-----------------------------------------------------------------------------
ServiceTypeOK ==
  /\ attach \in {"pending", "attached", "not_a_service", "unavailable"}
  /\ control \in {"none", "interrogate", "stop", "latch"}
  /\ scm.state \in {"none", "startPending", "running", "stopPending", "stopped"}
  /\ scm.check \in 0..(MaxReports + 1) /\ reports \in 0..(MaxReports + 3)
  /\ {filled, published, stopEvent, stopSent, latched, torn, late} \subseteq BOOLEAN

\* The SCM is never told that the service takes no controls: a control handled
\* the moment registration returns reports nothing rather than half a status.
ReportsWhole == scm.state # "none" => scm.controls

\* A pending stop that reports again reports a later checkpoint: "what tells
\* the SCM a slow stop is still making progress rather than wedged".
CheckpointMoves ==
  [][scm.state = "stopPending" /\ scm'.state = "stopPending" /\ reports' > reports
       => scm'.check > scm.check]_serviceVars

\* A stop the SCM asks for ends with the service stopped, and service_main
\* returned, where the program does not stop of itself at the same time.
StopEnds == (stopSent /\ ~selfStops) ~> (scm.state = "stopped" /\ main = "returned")

\* Once told the service has stopped, the SCM is told nothing else, likewise:
\* the stop is acknowledged before the program can see it.
StoppedIsLast == late => selfStops

\* Stopped is reported "only once the callbacks and the runtime teardown are
\* done" (ProcessLifecycle.poll).
StoppedAfterTeardown == scm.state = "stopped" => torn

\* What the SCM hears of a stop is whole, moves on, comes to an end, and the
\* end is the last it hears.
StopIsReported == [](ReportsWhole /\ StoppedIsLast) /\ CheckpointMoves /\ StopEnds
=============================================================================
