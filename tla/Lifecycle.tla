------------------------------ MODULE Lifecycle ------------------------------
(***************************************************************************)
(* How a process is asked to shut down, and does (NativeLifecycle.cpp and  *)
(* ProcessLifecycle.hx): signals, or on Windows console events and the     *)
(* session window's messages, latch one flag; whichever thread's poll sees *)
(* it first runs the callbacks.                                            *)
(*                                                                         *)
(* A signal nobody handles ends the process, and so does Windows once the  *)
(* handler of a closing console, a logoff or a shutdown returns.  How long *)
(* that handler holds is counted in rounds: a round is time enough for     *)
(* each thread that has to poll, or is in poll, to take its next step, so  *)
(* a callback is assumed to take no more than its share of the hold.       *)
(***************************************************************************)
EXTENDS Naturals, FiniteSets

CONSTANTS
  Pollers,     \* threads that install the handlers and poll
  Runtimes,    \* those that have a runtime of their own
  MainThread,  \* the one of these whose loop's end is the process's
  Callbacks,   \* onShutdown callbacks, registered from any thread
  HoldRounds,  \* the shorter of g_close_wait_ms and Windows' limit, in rounds
  NoThread

ASSUME LifecycleAssumption ==
  /\ IsFiniteSet(Pollers) /\ Runtimes \subseteq Pollers /\ MainThread \in Runtimes
  /\ NoThread \notin Pollers
  /\ IsFiniteSet(Callbacks)
  /\ HoldRounds \in Nat /\ HoldRounds >= Cardinality(Callbacks) + 2

Signals == {"INT", "TERM", "HUP"}
ConsoleEvents == {"C", "BREAK", "LOGOFF", "CLOSE", "SHUTDOWN"}
\* Those a process that has loaded user32 hears through a window only.
SessionEvents == {"LOGOFF", "SHUTDOWN"}

VARIABLES
  platform,    \* "posix" or "windows"
  session0,    \* Windows: whether no one logs on to this process's session
  user32,      \* Windows: whether user32.dll has been loaded
  life,        \* "alive"; "unhandled", ended by what nobody handled; "ended"
               \* by Windows, a handler having returned; "exited" by itself
  requested,   \* g_shutdown_requested
  installed,   \* g_handlers_installed
  handler,     \* per signal: "default", "ignored", "ours"
  console,     \* whether the console control handler is set
  windowBegun, \* g_session_window_started
  window,      \* whether the session window takes messages
  installing,  \* where each thread is in crossbyte_lifecycle_install
  watched,     \* the thread of __watchedRuntime, whose ticks poll
  exitOnShutdown,
  exiting,     \* threads whose runtime has been told to exit
  holding,     \* whether a handler holds Windows up
  rounds,      \* rounds the first one has held
  behind,      \* threads that have not taken this round's step
  attended,    \* whether a runtime watched, or had seen, as it began to hold
  loggedOff,   \* whether a logoff has asked for the shutdown
  dispatched,  \* __dispatched
  waiting,     \* __callbacks
  running,     \* the callbacks a thread has claimed to run
  polling,     \* where each thread is in poll
  registering, \* where each callback's onShutdown is
  ran          \* per callback, how often it has run

native == <<platform, session0, exitOnShutdown>>
handlers == <<installed, handler, console, windowBegun, window, installing,
              watched>>
hold == <<holding, rounds, behind, attended>>
sources == <<user32, hold, loggedOff, requested>>
dispatch == <<dispatched, waiting, running, polling, registering, ran, exiting>>
lifecycleVars == <<native, life, handlers, sources, dispatch>>

LifecycleInit ==
  /\ platform \in {"posix", "windows"}
  /\ session0 \in IF platform = "windows" THEN BOOLEAN ELSE {FALSE}
  /\ user32 = FALSE
  /\ life = "alive"
  /\ requested = FALSE /\ installed = FALSE
  /\ handler \in {[s \in Signals |-> IF s = "HUP" THEN h ELSE "default"] :
                    h \in IF platform = "posix" THEN {"default", "ignored"}
                          ELSE {"default"}}
  /\ console = FALSE /\ windowBegun = FALSE /\ window = FALSE
  /\ installing = [t \in Pollers |-> "new"]
  /\ watched = NoThread /\ exitOnShutdown \in BOOLEAN /\ exiting = {}
  /\ holding = FALSE /\ rounds = 0 /\ behind = {} /\ attended = FALSE
  /\ loggedOff = FALSE
  /\ dispatched = FALSE /\ waiting = {}
  /\ running = [t \in Pollers |-> {}]
  /\ polling = [t \in Pollers |-> "idle"]
  /\ registering = [c \in Callbacks |-> "new"]
  /\ ran = [c \in Callbacks |-> 0]

Alive == life = "alive"

-----------------------------------------------------------------------------
\* installDefaultHandlers: the thread's runtime is watched, if none is; then
\* crossbyte_lifecycle_install, claimed by one thread; for any other it is
\* done, or on Windows all but the window.
InstallBegins(t) ==
  /\ Alive /\ installing[t] = "new"
  /\ watched' = IF watched = NoThread /\ t \in Runtimes THEN t ELSE watched
  /\ installed' = TRUE
  /\ installing' = [installing EXCEPT ![t] =
       IF ~installed THEN "claimed" ELSE IF platform = "windows" THEN "window" ELSE "armed"]
  /\ UNCHANGED <<native, life, handler, console, windowBegun, window, sources, dispatch>>

\* takesDefaultAction: a signal ignored or handled already is left alone.
TakesDefaultAction(s) == handler[s] = "default"

\* SIGINT and SIGTERM always, SIGHUP where it would end the process.
Handle == [s \in Signals |->
  IF s # "HUP" \/ TakesDefaultAction(s) THEN "ours" ELSE handler[s]]

\* The handlers set, on Windows SetConsoleCtrlHandler.
InstallHandlers(t) ==
  /\ Alive /\ installing[t] = "claimed"
  /\ IF platform = "posix"
     THEN handler' = Handle /\ UNCHANGED console
     ELSE console' = TRUE /\ UNCHANGED handler
  /\ installing' = [installing EXCEPT ![t] = IF platform = "windows" THEN "window" ELSE "armed"]
  /\ UNCHANGED <<native, life, installed, windowBegun, window, watched, sources, dispatch>>

\* Variant of InstallFails: a state of its own.
InstallFailsForGood(t) ==
  /\ Alive /\ installing[t] = "claimed"
  /\ installed' = FALSE
  /\ installing' = [installing EXCEPT ![t] = "failed"]
  /\ UNCHANGED <<native, life, handler, console, windowBegun, window, watched, sources,
                 dispatch>>

\* The system refuses them: the next call tries again.
InstallFails(t) ==
  /\ Alive /\ installing[t] = "claimed"
  /\ installed' = FALSE
  /\ installing' = [installing EXCEPT ![t] = "new"]
  /\ UNCHANGED <<native, life, handler, console, windowBegun, window, watched, sources,
                 dispatch>>

\* startSessionWindowIfUser32: for the one that finds the library and is first.
StartSessionWindow(t) ==
  /\ Alive /\ installing[t] = "window"
  /\ installing' = [installing EXCEPT ![t] = "armed"]
  /\ windowBegun' = (windowBegun \/ user32)
  /\ UNCHANGED <<native, life, installed, handler, console, window, watched, sources,
                 dispatch>>

\* crossbyte_session_window_thread, as far as its first message.
SessionWindowReady ==
  /\ Alive /\ windowBegun /\ ~window
  /\ window' = TRUE
  /\ UNCHANGED <<native, life, installed, handler, console, windowBegun, installing,
                 watched, sources, dispatch>>

\* A library is loaded that brings user32 in; the program installs again.
LoadUser32 ==
  /\ Alive /\ platform = "windows" /\ ~user32
  /\ user32' = TRUE
  /\ installing' = [t \in Pollers |-> IF installing[t] = "armed" THEN "new" ELSE installing[t]]
  /\ UNCHANGED <<native, life, installed, handler, console, windowBegun, window,
                 watched, hold, loggedOff, requested, dispatch>>

-----------------------------------------------------------------------------
Latch(by) == requested' = TRUE /\ loggedOff' = (loggedOff \/ by = "LOGOFF")

\* crossbyte_signal_handler, or what the signal does without it.
Signal(s) ==
  /\ Alive /\ platform = "posix"
  /\ CASE handler[s] = "ours" -> Latch(s) /\ UNCHANGED life
       [] handler[s] = "default" -> life' = "unhandled" /\ UNCHANGED <<requested, loggedOff>>
       [] handler[s] = "ignored" -> UNCHANGED <<life, requested, loggedOff>>
  /\ UNCHANGED <<native, user32, hold, handlers, dispatch>>

\* Threads that poll by themselves or are in the middle of poll.
Polls == {t \in Pollers : t = watched \/ polling[t] # "idle"}
HasToPoll(t) == polling[t] # "idle" \/ (t = watched /\ ~dispatched)

\* holdWhileShuttingDown: the request, and Windows kept waiting.  What counts
\* is the first handler: the process ends when that returns.
HoldWhileShuttingDown(e) ==
  /\ Latch(e)
  /\ holding' = TRUE
  /\ behind' = IF holding THEN behind ELSE Polls
  /\ attended' = IF holding THEN attended ELSE watched # NoThread \/ dispatched
  /\ UNCHANGED <<life, rounds>>

\* A logoff of someone else's, which ends no service.
Spared(e) == e = "LOGOFF" /\ session0

\* crossbyte_console_ctrl_handler, on a thread of Windows'; without it the
\* process ends.  Windows ends no service for a logoff in any case.
ConsoleEvent(e) ==
  /\ Alive /\ platform = "windows"
  /\ ~(user32 /\ e \in SessionEvents)
  /\ CASE ~console -> life' = (IF e = "LOGOFF" /\ session0 THEN "alive" ELSE "unhandled")
                      /\ UNCHANGED <<hold, requested, loggedOff>>
       [] console /\ e \in {"C", "BREAK"} -> Latch(e) /\ UNCHANGED <<hold, life>>
       [] console /\ Spared(e) -> UNCHANGED <<hold, life, requested, loggedOff>>
       [] OTHER -> HoldWhileShuttingDown(e)
  /\ UNCHANGED <<native, user32, handlers, dispatch>>

\* crossbyte_session_window_proc: a session that may end is let end; it does,
\* or another program refuses and it goes on.
SessionEnds ==
  /\ Alive /\ platform = "windows" /\ user32
  /\ IF window
     THEN HoldWhileShuttingDown("END")
     ELSE life' = "unhandled" /\ UNCHANGED <<hold, requested, loggedOff>>
  /\ UNCHANGED <<native, user32, handlers, dispatch>>

\* The handler sleeps on, and each thread that polls comes round meanwhile.
HoldGoesOn ==
  /\ Alive /\ holding /\ rounds < HoldRounds
  /\ \A t \in behind : ~HasToPoll(t)
  /\ rounds' = rounds + 1
  /\ behind' = Polls
  /\ UNCHANGED <<native, life, user32, holding, attended, loggedOff, requested,
                 handlers, dispatch>>

\* Variant of HandlerReturns: at once.
HandlerReturnsAtOnce ==
  /\ Alive /\ holding
  /\ life' = "ended"
  /\ UNCHANGED <<native, sources, handlers, dispatch>>

\* g_close_wait_ms have passed, or Windows' own limit: the process is ended.
HandlerReturns ==
  /\ Alive /\ holding /\ rounds = HoldRounds
  /\ life' = "ended"
  /\ UNCHANGED <<native, sources, handlers, dispatch>>

\* requestShutdown, by the program.
RequestShutdown ==
  /\ Alive /\ ~requested
  /\ Latch("program")
  /\ UNCHANGED <<native, life, user32, hold, handlers, dispatch>>

-----------------------------------------------------------------------------
\* Variant of OnShutdown: kept for the dispatch, even one there has been.
OnShutdownKept(c) ==
  /\ Alive /\ registering[c] = "new"
  /\ registering' = [registering EXCEPT ![c] = "kept"]
  /\ waiting' = waiting \cup {c}
  /\ UNCHANGED <<native, life, handlers, sources, dispatched, running, polling, ran,
                 exiting>>

\* onShutdown: kept for the dispatch, or run at once when that has been.
OnShutdown(c) ==
  /\ Alive /\ registering[c] = "new"
  /\ registering' = [registering EXCEPT ![c] = IF dispatched THEN "invoke" ELSE "kept"]
  /\ waiting' = IF dispatched THEN waiting ELSE waiting \cup {c}
  /\ UNCHANGED <<native, life, handlers, sources, dispatched, running, polling, ran,
                 exiting>>

InvokeLate(c) ==
  /\ Alive /\ registering[c] = "invoke"
  /\ registering' = [registering EXCEPT ![c] = "kept"]
  /\ ran' = [ran EXCEPT ![c] = @ + 1]
  /\ UNCHANGED <<native, life, handlers, sources, dispatched, waiting, running, polling,
                 exiting>>

\* What a thread does in poll is its step of the round.
ComesRound(t) ==
  /\ behind' = behind \ {t}
  /\ UNCHANGED <<user32, holding, rounds, attended, loggedOff, requested>>

\* poll: nothing to do, until a request is seen.
PollLooks(t) ==
  /\ Alive /\ polling[t] = "idle" /\ ~dispatched /\ requested
  /\ polling' = [polling EXCEPT ![t] = "claim"]
  /\ ComesRound(t)
  /\ UNCHANGED <<native, life, handlers, dispatched, waiting, running, registering, ran,
                 exiting>>

\* The dispatch claimed, under the lock, with every callback there is.
PollClaims(t) ==
  /\ Alive /\ polling[t] = "claim"
  /\ IF dispatched
     THEN /\ polling' = [polling EXCEPT ![t] = "idle"]
          /\ UNCHANGED <<dispatched, waiting, running>>
     ELSE /\ dispatched' = TRUE
          /\ running' = [running EXCEPT ![t] = waiting] /\ waiting' = {}
          /\ polling' = [polling EXCEPT ![t] = "run"]
  /\ ComesRound(t)
  /\ UNCHANGED <<native, life, handlers, registering, ran, exiting>>

\* Each callback in its turn, a throw of its own logged.
PollRuns(t, c) ==
  /\ Alive /\ polling[t] = "run" /\ c \in running[t]
  /\ running' = [running EXCEPT ![t] = @ \ {c}]
  /\ ran' = [ran EXCEPT ![c] = @ + 1]
  /\ ComesRound(t)
  /\ UNCHANGED <<native, life, handlers, dispatched, waiting, polling, registering,
                 exiting>>

\* poll's end: whichever thread has dispatched, no runtime polls any more, and
\* the thread's own, if it has one, is told to exit when exitOnShutdown says so.
PollExits(t) ==
  /\ Alive /\ polling[t] = "run" /\ running[t] = {}
  /\ polling' = [polling EXCEPT ![t] = "idle"]
  /\ watched' = NoThread
  /\ exiting' = IF exitOnShutdown /\ t \in Runtimes THEN exiting \cup {t} ELSE exiting
  /\ ComesRound(t)
  /\ UNCHANGED <<native, life, installed, handler, console, windowBegun, window,
                 installing, dispatched, waiting, running, registering, ran>>

\* exit() has only told the loop, which ends once this frame is done: the
\* process exits with the main thread's, and goes on without any other.
LoopEnds(t) ==
  /\ Alive /\ t \in exiting
  /\ exiting' = exiting \ {t}
  /\ life' = IF t = MainThread THEN "exited" ELSE life
  /\ UNCHANGED <<native, handlers, sources, dispatched, waiting, running, polling,
                 registering, ran>>

-----------------------------------------------------------------------------
\* What a thread goes on with by itself: a poll begun, the poll of the watched
\* runtime's next tick, and the end of a loop told to exit.
PollGoesOn(t) ==
  \/ PollClaims(t) \/ (\E c \in Callbacks : PollRuns(t, c)) \/ PollExits(t)
  \/ LoopEnds(t)
RuntimeStep(t) == (t = watched /\ PollLooks(t)) \/ PollGoesOn(t)

LifecycleNext ==
  \/ \E t \in Pollers :
       \/ InstallBegins(t) \/ InstallHandlers(t) \/ InstallFails(t)
       \/ StartSessionWindow(t) \/ PollLooks(t) \/ PollGoesOn(t)
  \/ \E c \in Callbacks : OnShutdown(c) \/ InvokeLate(c)
  \/ \E s \in Signals : Signal(s)
  \/ \E e \in ConsoleEvents : ConsoleEvent(e)
  \/ HoldGoesOn \/ HandlerReturns
  \/ SessionWindowReady \/ LoadUser32 \/ SessionEnds \/ RequestShutdown

LifecycleSpec == LifecycleInit /\ [][LifecycleNext]_lifecycleVars

-----------------------------------------------------------------------------
LifecycleTypeOK ==
  /\ life \in {"alive", "unhandled", "ended", "exited"}
  /\ handler \in [Signals -> {"default", "ignored", "ours"}]
  /\ installing \in [Pollers -> {"new", "claimed", "window", "armed"}]
  /\ watched \in {NoThread} \cup Runtimes
  /\ rounds \in 0 .. HoldRounds /\ behind \subseteq Pollers
  /\ exiting \subseteq Runtimes
  /\ waiting \subseteq Callbacks
  /\ \A t \in Pollers : running[t] \subseteq Callbacks
  /\ {requested, installed, console, windowBegun, window, user32, dispatched, holding, attended}
       \subseteq BOOLEAN

\* "Callbacks run exactly once" (onShutdown), whichever threads poll and
\* register at the same time: never twice, ...
CallbackOnce == \A c \in Callbacks : ran[c] <= 1

\* ... and none registered is dropped: a process that exits has run each one
\* that was registered before the dispatch.
NoneDropped ==
  life = "exited" =>
    \A c \in Callbacks : registering[c] = "kept" => ran[c] = 1

\* A handler holds Windows up for long enough: if a runtime watches when the
\* event comes (or a poll has taken the request by then), a process that
\* Windows ends has run every callback that was registered for the dispatch.
HeldForShutdown ==
  life = "ended" /\ attended =>
    \A c \in Callbacks : registering[c] = "kept" => ran[c] = 1

\* A terminal that goes does not stop a process asked to outlive it (nohup),
\* nor does someone's logoff stop a service.
LeftAlone ==
  [][ /\ handler["HUP"] = "ignored" => handler'["HUP"] = "ignored"
      /\ session0 => ~loggedOff' ]_lifecycleVars

\* A request, from wherever it comes, is dispatched in full once a runtime
\* watches, and whoever dispatches: with exitOnShutdown, the process then ends
\* if it is the main thread, if nothing ends it first.
RequestIsSeen ==
  /\ requested /\ watched # NoThread ~>
       ~Alive \/ (dispatched /\ \A t \in Pollers : polling[t] = "idle" /\ t \notin exiting)
  /\ exitOnShutdown /\ polling[MainThread] = "run" ~> ~Alive

\* onShutdown: "Callbacks run exactly once".
EachCallbackOnce == CallbackOnce /\ NoneDropped

\* A process that is asked to shut down does, Windows held up meanwhile for as
\* long as its callbacks take, and one that asked to be left alone is.
ShutsDownWhenAsked ==
  [](~Alive => HeldForShutdown) /\ LeftAlone /\ RequestIsSeen
=============================================================================
