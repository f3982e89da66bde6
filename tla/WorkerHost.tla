----------------------------- MODULE WorkerHost -----------------------------
(***************************************************************************)
(* The two processes that serve a Temporal task queue: the worker daemon   *)
(* (crates/coral_worker/src/bin/worker.rs) with the handles that           *)
(* crates/coral_temporal/src/worker.rs installs for activity bodies, and   *)
(* temporal-smoke (crates/coral_temporal/src/bin), whose driver runs       *)
(* beside its worker.  The Temporal server is reduced to the workflows of  *)
(* the smoke, whose tasks only a live worker takes.                        *)
(***************************************************************************)
EXTENDS Naturals, Sequences

CONSTANTS
    Compiled        \* compiled_providers, of "cohere" and "anthropic"

\* What main does before it serves, in order.
Boot ==
    [worker |-> <<"open_storage", "versioned_storage", "agent_storage", "decide",
                  "database_url", "connect_db", "structural_db", "tool_registry", "runtime",
                  "client", "build_worker", "reaper", "ctrl_c">>,
     smoke |-> <<"runtime", "client", "build_worker", "driver">>]

\* The OnceLocks, and those an activity cannot do without.
Handle == {"versioned_storage", "agent_storage", "decide", "structural_db", "tool_registry"}
Activities == {"seed", "decide_step", "execute_tool", "register_child", "persist_output",
               "commit_tick"}
Needs(activity) ==
    CASE activity = "decide_step" -> {"decide"}
      [] activity = "execute_tool" -> {"agent_storage", "tool_registry"}
      [] activity = "register_child" -> {"structural_db"}
      [] activity = "persist_output" -> {"agent_storage", "structural_db"}
      [] activity = "seed" -> {"agent_storage"}
      [] activity = "commit_tick" -> {}

Panic == 101
Killed == 130

VARIABLES
    \* the process
    daemon,     \* which binary, "none" before one is started
    booted,     \* steps of its boot that are done
    main,       \* "off", "boot", "serving", "draining", "joining" or "exited"
    status,     \* the exit code
    keys,       \* the providers whose key is set
    url,        \* DATABASE_URL is set and not empty
    installed,  \* the handles that hold something
    default,    \* the provider of an agent that names none
    running,    \* the activity in flight, at most one at a time
    interrupt,  \* SIGINT has been received
    died,       \* worker.run returned an error
    \* the smoke
    driver,     \* where drive_smoke is
    outcome,    \* what it returned: "none", "ok" or "error"
    loop,       \* AgentLoopWorkflow
    signalled,  \* external_signal is in its history
    timedOut,   \* its five-second timer has fired
    race,       \* who won
    child,      \* the abandoned child was started
    chain       \* ContinueAsNewSmokeWorkflow: the number of its run, 4 when done

environment == <<daemon, keys, url>>
workerState == <<booted, installed, default, running, interrupt, died>>
workerVars == <<environment, workerState, main, status>>
smokeVars == <<driver, outcome, loop, signalled, timedOut, race, child, chain>>
daemonVars == <<workerVars, smokeVars>>

DaemonInit ==
    /\ daemon = "none" /\ booted = 0 /\ main = "off" /\ status = 0
    /\ keys = {} /\ url = FALSE
    /\ installed = {} /\ default = "none"
    /\ running = {} /\ interrupt = FALSE /\ died = FALSE
    /\ driver = "idle" /\ outcome = "none"
    /\ loop = "none" /\ signalled = FALSE /\ timedOut = FALSE /\ race = "none"
    /\ child = FALSE /\ chain = 0

\* An operator starts a binary in an environment.
StartDaemon(program, providers, hasUrl) ==
    /\ main = "off"
    /\ daemon' = program /\ keys' = providers /\ url' = hasUrl
    /\ main' = "boot"
    /\ UNCHANGED <<workerState, status, smokeVars>>

Exit(c) == main' = "exited" /\ status' = c

-----------------------------------------------------------------------------
(* The boot.                                                               *)

Booting(step) == main = "boot" /\ booted < Len(Boot[daemon]) /\ Boot[daemon][booted + 1] = step
Done == booted' = booted + 1 /\ UNCHANGED <<main, status>>
Fail(c) == Exit(c) /\ UNCHANGED booted

\* install_*: a OnceLock is set once; setting it again panics.
Install(handle) ==
    /\ Booting(handle) /\ handle # "decide"
    /\ IF handle \in installed
       THEN Fail(Panic) /\ UNCHANGED installed
       ELSE Done /\ installed' = installed \cup {handle}
    /\ UNCHANGED <<environment, default, running, interrupt, died, smokeVars>>

\* available_providers: compiled in and keyed; cohere is preferred.
Available == keys \cap Compiled
Preferred == IF "cohere" \in Available THEN "cohere" ELSE "anthropic"

\* build_decide_from_env and install_decide.
InstallDecide ==
    /\ Booting("decide")
    /\ IF Available = {}
       THEN Fail(1) /\ UNCHANGED <<installed, default>>
       ELSE Done /\ installed' = installed \cup {"decide"} /\ default' = Preferred
    /\ UNCHANGED <<environment, running, interrupt, died, smokeVars>>

RequireDatabaseUrl ==
    /\ Booting("database_url")
    /\ IF url THEN Done ELSE Fail(1)
    /\ UNCHANGED <<environment, installed, default, running, interrupt, died, smokeVars>>

\* The steps that reach outside the process, and may fail.
Reach ==
    /\ \E step \in {"open_storage", "connect_db", "runtime", "client", "build_worker"} :
          Booting(step)
    /\ Done \/ Fail(1)
    /\ UNCHANGED <<environment, installed, default, running, interrupt, died, smokeVars>>

\* tokio::spawn of the reaper, of the Ctrl-C handler, of the smoke's driver.
SpawnTask ==
    /\ \E step \in {"reaper", "ctrl_c", "driver"} : Booting(step)
    /\ Done
    /\ driver' = IF Booting("driver") THEN "start" ELSE driver
    /\ UNCHANGED <<environment, installed, default, running, interrupt, died>>
    /\ UNCHANGED <<outcome, loop, signalled, timedOut, race, child, chain>>

\* worker.run: the first poll of the task queue.
Serve ==
    /\ main = "boot" /\ booted = Len(Boot[daemon])
    /\ main' = "serving"
    /\ UNCHANGED <<environment, workerState, status, smokeVars>>

-----------------------------------------------------------------------------
(* Serving.                                                                *)

\* A getter of a handle that was not installed panics.
BeginActivity(activity) ==
    /\ main = "serving" /\ daemon = "worker" /\ running = {}
    /\ IF Needs(activity) \subseteq installed
       THEN running' = {activity} /\ UNCHANGED <<main, status>>
       ELSE Exit(Panic) /\ UNCHANGED running
    /\ UNCHANGED <<environment, booted, installed, default, interrupt, died, smokeVars>>

EndActivity ==
    /\ main \in {"serving", "draining"} /\ running # {}
    /\ running' = {}
    /\ UNCHANGED <<environment, main, status, booted, installed, default, interrupt, died,
                   smokeVars>>

\* Ctrl-C kills a process that has not spawned its handler; the first one handled
\* shuts the worker down, and no later one does anything.
HasHandler == daemon = "worker" /\ booted = Len(Boot["worker"])
CtrlC ==
    /\ main \notin {"off", "exited"} /\ ~interrupt
    /\ interrupt' = TRUE
    /\ IF HasHandler THEN main' = "draining" /\ UNCHANGED status ELSE Exit(Killed)
    /\ UNCHANGED <<environment, booted, installed, default, running, died, smokeVars>>

\* worker.run is over: main of the worker returns, that of the smoke awaits its driver.
Over(c) ==
    IF daemon = "worker" THEN Exit(c) ELSE main' = "joining" /\ UNCHANGED status

\* worker.run returns an error.
WorkerDies ==
    /\ main \in {"serving", "draining"}
    /\ died' = TRUE
    /\ Over(1)
    /\ UNCHANGED <<environment, booted, installed, default, running, interrupt, smokeVars>>

\* A worker that was shut down ends its activities first.
WorkerReturns ==
    /\ main = "draining" /\ running = {}
    /\ Over(0)
    /\ UNCHANGED <<environment, workerState, smokeVars>>

\* driver.await, and what main makes of the two results: the worker's error first.
JoinDriver ==
    /\ main = "joining" /\ outcome # "none"
    /\ Exit(IF died \/ outcome = "error" THEN 1 ELSE 0)
    /\ UNCHANGED <<environment, workerState, smokeVars>>

-----------------------------------------------------------------------------
(* The driver of the smoke.                                                *)

Driving == daemon = "smoke" /\ main # "exited"

\* drive_smoke returned; shutdown() follows whatever it returned.
Return(result) ==
    /\ outcome' = result /\ driver' = "done"
    /\ main' = IF main \in {"boot", "serving"} THEN "draining" ELSE main

\* A call to the server, which fails or brings the driver to its next step.
Call(from, to) ==
    /\ Driving /\ driver = from
    /\ (driver' = to /\ UNCHANGED <<outcome, main>>) \/ Return("error")
    /\ UNCHANGED <<environment, workerState, status>>

StartLoop ==
    /\ Call("start", "signal")
    /\ loop' = IF driver' = "signal" THEN "warmup" ELSE loop
    /\ UNCHANGED <<signalled, timedOut, race, child, chain>>

\* After a sleep of 250 ms.
SignalLoop ==
    /\ Call("signal", "await_loop")
    /\ signalled' = (driver' = "await_loop")
    /\ UNCHANGED <<loop, timedOut, race, child, chain>>

\* Fault: any result of the workflow will do.
AnyResult == TRUE

RaceAsExpected == race = "signal"

\* get_result, which is an error for a workflow that failed, and the check of the race.
AwaitLoop ==
    /\ Driving /\ driver = "await_loop" /\ loop \in {"completed", "failed"}
    /\ IF loop = "completed" /\ RaceAsExpected
       THEN driver' = "start_chain" /\ UNCHANGED <<outcome, main>>
       ELSE Return("error")
    /\ UNCHANGED <<environment, workerState, status, loop, signalled, timedOut, race, child, chain>>

StartChain ==
    /\ Call("start_chain", "await_chain")
    /\ chain' = IF driver' = "await_chain" THEN 1 ELSE chain
    /\ UNCHANGED <<loop, signalled, timedOut, race, child>>

\* The workflow's result always has the prefix that the driver looks for.
AwaitChain ==
    /\ Driving /\ driver = "await_chain" /\ chain = 4
    /\ Return("ok")
    /\ UNCHANGED <<environment, workerState, status, loop, signalled, timedOut, race, child, chain>>

\* The connection is lost while the driver waits for a result.
GetResultFails ==
    /\ Driving /\ driver \in {"await_loop", "await_chain"}
    /\ Return("error")
    /\ UNCHANGED <<environment, workerState, status, loop, signalled, timedOut, race, child, chain>>

-----------------------------------------------------------------------------
(* The workflows of the smoke.                                             *)

LoopStep(from) ==
    /\ main = "serving" /\ loop = from
    /\ UNCHANGED <<workerVars, driver, outcome, signalled, chain>>

\* The timer of 50 ms, after which the race is armed.
WarmUp == LoopStep("warmup") /\ loop' = "racing" /\ UNCHANGED <<timedOut, race, child>>

\* The server fires the timer, whether or not a worker is there to hear.
RaceTimerFires ==
    /\ loop = "racing" /\ ~timedOut
    /\ timedOut' = TRUE
    /\ UNCHANGED <<workerVars, driver, outcome, loop, signalled, race, child, chain>>

\* select!: the first of its arms that is ready, in their order; the triggers are drained.
Race ==
    /\ signalled \/ timedOut
    /\ LoopStep("racing") /\ loop' = "activities"
    /\ race' = IF signalled THEN "signal" ELSE "timer"
    /\ UNCHANGED <<timedOut, child>>

\* The four activities, retried by the server until each has ended.
RunActivities ==
    LoopStep("activities") /\ loop' = "start_child" /\ UNCHANGED <<timedOut, race, child>>

\* The child is started and not awaited; a start that is refused fails the workflow.
StartChild ==
    /\ LoopStep("start_child")
    /\ loop' \in {"completed", "failed"} /\ child' = (loop' = "completed")
    /\ UNCHANGED <<timedOut, race>>

\* A run below the third continues as the next, the third completes.
ContinueAsNew ==
    /\ main = "serving" /\ chain \in 1 .. 3
    /\ chain' = chain + 1
    /\ UNCHANGED <<workerVars, driver, outcome, loop, signalled, timedOut, race, child>>

-----------------------------------------------------------------------------

BootStep ==
    \/ \E handle \in Handle : Install(handle)
    \/ InstallDecide \/ RequireDatabaseUrl \/ Reach \/ SpawnTask \/ Serve

ServeStep == EndActivity \/ WorkerReturns \/ JoinDriver

DriverStep == StartLoop \/ SignalLoop \/ AwaitLoop \/ StartChain \/ AwaitChain

WorkflowStep ==
    WarmUp \/ RaceTimerFires \/ Race \/ RunActivities \/ StartChild \/ ContinueAsNew

DaemonNext ==
    \/ \E providers \in SUBSET {"cohere", "anthropic"}, hasUrl \in BOOLEAN :
          StartDaemon("worker", providers, hasUrl)
    \/ StartDaemon("smoke", {}, FALSE)
    \/ BootStep
    \/ \E activity \in Activities : BeginActivity(activity)
    \/ ServeStep
    \/ CtrlC \/ WorkerDies
    \/ DriverStep \/ GetResultFails \/ WorkflowStep

DaemonSpec == DaemonInit /\ [][DaemonNext]_daemonVars

\* The tasks of a process are scheduled, its calls return and its activities end, and
\* the server hands the tasks of a workflow to the worker that polls for them.
DaemonFairness ==
    /\ WF_daemonVars(BootStep) /\ WF_daemonVars(ServeStep)
    /\ WF_daemonVars(DriverStep) /\ WF_daemonVars(WorkflowStep)

DaemonFairSpec == DaemonSpec /\ DaemonFairness

-----------------------------------------------------------------------------
(* Properties.                                                             *)

\* temporal_smoke.rs: "Exits 0 if every primitive was either demonstrated or reported",
\* non-zero for a wrong value or a worker that died: success stands for a race the
\* signal won, a child left running, three chained runs and a worker shut down.
SuccessIsEarned ==
    daemon = "smoke" /\ main = "exited" /\ status = 0 =>
        race = "signal" /\ child /\ chain = 4 /\ ~died

\* worker.rs and temporal_smoke.rs: a process that was interrupted ends, and so does the
\* smoke, with or without an error of its driver, unless its worker died under the driver.
Due == interrupt \/ daemon = "smoke"
DaemonsEnd == Due ~> main = "exited" \/ (died /\ outcome = "none")
=============================================================================
