---------------------------- MODULE SessionWorker ----------------------------
(***************************************************************************)
(* The two threads of the app (SessionWorker.cpp): the main thread submits *)
(* UI commands and in the end stops the worker; the worker starts the      *)
(* runtime, runs commands and ticks, publishes snapshots and shuts the     *)
(* runtime down, also after an exception.  The process may crash and be    *)
(* started again.  Of the runtime (GameConnectionManager) its settings,    *)
(* its port and its files are here (AppData): the start reads them,        *)
(* commands change them, ticks and the shutdown save them.                 *)
(*                                                                         *)
(* A step is what one thread does while it holds a mutex, or one access to *)
(* an atomic or to the condition variable.                                 *)
(***************************************************************************)
EXTENDS Naturals, Sequences, AppData

CONSTANTS
  MaxPending,    \* MaximumPendingUiCommands
  MaxCommands    \* bound: commands the UI submits

ASSUME WorkerAssumption == MaxPending \in Nat \ {0} /\ MaxCommands \in Nat

VARIABLES
  mPc,         \* where the main thread is
  submitted,   \* history: number of Submit calls; a command is known by its number
  accepted,    \* history: the commands Submit returned true for
  accepting,   \* m_AcceptingCommands
  stopping,    \* the stop token
  commands,    \* m_Commands
  wPc,         \* where Run is
  batch,       \* Run: commands
  handled,     \* history: the commands given to HandleCommand
  failure,     \* Run: failure is set
  snapshot     \* m_Snapshot: the worker state, and whether it tells of a failure

mainVars == <<mPc, submitted, accepted>>
vars == <<mainVars, accepting, stopping, commands, wPc, batch, handled, failure, snapshot, appVars>>

MainSteps == {"ui", "submit", "notify", "requestStop", "notifyStop", "join", "joined"}
Running == {"start", "publish", "loop", "check", "block", "asleep", "swapped", "handle"}
Closing == {"close", "publishStopping", "stop", "publishFinal", "done"}
WorkerStates == {"Starting", "Running", "Stopping", "Stopped", "Failed"}

TypeOK ==
  /\ mPc \in MainSteps
  /\ submitted \in 0..MaxCommands
  /\ accepted \in Seq(1..MaxCommands) /\ handled \in Seq(1..MaxCommands)
  /\ commands \in Seq(1..MaxCommands) /\ batch \in Seq(1..MaxCommands)
  /\ Len(commands) <= MaxPending /\ Len(batch) <= MaxPending
  /\ accepting \in BOOLEAN /\ stopping \in BOOLEAN /\ failure \in BOOLEAN
  /\ wPc \in Running \cup Closing
  /\ snapshot \in [state : WorkerStates, error : BOOLEAN]
  /\ AppTypeOK

Init ==
  /\ mPc = "ui" /\ submitted = 0 /\ accepted = << >>
  /\ accepting = TRUE /\ stopping = FALSE /\ commands = << >>
  /\ wPc = "start" /\ batch = << >> /\ handled = << >>
  /\ failure = FALSE
  /\ snapshot = [state |-> "Starting", error |-> FALSE]
  /\ AppInit

workerVars == <<wPc, batch, handled, failure, snapshot, appVars>>

-----------------------------------------------------------------------------
(* The main thread. *)

Notify == wPc' = IF wPc = "asleep" THEN "check" ELSE wPc

\* Submit, first look: without the mutex.
SubmitCheck ==
  /\ mPc = "ui" /\ submitted < MaxCommands
  /\ submitted' = submitted + 1
  /\ mPc' = IF accepting THEN "submit" ELSE "ui"
  /\ UNCHANGED <<accepted, accepting, stopping, commands, workerVars>>

\* Mutant: the limit is off by one.
CanPushOneMore == accepting /\ Len(commands) <= MaxPending

\* Submit, second look: with the mutex.
CanPush == accepting /\ Len(commands) < MaxPending

\* The worker holds the mutex while it goes to sleep.
SubmitPush ==
  /\ mPc = "submit" /\ wPc # "block"
  /\ IF CanPush
     THEN commands' = Append(commands, submitted) /\ accepted' = Append(accepted, submitted) /\ mPc' = "notify"
     ELSE mPc' = "ui" /\ UNCHANGED <<commands, accepted>>
  /\ UNCHANGED <<submitted, accepting, stopping, workerVars>>

SubmitNotify ==
  /\ mPc = "notify" /\ mPc' = "ui"
  /\ Notify
  /\ UNCHANGED <<submitted, accepted, accepting, stopping, commands, batch, handled, failure, snapshot, appVars>>

\* Stop
StopAccepting ==
  /\ mPc = "ui" /\ mPc' = "requestStop"
  /\ accepting' = FALSE
  /\ UNCHANGED <<submitted, accepted, stopping, commands, workerVars>>

RequestStop ==
  /\ mPc = "requestStop" /\ mPc' = "notifyStop"
  /\ stopping' = TRUE
  /\ UNCHANGED <<submitted, accepted, accepting, commands, workerVars>>

NotifyStop ==
  /\ mPc = "notifyStop" /\ mPc' = "join"
  /\ Notify
  /\ UNCHANGED <<submitted, accepted, accepting, stopping, commands, batch, handled, failure, snapshot, appVars>>

Join ==
  /\ mPc = "join" /\ wPc = "done" /\ mPc' = "joined"
  /\ UNCHANGED <<submitted, accepted, accepting, stopping, commands, workerVars>>

-----------------------------------------------------------------------------
(* The worker thread: Run. *)

\* An exception leaves the loop.
Throw == wPc' = "close" /\ failure' = TRUE

\* Mutant: the failure is not passed on.
PublishWithoutError(state) == snapshot' = [state |-> state, error |-> FALSE]

Publish(state) == snapshot' = [state |-> state, error |-> failure]

\* GameConnectionManager::Start: there are no folders, or the port is in use.
StartRuntime ==
  /\ wPc = "start"
  /\ Boot
  /\ IF boot' = "failed" THEN Throw
     ELSE wPc' = (IF boot' = "ready" THEN "publish" ELSE "start") /\ UNCHANGED failure
  /\ UNCHANGED <<mainVars, accepting, stopping, commands, batch, handled, snapshot>>

PublishRunning ==
  /\ wPc = "publish" /\ wPc' = "loop"
  /\ Publish("Running")
  /\ UNCHANGED <<mainVars, accepting, stopping, commands, batch, handled, failure, appVars>>

Loop ==
  /\ wPc = "loop"
  /\ wPc' = IF stopping THEN "close" ELSE "check"
  /\ UNCHANGED <<mainVars, accepting, stopping, commands, batch, handled, failure, snapshot, appVars>>

\* Mutant: the commands are copied out, not moved.
SwapCopies == batch' = commands /\ wPc' = "swapped" /\ UNCHANGED commands

\* Mutant: the commands are not taken out.
SwapForgotten == wPc' = "swapped" /\ UNCHANGED <<batch, commands>>

Swap == batch' = commands /\ commands' = << >> /\ wPc' = "swapped"

\* wait_for, with the mutex: the predicate holds, or the worker is about to sleep.
CheckWork ==
  /\ wPc = "check"
  /\ IF stopping \/ commands # << >> THEN Swap ELSE wPc' = "block" /\ UNCHANGED <<batch, commands>>
  /\ UNCHANGED <<mainVars, accepting, stopping, handled, failure, snapshot, appVars>>

Block ==
  /\ wPc = "block" /\ wPc' = "asleep"
  /\ UNCHANGED <<mainVars, accepting, stopping, commands, batch, handled, failure, snapshot, appVars>>

\* Mutant: wait instead of wait_for.
TimeoutWithWork ==
  /\ wPc = "asleep" /\ commands # << >>
  /\ Swap
  /\ UNCHANGED <<mainVars, accepting, stopping, handled, failure, snapshot, appVars>>

Timeout ==
  /\ wPc = "asleep"
  /\ Swap
  /\ UNCHANGED <<mainVars, accepting, stopping, handled, failure, snapshot, appVars>>

AfterSwap ==
  /\ wPc = "swapped"
  /\ wPc' = IF stopping THEN "close" ELSE "handle"
  /\ UNCHANGED <<mainVars, accepting, stopping, commands, batch, handled, failure, snapshot, appVars>>

\* HandleCommand, to its end or to an exception.
HandleCommand ==
  /\ wPc = "handle" /\ batch # << >>
  /\ batch' = Tail(batch) /\ handled' = Append(handled, Head(batch))
  /\ \/ Command /\ UNCHANGED <<wPc, failure>>
     \/ Throw /\ UNCHANGED appVars
  /\ UNCHANGED <<mainVars, accepting, stopping, commands, snapshot>>

\* Tick, up to its end or up to an exception of a connection.
Tick ==
  /\ wPc = "handle" /\ batch = << >>
  /\ \/ SaveSettings /\ wPc' = "publish" /\ UNCHANGED <<started, failure>>
     \/ Throw /\ UNCHANGED appVars
  /\ UNCHANGED <<mainVars, accepting, stopping, commands, batch, handled, snapshot>>

-----------------------------------------------------------------------------
CloseWorker ==
  /\ wPc = "close" /\ wPc' = "publishStopping"
  /\ accepting' = FALSE
  /\ UNCHANGED <<mainVars, stopping, commands, batch, handled, failure, snapshot, appVars>>

PublishStopping ==
  /\ wPc = "publishStopping" /\ wPc' = "stop"
  /\ Publish("Stopping")
  /\ UNCHANGED <<mainVars, accepting, stopping, commands, batch, handled, failure, appVars>>

\* GameConnectionManager::Stop; an exception comes before the settings are saved.
StopRuntime ==
  /\ wPc = "stop" /\ wPc' = "publishFinal"
  /\ \/ started /\ SaveSettings /\ started' = FALSE /\ UNCHANGED failure
     \/ ~started /\ UNCHANGED <<appVars, failure>>
     \/ failure' = TRUE /\ unsaved' = TRUE /\ UNCHANGED <<runs, boot, started, importing, diskVars, portVars, setting, writable, dirty, wanted, damaged>>
  /\ UNCHANGED <<mainVars, accepting, stopping, commands, batch, handled, snapshot>>

PublishFinal ==
  /\ wPc = "publishFinal" /\ wPc' = "done"
  /\ Publish(IF failure THEN "Failed" ELSE "Stopped")
  /\ UNCHANGED <<mainVars, accepting, stopping, commands, batch, handled, failure, appVars>>

MainStop == StopAccepting \/ RequestStop \/ NotifyStop \/ Join
MainNext == SubmitCheck \/ SubmitPush \/ SubmitNotify \/ MainStop

WorkerNext ==
  \/ StartRuntime \/ PublishRunning \/ Loop
  \/ CheckWork \/ Block \/ Timeout \/ AfterSwap
  \/ HandleCommand \/ Tick
  \/ CloseWorker \/ PublishStopping \/ StopRuntime \/ PublishFinal

\* The process ends, at any time if it crashes, and the app is started again.
RunAgain ==
  /\ Restart
  /\ mPc' = "ui" /\ submitted' = 0 /\ accepted' = << >>
  /\ accepting' = TRUE /\ stopping' = FALSE /\ commands' = << >>
  /\ wPc' = "start" /\ batch' = << >> /\ handled' = << >>
  /\ failure' = FALSE
  /\ snapshot' = [state |-> "Starting", error |-> FALSE]

\* The process is over.
Terminated == mPc = "joined" /\ UNCHANGED vars

Next == MainNext \/ WorkerNext \/ RunAgain \/ Terminated

Spec == Init /\ [][Next]_vars

\* Both threads are scheduled, wait_for returns after 33 ms, and once the window
\* is closed the main thread finishes Stop.  Nothing makes it close the window.
Fairness == WF_vars(WorkerNext) /\ WF_vars(SubmitPush \/ SubmitNotify \/ RequestStop \/ NotifyStop \/ Join)

FairSpec == Spec /\ Fairness

-----------------------------------------------------------------------------
(* Properties *)

\* A command the UI was told is accepted is handled after all earlier ones and
\* before all later ones, and is dropped only if the worker leaves its loop:
\* however Submit, its notification and the worker's sleep interleave, the
\* handled, taken and waiting commands are all the accepted ones.
NoneSkipped == wPc \in Running => accepted = handled \o batch \o commands

\* When Stop returns, the runtime was stopped, no command can be accepted any
\* more, and the last snapshot the UI reads tells how it ended: an exception in
\* any phase is still in it.
ShutdownComplete ==
  mPc = "joined" =>
    /\ snapshot = [state |-> IF failure THEN "Failed" ELSE "Stopped", error |-> failure]
    /\ ~accepting
    /\ started => failure

\* settings.ini keeps what the player chose, from one run to the next: when the
\* worker ends, also early or after a failure, the file says what was found at
\* the start as the player changed it since (so it does not have a port that
\* was only given on the command line), unless it could not be written; what
\* else changes it is the import; and a file that could not be understood is
\* not touched at all.
SettingsKept ==
  /\ [](wPc = "done" /\ boot = "ready" /\ ~damaged /\ ~unsaved => file = Complete(wanted))
  /\ [][file' # file => boot \in {"settings", "copying"} \/ (~damaged /\ file' = Complete(wanted))]_vars

\* Stop returns: the worker notices the request wherever it is, also if the
\* notification came between its look at the stop token and its sleep.
StopReturns == []<>(mPc \notin {"requestStop", "notifyStop", "join"})

\* An accepted command is handled some day unless the worker leaves its loop.
CommandsHandled == []<>(accepted = handled \/ wPc \in Closing)
=============================================================================
