------------------------- MODULE SessionWorkerProofs -------------------------
(***************************************************************************)
(* Proofs about SessionWorker and AppData: however the two threads         *)
(* interleave, wherever an exception leaves the loop and whenever the      *)
(* process crashes, no accepted command is skipped, Stop returns with the  *)
(* right last snapshot, the ports agree and settings.ini keeps what the    *)
(* player chose.                                                           *)
(***************************************************************************)
EXTENDS SessionWorker, TLAPS

\* Once the settings are loaded, either they are still to be saved or settings.ini
\* has them; a file found damaged is the one reason not to write it.
SettingInv ==
  /\ setting = wanted
  /\ writable <=> ~damaged
  /\ boot \in {"bridge", "ready"} /\ ~damaged /\ ~dirty => file = Complete(setting)

\* What is renamed to be the data folder was copied to the end.
ImportInv ==
  /\ boot = "rename" => importing = "all"
  /\ ImportedWhole

AppInv == AppTypeOK /\ SettingInv /\ PortsAgree /\ ImportInv

\* The runtime is started before Start can reach the bridge, and the last call of
\* Stop leaves it started only if it threw.
StartedInv ==
  /\ boot \in {"bridge", "ready"} /\ wPc \notin {"publishFinal", "done"} => started
  /\ wPc \in {"publishFinal", "done"} /\ started => failure
  /\ wPc \in {"publishFinal", "done"} /\ boot = "ready" /\ ~damaged /\ ~unsaved => file = Complete(wanted)

\* Commands are in the worker's own batch only between the swap and the next wait.
QueueInv ==
  /\ mPc = "submit" => submitted # 0
  /\ wPc \in Running \ {"swapped", "handle"} => batch = << >>
  /\ NoneSkipped

\* From CloseWorker on nothing is accepted; the last snapshot is the worker's last
\* act, and Join returns only after it.
ClosedInv ==
  /\ wPc \in {"publishStopping", "stop", "publishFinal", "done"} => ~accepting
  /\ wPc = "done" => snapshot = [state |-> IF failure THEN "Failed" ELSE "Stopped", error |-> failure]
  /\ mPc = "joined" => wPc = "done"

\* The inductive invariant of the two threads, the settings and the ports.
WorkerInv == TypeOK /\ AppInv /\ StartedInv /\ QueueInv /\ ClosedInv

-----------------------------------------------------------------------------
(* The settings, the ports and the import. *)

LEMMA PortFacts == NoPort \notin Ports /\ DefaultPort \in Ports
BY AppDataAssumption DEF NoPort

LEMMA SettingsFacts ==
  /\ Defaults \in Settings
  /\ \A s \in Settings, p \in Ports : [s EXCEPT !.port = p] \in Settings /\ [s EXCEPT !.port = p].port = p
  /\ \A s \in Settings : [s EXCEPT !.address = "new"] \in Settings /\ [s EXCEPT !.address = "new"].port = s.port
BY PortFacts DEF Defaults, Settings, Addresses

\* What a file says is a setting, whatever its keys; a file with all its keys is
\* the complete file of what it says, and only the damaged one does not load.
LEMMA FileFacts ==
  /\ Absent \in Files /\ Damaged \in Files /\ OldSettings \in Files /\ TornSettings \subseteq Files
  /\ \A s \in Settings : Complete(s) \in Files
  /\ \A f \in Files : /\ f.says \in Settings
                      /\ Succeeded(f) <=> f # Damaged
                      /\ f # Damaged /\ f.keys \notin {"absent", "some"} => f = Complete(f.says)
<1>1. \A a \in Addresses : [Defaults EXCEPT !.address = a] \in Settings
  BY PortFacts DEF Defaults, Settings, Addresses
<1>2. Absent \in Files /\ Damaged \in Files /\ OldSettings \in Files /\ TornSettings \subseteq Files
  BY DEF Files, OldSettings, TornSettings, Addresses
<1>3. \A s \in Settings : Complete(s) \in Files
  BY DEF Files
<1>4. ASSUME NEW f \in Files
      PROVE  /\ f.says \in Settings
             /\ Succeeded(f) <=> f # Damaged
             /\ f # Damaged /\ f.keys \notin {"absent", "some"} => f = Complete(f.says)
  <2>1. CASE f = Absent  BY <2>1, SettingsFacts DEF Absent, Damaged, Succeeded
  <2>2. CASE f = Damaged  BY <2>2, SettingsFacts DEF Damaged, Succeeded
  <2>3. ASSUME NEW s \in Settings, f = Complete(s)
        PROVE  f.says \in Settings /\ (Succeeded(f) <=> f # Damaged) /\ f = Complete(f.says)
    BY <2>3 DEF Complete, Damaged, Succeeded
  <2>4. ASSUME NEW a \in Addresses, f = Partial(a)
        PROVE  f.says \in Settings /\ (Succeeded(f) <=> f # Damaged) /\ f.keys = "some"
    BY <2>4, <1>1 DEF Partial, Damaged, Succeeded
  <2> QED  BY <2>1, <2>2, <2>3, <2>4 DEF Files
<1> QED  BY <1>2, <1>3, <1>4

LEMMA InitApp == AppInit => AppInv
<1> SUFFICES ASSUME AppInit PROVE AppInv
  OBVIOUS
<1>1. file \in Files
  <2>1. Complete(Defaults) \in Files  BY SettingsFacts, FileFacts
  <2> QED  BY <2>1, FileFacts DEF AppInit
<1>2. runs \in 1..MaxRuns  BY AppDataAssumption DEF AppInit
<1>3. AppTypeOK  BY <1>1, <1>2, PortFacts, SettingsFacts DEF AppInit, AppTypeOK, BootSteps
<1>4. SettingInv  BY DEF AppInit, SettingInv
<1>5. PortsAgree /\ ImportInv  BY DEF AppInit, PortsAgree, ImportInv, ImportedWhole
<1> QED  BY <1>3, <1>4, <1>5 DEF AppInv

\* A new run, whatever the old one left on the disk.
LEMMA RestartApp == AppInv /\ Restart => AppInv'
<1> SUFFICES ASSUME AppInv, Restart PROVE AppInv'
  OBVIOUS
<1>1. runs' \in 1..MaxRuns  BY AppDataAssumption DEF Restart, AppInv, AppTypeOK
<1>2. AppTypeOK'
  BY <1>1, PortFacts, SettingsFacts DEF Restart, AppInv, AppTypeOK, BootSteps, diskVars
<1>3. SettingInv'  BY DEF Restart, SettingInv
<1>4. PortsAgree' /\ ImportInv'
  BY DEF Restart, AppInv, PortsAgree, ImportInv, ImportedWhole, diskVars
<1> QED  BY <1>2, <1>3, <1>4 DEF AppInv

\* Start: the import, the load and the listener.
LEMMA BootApp == AppInv /\ Boot => AppInv'
<1> SUFFICES ASSUME AppInv, Boot PROVE AppInv'
  OBVIOUS
<1> USE PortFacts, FileFacts
    DEF AppInv, AppTypeOK, SettingInv, ImportInv, ImportedWhole, PortsAgree, BootSteps, BootTo, settingVars, portVars
<1>1. CASE ImportBegin  BY <1>1 DEF ImportBegin
<1>2. CASE CopyLegacyTree  BY <1>2 DEF CopyLegacyTree
<1>3. CASE CopyLegacyTreeEnd  BY <1>3 DEF CopyLegacyTreeEnd
<1>4. CASE RenameTree  BY <1>4 DEF RenameTree
<1>5. CASE CopySettings  BY <1>5 DEF CopySettings
<1>6. CASE CopySettingsEnd  BY <1>6 DEF CopySettingsEnd
<1>7. CASE Directories  BY <1>7 DEF Directories
<1>8. CASE LoadSettings
  <2>1. PICK found \in {file, Damaged} :
          /\ writable' = Succeeded(found) /\ setting' = found.says /\ wanted' = found.says
          /\ dirty' = (found.keys \in {"absent", "some"}) /\ damaged' = (found = Damaged)
    BY <1>8 DEF LoadSettings
  <2>2. found \in Files  BY <2>1
  <2>3. AppTypeOK'  BY <1>8, <2>1, <2>2 DEF LoadSettings, Succeeded
  <2>4. SettingInv'
    <3>1. writable' <=> ~damaged'  BY <2>1, <2>2
    <3>2. ~damaged' /\ ~dirty' => file' = Complete(setting')
      BY <1>8, <2>1, <2>2 DEF LoadSettings
    <3> QED  BY <2>1, <3>1, <3>2
  <2>5. PortsAgree' /\ ImportInv'  BY <1>8 DEF LoadSettings
  <2> QED  BY <2>3, <2>4, <2>5
<1>9. CASE StartBridge
  <2>1. setting.port \in Ports  BY DEF Settings
  <2> QED  BY <1>9, <2>1 DEF StartBridge, ExportBridgeScript
<1> QED
  BY <1>1, <1>2, <1>3, <1>4, <1>5, <1>6, <1>7, <1>8, <1>9 DEF Boot

\* A command: neither a listener that cannot be had nor a port of the command line
\* separates the ports.
LEMMA CommandApp == AppInv /\ Command => AppInv'
<1> SUFFICES ASSUME AppInv, Command PROVE AppInv'
  OBVIOUS
<1> USE PortFacts, SettingsFacts
    DEF AppInv, AppTypeOK, SettingInv, ImportInv, ImportedWhole, PortsAgree, ExportBridgeScript, SetSaved
<1>1. UNCHANGED <<runs, boot, importing, dataDir, file, started, writable, unsaved, damaged>>
  BY DEF Command
<1>2. ASSUME NEW port \in Ports, ChangeBridgePort(port) PROVE AppInv'
  <2>1. CASE SetSaved([setting EXCEPT !.port = port]) /\ ExportBridgeScript(port)
             /\ IF port = bridgePort THEN UNCHANGED <<bridgePort, listening, override>>
                ELSE bridgePort' = port /\ listening' = port /\ override' = NoPort
    BY <1>1, <2>1
  <2>2. CASE UNCHANGED <<setting, wanted, dirty, bridgePort, listening, override, script>>
    BY <1>1, <2>2
  <2> QED  BY <1>2, <2>1, <2>2 DEF ChangeBridgePort
<1>3. CASE ExportBridgeScript(bridgePort) /\ UNCHANGED <<setting, wanted, dirty, bridgePort, listening, override>>
  BY <1>1, <1>3
<1>4. CASE SetSaved([setting EXCEPT !.address = "new"]) /\ UNCHANGED <<bridgePort, listening, override, script>>
  BY <1>1, <1>4
<1>5. CASE UNCHANGED <<setting, wanted, dirty, bridgePort, listening, override, script>>
  BY <1>1, <1>5
<1> QED  BY <1>2, <1>3, <1>4, <1>5 DEF Command

\* A save, made, failed or not due.
LEMMA SaveApp == AppInv /\ SaveSettings /\ started' \in BOOLEAN => AppInv'
<1> SUFFICES ASSUME AppInv, SaveSettings, started' \in BOOLEAN PROVE AppInv'
  OBVIOUS
<1> USE DEF AppInv, AppTypeOK, SettingInv, ImportInv, ImportedWhole, PortsAgree
<1>1. UNCHANGED <<runs, boot, importing, dataDir, setting, wanted, writable, damaged, override, bridgePort, listening, script>>
  BY DEF SaveSettings, portVars
<1>2. CASE file' = Complete(setting) /\ dirty' = FALSE /\ unsaved' = FALSE
  <2>1. Complete(setting) \in Files  BY FileFacts
  <2>2. AppTypeOK'  BY <1>1, <1>2, <2>1
  <2>3. SettingInv'  BY <1>1, <1>2
  <2>4. PortsAgree' /\ ImportInv'  BY <1>1
  <2> QED  BY <2>2, <2>3, <2>4
<1>3. CASE unsaved' = TRUE /\ UNCHANGED <<file, dirty>>
  BY <1>1, <1>3
<1>4. CASE UNCHANGED <<file, dirty, unsaved>>
  BY <1>1, <1>4
<1> QED  BY <1>2, <1>3, <1>4 DEF SaveSettings

LEMMA SameApp == AppInv /\ UNCHANGED appVars => AppInv'
BY DEF AppInv, AppTypeOK, SettingInv, ImportInv, ImportedWhole, PortsAgree, appVars, diskVars, settingVars, portVars

-----------------------------------------------------------------------------
(* The two threads. *)

\* A step that leaves the settings and ports alone.
LEMMA AppUnchanged ==
  AppInv /\ UNCHANGED appVars => AppInv' /\ AppTypeOK' /\ UNCHANGED <<boot, started, damaged, unsaved, file, wanted>>
<1>1. AppInv /\ UNCHANGED appVars => AppInv'  BY SameApp
<1>2. UNCHANGED appVars => UNCHANGED <<boot, started, damaged, unsaved, file, wanted>>
  BY DEF appVars, diskVars, settingVars
<1> QED  BY <1>1, <1>2 DEF AppInv

LEMMA NoCommands == << >> \in Seq(1..MaxCommands) /\ Len(<< >>) = 0
OBVIOUS

\* Taking the head of the batch and noting it as handled loses no command.
LEMMA MoveHead ==
  ASSUME NEW S, NEW h \in Seq(S), NEW b \in Seq(S), NEW c \in Seq(S), b # << >>
  PROVE  /\ Append(h, Head(b)) \o Tail(b) \o c = h \o b \o c
         /\ Append(h, Head(b)) \in Seq(S) /\ Tail(b) \in Seq(S) /\ Len(Tail(b)) = Len(b) - 1
<1>1. Append(h, Head(b)) \o Tail(b) = h \o b  BY SMTT(30)
<1> QED  BY <1>1, SMTT(30)

\* A pushed command waits behind all others.
LEMMA PushLast ==
  ASSUME NEW S, NEW h \in Seq(S), NEW b \in Seq(S), NEW c \in Seq(S), NEW x \in S
  PROVE  /\ h \o b \o Append(c, x) = Append(h \o b \o c, x)
         /\ Append(c, x) \in Seq(S) /\ Len(Append(c, x)) = Len(c) + 1
BY SMTT(30)

LEMMA InitWorker == Init => WorkerInv
<1> SUFFICES ASSUME Init PROVE WorkerInv
  OBVIOUS
<1>1. AppInv  BY InitApp DEF Init
<1>2. TypeOK
  <2>1. submitted \in 0..MaxCommands  BY WorkerAssumption DEF Init
  <2>2. snapshot \in [state : WorkerStates, error : BOOLEAN]  BY DEF Init, WorkerStates
  <2>3. 0 <= MaxPending  BY WorkerAssumption
  <2> QED  BY <1>1, <2>1, <2>2, <2>3, NoCommands DEF Init, TypeOK, AppInv, MainSteps, Running
<1>3. StartedInv  BY DEF Init, AppInit, StartedInv
<1>4. QueueInv  BY DEF Init, QueueInv, NoneSkipped
<1>5. ClosedInv  BY DEF Init, ClosedInv
<1> QED  BY <1>1, <1>2, <1>3, <1>4, <1>5 DEF WorkerInv

\* The main thread never touches the settings, and of the worker only wakes it.
LEMMA MainInv == WorkerInv /\ MainNext => WorkerInv'
<1> SUFFICES ASSUME WorkerInv, MainNext PROVE WorkerInv'
  OBVIOUS
<1> USE AppUnchanged, WorkerAssumption
    DEF WorkerInv, TypeOK, StartedInv, QueueInv, ClosedInv, NoneSkipped, workerVars, MainSteps, Running, Closing, Notify
<1>1. CASE SubmitCheck
  <2>1. submitted' \in 0..MaxCommands /\ submitted' # 0  BY <1>1 DEF SubmitCheck
  <2>2. mPc' \in {"ui", "submit"}  BY <1>1 DEF SubmitCheck
  <2> QED  BY <1>1, <2>1, <2>2, SMTT(30) DEF SubmitCheck
<1>2. CASE SubmitPush
  <2>1. CASE CanPush
    <3> HIDE DEF StartedInv, ClosedInv
    <3>1. submitted \in 1..MaxCommands  BY <1>2 DEF SubmitPush
    <3>2. /\ handled \o batch \o Append(commands, submitted) = Append(handled \o batch \o commands, submitted)
          /\ Append(commands, submitted) \in Seq(1..MaxCommands)
          /\ Append(accepted, submitted) \in Seq(1..MaxCommands)
          /\ Len(Append(commands, submitted)) = Len(commands) + 1
      <4> DEFINE C == 1..MaxCommands
      <4>1. accepted \in Seq(C) /\ handled \in Seq(C) /\ batch \in Seq(C) /\ commands \in Seq(C) /\ submitted \in C
        BY <3>1
      <4> HIDE DEF WorkerInv, C
      <4>2. /\ handled \o batch \o Append(commands, submitted) = Append(handled \o batch \o commands, submitted)
            /\ Append(commands, submitted) \in Seq(C) /\ Len(Append(commands, submitted)) = Len(commands) + 1
        BY <4>1, PushLast, SMTT(30)
      <4>3. Append(accepted, submitted) \in Seq(C)  BY <4>1
      <4> QED  BY <4>2, <4>3 DEF C
    <3>3. /\ commands' = Append(commands, submitted) /\ accepted' = Append(accepted, submitted) /\ mPc' = "notify"
          /\ Len(commands) < MaxPending /\ UNCHANGED <<submitted, accepting, stopping, workerVars>>
      BY <1>2, <2>1 DEF SubmitPush, CanPush
    <3>4. TypeOK'  BY <3>2, <3>3
    <3>5. QueueInv'  BY <3>2, <3>3
    <3>6. StartedInv' /\ ClosedInv'  BY <3>3 DEF StartedInv, ClosedInv
    <3> QED  BY <3>3, <3>4, <3>5, <3>6
  <2>2. CASE ~CanPush  BY <1>2, <2>2, SMTT(30) DEF SubmitPush
  <2> QED  BY <2>1, <2>2
<1>3. CASE SubmitNotify  BY <1>3, SMTT(30) DEF SubmitNotify
<1>4. CASE StopAccepting
  <2>1. ~accepting' /\ accepting' \in BOOLEAN  BY <1>4 DEF StopAccepting
  <2> QED  BY <1>4, <2>1, SMTT(30) DEF StopAccepting
<1>5. CASE RequestStop  BY <1>5, SMTT(30) DEF RequestStop
<1>6. CASE NotifyStop  BY <1>6, SMTT(30) DEF NotifyStop
<1>7. CASE Join  BY <1>7 DEF Join
<1> QED
  BY <1>1, <1>2, <1>3, <1>4, <1>5, <1>6, <1>7 DEF MainNext, MainStop

\* The worker's loop: what it publishes, takes and hands on.
LEMMA LoopInv ==
  WorkerInv /\ (StartRuntime \/ PublishRunning \/ Loop \/ CheckWork \/ Block \/ Timeout \/ AfterSwap) => WorkerInv'
<1> SUFFICES ASSUME WorkerInv,
                    StartRuntime \/ PublishRunning \/ Loop \/ CheckWork \/ Block \/ Timeout \/ AfterSwap
             PROVE  WorkerInv'
  OBVIOUS
<1> USE WorkerAssumption
    DEF WorkerInv, TypeOK, StartedInv, QueueInv, ClosedInv, NoneSkipped, mainVars, Running, Closing, WorkerStates
<1>1. CASE StartRuntime
  <2>1. AppInv'  BY <1>1, BootApp DEF StartRuntime
  <2>2. boot' \in {"bridge", "ready"} => started'
    BY <1>1 DEF StartRuntime, Boot, BootTo, ImportBegin, CopyLegacyTree, CopyLegacyTreeEnd, RenameTree, CopySettings,
                CopySettingsEnd, Directories, LoadSettings, StartBridge
  <2> QED  BY <1>1, <2>1, <2>2, ZenonT(60) DEF StartRuntime, Throw, AppInv
<1>2. CASE PublishRunning  BY <1>2, AppUnchanged DEF PublishRunning, Publish
<1>3. CASE Loop  BY <1>3, AppUnchanged DEF Loop
<1>4. CASE CheckWork
  <2>1. CASE Swap  BY <1>4, <2>1, AppUnchanged, NoCommands, SMTT(30) DEF CheckWork, Swap
  <2>2. CASE wPc' = "block" /\ UNCHANGED <<batch, commands>>  BY <1>4, <2>2, AppUnchanged DEF CheckWork
  <2> QED  BY <1>4, <2>1, <2>2 DEF CheckWork
<1>5. CASE Block  BY <1>5, AppUnchanged, SMTT(30) DEF Block
<1>6. CASE Timeout  BY <1>6, AppUnchanged DEF Timeout, Swap
<1>7. CASE AfterSwap  BY <1>7, AppUnchanged, SMTT(30) DEF AfterSwap
<1> QED  BY <1>1, <1>2, <1>3, <1>4, <1>5, <1>6, <1>7

\* The commands and the ticks, to their end or to an exception.
LEMMA WorkInv == WorkerInv /\ (HandleCommand \/ Tick) => WorkerInv'
<1> SUFFICES ASSUME WorkerInv, HandleCommand \/ Tick PROVE WorkerInv'
  OBVIOUS
<1> USE DEF WorkerInv, TypeOK, StartedInv, QueueInv, ClosedInv, NoneSkipped, mainVars, Running, Closing
<1>1. CASE HandleCommand
  <2> HIDE DEF StartedInv, QueueInv, ClosedInv
  <2>1. /\ batch # << >> /\ handled' = Append(handled, Head(batch)) /\ batch' = Tail(batch)
        /\ UNCHANGED commands
    BY <1>1 DEF HandleCommand
  <2>2. /\ handled' \o batch' \o commands' = handled \o batch \o commands
        /\ handled' \in Seq(1..MaxCommands) /\ batch' \in Seq(1..MaxCommands) /\ Len(batch') = Len(batch) - 1
    <3> DEFINE C == 1..MaxCommands
    <3>1. handled \in Seq(C) /\ batch \in Seq(C) /\ commands \in Seq(C)
      OBVIOUS
    <3> HIDE DEF WorkerInv, C
    <3>2. /\ Append(handled, Head(batch)) \o Tail(batch) \o commands = handled \o batch \o commands
          /\ Append(handled, Head(batch)) \in Seq(C) /\ Tail(batch) \in Seq(C) /\ Len(Tail(batch)) = Len(batch) - 1
      BY <2>1, <3>1, MoveHead
    <3> QED  BY <2>1, <3>2 DEF C
  <2>3. CASE Command /\ UNCHANGED <<wPc, failure>>
    <3>1. AppInv'  BY <2>3, CommandApp
    <3>2. UNCHANGED <<boot, started>>  BY <2>3 DEF Command
    <3>3. TypeOK'  BY <1>1, <2>2, <2>3, <3>1, WorkerAssumption DEF HandleCommand, AppInv
    <3>4. StartedInv' /\ ClosedInv'  BY <1>1, <2>3, <3>2 DEF HandleCommand, StartedInv, ClosedInv
    <3>5. QueueInv'  BY <1>1, <2>2, <2>3 DEF HandleCommand, QueueInv
    <3> QED  BY <3>1, <3>3, <3>4, <3>5
  <2>4. CASE Throw /\ UNCHANGED appVars
    <3>1. TypeOK'  BY <1>1, <2>2, <2>4, AppUnchanged, WorkerAssumption DEF HandleCommand, Throw
    <3>2. StartedInv' /\ ClosedInv'
      BY <1>1, <2>4, AppUnchanged DEF HandleCommand, Throw, StartedInv, ClosedInv
    <3>3. QueueInv'  BY <1>1, <2>4 DEF HandleCommand, Throw, QueueInv
    <3> QED  BY <2>4, <3>1, <3>2, <3>3, AppUnchanged
  <2> QED  BY <1>1, <2>3, <2>4 DEF HandleCommand
<1>2. CASE Tick
  <2>1. CASE SaveSettings /\ wPc' = "publish" /\ UNCHANGED <<started, failure>>
    <3>1. AppInv'  BY <2>1, SaveApp DEF AppInv, AppTypeOK
    <3>2. UNCHANGED boot  BY <2>1 DEF SaveSettings
    <3> QED  BY <1>2, <2>1, <3>1, <3>2 DEF Tick, AppInv
  <2>2. CASE Throw /\ UNCHANGED appVars
    BY <1>2, <2>2, AppUnchanged DEF Tick, Throw
  <2> QED  BY <1>2, <2>1, <2>2 DEF Tick
<1> QED  BY <1>1, <1>2

\* The end of Run.
LEMMA CloseInv == WorkerInv /\ (CloseWorker \/ PublishStopping \/ StopRuntime \/ PublishFinal) => WorkerInv'
<1> SUFFICES ASSUME WorkerInv, CloseWorker \/ PublishStopping \/ StopRuntime \/ PublishFinal PROVE WorkerInv'
  OBVIOUS
<1> USE DEF WorkerInv, TypeOK, StartedInv, QueueInv, ClosedInv, NoneSkipped, mainVars, Running, Closing, WorkerStates
<1>1. CASE CloseWorker  BY <1>1, AppUnchanged DEF CloseWorker
<1>2. CASE PublishStopping  BY <1>2, AppUnchanged DEF PublishStopping, Publish
<1>3. CASE StopRuntime
  <2>1. CASE started /\ SaveSettings /\ started' = FALSE /\ UNCHANGED failure
    <3>1. AppInv'  BY <2>1, SaveApp
    <3>2. UNCHANGED <<boot, wanted, damaged>>  BY <2>1 DEF SaveSettings
    <3>3. boot = "ready" /\ ~damaged /\ ~unsaved' => file' = Complete(wanted)
      BY <2>1 DEF SaveSettings, AppInv, SettingInv
    <3> QED  BY <1>3, <2>1, <3>1, <3>2, <3>3 DEF StopRuntime, AppInv
  <2>2. CASE ~started /\ UNCHANGED <<appVars, failure>>
    BY <1>3, <2>2, AppUnchanged DEF StopRuntime
  <2>3. CASE failure' = TRUE /\ unsaved' = TRUE
             /\ UNCHANGED <<runs, boot, started, importing, diskVars, portVars, setting, writable, dirty, wanted, damaged>>
    <3>1. AppInv'
      BY <2>3 DEF AppInv, AppTypeOK, SettingInv, ImportInv, ImportedWhole, PortsAgree, diskVars, portVars
    <3> QED  BY <1>3, <2>3, <3>1 DEF StopRuntime, AppInv, diskVars
  <2> QED  BY <1>3, <2>1, <2>2, <2>3 DEF StopRuntime
<1>4. CASE PublishFinal  BY <1>4, AppUnchanged DEF PublishFinal, Publish
<1> QED  BY <1>1, <1>2, <1>3, <1>4

LEMMA NextWorker == WorkerInv /\ [Next]_vars => WorkerInv'
<1> SUFFICES ASSUME WorkerInv, [Next]_vars PROVE WorkerInv'
  OBVIOUS
<1>1. CASE MainNext  BY <1>1, MainInv
<1>2. CASE WorkerNext  BY <1>2, LoopInv, WorkInv, CloseInv DEF WorkerNext
<1>3. CASE RunAgain
  <2>1. AppInv'  BY <1>3, RestartApp DEF RunAgain, WorkerInv
  <2>2. TypeOK'
    <3>1. submitted' \in 0..MaxCommands  BY <1>3, WorkerAssumption DEF RunAgain
    <3>2. snapshot' \in [state : WorkerStates, error : BOOLEAN]  BY <1>3 DEF RunAgain, WorkerStates
    <3>3. 0 <= MaxPending  BY WorkerAssumption
    <3> QED  BY <1>3, <2>1, <3>1, <3>2, <3>3, NoCommands DEF RunAgain, TypeOK, AppInv, MainSteps, Running
  <2>3. StartedInv'  BY <1>3 DEF RunAgain, Restart, StartedInv
  <2>4. QueueInv'  BY <1>3 DEF RunAgain, QueueInv, NoneSkipped
  <2>5. ClosedInv'  BY <1>3 DEF RunAgain, ClosedInv
  <2> QED  BY <2>1, <2>2, <2>3, <2>4, <2>5 DEF WorkerInv
<1>4. CASE UNCHANGED vars
  BY <1>4, AppUnchanged
  DEF vars, mainVars, WorkerInv, TypeOK, StartedInv, QueueInv, ClosedInv, NoneSkipped
<1> QED  BY <1>1, <1>2, <1>3, <1>4 DEF Next, Terminated

-----------------------------------------------------------------------------
(* The theorems *)

\* The inductive invariant holds: the commands, the snapshot, the settings and the
\* ports of the two threads, through every interleaving, exception and crash.
THEOREM WorkerInvHolds == Spec => []WorkerInv
<1>1. Init => WorkerInv  BY InitWorker
<1>2. WorkerInv /\ [Next]_vars => WorkerInv'  BY NextWorker
<1> QED  BY <1>1, <1>2, PTL DEF Spec

\* Types: among them that neither m_Commands nor the batch taken from it ever holds
\* more than MaximumPendingUiCommands commands.
THEOREM TypeHolds == Spec => []TypeOK
<1>1. WorkerInv => TypeOK  BY DEF WorkerInv
<1> QED  BY <1>1, WorkerInvHolds, PTL

\* While the worker is in its loop no command for which Submit returned true is
\* lost, doubled or overtaken.
THEOREM NoneIsSkipped == Spec => []NoneSkipped
<1>1. WorkerInv => NoneSkipped  BY DEF WorkerInv, QueueInv
<1> QED  BY <1>1, WorkerInvHolds, PTL

\* When Stop returns the worker is done: nothing is accepted any more, and the
\* last snapshot tells of a failure if there was one in any phase.
THEOREM ShutdownIsComplete == Spec => []ShutdownComplete
<1>1. WorkerInv => ShutdownComplete  BY DEF WorkerInv, StartedInv, ClosedInv, ShutdownComplete
<1> QED  BY <1>1, WorkerInvHolds, PTL

\* Whatever listener, export or save fails, the port shown is the one listened on,
\* and settings and script have no other.
THEOREM PortsDoAgree == Spec => []PortsAgree
<1>1. WorkerInv => PortsAgree  BY DEF WorkerInv, AppInv
<1> QED  BY <1>1, WorkerInvHolds, PTL

\* The tree of the old data folder is imported all or nothing, in every run and
\* after a crash at any step of it; its settings.ini, copied later, is not covered.
THEOREM ImportIsWhole == Spec => []ImportedWhole
<1>1. WorkerInv => ImportedWhole  BY DEF WorkerInv, AppInv, ImportInv
<1> QED  BY <1>1, WorkerInvHolds, PTL

\* A step that writes settings.ini is part of the import, or writes what the player
\* chose to a file that was understood.
LEMMA FileStep ==
  WorkerInv /\ [Next]_vars
  => [file' # file => boot \in {"settings", "copying"} \/ (~damaged /\ file' = Complete(wanted))]_vars
<1> SUFFICES ASSUME WorkerInv, Next, file' # file
             PROVE  boot \in {"settings", "copying"} \/ (~damaged /\ file' = Complete(wanted))
  BY DEF vars, appVars, diskVars
<1>1. SaveSettings => ~damaged /\ file' = Complete(wanted)
  BY DEF SaveSettings, WorkerInv, AppInv, SettingInv
<1>2. CASE MainNext
  BY <1>2 DEF MainNext, MainStop, SubmitCheck, SubmitPush, SubmitNotify, StopAccepting, RequestStop, NotifyStop, Join,
              workerVars, appVars, diskVars
<1>3. CASE StartRuntime
  BY <1>3 DEF StartRuntime, Boot, BootTo, ImportBegin, CopyLegacyTree, CopyLegacyTreeEnd, RenameTree, CopySettings,
              CopySettingsEnd, Directories, LoadSettings, StartBridge
<1>4. CASE HandleCommand  BY <1>4 DEF HandleCommand, Command, appVars, diskVars
<1>5. CASE Tick  BY <1>1, <1>5 DEF Tick, appVars, diskVars
<1>6. CASE StopRuntime  BY <1>1, <1>6 DEF StopRuntime, appVars, diskVars
<1>7. CASE PublishRunning \/ Loop \/ CheckWork \/ Block \/ Timeout \/ AfterSwap \/ CloseWorker \/ PublishStopping
           \/ PublishFinal
  BY <1>7 DEF PublishRunning, Loop, CheckWork, Block, Timeout, AfterSwap, CloseWorker, PublishStopping, PublishFinal,
              appVars, diskVars
<1>8. CASE RunAgain  BY <1>8 DEF RunAgain, Restart, diskVars
<1>9. CASE Terminated  BY <1>9 DEF Terminated, vars, appVars, diskVars
<1> QED
  BY <1>2, <1>3, <1>4, <1>5, <1>6, <1>7, <1>8, <1>9 DEF Next, WorkerNext

\* settings.ini keeps what the player chose from one run to the next, and a file
\* that could not be understood is not touched.
THEOREM SettingsAreKept == Spec => SettingsKept
<1>1. WorkerInv => (wPc = "done" /\ boot = "ready" /\ ~damaged /\ ~unsaved => file = Complete(wanted))
  BY DEF WorkerInv, StartedInv
<1>2. WorkerInv /\ [Next]_vars
      => [file' # file => boot \in {"settings", "copying"} \/ (~damaged /\ file' = Complete(wanted))]_vars
  BY FileStep
<1> QED  BY <1>1, <1>2, WorkerInvHolds, PTL DEF Spec, SettingsKept
=============================================================================
