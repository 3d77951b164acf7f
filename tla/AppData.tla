------------------------------- MODULE AppData -------------------------------
(***************************************************************************)
(* What the app keeps between two runs, and the bridge port: the data      *)
(* folder and its import from the original Windows assistant               *)
(* (AppPaths.cpp), settings.ini (Configuration.cpp, UserData.cpp), the     *)
(* exported script (BridgeScript.cpp) and the port the manager listens on  *)
(* (GameConnectionManager.cpp).                                            *)
(*                                                                         *)
(* Of the settings the bridge port and one other, the address, are told    *)
(* apart.  Whether the original assistant left a data folder or settings,  *)
(* and what they say, is open; a run outside Windows finds none.           *)
(***************************************************************************)
EXTENDS Naturals

CONSTANTS
  Ports,         \* the ports a player or the command line names
  DefaultPort,   \* Settings::bridgePort before anything is set
  MaxRuns        \* bound: runs of the app

ASSUME AppDataAssumption ==
  DefaultPort \in Ports /\ Ports \subseteq Nat \ {0} /\ MaxRuns \in Nat \ {0}

VARIABLES
  runs,        \* history: runs of the app so far
  boot,        \* where Start is
  importing,   \* what this run has copied of the old data folder
  dataDir,     \* what is in the data folder
  file,        \* settings.ini
  script,      \* the port in the script, NoPort unless this run's last export succeeded
  setting,     \* SavedSettings
  writable,    \* CanWriteSettings
  dirty,       \* PendingSettingsChange
  override,    \* m_BridgePortOverride
  bridgePort,  \* m_BridgePort
  listening,   \* the port of m_Transport, NoPort if there is none
  started,     \* m_Started
  unsaved,     \* history: the last attempt to save the settings failed
  wanted,      \* history: the settings found at the start, as the player changed them
  damaged      \* history: settings.ini was found damaged

diskVars == <<dataDir, file>>
settingVars == <<setting, writable, dirty, unsaved, wanted, damaged>>
portVars == <<override, bridgePort, listening, script>>
appVars == <<runs, boot, started, importing, diskVars, settingVars, portVars>>

NoPort == 0
Addresses == {"default", "old", "new"}
Settings == [port : Ports, address : Addresses]
Defaults == [port |-> DefaultPort, address |-> "default"]

\* settings.ini: the keys it has ("all" or "some") and what they say.
Absent == [keys |-> "absent", says |-> Defaults]
Damaged == [keys |-> "damaged", says |-> Defaults]
Complete(s) == [keys |-> "all", says |-> s]
Partial(a) == [keys |-> "some", says |-> [Defaults EXCEPT !.address = a]]
Files == {Absent, Damaged} \cup {Complete(s) : s \in Settings} \cup {Partial(a) : a \in Addresses}

\* The old assistant had no bridge port.
OldSettings == Partial("old")

\* What a copy of it that was cut off may say: whole lines are missing, the last
\* value is cut short, or its line is malformed.
TornSettings == {Partial("default"), Partial("old"), Damaged}

BootSteps == {"import", "copyTree", "copyingTree", "rename", "settings", "copying", "directories", "load", "bridge", "ready", "failed"}

AppTypeOK ==
  /\ runs \in 1..MaxRuns /\ boot \in BootSteps /\ started \in BOOLEAN
  /\ importing \in {"nothing", "part", "all"} /\ dataDir \in {"absent", "empty", "part", "all"}
  /\ file \in Files
  /\ script \in Ports \cup {NoPort} /\ listening \in Ports \cup {NoPort} /\ override \in Ports \cup {NoPort}
  /\ bridgePort \in Ports
  /\ setting \in Settings /\ wanted \in Settings
  /\ writable \in BOOLEAN /\ dirty \in BOOLEAN /\ unsaved \in BOOLEAN /\ damaged \in BOOLEAN

AppInit ==
  /\ runs = 1
  /\ \/ dataDir = "absent" /\ file = Absent
     \/ dataDir = "empty" /\ file \in {Absent, Damaged, OldSettings, Complete(Defaults)}
  /\ override \in Ports \cup {NoPort}
  /\ boot = "import" /\ started = FALSE /\ importing = "nothing"
  /\ setting = Defaults /\ writable = TRUE /\ dirty = FALSE
  /\ bridgePort = DefaultPort /\ listening = NoPort /\ script = NoPort
  /\ wanted = Defaults /\ damaged = FALSE /\ unsaved = FALSE

\* The app is started again, after its end or after a crash.
Restart ==
  /\ runs < MaxRuns /\ runs' = runs + 1
  /\ override' \in Ports \cup {NoPort}
  /\ boot' = "import" /\ started' = FALSE /\ importing' = "nothing"
  /\ setting' = Defaults /\ writable' = TRUE /\ dirty' = FALSE
  /\ bridgePort' = DefaultPort /\ listening' = NoPort /\ script' = NoPort
  /\ wanted' = Defaults /\ damaged' = FALSE /\ unsaved' = FALSE
  /\ UNCHANGED diskVars

-----------------------------------------------------------------------------
(* GameConnectionManager::Start.  First UserData::Init: the import. *)

BootTo(from, to) == boot = from /\ boot' = to /\ UNCHANGED <<runs, portVars>>

\* ImportLegacyWindowsData, its early returns.  If there is no old data folder
\* is_directory reports that as an error, so old settings alone are left.
ImportBegin ==
  /\ \/ dataDir = "absent" /\ BootTo("import", "copyTree")
     \/ BootTo("import", "directories")
  /\ UNCHANGED <<importing, dataDir, file, started, settingVars>>

\* CopyLegacyTree, to a new folder.
CopyLegacyTree ==
  /\ BootTo("copyTree", "copyingTree")
  /\ importing' = "part"
  /\ UNCHANGED <<dataDir, file, started, settingVars>>

\* Mutant: an error while a file is copied is only logged.
CopyLegacyTreeAnyway ==
  /\ BootTo("copyingTree", "rename") /\ importing' \in {"part", "all"}
  /\ UNCHANGED <<dataDir, file, started, settingVars>>

\* Every file was copied, or one was not and the new folder is removed.
CopyLegacyTreeEnd ==
  /\ \/ BootTo("copyingTree", "rename") /\ importing' = "all"
     \/ BootTo("copyingTree", "directories") /\ importing' = "nothing"
  /\ UNCHANGED <<dataDir, file, started, settingVars>>

RenameTree ==
  /\ \/ BootTo("rename", "settings") /\ dataDir' = importing
     \/ BootTo("rename", "directories") /\ UNCHANGED dataDir
  /\ importing' = "nothing"
  /\ UNCHANGED <<file, started, settingVars>>

\* copy_file of the old settings.ini: in place, so for a while it is torn.
CopySettings ==
  /\ \/ file = Absent /\ BootTo("settings", "copying") /\ file' \in TornSettings
     \/ BootTo("settings", "directories") /\ UNCHANGED file
  /\ UNCHANGED <<importing, dataDir, started, settingVars>>

CopySettingsEnd ==
  /\ BootTo("copying", "directories")
  /\ file' \in {OldSettings, Damaged, file}
  /\ UNCHANGED <<importing, dataDir, started, settingVars>>

\* RogueLog_Initialize and EnsureDirectory.
Directories ==
  /\ \/ BootTo("directories", "load") /\ dataDir' = IF dataDir = "absent" THEN "empty" ELSE dataDir
     \/ BootTo("directories", "failed") /\ dataDir' \in {dataDir, IF dataDir = "absent" THEN "empty" ELSE dataDir}
  /\ UNCHANGED <<importing, file, started, settingVars>>

\* SettingsLoadResult::Succeeded
Succeeded(found) == found.keys # "damaged"

\* LoadSettings and what Init makes of it; a file that cannot be read counts as
\* damaged.
LoadSettings ==
  /\ BootTo("load", "bridge")
  /\ \E found \in {file, Damaged} :
       /\ writable' = Succeeded(found)
       /\ setting' = found.says /\ wanted' = found.says
       /\ dirty' = (found.keys \in {"absent", "some"})
       /\ damaged' = (found = Damaged)
  /\ started' = TRUE
  /\ UNCHANGED <<importing, dataDir, file, unsaved>>

\* ExportBridgeScript, to the end or to an error.
ExportBridgeScript(port) == script' \in {port, NoPort}

\* Mutant: the port of the command line is put into the settings.
StartBridgeSaved ==
  LET port == IF override = NoPort THEN setting.port ELSE override IN
  /\ boot = "bridge"
  /\ bridgePort' = port /\ setting' = [setting EXCEPT !.port = port]
  /\ \/ boot' = "ready" /\ listening' = port /\ ExportBridgeScript(port)
     \/ boot' = "failed" /\ UNCHANGED <<listening, script>>
  /\ UNCHANGED <<runs, override, started, importing, dataDir, file, writable, dirty, unsaved, wanted, damaged>>

\* The rest of Start.
StartBridge ==
  LET port == IF override = NoPort THEN setting.port ELSE override IN
  /\ boot = "bridge"
  /\ bridgePort' = port
  /\ \/ boot' = "ready" /\ listening' = port /\ ExportBridgeScript(port)
     \/ boot' = "failed" /\ UNCHANGED <<listening, script>>
  /\ UNCHANGED <<runs, override, started, importing, dataDir, file, settingVars>>

Boot ==
  \/ ImportBegin \/ CopyLegacyTree \/ CopyLegacyTreeEnd \/ RenameTree \/ CopySettings \/ CopySettingsEnd
  \/ Directories \/ LoadSettings \/ StartBridge

-----------------------------------------------------------------------------
(* The manager's commands. *)

\* UserData::SetSavedString, of a value that is valid.
SetSaved(s) == setting' = s /\ wanted' = s /\ dirty' = TRUE

\* Mutant: the port is noted before the listener is there.
ChangeBridgePortEarly(port) ==
  /\ bridgePort' = port /\ override' = NoPort
  /\ \/ listening' = port /\ SetSaved([setting EXCEPT !.port = port]) /\ ExportBridgeScript(port)
     \/ port # bridgePort /\ UNCHANGED <<listening, setting, wanted, dirty, script>>

\* ChangeBridgePort, of a valid port: the old listener is kept if there can be
\* none at the new port.
ChangeBridgePort(port) ==
  \/ /\ IF port = bridgePort THEN UNCHANGED <<bridgePort, listening, override>>
        ELSE bridgePort' = port /\ listening' = port /\ override' = NoPort
     /\ SetSaved([setting EXCEPT !.port = port])
     /\ ExportBridgeScript(port)
  \/ port # bridgePort /\ UNCHANGED <<setting, wanted, dirty, bridgePort, listening, override, script>>

\* HandleCommand; a command with an invalid value, or for a connection that does
\* not wait for an address, changes nothing.
Command ==
  /\ \/ \E port \in Ports : ChangeBridgePort(port)
     \/ ExportBridgeScript(bridgePort) /\ UNCHANGED <<setting, wanted, dirty, bridgePort, listening, override>>
     \/ SetSaved([setting EXCEPT !.address = "new"]) /\ UNCHANGED <<bridgePort, listening, override, script>>
     \/ UNCHANGED <<setting, wanted, dirty, bridgePort, listening, override, script>>
  /\ UNCHANGED <<runs, boot, importing, dataDir, file, started, writable, unsaved, damaged>>

\* UserData::Update and SaveSettings, which replaces the file in one step: the
\* save may fail, and is tried again.
SaveSettings ==
  LET due == dirty /\ writable IN
  /\ \/ due /\ file' = Complete(setting) /\ dirty' = FALSE /\ unsaved' = FALSE
     \/ due /\ unsaved' = TRUE /\ UNCHANGED <<file, dirty>>
     \/ ~due /\ UNCHANGED <<file, dirty, unsaved>>
  /\ UNCHANGED <<runs, boot, importing, dataDir, setting, wanted, writable, damaged, portVars>>

-----------------------------------------------------------------------------
(* Properties, of the states in which the worker is not in a call. *)

\* The port the manager shows is the one it listens on; settings and script
\* have it too, except that a port of the command line is not saved
\* (docs/installation.md:150) and that an export may have failed.  Neither a
\* listener that cannot be had nor a change of a port given on the command
\* line separates them.
PortsAgree ==
  boot = "ready" =>
    /\ bridgePort = listening
    /\ override = NoPort => setting.port = bridgePort
    /\ script \in {bridgePort, NoPort}

\* Neither an error nor a crash leaves a part of the old tree as the data folder,
\* where no later run would complete it: the old folder's tree is taken over as
\* a whole or not at all (the staging folder and its rename in
\* ImportLegacyWindowsData).  The old settings.ini is not covered: it is copied
\* after the rename, and a crash there leaves it missing or torn.
ImportedWhole == dataDir # "part"
=============================================================================
