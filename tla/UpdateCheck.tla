----------------------------- MODULE UpdateCheck -----------------------------
(***************************************************************************)
(* The updater: the page's bridge (desktop_qml/update_bridge.py), the       *)
(* release it reads (infrastructure/updates/service.py), and the staging    *)
(* and the shell script that replaces the application after it has quit     *)
(* (installer.py).                                                          *)
(*                                                                          *)
(* A release and a bundle are their version; a bundle may be there only in  *)
(* part, when copying it stopped.  A script may find a step failing, and    *)
(* the machine may go down between any two.  The window may refuse to close *)
(* (PilotWindow.qml), so that the application goes on beside a script that  *)
(* waits for its end, and may stage another.                                *)
(***************************************************************************)
EXTENDS Naturals

CONSTANTS MaxVersion,
          Scripts     \* replacement scripts that may be started one beside another

VARIABLES
    latest,  \* the release published as the latest one
    app,     \* the version that runs, 0 when none does
    page,    \* the bridge: its task, the release it knows, that of the install
    bundle,  \* what is installed and what is set aside
    scripts, \* of each script the next step and what it is to install
    raced    \* an update was staged while the script of another was not over

vars == <<latest, app, page, bundle, scripts, raced>>

Missing == 0
Partial == MaxVersion + 1
Bundles == 0..(MaxVersion + 1)
Usable(b) == b \in 1..MaxVersion
NewPage == [task |-> "none", release |-> 0, installing |-> 0]
NoScript == [step |-> "none", staged |-> Missing]

Init ==
    /\ latest = 1 /\ app = 1 /\ page = NewPage
    /\ bundle = [target |-> 1, backup |-> Missing]
    /\ scripts = [s \in Scripts |-> NoScript] /\ raced = FALSE

Running == app # 0

(* Another release becomes the latest, also an older one.                   *)
Publish == latest' \in 1..MaxVersion /\ UNCHANGED <<app, page, bundle, scripts, raced>>

-----------------------------------------------------------------------------
(* The bridge.  One task at a time.                                         *)
Idle == Running /\ page.task = "none"

UpdateAvailable == page.release > app

Page(change) == page' = change /\ UNCHANGED <<latest, app, bundle, scripts, raced>>

Check == Idle /\ Page([page EXCEPT !.task = "check"])

(* A release without a bundle for this machine is an error like a network   *)
(* failure; the release known before stays.                                 *)
CheckFails == Running /\ page.task = "check" /\ Page([page EXCEPT !.task = "none"])

CheckCompleted ==
    /\ Running /\ page.task = "check"
    /\ Page([page EXCEPT !.task = "none", !.release = latest])

InstallUpdate ==
    /\ Idle /\ UpdateAvailable
    /\ Page([page EXCEPT !.task = "install", !.installing = page.release])

(* A download, its checksum, its identity or its signature is wrong, or the *)
(* directory cannot be written.                                             *)
StageFails ==
    /\ Running /\ page.task = "install"
    /\ Page([page EXCEPT !.task = "none", !.installing = 0])

(* stage_update and _install_completed: the script is started, beside any   *)
(* other that is not over, and the application is told to quit.             *)
StageUpdate ==
    /\ Running /\ page.task = "install"
    /\ \E s \in Scripts :
         /\ scripts[s] = NoScript
         /\ scripts' = [scripts EXCEPT ![s] = [step |-> "wait", staged |-> page.installing]]
    /\ page' = [page EXCEPT !.task = "none", !.installing = 0]
    /\ raced' = (raced \/ \E s \in Scripts : scripts[s] # NoScript)
    /\ UNCHANGED <<latest, app, bundle>>

(* Every script that waits for this process goes on.                        *)
AppExits ==
    /\ Running
    /\ app' = 0 /\ page' = NewPage
    /\ scripts' = [s \in Scripts |-> IF scripts[s].step = "wait"
                                     THEN [scripts[s] EXCEPT !.step = "clean"] ELSE scripts[s]]
    /\ UNCHANGED <<latest, bundle, raced>>

Opened(target) == IF Usable(target) /\ ~Running THEN target ELSE app

StartApp ==
    /\ ~Running /\ Usable(bundle.target)
    /\ app' = Opened(bundle.target)
    /\ UNCHANGED <<latest, page, bundle, scripts, raced>>

-----------------------------------------------------------------------------
(* A script, command by command.                                            *)
Step(s, at, next) ==
    /\ scripts[s].step = at
    /\ scripts' = [scripts EXCEPT ![s] = IF next = "none" THEN NoScript ELSE [@ EXCEPT !.step = next]]
    /\ UNCHANGED <<latest, page, raced>>

(* What mv leaves at its destination: it moves into a directory that is     *)
(* there already, which stays what it was.                                  *)
MovedOnto(there, what) == IF there = Missing THEN what ELSE there

RemoveOldBackup(s) ==
    /\ Step(s, "clean", "aside")
    /\ bundle' = [bundle EXCEPT !.backup = Missing] /\ UNCHANGED app

(* Under set -e a failing move ends the script.                             *)
MoveAside(s) ==
    /\ UNCHANGED app
    /\ \/ /\ Step(s, "aside", "in") /\ bundle.target # Missing
          /\ bundle' = [target |-> Missing, backup |-> MovedOnto(bundle.backup, bundle.target)]
       \/ Step(s, "aside", "none") /\ UNCHANGED bundle

(* The staged bundle lies in the temporary directory: moving it may copy,   *)
(* and what arrives may be part of it.                                      *)
MoveIn(s) ==
    /\ UNCHANGED app
    /\ \E b \in {scripts[s].staged, Partial, Missing} :
         /\ bundle' = [bundle EXCEPT !.target = MovedOnto(@, b)]
         /\ Step(s, "in", "restore") \/ (b # Missing /\ Step(s, "in", "verify"))

FaultyVerify(s) ==
    /\ Step(s, "verify", IF Usable(bundle.target) THEN "open" ELSE "restore")
    /\ bundle' = [bundle EXCEPT !.backup = Missing] /\ UNCHANGED app

Verify(s) ==
    /\ UNCHANGED <<app, bundle>>
    /\ (Usable(bundle.target) /\ Step(s, "verify", "open")) \/ Step(s, "verify", "restore")

OpenNew(s) == Step(s, "open", "drop") /\ app' = Opened(bundle.target) /\ UNCHANGED bundle

DropBackup(s) ==
    /\ Step(s, "drop", "none")
    /\ bundle' = [bundle EXCEPT !.backup = Missing] /\ UNCHANGED app

RemoveTarget(s) ==
    /\ Step(s, "restore", "back")
    /\ bundle' = [bundle EXCEPT !.target = Missing] /\ UNCHANGED app

(* With no backup to move, the script ends without opening anything.        *)
Restore(s) ==
    /\ Step(s, "back", "none")
    /\ bundle' = [target |-> MovedOnto(bundle.target, bundle.backup), backup |-> Missing]
    /\ app' = IF bundle.backup = Missing THEN app ELSE Opened(bundle'.target)

(* The machine goes down; what a script has not done is never done.         *)
PowerOff ==
    /\ app' = 0 /\ page' = NewPage /\ scripts' = [s \in Scripts |-> NoScript]
    /\ UNCHANGED <<latest, bundle, raced>>

Script(s) ==
    \/ RemoveOldBackup(s) \/ MoveAside(s) \/ MoveIn(s) \/ Verify(s)
    \/ OpenNew(s) \/ DropBackup(s) \/ RemoveTarget(s) \/ Restore(s)

Next ==
    \/ Publish \/ Check \/ CheckFails \/ CheckCompleted \/ InstallUpdate
    \/ StageFails \/ StageUpdate \/ AppExits \/ StartApp \/ PowerOff
    \/ \E s \in Scripts : Script(s)

Spec == Init /\ [][Next]_vars

-----------------------------------------------------------------------------
Steps == {"none", "wait", "clean", "aside", "in", "verify", "restore", "back", "open", "drop"}
Tasks == {"none", "check", "install"}
Pages == [task : Tasks, release : 0..MaxVersion, installing : 0..MaxVersion]
ScriptStates == [step : Steps, staged : 0..MaxVersion]

(* Versions, bundles and steps have their types (update_bridge.py).         *)
TypeOK ==
    /\ latest \in 1..MaxVersion /\ app \in 0..MaxVersion /\ page \in Pages
    /\ bundle \in [target : Bundles, backup : Bundles]
    /\ scripts \in [Scripts -> ScriptStates] /\ raced \in BOOLEAN

(* Wherever an update fails or the machine goes down, a whole version of    *)
(* the application is still there, installed or set aside, as long as no    *)
(* update was staged before the script of another was over (installer.py    *)
(* replacement_script).                                                     *)
AppIsNeverLost == ~raced => Usable(bundle.target) \/ Usable(bundle.backup)

(* What keeps it: without a race one script runs at a time, and each step   *)
(* finds the bundle it needs; what it installs is whole; and an application *)
(* that runs without a script runs from its place.                          *)
OneScript == \A s, t \in Scripts : scripts[s] # NoScript /\ scripts[t] # NoScript => s = t

ScriptInv ==
    /\ page.task = "install" => page.installing # 0
    /\ ~raced =>
         /\ OneScript
         /\ \A s \in Scripts :
              /\ scripts[s].step \in {"wait", "clean", "aside", "open", "drop"} => Usable(bundle.target)
              /\ scripts[s].step \in {"in", "back"} => bundle.target = Missing
              /\ scripts[s].step = "aside" => bundle.backup = Missing
              /\ scripts[s].step \in {"in", "verify", "restore", "back"} => Usable(bundle.backup)
         /\ Running /\ (\A s \in Scripts : scripts[s] = NoScript) => Usable(bundle.target)

PartInv == TypeOK /\ AppIsNeverLost /\ ScriptInv

(* Does not hold: the window refuses to close, another update is staged,    *)
(* and the two scripts go on together when the application ends: one drops  *)
(* as an old backup what the other has just set aside.                      *)
RaceLosesNothing == Usable(bundle.target) \/ Usable(bundle.backup)

(* Does not hold: when the old version is opened again before the script    *)
(* moves it aside, it may be told of an update once more and then replace   *)
(* the new version, also by an older one published meanwhile.               *)
NeverDowngrades ==
    Usable(bundle.target) /\ Usable(bundle.backup) => bundle.target > bundle.backup

(* Does not hold: when the machine goes down between the two moves, nothing *)
(* moves the application back.                                              *)
QuietMeansInstalled == (\A s \in Scripts : scripts[s] = NoScript) => Usable(bundle.target)
=============================================================================
