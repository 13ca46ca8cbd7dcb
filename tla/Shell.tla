--------------------------------- MODULE Shell ---------------------------------
(***************************************************************************)
(* The desktop shell and the host it owns (apps/desktop/src-tauri/src/     *)
(* main.rs; serve in apps/host/src/cli.ts).  A shell spawns a host, opens  *)
(* its window on a splash that waits for it, hides the window instead of   *)
(* closing it, and kills the host on a real quit; a host whose shell is    *)
(* gone stops by itself.  Nothing keeps a second shell from starting.      *)
(***************************************************************************)
EXTENDS Naturals, FiniteSets

CONSTANTS Shells,    \* launches, the updater's relaunch among them
          MaxMishaps \* bound on crashes of a host and kills of a shell

ASSUME MishapsAssumption == MaxMishaps \in Nat

VARIABLES
  phase,      \* of a shell
  host,       \* of its host
  child,      \* HostChild holds one
  mainWindow, \* what the main window shows, and whether it is seen
  extras,     \* windows of File > New Window
  title,      \* of the main window
  health,     \* the thread that waits for the host, 120 s
  after,      \* the shell whose update relaunched it, or itself
  mishaps

ShellVars == <<phase, host, child, mainWindow, extras, title, health, after, mishaps>>

HostAlive(s) == host[s] \in {"booting", "serving", "stopping"}
Running(s) == phase[s] = "up"

ShellTypeOK ==
  /\ phase \in [Shells -> {"off", "up", "exiting", "quit", "killed"}]
  /\ host \in [Shells -> {"none", "booting", "serving", "stopping", "dead"}]
  /\ child \in [Shells -> BOOLEAN]
  /\ mainWindow \in [Shells -> [page : {"none", "splash", "app"}, seen : BOOLEAN]]
  /\ extras \in [Shells -> 0 .. 1]
  /\ title \in [Shells -> {"none", "starting", "name", "not responding"}]
  /\ health \in [Shells -> {"waiting", "healthy", "gave up", "told"}]
  /\ after \in [Shells -> Shells] /\ mishaps \in 0 .. MaxMishaps

ShellInit ==
  /\ phase = [s \in Shells |-> "off"] /\ host = [s \in Shells |-> "none"]
  /\ child = [s \in Shells |-> FALSE]
  /\ mainWindow = [s \in Shells |-> [page |-> "none", seen |-> FALSE]]
  /\ extras = [s \in Shells |-> 0]
  /\ title = [s \in Shells |-> "none"]
  /\ health = [s \in Shells |-> "waiting"]
  /\ after = [s \in Shells |-> s]
  /\ mishaps = 0

Mishap == mishaps < MaxMishaps /\ mishaps' = mishaps + 1

(* setup: a port, the host on it, menus, the window on the splash.         *)
Starts(s) ==
  /\ phase[s] = "off"
  /\ mainWindow' = [mainWindow EXCEPT ![s] = [page |-> "splash", seen |-> TRUE]]
  /\ title' = [title EXCEPT ![s] = "starting"]
  /\ UNCHANGED <<extras, health, mishaps>>

Launch(s) ==
  /\ Starts(s)
  /\ phase' = [phase EXCEPT ![s] = "up"]
  /\ host' = [host EXCEPT ![s] = "booting"]
  /\ child' = [child EXCEPT ![s] = TRUE]
  /\ UNCHANGED after

-----------------------------------------------------------------------------
(* The host.                                                               *)

Becomes(s, state) ==
  /\ host' = [host EXCEPT ![s] = state]
  /\ UNCHANGED <<phase, child, mainWindow, extras, title, health, after>>

serve(s) == host[s] = "booting" /\ Becomes(s, "serving") /\ UNCHANGED mishaps

HostCrashes(s) == HostAlive(s) /\ Mishap /\ Becomes(s, "dead")

(* The watch on the parent, set up once the host serves; a stop ends       *)
(* within its deadline, whatever is still open.                            *)
ParentGone(s) ==
  /\ host[s] = "serving" /\ phase[s] \in {"quit", "killed"}
  /\ Becomes(s, "stopping") /\ UNCHANGED mishaps

Stops(s) == host[s] = "stopping" /\ Becomes(s, "dead") /\ UNCHANGED mishaps

-----------------------------------------------------------------------------
(* The windows.                                                            *)

Shows(s, page) == mainWindow' = [mainWindow EXCEPT ![s].page = page]
Unmoved == UNCHANGED <<phase, host, child, after, mishaps>>

(* The splash's own probe.                                                 *)
SplashFinds(s) ==
  /\ Running(s) /\ mainWindow[s].page = "splash" /\ host[s] = "serving"
  /\ Shows(s, "app")
  /\ UNCHANGED <<extras, title, health>> /\ Unmoved

wait_for_health(s) ==
  /\ Running(s) /\ health[s] = "waiting"
  /\ health' = [health EXCEPT ![s] = IF host[s] = "serving" THEN "healthy" ELSE "gave up"]
  /\ UNCHANGED <<mainWindow, extras, title>> /\ Unmoved

(* On the main thread, some time after; the page is replaced by the app.   *)
HealthTells(s) ==
  /\ Running(s) /\ health[s] \in {"healthy", "gave up"}
  /\ health' = [health EXCEPT ![s] = "told"]
  /\ title' = [title EXCEPT ![s] = IF health[s] = "healthy" THEN "name" ELSE "not responding"]
  /\ IF health[s] = "healthy" THEN Shows(s, "app") ELSE UNCHANGED mainWindow
  /\ UNCHANGED extras /\ Unmoved

(* CloseRequested: the main window hides; open_main brings it back.        *)
CloseMain(s) ==
  /\ Running(s) /\ mainWindow[s].seen
  /\ mainWindow' = [mainWindow EXCEPT ![s].seen = FALSE]
  /\ UNCHANGED <<extras, title, health>> /\ Unmoved

open_main(s) ==
  /\ Running(s) /\ ~mainWindow[s].seen
  /\ mainWindow' = [mainWindow EXCEPT ![s].seen = TRUE]
  /\ UNCHANGED <<extras, title, health>> /\ Unmoved

(* An extra window really closes.  No window left is no exit.              *)
ExtraWindow(s) ==
  /\ Running(s)
  /\ extras' = [extras EXCEPT ![s] = 1 - @]
  /\ UNCHANGED <<mainWindow, title, health>> /\ Unmoved

-----------------------------------------------------------------------------
(* The end.                                                                *)

(* The child is taken, so that it is killed once.                          *)
kill_host(s) ==
  /\ host' = [host EXCEPT ![s] = IF child[s] /\ HostAlive(s) THEN "dead" ELSE @]
  /\ child' = [child EXCEPT ![s] = FALSE]

Left == UNCHANGED <<mainWindow, extras, title, health, after, mishaps>>

(* The kill switch: the host first, then app.exit.                         *)
KillSwitch(s) ==
  /\ Running(s)
  /\ kill_host(s)
  /\ phase' = [phase EXCEPT ![s] = "exiting"]
  /\ Left

(* tray-quit, Cmd+Q: app.exit.                                             *)
QuitApp(s) ==
  /\ Running(s)
  /\ phase' = [phase EXCEPT ![s] = "exiting"]
  /\ UNCHANGED <<host, child>> /\ Left

(* Mutant of ExitRuns: only the kill switch stops the host.                *)
ExitRunsOn(s) ==
  /\ phase[s] = "exiting"
  /\ phase' = [phase EXCEPT ![s] = "quit"]
  /\ UNCHANGED <<host, child>> /\ Left

(* RunEvent::Exit.                                                         *)
ExitRuns(s) ==
  /\ phase[s] = "exiting"
  /\ kill_host(s)
  /\ phase' = [phase EXCEPT ![s] = "quit"]
  /\ Left

(* Mutant of Relaunch: the new copy starts beside the old host.            *)
RelaunchFirst(s, next) ==
  /\ s # next /\ Running(s) /\ Starts(next)
  /\ phase' = [phase EXCEPT ![s] = "exiting", ![next] = "up"]
  /\ host' = [host EXCEPT ![next] = "booting"]
  /\ child' = [child EXCEPT ![next] = TRUE]
  /\ after' = [after EXCEPT ![next] = s]

(* The update is installed: the host is killed, then the app restarts.     *)
Relaunch(s, next) ==
  /\ s # next /\ Running(s) /\ Starts(next)
  /\ phase' = [phase EXCEPT ![s] = "quit", ![next] = "up"]
  /\ host' = [host EXCEPT ![s] = IF child[s] /\ HostAlive(s) THEN "dead" ELSE @, ![next] = "booting"]
  /\ child' = [child EXCEPT ![s] = FALSE, ![next] = TRUE]
  /\ after' = [after EXCEPT ![next] = s]

(* The shell dies without its exit path.                                   *)
ShellKilled(s) ==
  /\ phase[s] \in {"up", "exiting"} /\ Mishap
  /\ phase' = [phase EXCEPT ![s] = "killed"]
  /\ UNCHANGED <<host, child, mainWindow, extras, title, health, after>>

ShellNext ==
  \E s \in Shells :
    \/ Launch(s) \/ serve(s) \/ HostCrashes(s) \/ ParentGone(s) \/ Stops(s)
    \/ SplashFinds(s) \/ wait_for_health(s) \/ HealthTells(s)
    \/ CloseMain(s) \/ open_main(s) \/ ExtraWindow(s)
    \/ KillSwitch(s) \/ QuitApp(s) \/ ExitRuns(s) \/ ShellKilled(s)
    \/ \E next \in Shells : Relaunch(s, next)

-----------------------------------------------------------------------------
(* Properties.                                                             *)

(* A shell that has quit, by whatever way, leaves no host behind           *)
(* (main.rs:6-7): only one that was killed does, until its host notices.   *)
QuitStops == \A s \in Shells : phase[s] = "quit" => ~HostAlive(s)

(* Two hosts run on one data directory only while their shells were        *)
(* started apart and neither has quit, or while the host of a killed shell *)
(* has not stopped: a relaunch after an update never makes two.            *)
HostsApart ==
  \A s, t \in Shells :
    s # t /\ HostAlive(s) /\ HostAlive(t) =>
      \/ "killed" \in {phase[s], phase[t]}
      \/ {phase[s], phase[t]} \subseteq {"up", "exiting"} /\ after[s] # t /\ after[t] # s
=============================================================================
