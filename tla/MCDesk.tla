-------------------------------- MODULE MCDesk --------------------------------
(***************************************************************************)
(* The process and the desk around the books, on small instances: the      *)
(* credential stores, timers, subscriptions, chat, the nightly's own       *)
(* proposals, the GUI's gate, refresh and forms, the shell, the tray and   *)
(* the listener.  None of these parts reads another's variables; a         *)
(* behavior moves the one chosen at its start, and the others stay as they *)
(* begin.                                                                  *)
(***************************************************************************)
EXTENDS Secrets, Timers, Subscriptions, Chat, AutoPropose, Gate, Refresh, Forms, Shell, Tray, Serve, TLC

CONSTANTS strategist, s, l2, l3, firstWindow, extraWindow

VARIABLE part   \* the part this behavior is about

DeskParts == {"secrets", "timers", "subscriptions", "chat", "auto", "gate", "refresh", "forms",
              "shell", "tray", "serve"}

DeskInit ==
  /\ part \in DeskParts
  /\ SecretsInit /\ (part # "secrets" => platform = "file" /\ envSecrets = {} /\ held = [t \in Targets |-> NothingHeld])
  /\ TimersInit /\ (part # "timers" => \A t \in Timers : fireAt[t] = 1)
  /\ SubscriptionsInit /\ ChatInit /\ AutoInit /\ GateInit
  /\ RefreshInit /\ (part # "refresh" => loader = "page")
  /\ FormsInit /\ (part # "forms" => form = "key")
  /\ ShellInit
  /\ TrayInit /\ (part # "tray" => showNw)
  /\ ServeInit /\ (part # "serve" => lanEnabled)

Elsewhere(p, v) == part # p => UNCHANGED v

Others ==
  /\ UNCHANGED part
  /\ Elsewhere("secrets", SecretsVars) /\ Elsewhere("timers", TimersVars)
  /\ Elsewhere("subscriptions", SubscriptionsVars) /\ Elsewhere("chat", ChatVars)
  /\ Elsewhere("auto", AutoVars) /\ Elsewhere("gate", GateVars)
  /\ Elsewhere("refresh", RefreshVars) /\ Elsewhere("forms", FormsVars)
  /\ Elsewhere("shell", ShellVars) /\ Elsewhere("tray", TrayVars) /\ Elsewhere("serve", ServeVars)

DeskNext ==
  \/ part = "secrets" /\ SecretsNext /\ Others
  \/ part = "timers" /\ TimersNext /\ Others
  \/ part = "subscriptions" /\ SubscriptionsNext /\ Others
  \/ part = "chat" /\ ChatNext /\ Others
  \/ part = "auto" /\ AutoNext /\ Others
  \/ part = "gate" /\ GateNext /\ Others
  \/ part = "refresh" /\ RefreshNext /\ Others
  \/ part = "forms" /\ FormsNext /\ Others
  \/ part = "shell" /\ ShellNext /\ Others
  \/ part = "tray" /\ TrayNext /\ Others
  \/ part = "serve" /\ ServeNext /\ Others

DeskVars == <<part, SecretsVars, TimersVars, SubscriptionsVars, ChatVars, AutoVars, GateVars,
              RefreshVars, FormsVars, ShellVars, TrayVars, ServeVars>>

DeskSpec == DeskInit /\ [][DeskNext]_DeskVars

(* The variables of every part keep their types.                           *)
DeskTypeOK ==
  /\ part = "secrets" => SecretsTypeOK
  /\ part = "timers" => TimersTypeOK
  /\ part = "subscriptions" => SubscriptionsTypeOK
  /\ part = "chat" => ChatTypeOK
  /\ part = "auto" => AutoTypeOK
  /\ part = "gate" => GateTypeOK
  /\ part = "refresh" => RefreshTypeOK
  /\ part = "forms" => FormsTypeOK
  /\ part = "shell" => ShellTypeOK
  /\ part = "tray" => TrayTypeOK
  /\ part = "serve" => ServeTypeOK

(* No failure hides a stored credential for the life of the process, and   *)
(* none of an older value's pieces outlives it.                            *)
SecretsWhole == part = "secrets" => CacheTrue /\ NoPieceLeft

(* Nobody waits for what will not come: a timer is never further than a    *)
(* chunk from looking at the clock, a subscriber that missed an event is   *)
(* told, a delivered message stays readable and an agent has one run.      *)
NobodyStranded ==
  /\ part = "timers" => WithinAChunk
  /\ part = "subscriptions" => LossIsLoud
  /\ part = "chat" => NotStranded /\ OneStandingRun

(* A window and the tray show the ledger as it stands, to its own user.    *)
ScreensTrue ==
  /\ part = "gate" => OwnScreen /\ RestoresOwn
  /\ part = "refresh" => CaughtUp
  /\ part = "tray" => TitleTrue /\ SaidIsStarted

(* A quit takes its own host along and no other, an open App is open on an *)
(* attached volume and writes beside it only once it was closed in the     *)
(* middle of something, and the listener is bound as it was set.           *)
ProcessesApart ==
  /\ part = "shell" => QuitStops /\ HostsApart
  /\ part = "serve" => InsideTheVolume /\ BoundAsSet

(* A timer is never early, and overdue ones come one at a time.            *)
TimersKeepTime == NeverEarly /\ OneAtATime

(* An agent's turn runs on the engine of the day and stands once recorded; *)
(* a nightly never wakes one on top of an open proposal, nor for the same  *)
(* picture twice a week.                                                   *)
AgentsAct == EngineOfTheDay /\ TurnStands /\ NeverOnTop /\ NotTwiceAWeek

(* What a window has is kept: its session, the newest answer, what was     *)
(* typed, and what was saved.                                              *)
ScreensKeep == KeptUnlessStale /\ NeverBackwards /\ EditsKept /\ SavedStays

ModelPieces == s :> 0 @@ l2 :> 2 @@ l3 :> 3
ModelAgents == [m \in Messages |-> strategist]
===============================================================================
