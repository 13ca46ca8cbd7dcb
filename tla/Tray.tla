---------------------------------- MODULE Tray ----------------------------------
(***************************************************************************)
(* The menu-bar icon and what the host tells it (apps/desktop/src-tauri/   *)
(* src/main.rs; /api/tray and /api/nightly in apps/host/src/ipc.ts).  The  *)
(* icon has no session: it sees who was active last.  A thread asks every  *)
(* five seconds who is signed in and every minute for the title; what it   *)
(* finds is shown on the main thread some time after.  A nightly asked for *)
(* is known by an id of the second, a refresh by one key for the host.     *)
(***************************************************************************)
EXTENDS Naturals, FiniteSets, Sequences, SequencesExt

CONSTANTS Household,   \* the users
          NoUser,
          LastSecond,  \* bound on the clock, in seconds
          MaxSwitches  \* bound on sign-ins, sign-outs and toggles

ASSUME NoUserAssumption == NoUser \notin Household
ASSUME SwitchesAssumption == LastSecond \in Nat /\ MaxSwitches \in Nat

VARIABLES
  recent,      \* who is signed in, the most recently active first
  poller,      \* the thread: what it does, and has found
  itemsOn,     \* Refresh Assets is enabled
  showNw,      \* Show Net Worth, also in tray.json and in the check mark
  shownTitle,  \* whose net worth the title shows, or NoUser
  moved,       \* something changed since what the title shows was read
  trayRefresh, \* whose nightly runs under "tray:refresh"
  second,
  runningIds,  \* running: the ids of nightlies under way
  started,     \* nightlies started by the page: whose, and when
  said,        \* nightlies said to be started
  switches

TrayVars == <<recent, poller, itemsOn, showNw, shownTitle, moved, trayRefresh, second,
              runningIds, started, said, switches>>

activeUser == IF recent = <<>> THEN NoUser ELSE Head(recent)

Idle == [at |-> "rest", found |-> NoUser, since |-> FALSE]
Asked(u, t) == [user |-> u, second |-> t]
SomeOne == Household \cup {NoUser}

TrayTypeOK ==
  /\ recent \in Seq(Household) /\ IsInjective(recent)
  /\ poller \in [at : {"rest", "session", "title", "posted"}, found : SomeOne, since : BOOLEAN]
  /\ {itemsOn, showNw, moved} \subseteq BOOLEAN
  /\ shownTitle \in SomeOne /\ trayRefresh \in SomeOne
  /\ second \in 0 .. LastSecond /\ switches \in 0 .. MaxSwitches
  /\ \A x \in started \cup said : x.user \in Household /\ x.second \in 0 .. second
  /\ \A x \in runningIds : x \in 0 .. second

(* The shell starts with the flag as tray.json has it.                     *)
TrayInit ==
  /\ recent = <<>>
  /\ poller = Idle
  /\ itemsOn = FALSE
  /\ showNw \in BOOLEAN
  /\ shownTitle = NoUser /\ moved = TRUE
  /\ trayRefresh = NoUser
  /\ second = 0
  /\ runningIds = {} /\ started = {} /\ said = {}
  /\ switches = 0

Switch ==
  /\ switches < MaxSwitches /\ switches' = switches + 1
  /\ poller' = [poller EXCEPT !.since = TRUE]

-----------------------------------------------------------------------------
(* The sessions.                                                           *)

Without(u) ==
  IF u \in ToSet(recent) THEN RemoveAt(recent, CHOOSE i \in DOMAIN recent : recent[i] = u) ELSE recent

(* A sign-in, or a request of an open session.                             *)
Uses(u) ==
  /\ activeUser # u
  /\ Switch
  /\ recent' = <<u>> \o Without(u)
  /\ moved' = TRUE
  /\ UNCHANGED <<itemsOn, showNw, shownTitle, trayRefresh, second, runningIds, started, said>>

SignsOut(u) ==
  /\ u \in ToSet(recent)
  /\ Switch
  /\ recent' = Without(u)
  /\ moved' = TRUE
  /\ UNCHANGED <<itemsOn, showNw, shownTitle, trayRefresh, second, runningIds, started, said>>

-----------------------------------------------------------------------------
(* The thread.                                                             *)

Polls == UNCHANGED <<recent, showNw, trayRefresh, second, runningIds, started, said, switches>>

tray_signed_in ==
  /\ poller.at = "rest"
  /\ poller' = [at |-> "session", found |-> activeUser, since |-> FALSE]
  /\ UNCHANGED <<itemsOn, shownTitle, moved>> /\ Polls

(* The items follow what was found; every twelfth round, on to the title.  *)
set_enabled ==
  /\ poller.at = "session"
  /\ itemsOn' = (poller.found # NoUser)
  /\ \E at \in {"rest", "title"} : poller' = [Idle EXCEPT !.at = at]
  /\ UNCHANGED <<shownTitle, moved>> /\ Polls

(* Mutant of PolledTitle: the figure, whatever the flag says.              *)
PolledTitleAlways == activeUser

PolledTitle == IF showNw THEN activeUser ELSE NoUser

(* The flag and the summary are read, and the result posted.               *)
tray_networth_title ==
  /\ poller.at = "title"
  /\ poller' = [at |-> "posted", found |-> PolledTitle, since |-> FALSE]
  /\ UNCHANGED <<itemsOn, shownTitle, moved>> /\ Polls

set_title ==
  /\ poller.at = "posted"
  /\ shownTitle' = poller.found
  /\ moved' = poller.since
  /\ poller' = Idle
  /\ UNCHANGED itemsOn /\ Polls

(* tray-shownw, on the main thread: flag, file, check mark and title.      *)
Toggle ==
  /\ Switch
  /\ showNw' = ~showNw
  /\ shownTitle' = IF showNw' THEN activeUser ELSE NoUser
  /\ moved' = FALSE
  /\ UNCHANGED <<recent, itemsOn, trayRefresh, second, runningIds, started, said>>

-----------------------------------------------------------------------------
(* The host.                                                               *)

(* Refresh Assets, while its item is enabled: one at a time for the host.  *)
RefreshAssets ==
  /\ itemsOn /\ activeUser # NoUser
  /\ trayRefresh = NoUser
  /\ trayRefresh' = activeUser
  /\ UNCHANGED <<recent, poller, itemsOn, showNw, shownTitle, moved, second, runningIds, started,
                 said, switches>>

RefreshEnds ==
  /\ trayRefresh # NoUser
  /\ trayRefresh' = NoUser
  /\ UNCHANGED <<recent, poller, itemsOn, showNw, shownTitle, moved, second, runningIds, started,
                 said, switches>>

(* Mutant of runId: one key for every nightly.                             *)
runIdOne == 0

runId == second

(* POST /api/nightly: started unless the id is running.                    *)
PostNightly(u) ==
  /\ u \in ToSet(recent)
  /\ IF runId \in runningIds THEN UNCHANGED <<runningIds, started>>
     ELSE runningIds' = runningIds \cup {runId} /\ started' = started \cup {Asked(u, second)}
  /\ said' = said \cup {Asked(u, second)}
  /\ UNCHANGED <<recent, poller, itemsOn, showNw, shownTitle, moved, trayRefresh, second, switches>>

TrayNightlyEnds ==
  /\ \E id \in runningIds : runningIds' = runningIds \ {id}
  /\ UNCHANGED <<recent, poller, itemsOn, showNw, shownTitle, moved, trayRefresh, second, started,
                 said, switches>>

SecondPasses ==
  /\ second < LastSecond
  /\ second' = second + 1
  /\ UNCHANGED <<recent, poller, itemsOn, showNw, shownTitle, moved, trayRefresh, runningIds,
                 started, said, switches>>

TrayNext ==
  \/ tray_signed_in \/ set_enabled \/ tray_networth_title \/ set_title \/ Toggle
  \/ RefreshAssets \/ RefreshEnds \/ TrayNightlyEnds \/ SecondPasses
  \/ \E u \in Household : Uses(u) \/ SignsOut(u) \/ PostNightly(u)

-----------------------------------------------------------------------------
(* Properties.                                                             *)

(* The title shows the net worth of whoever is active, and only while it   *)
(* is asked for -- once a poll has read everything after the last change.  *)
(* Until then it may still be that of a user who has left, or stay after   *)
(* it was switched off, when the poll had already read the flag.           *)
TitleTrue == moved \/ shownTitle = IF showNw THEN activeUser ELSE NoUser

(* Who is told that a nightly was started has one running -- unless        *)
(* another user's had been started in that very second: both go by its id  *)
(* (ipc.ts:759-760).                                                       *)
SaidIsStarted ==
  \A x \in said : \E y \in started : y.second = x.second
=============================================================================
