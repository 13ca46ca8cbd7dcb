---------------------------------- MODULE Serve ----------------------------------
(***************************************************************************)
(* Requests and the doors they come through (fetch in apps/host/src/       *)
(* ipc.ts; the listener of serve in cli.ts; appFor in users.ts).  A        *)
(* handler takes its user's App before it awaits the request's body, and   *)
(* works on it afterwards; the runs it starts, and those an App resumes,   *)
(* go on by themselves.  Meanwhile the user may sign out (the App's ledger *)
(* is closed, the volume detached) or change the password.  The listener   *)
(* is bound anew, a moment after it was asked to be, on the network or     *)
(* off.                                                                    *)
(***************************************************************************)
EXTENDS Naturals, FiniteSets

CONSTANTS Members,      \* the users, with encrypted stores
          MaxRequestsIn, \* bound on the requests
          MaxTurns,     \* bound on sign-ins, sign-outs, password changes, LAN switches
          MaxRebinds    \* bound on rebinds under way

ASSUME TurnsAssumption == MaxTurns \in Nat

VARIABLES
  sessionsOf, \* how many sessions a user has
  apps,       \* the user's App, by its number, or NoApp
  mounted,    \* the volumes attached
  incoming,   \* requests whose body is awaited
  working,    \* Apps that drive runs: a nightly, a chat, a tax year
  outside,    \* Apps that wrote a file while their volume was detached
  crossed,    \* history: Apps that were closed under a request or a run
  lanEnabled,
  listener,   \* "none", or where it is bound
  rebinds,    \* how far each rebind is
  hostUp,
  serveTurns

ServeVars == <<sessionsOf, apps, mounted, incoming, working, outside, crossed, lanEnabled,
               listener, rebinds, hostUp, serveTurns>>

NoApp == 0
Opened == [user : Members, app : 1 .. MaxTurns]

ServeTypeOK ==
  /\ sessionsOf \in [Members -> 0 .. 2]
  /\ apps \in [Members -> 0 .. MaxTurns]
  /\ mounted \subseteq Members /\ working \subseteq Opened /\ outside \subseteq Opened /\ crossed \subseteq Opened
  /\ incoming \subseteq [user : Members, app : 1 .. MaxTurns, kind : {"ledger", "file", "run"}]
  /\ {lanEnabled, hostUp} \subseteq BOOLEAN
  /\ listener \in {"none", "loopback", "network"}
  /\ rebinds \subseteq [n : 1 .. MaxTurns, at : {"timer", "starting"}]
  /\ serveTurns \in 0 .. MaxTurns

ServeInit ==
  /\ sessionsOf = [u \in Members |-> 0]
  /\ apps = [u \in Members |-> NoApp]
  /\ mounted = {} /\ incoming = {} /\ working = {} /\ outside = {} /\ crossed = {}
  /\ lanEnabled \in BOOLEAN
  /\ listener = IF lanEnabled THEN "network" ELSE "loopback"
  /\ rebinds = {}
  /\ hostUp = TRUE
  /\ serveTurns = 0

Turn == serveTurns < MaxTurns /\ serveTurns' = serveTurns + 1
Reachable == hostUp /\ listener # "none"
Doors == UNCHANGED <<lanEnabled, listener, rebinds, hostUp>>

-----------------------------------------------------------------------------
(* The users.                                                              *)

(* The runs in flight are resumed, if there are any.                       *)
Resumes(u, app) == working' \in {working, working \cup {[user |-> u, app |-> app]}}

login(u) ==
  /\ Reachable /\ sessionsOf[u] < 2 /\ Turn
  /\ sessionsOf' = [sessionsOf EXCEPT ![u] = @ + 1]
  /\ mounted' = mounted \cup {u}
  /\ LET app == IF apps[u] = NoApp THEN serveTurns' ELSE apps[u]
     IN  apps' = [apps EXCEPT ![u] = app] /\ Resumes(u, app)
  /\ UNCHANGED <<incoming, outside, crossed>> /\ Doors

(* Closing an App closes its ledger: what it was at goes on.               *)
Close(u) ==
  LET open == [user |-> u, app |-> apps[u]]
      busy == open \in working \/ \E x \in incoming : x.user = u /\ x.app = open.app
  IN  crossed' = IF busy THEN crossed \cup {open} ELSE crossed

(* The last session out closes the App and locks the store, if it can.     *)
logout(u) ==
  /\ Reachable /\ sessionsOf[u] > 0 /\ Turn
  /\ sessionsOf' = [sessionsOf EXCEPT ![u] = @ - 1]
  /\ IF sessionsOf[u] > 1 THEN UNCHANGED <<apps, mounted, crossed>>
     ELSE /\ Close(u)
          /\ apps' = [apps EXCEPT ![u] = NoApp]
          /\ mounted' \in {mounted, mounted \ {u}}
  /\ UNCHANGED <<incoming, working, outside>> /\ Doors

(* Re-keyed: closed, detached, attached again by an App that resumes its   *)
(* runs; a failure between leaves the user signed in with no App, and the  *)
(* store locked unless it was the detaching that failed.                   *)
changePassword(u) ==
  /\ Reachable /\ sessionsOf[u] > 0 /\ u \in mounted /\ Turn
  /\ Close(u)
  /\ \/ /\ apps' = [apps EXCEPT ![u] = serveTurns'] /\ UNCHANGED mounted
        /\ Resumes(u, serveTurns')
     \/ /\ apps' = [apps EXCEPT ![u] = NoApp] /\ mounted' \in {mounted, mounted \ {u}}
        /\ UNCHANGED working
  /\ UNCHANGED <<sessionsOf, incoming, outside>> /\ Doors

(* Mutant of appFor: whoever has a session gets an App.                    *)
appForSession(u) == TRUE

(* Locked data is served to no one.                                        *)
appFor(u) == u \in mounted

-----------------------------------------------------------------------------
(* Requests.                                                               *)

(* The session says whose; the App is taken, made if need be.              *)
Arrive(u, kind) ==
  /\ Reachable /\ sessionsOf[u] > 0 /\ appFor(u)
  /\ Cardinality(incoming) < MaxRequestsIn
  /\ LET app == IF apps[u] = NoApp THEN serveTurns ELSE apps[u] IN
       /\ apps' = [apps EXCEPT ![u] = app]
       /\ incoming' = incoming \cup {[user |-> u, app |-> app, kind |-> kind]}
  /\ UNCHANGED <<sessionsOf, mounted, working, outside, crossed, serveTurns>> /\ Doors

(* Directories are made as they are missed: a file of the user's is        *)
(* written where the volume was.                                           *)
Written(x) == IF x.user \in mounted THEN outside ELSE outside \cup {[user |-> x.user, app |-> x.app]}

(* The body is there.  The ledger of an App that was closed throws; a file *)
(* is written, a run is begun and its log with it.                         *)
Handle(x) ==
  /\ hostUp
  /\ incoming' = incoming \ {x}
  /\ outside' = IF x.kind = "ledger" THEN outside ELSE Written(x)
  /\ working' = IF x.kind = "run" THEN working \cup {[user |-> x.user, app |-> x.app]} ELSE working
  /\ UNCHANGED <<sessionsOf, apps, mounted, crossed, serveTurns>> /\ Doors

(* A run takes a step, its last perhaps, and its log is flushed: whoever   *)
(* has signed out meanwhile.                                               *)
Work(w) ==
  /\ hostUp
  /\ outside' = Written(w)
  /\ working' \in {working, working \ {w}}
  /\ UNCHANGED <<sessionsOf, apps, mounted, incoming, crossed, serveTurns>> /\ Doors

-----------------------------------------------------------------------------
(* The listener.                                                           *)

(* Mutant of Rebinds: the network is left at the next start.               *)
RebindsOn(on, n) == IF on THEN rebinds \cup {[n |-> n, at |-> "timer"]} ELSE rebinds

Rebinds(on, n) == rebinds \cup {[n |-> n, at |-> "timer"]}

(* POST /api/lan; the rebind comes 200 ms after the answer.                *)
setLanMode(on) ==
  /\ Reachable /\ on # lanEnabled /\ Turn
  /\ Cardinality(rebinds) < MaxRebinds
  /\ lanEnabled' = on
  /\ rebinds' = Rebinds(on, serveTurns')
  /\ UNCHANGED <<sessionsOf, apps, mounted, incoming, working, outside, crossed, listener, hostUp>>

Served == UNCHANGED <<sessionsOf, apps, mounted, incoming, working, outside, crossed, lanEnabled, serveTurns>>

(* The present listener is stopped, its connections are cut.               *)
RebindStops(r) ==
  /\ hostUp /\ r.at = "timer" /\ \A q \in rebinds : q.at = "timer" => q.n >= r.n
  /\ listener' = "none"
  /\ rebinds' = (rebinds \ {r}) \cup {[r EXCEPT !.at = "starting"]}
  /\ UNCHANGED hostUp /\ Served

(* A new one starts as lanEnabled says by then.  Where another rebind has  *)
(* taken the port in between, twenty tries fail and nothing catches it.    *)
RebindStarts(r) ==
  /\ hostUp /\ r.at = "starting"
  /\ rebinds' = rebinds \ {r}
  /\ IF listener = "none"
     THEN listener' = (IF lanEnabled THEN "network" ELSE "loopback") /\ UNCHANGED hostUp
     ELSE hostUp' = FALSE /\ UNCHANGED listener
  /\ Served

ServeNext ==
  \/ \E u \in Members :
       login(u) \/ logout(u) \/ changePassword(u) \/ \E kind \in {"ledger", "file", "run"} : Arrive(u, kind)
  \/ \E x \in incoming : Handle(x)
  \/ \E w \in working : Work(w)
  \/ \E on \in BOOLEAN : setLanMode(on)
  \/ \E r \in rebinds : RebindStops(r) \/ RebindStarts(r)

-----------------------------------------------------------------------------
(* Properties.                                                             *)

(* An App that is open is open on an attached volume, whatever failed in   *)
(* between.  Files are written beside a volume, in the clear, only by an   *)
(* App that was closed by a sign-out or a password change while it still   *)
(* awaited a request's body (ipc.ts:310) or drove a run: close() closes    *)
(* the ledger alone (app.ts:2341), the runs go on and make the directories *)
(* anew (ensureDir).                                                       *)
InsideTheVolume ==
  /\ \A u \in Members : apps[u] # NoApp => u \in mounted
  /\ outside \subseteq crossed

(* When every rebind is through, the listener is bound as was last asked   *)
(* (cli.ts:410-424), however the switches and rebinds interleaved.         *)
BoundAsSet ==
  hostUp /\ rebinds = {} => listener = IF lanEnabled THEN "network" ELSE "loopback"
=============================================================================
