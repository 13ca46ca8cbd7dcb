-------------------------------- MODULE Users --------------------------------
(***************************************************************************)
(* The people of one host (apps/host/src/users.ts) and their data at rest  *)
(* (crypt.ts): the user file, the sessions, one App per user, and on macOS *)
(* one encrypted volume per user, mounted over the user's directory.       *)
(*                                                                         *)
(* Every operation is a list of effects on the disk.  The host may die     *)
(* between any two of them and any call of hdiutil may fail; an operation  *)
(* that throws leaves what it has done.                                    *)
(***************************************************************************)
EXTENDS Naturals, Sequences, FiniteSets

CONSTANTS Ids,        \* ids of users
          Primary,    \* the id a single-user layout migrates to
          Passwords,
          Docs,       \* what a user puts into the household
          Tokens,     \* session tokens
          NoValue,    \* no password, no user, no session, no directory
          Volume,     \* does the platform manage a volume per user?
          Legacy,     \* documents of a single-user layout found at the root
          MaxUsers,   \* bound on the users of the file
          MaxUpsets   \* bound on deaths and failed calls

ASSUME PrimaryAssumption == Primary \in Ids
ASSUME IdsAssumption == IsFiniteSet(Ids)
ASSUME ValuesAssumption ==
  /\ NoValue \notin Passwords \cup [password : Passwords \cup {NoValue}, encrypted : BOOLEAN]
                            \cup [user : Ids, idle : BOOLEAN]
  /\ \A items \in SUBSET (Docs \cup {"ledger.db"}) : NoValue # items
ASSUME VolumeAssumption == Volume \in BOOLEAN
ASSUME LegacyAssumption == Legacy \subseteq Docs
ASSUME BoundsAssumption == MaxUsers \in Nat /\ MaxUpsets \in Nat

Db == "ledger.db"          \* what an App writes when it opens
Items == Docs \cup {Db}

(* A user's places on disk.  An image without its marker is "bare".        *)
Places == [plain : (SUBSET Items) \cup {NoValue},   \* the directory
           stage : (SUBSET Items) \cup {NoValue},   \* the directory moved aside
           image : {"none", "bare", "marked"},
           key   : Passwords \cup {NoValue},      \* the image's password
           inside : SUBSET Items,                 \* what the image holds
           attached : BOOLEAN]

UserRecords == [password : Passwords \cup {NoValue}, encrypted : BOOLEAN]
SessionRecords == [user : Ids, idle : BOOLEAN]

Effects == {"register", "password", "mark", "create", "attach", "marker", "stage",
            "copy", "unstage", "detach", "lock", "rekey", "unlock", "open", "reopen",
            "close", "session", "wipe", "removeImage", "removeDir", "unregister", "move", "serve", "exit"}
Cuts == {"encrypt", "rekey", "migrate", "delete", "open"}

VARIABLES
  file,      \* users.json: a user's record, NoValue when there is none
  places,    \* per user
  root,      \* documents of the single-user layout still at the root
  lanFile,   \* lan.json: is the network asked for?
  bound,     \* is the listener open to the network?
  begun,     \* has the file ever been written?
  up,        \* is the host running?
  apps,      \* users with an open App
  driven,    \* users whose standing run the open App drives
  standing,  \* users with a standing run
  sessions,
  op,        \* the operation under way: its user, passwords and effects left
  wrote,     \* what each user has put into the household
  cut,       \* operations of a user that were cut short
  excused,   \* users whose volume was busy, or whose session ran out
  upsets

disk == <<file, places, root, lanFile, begun>>
memory == <<apps, driven, sessions, bound>>
ghosts == <<wrote, cut, excused>>
vars == <<disk, up, memory, standing, op, ghosts, upsets>>

Registered == {u \in Ids : file[u] # NoValue}
Idle == op.todo = <<>>
NoOp == [user |-> Primary, password |-> NoValue, old |-> NoValue, kind |-> "open", todo |-> <<>>]

TypeOK ==
  /\ file \in [Ids -> UserRecords \cup {NoValue}]
  /\ places \in [Ids -> Places]
  /\ root \subseteq Docs
  /\ {up, lanFile, bound, begun} \subseteq BOOLEAN
  /\ apps \subseteq Ids /\ driven \subseteq apps /\ standing \subseteq Ids
  /\ sessions \in [Tokens -> SessionRecords \cup {NoValue}]
  /\ op.user \in Ids /\ op.password \in Passwords \cup {NoValue}
  /\ op.old \in Passwords \cup {NoValue} /\ op.kind \in Cuts /\ op.todo \in Seq(Effects)
  /\ wrote \in [Ids -> SUBSET Docs]
  /\ cut \subseteq Ids \X Cuts
  /\ excused \subseteq Ids
  /\ upsets \in 0 .. MaxUpsets

NoPlace == [plain |-> NoValue, stage |-> NoValue, image |-> "none", key |-> NoValue,
            inside |-> {}, attached |-> FALSE]

Init ==
  /\ file = [u \in Ids |-> NoValue]
  /\ places = [u \in Ids |-> NoPlace]
  /\ root = Legacy
  /\ lanFile = FALSE /\ bound = FALSE /\ begun = FALSE
  /\ up = FALSE
  /\ apps = {} /\ driven = {} /\ standing = {}
  /\ sessions = [t \in Tokens |-> NoValue]
  /\ op = NoOp
  /\ wrote = [u \in Ids |-> IF u = Primary THEN Legacy ELSE {}]
  /\ cut = {} /\ excused = {}
  /\ upsets = 0

-----------------------------------------------------------------------------
(* The store of a user.                                                    *)

storeExists(u) == places[u].image # "none"
isMounted(u) == places[u].attached /\ places[u].image = "marked"
Encrypted(u) == file[u].encrypted

(* What an App of u sees: the volume hides the directory it is mounted on. *)
Contents(p) == IF p.attached THEN p.inside ELSE p.plain
Seen(u) == Contents(places[u])

Entries(d) == IF d = NoValue THEN {} ELSE d

(* Written into whatever is at the directory's path.                       *)
Stored(p, items) ==
  IF p.attached THEN [p EXCEPT !.inside = @ \cup items]
                ELSE [p EXCEPT !.plain = Entries(@) \cup items]

(* Everything of u on disk.                                                *)
OnDisk(u) == Entries(places[u].plain) \cup Entries(places[u].stage) \cup places[u].inside

-----------------------------------------------------------------------------
(* The effects.  The first of op.todo is the next; Done drops it.          *)

Doing(e) == up /\ ~Idle /\ Head(op.todo) = e
Done == op' = [op EXCEPT !.todo = Tail(@)]
Goes(todo) == op' = [op EXCEPT !.todo = todo \o Tail(@)]
At(u, p) == places' = [places EXCEPT ![u] = p]

(* Mutant of Closed: the App is forgotten, what it drives is not.           *)
ClosedStillDriven(u) == apps' = apps \ {u} /\ UNCHANGED driven

(* A user's App is closed.  What it drives goes on, over a closed ledger.  *)
Closed(u) ==
  /\ apps' = apps \ {u}
  /\ driven' = driven \ {u}

writeUsersFile ==
  LET u == op.user IN
  /\ \/ /\ Doing("register")
        /\ file' = [file EXCEPT ![u] = [password |-> op.password, encrypted |-> FALSE]]
        /\ At(u, [places[u] EXCEPT !.plain = Entries(@)])
     \/ /\ Doing("password")
        /\ file' = [file EXCEPT ![u].password = op.password]
        /\ UNCHANGED places
     \/ /\ Doing("mark")
        /\ file' = [file EXCEPT ![u].encrypted = TRUE]
        /\ UNCHANGED places
     \/ /\ Doing("unregister")
        /\ file' = [file EXCEPT ![u] = NoValue]
        /\ UNCHANGED places
  /\ Done
  /\ begun' = TRUE
  /\ UNCHANGED <<root, lanFile, up, memory, standing, ghosts, upsets>>

(* createStore is create, attach and marker.                               *)
createStore ==
  LET u == op.user IN
  /\ \/ /\ Doing("create") /\ ~storeExists(u)
        /\ At(u, [places[u] EXCEPT !.image = "bare", !.key = op.password])
     \/ /\ Doing("marker")
        /\ At(u, [places[u] EXCEPT !.image = "marked"])
  /\ Done
  /\ UNCHANGED <<file, root, lanFile, begun, up, memory, standing, ghosts, upsets>>

(* The mount point is made first, and stays when the volume is detached.   *)
mountStore ==
  LET u == op.user IN
  /\ Doing("attach")
  /\ isMounted(u) \/ places[u].key = op.password
  /\ At(u, IF isMounted(u) THEN places[u]
           ELSE [places[u] EXCEPT !.attached = TRUE, !.plain = Entries(@)])
  /\ Done
  /\ UNCHANGED <<file, root, lanFile, begun, up, memory, standing, ghosts, upsets>>

(* detach throws when the volume stays busy (see Fail); lock swallows it.  *)
unmountStore ==
  LET u == op.user IN
  /\ Doing("detach") \/ Doing("lock")
  /\ At(u, IF isMounted(u) THEN [places[u] EXCEPT !.attached = FALSE] ELSE places[u])
  /\ Done
  /\ UNCHANGED <<file, root, lanFile, begun, up, memory, standing, ghosts, upsets>>

Busy ==
  /\ Doing("lock") /\ isMounted(op.user) /\ upsets < MaxUpsets
  /\ excused' = excused \cup {op.user}
  /\ upsets' = upsets + 1
  /\ Done
  /\ UNCHANGED <<disk, up, memory, standing, wrote, cut>>

changeStorePassword ==
  LET u == op.user IN
  /\ Doing("rekey")
  /\ places[u].key = op.old
  /\ At(u, [places[u] EXCEPT !.key = op.password])
  /\ Done
  /\ UNCHANGED <<file, root, lanFile, begun, up, memory, standing, ghosts, upsets>>

(* Mutant of encryptExisting: the staged directory goes before its copy.   *)
EncryptStageless ==
  LET u == op.user IN
  /\ \/ /\ Doing("stage") /\ At(u, [places[u] EXCEPT !.plain = NoValue])
     \/ /\ Doing("copy") /\ UNCHANGED places
     \/ /\ Doing("unstage") /\ At(u, [places[u] EXCEPT !.stage = NoValue])
  /\ Done
  /\ UNCHANGED <<file, root, lanFile, begun, up, memory, standing, ghosts, upsets>>

(* encryptExisting is stage, createStore, copy and unstage.                *)
encryptExisting ==
  LET u == op.user
      p == places[u]
  IN
  /\ \/ /\ Doing("stage")
        /\ At(u, IF p.plain # NoValue /\ p.stage = NoValue
                 THEN [p EXCEPT !.stage = p.plain, !.plain = NoValue] ELSE p)
        /\ Done
     \/ /\ Doing("copy")
        /\ IF Entries(p.stage) \subseteq Contents(p)
           THEN Done /\ UNCHANGED places
           ELSE \E i \in Entries(p.stage) \ Contents(p) :
                  At(u, Stored(p, {i})) /\ UNCHANGED op
     \/ /\ Doing("unstage")
        /\ At(u, [p EXCEPT !.stage = NoValue])
        /\ Done
  /\ UNCHANGED <<file, root, lanFile, begun, up, memory, standing, ghosts, upsets>>

-----------------------------------------------------------------------------
(* Apps, and the runs they drive.                                          *)

(* Closing the App stops none of its drives.                               *)
CloseApp ==
  /\ Doing("close")
  /\ Closed(op.user)
  /\ Done
  /\ UNCHANGED <<disk, up, standing, sessions, bound, ghosts, upsets>>

(* bootApp opens the App unless it is open already.                        *)
bootApp(u) ==
  /\ apps' = apps \cup {u}
  /\ At(u, IF u \in apps THEN places[u] ELSE Stored(places[u], {Db}))

(* Mutant of Resumes: an App that comes back is asked nothing.             *)
ResumesNothing(e) == {}

(* open is bootApp alone; unlock and a changed password also resume what   *)
(* is in flight.                                                           *)
Resumes(e) == IF e = "reopen" THEN {op.user} \cap standing ELSE {}

(* After a changed password the App comes back only where it can be.       *)
OpenApp ==
  \E e \in {"open", "reopen"} :
    /\ Doing(e)
    /\ bootApp(op.user)
    /\ driven' = driven \cup Resumes(e)
    /\ Done
    /\ UNCHANGED <<file, root, lanFile, begun, up, standing, sessions, bound, ghosts, upsets>>

(* Mutant of UnlockEffects: whoever has no store yet gets an empty one.     *)
UnlockFresh(u) ==
  (IF Encrypted(u) THEN IF isMounted(u) THEN <<>> ELSE <<"attach">>
   ELSE IF ~Volume THEN <<>>
   ELSE (IF storeExists(u) THEN <<"attach">> ELSE <<"create", "attach", "marker">>) \o <<"mark">>)
  \o <<"reopen">>

(* unlock: mount, or on the first sign-in with a password encrypt what is  *)
(* there, and open.                                                        *)
UnlockEffects(u) ==
  (IF Encrypted(u) THEN IF isMounted(u) THEN <<>> ELSE <<"attach">>
   ELSE IF ~Volume THEN <<>>
   ELSE (IF storeExists(u) THEN <<"attach">>
         ELSE IF Contents(places[u]) \notin {NoValue, {}}
              THEN <<"stage", "create", "attach", "marker", "copy", "unstage">>
              ELSE <<"create", "attach", "marker">>) \o <<"mark">>)
  \o <<"reopen">>

unlock ==
  /\ Doing("unlock")
  /\ Goes(UnlockEffects(op.user))
  /\ UNCHANGED <<disk, up, memory, standing, ghosts, upsets>>

-----------------------------------------------------------------------------
(* Requests.  The host runs one to its end before the next.                *)

Ready == up /\ Idle
SignedIn(t, u) == sessions[t] # NoValue /\ sessions[t].user = u
Known(t, u) == SignedIn(t, u) /\ ~sessions[t].idle /\ file[u] # NoValue
Begin(u, p, old, kind, todo) ==
  /\ Ready
  /\ op' = [user |-> u, password |-> p, old |-> old, kind |-> kind, todo |-> todo]
  /\ UNCHANGED <<disk, up, memory, standing, ghosts, upsets>>

FreeToken == \E t \in Tokens : sessions[t] = NoValue

(* POST /api/users: add, then login.                                       *)
add(u, p) ==
  /\ FreeToken
  /\ file[u] = NoValue /\ Cardinality(Registered) < MaxUsers
  /\ Begin(u, p, NoValue, "open",
           <<"register">> \o (IF Volume THEN <<"create", "attach", "marker", "mark">> ELSE <<>>)
                         \o <<"open", "unlock", "session">>)

(* POST /api/login.                                                        *)
login(u, p) ==
  /\ FreeToken
  /\ file[u] # NoValue /\ file[u].password = p
  /\ Begin(u, p, NoValue, IF Volume /\ ~Encrypted(u) THEN "encrypt" ELSE "open",
           <<"unlock", "session">>)

(* POST /api/set-password: the first password, then login.                 *)
setPassword(u, p) ==
  /\ FreeToken
  /\ file[u] # NoValue /\ file[u].password = NoValue
  /\ Begin(u, p, NoValue, "encrypt", <<"password", "close", "unlock", "unlock", "session">>)

(* Mutant of RekeyEffects: the volume keeps its key.                       *)
PasswordOnly(u) == <<"password">>

(* Mutant of RekeyEffects: the App is not told.                            *)
AppStaysOpen(u) ==
  (IF ~Encrypted(u) THEN <<>>
   ELSE IF isMounted(u) THEN <<"detach", "rekey", "attach">> ELSE <<"rekey">>)
  \o <<"password">> \o (IF Encrypted(u) /\ isMounted(u) THEN <<"reopen">> ELSE <<>>)

RekeyEffects(u) ==
  (IF ~Encrypted(u) THEN <<>>
   ELSE IF isMounted(u) THEN <<"close", "detach", "rekey", "attach">> ELSE <<"rekey">>)
  \o <<"password">> \o (IF Encrypted(u) /\ isMounted(u) THEN <<"reopen">> ELSE <<>>)

(* POST /api/me/password.                                                  *)
changePassword(t, old, p) ==
  \E u \in Registered :
    /\ Known(t, u) /\ p # old
    /\ Encrypted(u) => isMounted(u)
    /\ file[u].password = old
    /\ Begin(u, p, old, "rekey", RekeyEffects(u))

(* POST /api/delete-all-data: the user's own, and the host leaves.         *)
deleteUser(t) ==
  \E u \in Registered :
    /\ Known(t, u)
    /\ Encrypted(u) => isMounted(u)
    /\ Begin(u, NoValue, NoValue, "delete",
             <<"open", "wipe">> \o (IF Encrypted(u) THEN <<"lock", "removeImage">> ELSE <<>>)
             \o <<"removeDir", "unregister", "exit">>)

Session ==
  /\ Doing("session")
  /\ \E t \in Tokens : /\ sessions[t] = NoValue
                       /\ sessions' = [sessions EXCEPT ![t] = [user |-> op.user, idle |-> FALSE]]
  /\ Done
  /\ excused' = excused \ {op.user}
  /\ UNCHANGED <<disk, up, apps, driven, bound, standing, wrote, cut, upsets>>

(* Mutant of Remaining: anybody's other session keeps the store open.      *)
RemainingAny(t, u) == \E s \in Tokens \ {t} : sessions[s] # NoValue

Remaining(t, u) == \E s \in Tokens \ {t} : SignedIn(s, u)

(* POST /api/logout: the last session out locks the store.                 *)
logout(t) ==
  \E u \in Ids :
    /\ Ready /\ SignedIn(t, u)
    /\ sessions' = [sessions EXCEPT ![t] = NoValue]
    /\ op' = [NoOp EXCEPT !.user = u,
                         !.todo = IF ~Remaining(t, u) /\ file[u] # NoValue /\ Encrypted(u)
                                  THEN <<"close", "lock">> ELSE <<>>]
    /\ UNCHANGED <<disk, up, apps, driven, bound, standing, ghosts, upsets>>

(* Twenty-four hours without a request.                                    *)
GoesIdle(t) ==
  /\ Ready /\ sessions[t] # NoValue /\ ~sessions[t].idle
  /\ sessions' = [sessions EXCEPT ![t].idle = TRUE]
  /\ UNCHANGED <<disk, up, apps, driven, bound, standing, op, ghosts, upsets>>

(* sessionUser drops a session that ran out, and that is all it does.      *)
Expire(t) ==
  /\ Ready /\ sessions[t] # NoValue /\ sessions[t].idle
  /\ sessions' = [sessions EXCEPT ![t] = NoValue]
  /\ excused' = IF Remaining(t, sessions[t].user) THEN excused ELSE excused \cup {sessions[t].user}
  /\ UNCHANGED <<disk, up, apps, driven, bound, standing, op, wrote, cut, upsets>>

(* appFor refuses a locked user.                                           *)
appFor(u) == Encrypted(u) => isMounted(u)

(* Any other request: something is put into the household, or a standing   *)
(* run is started.                                                         *)
Request(t) ==
  \E u \in Registered :
    /\ Ready /\ Known(t, u) /\ appFor(u)
    /\ \/ \E d \in Docs \ wrote[u] :
            /\ wrote' = [wrote EXCEPT ![u] = @ \cup {d}]
            /\ At(u, Stored(places[u], {d, Db}))
            /\ UNCHANGED <<standing, driven>>
       \/ /\ u \notin standing
          /\ standing' = standing \cup {u}
          /\ driven' = driven \cup {u}
          /\ At(u, Stored(places[u], {Db}))
          /\ UNCHANGED wrote
    /\ apps' = apps \cup {u}
    /\ UNCHANGED <<file, root, lanFile, begun, up, sessions, bound, op, cut, excused, upsets>>

(* POST /api/lan, and the listener that is bound anew.                     *)
setLan(t, on) ==
  /\ Ready /\ \E u \in Registered : Known(t, u) /\ appFor(u)
  /\ on # bound
  /\ on => \A u \in Registered : file[u].password # NoValue
  /\ lanFile' = on /\ bound' = on
  /\ UNCHANGED <<file, places, root, begun, up, apps, driven, sessions, standing, op, ghosts, upsets>>

-----------------------------------------------------------------------------
(* deleteUser's own effects.                                               *)

(* The App's directory is emptied, its sessions end, its runs go on.  A    *)
(* directory a volume is mounted on refuses to go, which is swallowed: how *)
(* much of the volume rmSync has emptied by then is open, and the marker   *)
(* that says it is mounted may have gone with the rest.                    *)
Wipe ==
  LET u == op.user IN
  /\ Doing("wipe")
  /\ \E left \in SUBSET places[u].inside, image \in {"bare", places[u].image} :
       At(u, IF places[u].attached THEN [places[u] EXCEPT !.inside = left, !.image = image]
             ELSE [places[u] EXCEPT !.plain = NoValue])
  /\ Closed(u)
  /\ sessions' = [t \in Tokens |-> IF SignedIn(t, u) THEN NoValue ELSE sessions[t]]
  /\ standing' = standing \ {u}
  /\ wrote' = [wrote EXCEPT ![u] = {}]
  /\ Done
  /\ UNCHANGED <<file, root, lanFile, begun, up, bound, cut, excused, upsets>>

(* Mutant of Remove: the directory the volume was mounted on stays.        *)
RemoveImageOnly ==
  LET u == op.user IN
  /\ \/ /\ Doing("removeImage")
        /\ At(u, [places[u] EXCEPT !.image = "none", !.key = NoValue, !.inside = {}])
     \/ Doing("removeDir") /\ ~places[u].attached /\ UNCHANGED places
  /\ Done
  /\ UNCHANGED <<file, root, lanFile, begun, up, memory, standing, ghosts, upsets>>

(* The image goes even while its volume is attached.  The directory does   *)
(* not: then the request ends in an error, the user still in the file.     *)
Remove ==
  LET u == op.user IN
  /\ \/ /\ Doing("removeImage")
        /\ At(u, [places[u] EXCEPT !.image = "none", !.key = NoValue, !.inside = {}])
     \/ /\ Doing("removeDir") /\ ~places[u].attached
        /\ At(u, [places[u] EXCEPT !.plain = NoValue])
  /\ Done
  /\ UNCHANGED <<file, root, lanFile, begun, up, memory, standing, ghosts, upsets>>

-----------------------------------------------------------------------------
(* The host.                                                               *)

(* loadUsers: a single-user layout moves, entry by entry, to its user.     *)
loadUsers ==
  /\ ~up
  /\ up' = TRUE
  /\ begun' = (begun \/ root = {})
  /\ op' = [NoOp EXCEPT !.kind = IF begun \/ root = {} THEN "open" ELSE "migrate",
                       !.todo = IF begun \/ root = {} THEN <<"serve">>
                                ELSE <<"move", "register", "serve">>]
  /\ UNCHANGED <<file, places, root, lanFile, memory, standing, ghosts, upsets>>

Move ==
  /\ Doing("move")
  /\ IF root = {} THEN Done /\ UNCHANGED <<root, places>>
     ELSE \E d \in root :
            /\ root' = root \ {d}
            /\ At(Primary, [places[Primary] EXCEPT !.plain = Entries(@) \cup {d}])
            /\ UNCHANGED op
  /\ UNCHANGED <<file, lanFile, begun, up, memory, standing, ghosts, upsets>>

(* Users whose volumes the host found mounted and could not detach.        *)
Mounted == {u \in Registered : Encrypted(u) /\ isMounted(u)}
BusyNow == {b \in SUBSET Mounted : upsets + Cardinality(b) <= MaxUpsets}

(* Users whose App opens at the start: their data are not locked.          *)
Unlocked(busy) == {u \in Registered : Encrypted(u) => u \in busy}

(* Mutant of MayListen: what lan.json says, goes.                          *)
ListensAnyway(asked) == asked

MayListen(asked) == asked /\ \A u \in Registered : file[u].password # NoValue

(* Hygiene, resumeAll and the listener.  Asked for the network on the      *)
(* command line while somebody has no password, the host does not start.   *)
serve ==
  \E busy \in BusyNow, forced \in BOOLEAN :
    /\ Doing("serve")
    /\ forced /\ ~lanFile => MayListen(TRUE)
    /\ places' = [u \in Ids |->
          LET p == IF u \in Mounted \ busy THEN [places[u] EXCEPT !.attached = FALSE] ELSE places[u]
          IN  IF u \in Unlocked(busy) THEN Stored(p, {Db}) ELSE p]
    /\ apps' = Unlocked(busy)
    /\ driven' = standing \cap Unlocked(busy)
    /\ bound' = MayListen(forced \/ lanFile)
    /\ excused' = excused \cup busy
    /\ upsets' = upsets + Cardinality(busy)
    /\ Done
    /\ UNCHANGED <<file, root, lanFile, begun, up, sessions, standing, wrote, cut>>

Gone == /\ up' = FALSE /\ op' = NoOp
        /\ apps' = {} /\ driven' = {} /\ bound' = FALSE
        /\ sessions' = [t \in Tokens |-> NoValue]

(* A stop: closeAll detaches every volume that lets it.                    *)
closeAll ==
  \E busy \in BusyNow :
    /\ Ready
    /\ Gone
    /\ places' = [u \in Ids |-> IF u \in Mounted \ busy THEN [places[u] EXCEPT !.attached = FALSE]
                                ELSE places[u]]
    /\ upsets' = upsets + Cardinality(busy)
    /\ excused' = busy
    /\ UNCHANGED <<file, root, lanFile, begun, standing, wrote, cut>>

(* The exit after a factory reset detaches nothing.                        *)
Exit ==
  /\ Doing("exit")
  /\ Gone
  /\ UNCHANGED <<disk, standing, ghosts, upsets>>

CutShort == IF Idle THEN cut ELSE cut \cup {<<op.user, op.kind>>}

(* A death of the host, or of the machine: that detaches the volumes.      *)
Crash(reboot) ==
  /\ up /\ upsets < MaxUpsets
  /\ upsets' = upsets + 1
  /\ Gone
  /\ cut' = CutShort
  /\ places' = IF reboot THEN [u \in Ids |-> [places[u] EXCEPT !.attached = FALSE]] ELSE places
  /\ UNCHANGED <<file, root, lanFile, begun, standing, wrote, excused>>

(* A call of hdiutil fails, or rmSync meets the directory of an attached   *)
(* volume; the request answers with the error.                             *)
Fail ==
  /\ \/ /\ \E e \in {"create", "attach", "detach", "rekey"} : Doing(e)
        /\ upsets < MaxUpsets /\ upsets' = upsets + 1
     \/ /\ \/ Doing("removeDir") /\ places[op.user].attached
           \/ Doing("attach") /\ ~isMounted(op.user) /\ places[op.user].key # op.password
           \/ Doing("create") /\ storeExists(op.user)
           \/ Doing("rekey") /\ places[op.user].key # op.old
        /\ UNCHANGED upsets
  /\ op' = NoOp
  /\ cut' = CutShort
  /\ UNCHANGED <<disk, up, memory, standing, wrote, excused>>

Effect == \/ writeUsersFile \/ createStore \/ mountStore \/ unmountStore \/ Busy
          \/ changeStorePassword \/ encryptExisting \/ CloseApp \/ OpenApp \/ unlock
          \/ Session \/ Wipe \/ Remove \/ Move \/ serve \/ Exit

Next ==
  \/ Effect \/ Fail \/ loadUsers \/ closeAll
  \/ \E reboot \in BOOLEAN : Crash(reboot)
  \/ \E u \in Ids, p \in Passwords : add(u, p) \/ login(u, p) \/ setPassword(u, p)
  \/ \E t \in Tokens : \/ logout(t) \/ GoesIdle(t) \/ Expire(t) \/ Request(t) \/ deleteUser(t)
                        \/ \E on \in BOOLEAN : setLan(t, on)
                        \/ \E old, p \in Passwords : changePassword(t, old, p)

Spec == Init /\ [][Next]_vars

-----------------------------------------------------------------------------
(* Properties.                                                             *)

(* What a user has put into the household is on disk until the user is     *)
(* deleted, through migration, encryption, changed passwords and deaths.   *)
NothingLost == \A u \in Ids : wrote[u] \subseteq OnDisk(u) \cup (IF u = Primary THEN root ELSE {})

(* An App that serves requests sees all its user has put there, unless     *)
(* their first encryption or the migration was cut short.                  *)
SeesAll ==
  \A u \in apps : Ready /\ cut \cap {<<u, "encrypt">>, <<u, "migrate">>} = {} => wrote[u] \subseteq Seen(u)

(* A volume, whether marked or not, is attached only while its user is     *)
(* signed in, unless it was busy or the last session ran out (users.ts,    *)
(* logout).  One more way leads to an open volume with nobody in: its      *)
(* making or its removal was cut short, so that its marker or the user     *)
(* file does not know of it: then neither a sign-out nor a stop nor the    *)
(* next start locks it (crypt.ts:70-71, 84; users.ts:307-313).             *)
HalfMade(u) == u \notin Mounted /\ \E kind \in {"open", "encrypt", "delete"} : <<u, kind>> \in cut
LockedWhenOut ==
  \A u \in Ids \ excused :
    Ready /\ places[u].attached => HalfMade(u) \/ \E t \in Tokens : SignedIn(t, u)

(* Between requests an encrypted user's App is open only over the mounted  *)
(* volume.  (What a closed App's runs go on writing is told in Serve.)     *)
OpenIsMounted == \A u \in apps \cap Registered : Ready /\ Encrypted(u) => places[u].attached

(* The password of the user file opens the volume, unless a change of it   *)
(* was cut short.                                                          *)
KeysMatch ==
  \A u \in Registered :
    Idle /\ storeExists(u) /\ <<u, "rekey">> \notin cut => places[u].key = file[u].password

(* A standing run is driven by the App that serves its user, unless a      *)
(* change of the password was cut short.                                   *)
StandingDriven ==
  \A u \in apps \cap standing : Ready /\ <<u, "rekey">> \notin cut => u \in driven

(* Of a user who is gone nothing is left on disk, unless their first       *)
(* encryption or the migration was cut short.                              *)
Wiped ==
  \A u \in Ids \ Registered :
    Ready /\ begun /\ cut \cap {<<u, "encrypt">>, <<u, "migrate">>} = {}
      => OnDisk(u) = {} /\ ~storeExists(u)

(* The host faces the network only while every user has a password.        *)
LanNeedsPasswords == bound => \A u \in Registered : file[u].password # NoValue

(* A user's data is whole, readable with the user's password, and gone     *)
(* with the user.                                                          *)
StoresWhole == TypeOK /\ NothingLost /\ SeesAll /\ KeysMatch /\ Wiped

(* A user's data is open only where somebody with the password opened it.  *)
OpenedByOwner == LockedWhenOut /\ OpenIsMounted /\ LanNeedsPasswords
=============================================================================
