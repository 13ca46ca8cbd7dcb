----------------------------- MODULE Users_proofs -----------------------------
(***************************************************************************)
(* Proofs about the people of one host and their data at rest.  Every      *)
(* operation is a list of effects that may end anywhere, so the invariant  *)
(* says what each of its remainders may rely on, and what holds of a user  *)
(* whichever remainder is cut.                                             *)
(***************************************************************************)
EXTENDS Users, FiniteSetTheorems, TLAPS

-----------------------------------------------------------------------------
(* What is left of an operation.                                           *)

Begins(x, e) == x # <<>> /\ Head(x) = e
Ends(x, e) == Begins(x, e) /\ Tail(x) = <<>>

SessionPlan(x) == Ends(x, "session")
UnlockPlan(x) == Begins(x, "unlock") /\ SessionPlan(Tail(x))
TwicePlan(x) == Begins(x, "unlock") /\ UnlockPlan(Tail(x))
ReopenPlan(x) == Begins(x, "reopen") /\ (SessionPlan(Tail(x)) \/ UnlockPlan(Tail(x)))

(* unlock: the volume that is there, a first one, or one for what is there *)
AttachOpen(x) == Begins(x, "attach") /\ ReopenPlan(Tail(x))
MarkPlan(x) == Begins(x, "mark") /\ ReopenPlan(Tail(x))
AttachMark(x) == Begins(x, "attach") /\ MarkPlan(Tail(x))
MarkerFirst(x) == Begins(x, "marker") /\ MarkPlan(Tail(x))
AttachFirst(x) == Begins(x, "attach") /\ MarkerFirst(Tail(x))
CreateFirst(x) == Begins(x, "create") /\ AttachFirst(Tail(x))
UnstagePlan(x) == Begins(x, "unstage") /\ MarkPlan(Tail(x))
CopyPlan(x) == Begins(x, "copy") /\ UnstagePlan(Tail(x))
MarkerCopy(x) == Begins(x, "marker") /\ CopyPlan(Tail(x))
AttachCopy(x) == Begins(x, "attach") /\ MarkerCopy(Tail(x))
CreateCopy(x) == Begins(x, "create") /\ AttachCopy(Tail(x))
StagePlan(x) == Begins(x, "stage") /\ CreateCopy(Tail(x))

(* add                                                                     *)
OpenNew(x) == Begins(x, "open") /\ UnlockPlan(Tail(x))
MarkNew(x) == Begins(x, "mark") /\ OpenNew(Tail(x))
MarkerNew(x) == Begins(x, "marker") /\ MarkNew(Tail(x))
AttachNew(x) == Begins(x, "attach") /\ MarkerNew(Tail(x))
CreateNew(x) == Begins(x, "create") /\ AttachNew(Tail(x))
RegisterNew(x) == Begins(x, "register") /\ (IF Volume THEN CreateNew(Tail(x)) ELSE OpenNew(Tail(x)))

(* set-password                                                            *)
CloseFirst(x) == Begins(x, "close") /\ TwicePlan(Tail(x))
PasswordFirst(x) == Begins(x, "password") /\ CloseFirst(Tail(x))

(* a changed password                                                      *)
ReopenLast(x) == Ends(x, "reopen")
PasswordOpen(x) == Begins(x, "password") /\ ReopenLast(Tail(x))
PasswordAlone(x) == Ends(x, "password")
AttachAgain(x) == Begins(x, "attach") /\ PasswordOpen(Tail(x))
RekeyPlan(x) == Begins(x, "rekey") /\ AttachAgain(Tail(x))
DetachPlan(x) == Begins(x, "detach") /\ RekeyPlan(Tail(x))
CloseRekey(x) == Begins(x, "close") /\ DetachPlan(Tail(x))

(* delete-all-data                                                         *)
ExitPlan(x) == Ends(x, "exit")
UnregisterPlan(x) == Begins(x, "unregister") /\ ExitPlan(Tail(x))
RemoveDirPlan(x) == Begins(x, "removeDir") /\ UnregisterPlan(Tail(x))
RemoveImagePlan(x) == Begins(x, "removeImage") /\ RemoveDirPlan(Tail(x))
LockImage(x) == Begins(x, "lock") /\ RemoveImagePlan(Tail(x))
WipePlan(x) == Begins(x, "wipe") /\ (LockImage(Tail(x)) \/ (~Volume /\ RemoveDirPlan(Tail(x))))
OpenWipe(x) == Begins(x, "open") /\ WipePlan(Tail(x))

(* logout, and the start of the host                                       *)
LockLast(x) == Ends(x, "lock")
CloseLast(x) == Begins(x, "close") /\ LockLast(Tail(x))
ServePlan(x) == Ends(x, "serve")
RegisterPrimary(x) == Begins(x, "register") /\ ServePlan(Tail(x))
MovePlan(x) == Begins(x, "move") /\ RegisterPrimary(Tail(x))

-----------------------------------------------------------------------------
(* What is known while it is left.                                         *)

NoCut(u) == <<u, "encrypt">> \notin cut /\ <<u, "migrate">> \notin cut
NoRekey(u) == <<u, "rekey">> \notin cut
Acting(u) == ~Idle /\ op.user = u
Out(u) == \A t \in Tokens : ~SignedIn(t, u)
In(u) == \E t \in Tokens : SignedIn(t, u)

(* The operation's password is that of the user file.                      *)
Signing(u) ==
  /\ file[u] # NoValue /\ file[u].password = op.password /\ op.password \in Passwords
  /\ op.kind \in {"open", "encrypt"}

Nothing(u) == NoCut(u) => wrote[u] = {}

(* The volume is attached, and its image is there.                         *)
OnVolume(u) == places[u].attached /\ storeExists(u)

Adding(u, x) ==
  \/ /\ RegisterNew(x)
     /\ op.kind = "open" /\ op.password \in Passwords /\ file[u] = NoValue
  \/ /\ CreateNew(x) \/ AttachNew(x) \/ ((MarkerNew(x) \/ MarkNew(x)) /\ places[u].attached)
     /\ Volume /\ Signing(u) /\ ~Encrypted(u) /\ u \notin standing /\ Nothing(u)
  \/ /\ OpenNew(x)
     /\ Signing(u) /\ u \notin standing /\ (Encrypted(u) => OnVolume(u)) /\ (Volume => Encrypted(u))

Unlocking(u, x) ==
  \/ /\ UnlockPlan(x) \/ TwicePlan(x)
     /\ Signing(u) /\ (op.kind = "open" /\ Volume => Encrypted(u))
  \/ AttachOpen(x) /\ Signing(u) /\ Encrypted(u) /\ ~isMounted(u)
  \/ ReopenPlan(x) /\ Signing(u) /\ (Encrypted(u) => OnVolume(u)) /\ (Volume => Encrypted(u))
  \/ SessionPlan(x) /\ Signing(u) /\ u \in apps /\ (Volume => Encrypted(u))

(* The first encryption.                                                   *)
Encrypting(u, x) ==
  /\ Volume /\ Signing(u) /\ op.kind = "encrypt" /\ ~Encrypted(u)
  /\ \/ AttachMark(x) /\ Nothing(u)
     \/ CreateFirst(x) /\ Nothing(u)
     \/ AttachFirst(x) /\ Nothing(u)
     \/ MarkerFirst(x) /\ Nothing(u) /\ places[u].attached
     \/ StagePlan(x) /\ ~storeExists(u)
     \/ /\ CreateCopy(x) \/ AttachCopy(x) \/ ((MarkerCopy(x) \/ CopyPlan(x)) /\ places[u].attached)
        /\ NoCut(u) => wrote[u] \subseteq Entries(places[u].stage)
     \/ /\ UnstagePlan(x) /\ places[u].attached
        /\ Entries(places[u].stage) \subseteq places[u].inside
        /\ NoCut(u) => wrote[u] \subseteq places[u].inside
     \/ /\ MarkPlan(x) /\ places[u].attached
        /\ NoCut(u) => wrote[u] \subseteq places[u].inside /\ places[u].stage = NoValue

FirstPassword(u, x) ==
  /\ op.kind = "encrypt" /\ op.password \in Passwords /\ file[u] # NoValue /\ Out(u)
  /\ \/ PasswordFirst(x) /\ file[u].password = NoValue
     \/ CloseFirst(x) /\ file[u].password = op.password

Rekeying(u, x) ==
  /\ op.kind = "rekey" /\ op.password \in Passwords /\ file[u] # NoValue /\ In(u)
  /\ \/ CloseRekey(x) /\ file[u].password = op.old
     \/ (DetachPlan(x) \/ RekeyPlan(x)) /\ file[u].password = op.old /\ u \notin apps
     \/ AttachAgain(x) /\ places[u].key = op.password /\ u \notin apps
     \/ PasswordOpen(x) /\ places[u].key = op.password /\ u \notin apps /\ places[u].attached
     \/ PasswordAlone(x) /\ ~storeExists(u)
     \/ ReopenLast(x) /\ OnVolume(u)

Deleting(u, x) ==
  /\ op.kind = "delete"
  /\ \/ OpenWipe(x) /\ file[u] # NoValue /\ (Encrypted(u) => OnVolume(u)) /\ (Volume => Encrypted(u))
     \/ /\ WipePlan(x) /\ file[u] # NoValue /\ (Volume => Encrypted(u))
        /\ places[u].attached => storeExists(u)
     \/ /\ LockImage(x) \/ RemoveImagePlan(x) \/ ((RemoveDirPlan(x) \/ UnregisterPlan(x)) /\ ~storeExists(u))
        /\ file[u] # NoValue /\ wrote[u] = {} /\ u \notin apps /\ u \notin standing /\ Out(u)
        /\ Volume => Encrypted(u)
        /\ UnregisterPlan(x) => ~places[u].attached
        /\ UnregisterPlan(x) /\ NoCut(u) => OnDisk(u) = {}
     \/ ExitPlan(x) /\ file[u] = NoValue

LoggingOut(u, x) ==
  /\ op.kind = "open" /\ file[u] # NoValue /\ Out(u)
  /\ CloseLast(x) \/ (LockLast(x) /\ u \notin apps)

(* The host does not serve yet.                                            *)
Quiet == apps = {} /\ driven = {} /\ ~bound /\ \A t \in Tokens : sessions[t] = NoValue

Starting(u, x) ==
  /\ u = Primary /\ Quiet
  /\ \/ ServePlan(x) /\ op.kind \in {"open", "migrate"} /\ begun
     \/ RegisterPrimary(x) /\ op.kind = "migrate" /\ op.password = NoValue /\ ~begun /\ root = {}
     \/ MovePlan(x) /\ op.kind = "migrate" /\ op.password = NoValue /\ ~begun

Underway(u, x) ==
  \/ Adding(u, x) \/ Unlocking(u, x) \/ Encrypting(u, x) \/ FirstPassword(u, x)
  \/ Rekeying(u, x) \/ Deleting(u, x) \/ LoggingOut(u, x)

Planned ==
  op.todo # <<>> => up /\ ((begun /\ Underway(op.user, op.todo)) \/ Starting(op.user, op.todo))

-----------------------------------------------------------------------------
(* The inductive invariant: of the host, and of each user.                 *)

OpRecords == [user : Ids, password : Passwords \cup {NoValue}, old : Passwords \cup {NoValue},
              kind : Cuts, todo : Seq(Effects)]

Typed == TypeOK /\ op \in OpRecords

Down == ~up => op = NoOp /\ Quiet

(* Before the user file is written nobody is known.                        *)
Begun ==
  /\ up /\ Idle => begun
  /\ begun => root = {}
  /\ ~begun =>
       /\ \A u \in Ids : file[u] = NoValue /\ places[u].stage = NoValue
       /\ \A u \in Ids \ {Primary} : places[u].plain = NoValue
       /\ Idle /\ NoCut(Primary) => places[Primary].plain = NoValue

Imageless(u) ==
  /\ ~storeExists(u) => /\ places[u].inside = {} /\ places[u].key = NoValue
                        /\ places[u].attached => file[u] # NoValue /\ Encrypted(u)
  /\ storeExists(u) => Volume

Unknown(u) ==
  file[u] = NoValue =>
    /\ ~storeExists(u) /\ u \notin apps /\ u \notin standing
    /\ NoCut(u) => places[u].stage = NoValue
    /\ begun /\ NoCut(u) => OnDisk(u) = {}

Passworded(u) ==
  file[u] # NoValue =>
    /\ Encrypted(u) => Volume
    /\ file[u].password = NoValue => ~storeExists(u) /\ ~Encrypted(u) /\ ~bound

(* The image's key is the user's password, but while it is changed.        *)
Changing(x) == AttachAgain(x) \/ PasswordOpen(x)
Keyed(u) ==
  file[u] # NoValue /\ storeExists(u) /\ NoRekey(u) =>
    \/ Acting(u) /\ Changing(op.todo)
    \/ places[u].key = file[u].password

OnTheDisk(u) == wrote[u] \subseteq OnDisk(u) \cup (IF u = Primary THEN root ELSE {})

(* All is where the user's App will look, but while it is moved there.     *)
Moving(x) ==
  CreateCopy(x) \/ AttachCopy(x) \/ MarkerCopy(x) \/ CopyPlan(x) \/ UnstagePlan(x) \/ MarkPlan(x)
InPlace(u) ==
  file[u] # NoValue /\ NoCut(u) =>
    \/ Acting(u) /\ Moving(op.todo)
    \/ /\ places[u].stage = NoValue
       /\ Encrypted(u) => wrote[u] \subseteq places[u].inside
       /\ ~Encrypted(u) => wrote[u] \subseteq Entries(places[u].plain) /\ (storeExists(u) => wrote[u] = {})

OverVolume(u) == u \in apps /\ file[u] # NoValue /\ Encrypted(u) => places[u].attached

(* Who is mounted is signed in, being signed in or out, or excused.        *)
MayFail == {"create", "attach", "detach", "rekey"}
Attended(u) ==
  up /\ file[u] # NoValue /\ Encrypted(u) /\ isMounted(u) /\ u \notin excused =>
    \/ In(u)
    \/ Acting(u) /\ Head(op.todo) \notin MayFail
    \/ ServePlan(op.todo)

Away(x) == DetachPlan(x) \/ RekeyPlan(x) \/ AttachAgain(x) \/ PasswordOpen(x) \/ ReopenLast(x)
Served(u) ==
  In(u) =>
    /\ file[u] # NoValue /\ file[u].password # NoValue /\ (Volume => Encrypted(u))
    /\ NoRekey(u) => u \in apps \/ (Acting(u) /\ Away(op.todo))

DrivenOf(u) ==
  u \in apps /\ u \in standing /\ NoRekey(u) => u \in driven \/ (Acting(u) /\ WipePlan(op.todo))

OfUser(u) ==
  /\ Imageless(u) /\ Unknown(u) /\ Passworded(u) /\ Keyed(u) /\ OnTheDisk(u) /\ InPlace(u)
  /\ OverVolume(u) /\ Attended(u) /\ Served(u) /\ DrivenOf(u)

UsersInv == Typed /\ Planned /\ Down /\ Begun /\ \A u \in Ids : OfUser(u)

-----------------------------------------------------------------------------
(* Proofs: values, records and frames.                                     *)

(* No value is no password, no record and no directory.                    *)
LEMMA NoValues ==
  /\ NoValue \notin Passwords
  /\ \A r \in UserRecords : r # NoValue
  /\ \A r \in SessionRecords : r # NoValue
  /\ \A d \in SUBSET Items : d # NoValue
  BY ValuesAssumption DEF UserRecords, SessionRecords, Items, Db

(* The entries of a directory, or of none.                                 *)
LEMMA EntriesOf ==
  ASSUME NEW d \in (SUBSET Items) \cup {NoValue}
  PROVE  Entries(d) \in SUBSET Items /\ (d # NoValue => Entries(d) = d) /\ (d = NoValue => Entries(d) = {})
         /\ Entries(d) # NoValue /\ Entries(Entries(d)) = Entries(d)
  <1>1. CASE d = NoValue
    BY <1>1, NoValues DEF Entries
  <1>2. CASE d # NoValue
    <2>1. Entries(d) = d
      BY <1>2 DEF Entries
    <2>2. Entries(Entries(d)) = Entries(d)
      BY <2>1
    <2>3. d \in SUBSET Items
      BY <1>2
    <2> QED
      BY <1>2, <2>1, <2>2, <2>3
  <1> QED
    BY <1>1, <1>2

(* A place's fields, and a place with one of them changed.                 *)
LEMMA PlaceFields ==
  ASSUME NEW p \in Places
  PROVE  /\ p.plain \in (SUBSET Items) \cup {NoValue} /\ p.stage \in (SUBSET Items) \cup {NoValue}
         /\ p.image \in {"none", "bare", "marked"} /\ p.key \in Passwords \cup {NoValue}
         /\ p.inside \in SUBSET Items /\ p.attached \in BOOLEAN
  <1>1. p.plain \in (SUBSET Items) \cup {NoValue}
    BY DEF Places
  <1>2. p.stage \in (SUBSET Items) \cup {NoValue}
    BY DEF Places
  <1>3. p.image \in {"none", "bare", "marked"} /\ p.key \in Passwords \cup {NoValue}
    BY DEF Places
  <1>4. p.inside \in SUBSET Items /\ p.attached \in BOOLEAN
    BY DEF Places
  <1> QED
    BY <1>1, <1>2, <1>3, <1>4

(* A place with one field changed: the directory, ...                      *)
LEMMA PlainSet ==
  ASSUME NEW p \in Places, NEW d \in (SUBSET Items) \cup {NoValue}
  PROVE  LET q == [p EXCEPT !.plain = d] IN
         /\ q \in Places /\ q.plain = d /\ q.stage = p.stage /\ q.image = p.image /\ q.key = p.key
         /\ q.inside = p.inside /\ q.attached = p.attached
  BY DEF Places

(* ... the directory moved aside, ...                                      *)
LEMMA StageSet ==
  ASSUME NEW p \in Places, NEW d \in (SUBSET Items) \cup {NoValue}
  PROVE  LET q == [p EXCEPT !.stage = d] IN
         /\ q \in Places /\ q.plain = p.plain /\ q.stage = d /\ q.image = p.image /\ q.key = p.key
         /\ q.inside = p.inside /\ q.attached = p.attached
  BY DEF Places

(* ... the image, ...                                                      *)
LEMMA ImageSet ==
  ASSUME NEW p \in Places, NEW d \in {"none", "bare", "marked"}
  PROVE  LET q == [p EXCEPT !.image = d] IN
         /\ q \in Places /\ q.plain = p.plain /\ q.stage = p.stage /\ q.image = d /\ q.key = p.key
         /\ q.inside = p.inside /\ q.attached = p.attached
  BY DEF Places

(* ... its password, ...                                                   *)
LEMMA KeySet ==
  ASSUME NEW p \in Places, NEW d \in Passwords \cup {NoValue}
  PROVE  LET q == [p EXCEPT !.key = d] IN
         /\ q \in Places /\ q.plain = p.plain /\ q.stage = p.stage /\ q.image = p.image /\ q.key = d
         /\ q.inside = p.inside /\ q.attached = p.attached
  BY DEF Places

(* ... what it holds, ...                                                  *)
LEMMA InsideSet ==
  ASSUME NEW p \in Places, NEW d \in SUBSET Items
  PROVE  LET q == [p EXCEPT !.inside = d] IN
         /\ q \in Places /\ q.plain = p.plain /\ q.stage = p.stage /\ q.image = p.image /\ q.key = p.key
         /\ q.inside = d /\ q.attached = p.attached
  BY DEF Places

(* ... and whether it is attached.                                         *)
LEMMA AttachedSet ==
  ASSUME NEW p \in Places, NEW d \in BOOLEAN
  PROVE  LET q == [p EXCEPT !.attached = d] IN
         /\ q \in Places /\ q.plain = p.plain /\ q.stage = p.stage /\ q.image = p.image /\ q.key = p.key
         /\ q.inside = p.inside /\ q.attached = d
  BY DEF Places

(* What is written into a place.                                           *)
LEMMA StoredIs ==
  ASSUME NEW p \in Places, NEW items \in SUBSET Items
  PROVE  LET q == Stored(p, items) IN
         /\ q \in Places /\ q.stage = p.stage /\ q.image = p.image /\ q.key = p.key /\ q.attached = p.attached
         /\ q.inside = IF p.attached THEN p.inside \cup items ELSE p.inside
         /\ q.plain = IF p.attached THEN p.plain ELSE Entries(p.plain) \cup items
         /\ Entries(p.plain) \subseteq Entries(q.plain)
  <1>1. /\ Entries(p.plain) \in SUBSET Items /\ p.inside \in SUBSET Items /\ p.attached \in BOOLEAN
        /\ p.plain \in (SUBSET Items) \cup {NoValue}
    BY PlaceFields, EntriesOf
  <1>2. Entries(p.plain) \cup items \in SUBSET Items /\ p.inside \cup items \in SUBSET Items
    BY <1>1
  <1>3. CASE p.attached
    BY <1>1, <1>2, <1>3, InsideSet DEF Stored
  <1>4. CASE ~p.attached
    <2>1. Stored(p, items) = [p EXCEPT !.plain = Entries(p.plain) \cup items]
      BY <1>4 DEF Stored
    <2>2. Entries(Entries(p.plain) \cup items) = Entries(p.plain) \cup items
      BY <1>2, NoValues, EntriesOf
    <2> QED
      BY <1>2, <1>4, <2>1, <2>2, PlainSet
  <1> QED
    BY <1>3, <1>4

(* One user's place changes.                                               *)
LEMMA PlaceAt ==
  ASSUME Typed, NEW u \in Ids, NEW q \in Places, At(u, q)
  PROVE  /\ places' \in [Ids -> Places] /\ places'[u] = q
         /\ \A w \in Ids : w # u => places'[w] = places[w]
  BY DEF Typed, TypeOK, At

(* The operation under way, one effect on.                                 *)
LEMMA DoneOp ==
  ASSUME Typed, op.todo # <<>>, Done
  PROVE  /\ op' \in OpRecords /\ op'.todo = Tail(op.todo) /\ op'.user = op.user
         /\ op'.password = op.password /\ op'.old = op.old /\ op'.kind = op.kind
  <1>1. op \in OpRecords /\ op.todo \in Seq(Effects)
    BY DEF Typed, OpRecords
  <1>2. Tail(op.todo) \in Seq(Effects)
    BY <1>1
  <1> QED
    BY <1>1, <1>2 DEF Done, OpRecords

(* The fields of the operation under way.                                  *)
LEMMA OpFields ==
  ASSUME Typed
  PROVE  /\ op \in OpRecords /\ op.user \in Ids /\ op.password \in Passwords \cup {NoValue}
         /\ op.old \in Passwords \cup {NoValue} /\ op.kind \in Cuts /\ op.todo \in Seq(Effects)
  BY DEF Typed, OpRecords

(* No operation is one that has nothing left.                              *)
LEMMA NoOpIs ==
  /\ NoOp \in OpRecords /\ NoOp.todo = <<>> /\ NoOp.user = Primary /\ NoOp.kind = "open"
  /\ NoOp.password = NoValue
  BY PrimaryAssumption DEF NoOp, OpRecords, Cuts

(* The types, variable by variable.                                        *)
LEMMA TypedIs ==
  ASSUME file \in [Ids -> UserRecords \cup {NoValue}], places \in [Ids -> Places], root \subseteq Docs,
         up \in BOOLEAN, lanFile \in BOOLEAN, bound \in BOOLEAN, begun \in BOOLEAN,
         apps \subseteq Ids, driven \subseteq apps, standing \subseteq Ids,
         sessions \in [Tokens -> SessionRecords \cup {NoValue}], op \in OpRecords,
         wrote \in [Ids -> SUBSET Docs], cut \subseteq Ids \X Cuts, excused \subseteq Ids,
         upsets \in 0 .. MaxUpsets
  PROVE  Typed
  BY DEF Typed, TypeOK, OpRecords

(* Nothing of w has changed, and no operation is about w.                  *)
Untouched(w) ==
  /\ file'[w] = file[w] /\ places'[w] = places[w] /\ wrote'[w] = wrote[w]
  /\ w \in apps' <=> w \in apps
  /\ w \in driven => w \in driven'
  /\ w \in standing' <=> w \in standing
  /\ w \in excused => w \in excused'
  /\ \A t \in Tokens : SignedIn(t, w)' <=> SignedIn(t, w)
  /\ cut \subseteq cut'
  /\ up' => up
  /\ begun' => begun
  /\ bound' => bound
  /\ w = Primary => root' = root

(* What holds of a user holds on while nothing of the user changes.        *)
LEMMA UntouchedKept ==
  ASSUME NEW w \in Ids, OfUser(w), Untouched(w), ~Acting(w), ~ServePlan(op.todo)
  PROVE  OfUser(w)'
  <1> USE DEF Untouched
  <1>1. /\ storeExists(w)' = storeExists(w) /\ isMounted(w)' = isMounted(w) /\ Encrypted(w)' = Encrypted(w)
        /\ OnDisk(w)' = OnDisk(w)
        /\ NoCut(w)' => NoCut(w)
        /\ NoRekey(w)' => NoRekey(w)
        /\ In(w)' <=> In(w)
    BY DEF storeExists, isMounted, Encrypted, OnDisk, NoCut, NoRekey, In
  <1>2. Imageless(w)' /\ Unknown(w)' /\ Passworded(w)'
    BY <1>1 DEF OfUser, Imageless, Unknown, Passworded
  <1>3. Keyed(w)' /\ OnTheDisk(w)' /\ InPlace(w)'
    BY <1>1 DEF OfUser, Keyed, OnTheDisk, InPlace
  <1>4. OverVolume(w)' /\ Attended(w)'
    BY <1>1 DEF OfUser, OverVolume, Attended
  <1>5. Served(w)' /\ DrivenOf(w)'
    BY <1>1 DEF OfUser, Served, DrivenOf
  <1> QED
    BY <1>2, <1>3, <1>4, <1>5 DEF OfUser

-----------------------------------------------------------------------------
(* Proofs: plans, and the steps of an operation.                           *)

(* The first effect tells the plans apart.                                 *)
LEMMA Heads ==
  ASSUME NEW x
  PROVE  /\ SessionPlan(x) => x # <<>> /\ Head(x) = "session"
         /\ UnlockPlan(x) => x # <<>> /\ Head(x) = "unlock"
         /\ TwicePlan(x) => x # <<>> /\ Head(x) = "unlock"
         /\ ReopenPlan(x) => x # <<>> /\ Head(x) = "reopen"
         /\ AttachOpen(x) => x # <<>> /\ Head(x) = "attach"
         /\ MarkPlan(x) => x # <<>> /\ Head(x) = "mark"
         /\ AttachMark(x) => x # <<>> /\ Head(x) = "attach"
         /\ MarkerFirst(x) => x # <<>> /\ Head(x) = "marker"
         /\ AttachFirst(x) => x # <<>> /\ Head(x) = "attach"
         /\ CreateFirst(x) => x # <<>> /\ Head(x) = "create"
         /\ UnstagePlan(x) => x # <<>> /\ Head(x) = "unstage"
         /\ CopyPlan(x) => x # <<>> /\ Head(x) = "copy"
         /\ MarkerCopy(x) => x # <<>> /\ Head(x) = "marker"
         /\ AttachCopy(x) => x # <<>> /\ Head(x) = "attach"
         /\ CreateCopy(x) => x # <<>> /\ Head(x) = "create"
         /\ StagePlan(x) => x # <<>> /\ Head(x) = "stage"
         /\ OpenNew(x) => x # <<>> /\ Head(x) = "open"
         /\ MarkNew(x) => x # <<>> /\ Head(x) = "mark"
         /\ MarkerNew(x) => x # <<>> /\ Head(x) = "marker"
         /\ AttachNew(x) => x # <<>> /\ Head(x) = "attach"
         /\ CreateNew(x) => x # <<>> /\ Head(x) = "create"
         /\ RegisterNew(x) => x # <<>> /\ Head(x) = "register"
         /\ CloseFirst(x) => x # <<>> /\ Head(x) = "close"
         /\ PasswordFirst(x) => x # <<>> /\ Head(x) = "password"
         /\ ReopenLast(x) => x # <<>> /\ Head(x) = "reopen"
         /\ PasswordOpen(x) => x # <<>> /\ Head(x) = "password"
         /\ PasswordAlone(x) => x # <<>> /\ Head(x) = "password"
         /\ AttachAgain(x) => x # <<>> /\ Head(x) = "attach"
         /\ RekeyPlan(x) => x # <<>> /\ Head(x) = "rekey"
         /\ DetachPlan(x) => x # <<>> /\ Head(x) = "detach"
         /\ CloseRekey(x) => x # <<>> /\ Head(x) = "close"
         /\ ExitPlan(x) => x # <<>> /\ Head(x) = "exit"
         /\ UnregisterPlan(x) => x # <<>> /\ Head(x) = "unregister"
         /\ RemoveDirPlan(x) => x # <<>> /\ Head(x) = "removeDir"
         /\ RemoveImagePlan(x) => x # <<>> /\ Head(x) = "removeImage"
         /\ LockImage(x) => x # <<>> /\ Head(x) = "lock"
         /\ WipePlan(x) => x # <<>> /\ Head(x) = "wipe"
         /\ OpenWipe(x) => x # <<>> /\ Head(x) = "open"
         /\ LockLast(x) => x # <<>> /\ Head(x) = "lock"
         /\ CloseLast(x) => x # <<>> /\ Head(x) = "close"
         /\ ServePlan(x) => x # <<>> /\ Head(x) = "serve"
         /\ RegisterPrimary(x) => x # <<>> /\ Head(x) = "register"
         /\ MovePlan(x) => x # <<>> /\ Head(x) = "move"
  <1>1. /\ SessionPlan(x) => x # <<>> /\ Head(x) = "session"
        /\ UnlockPlan(x) => x # <<>> /\ Head(x) = "unlock"
        /\ TwicePlan(x) => x # <<>> /\ Head(x) = "unlock"
        /\ ReopenPlan(x) => x # <<>> /\ Head(x) = "reopen"
        /\ AttachOpen(x) => x # <<>> /\ Head(x) = "attach"
        /\ MarkPlan(x) => x # <<>> /\ Head(x) = "mark"
        /\ AttachMark(x) => x # <<>> /\ Head(x) = "attach"
        /\ MarkerFirst(x) => x # <<>> /\ Head(x) = "marker"
        /\ AttachFirst(x) => x # <<>> /\ Head(x) = "attach"
        /\ CreateFirst(x) => x # <<>> /\ Head(x) = "create"
        /\ UnstagePlan(x) => x # <<>> /\ Head(x) = "unstage"
        /\ CopyPlan(x) => x # <<>> /\ Head(x) = "copy"
    BY DEF Begins, Ends, SessionPlan, UnlockPlan, TwicePlan, ReopenPlan, AttachOpen, MarkPlan, AttachMark, MarkerFirst, AttachFirst, CreateFirst, UnstagePlan, CopyPlan
  <1>2. /\ MarkerCopy(x) => x # <<>> /\ Head(x) = "marker"
        /\ AttachCopy(x) => x # <<>> /\ Head(x) = "attach"
        /\ CreateCopy(x) => x # <<>> /\ Head(x) = "create"
        /\ StagePlan(x) => x # <<>> /\ Head(x) = "stage"
        /\ OpenNew(x) => x # <<>> /\ Head(x) = "open"
        /\ MarkNew(x) => x # <<>> /\ Head(x) = "mark"
        /\ MarkerNew(x) => x # <<>> /\ Head(x) = "marker"
        /\ AttachNew(x) => x # <<>> /\ Head(x) = "attach"
        /\ CreateNew(x) => x # <<>> /\ Head(x) = "create"
        /\ RegisterNew(x) => x # <<>> /\ Head(x) = "register"
        /\ CloseFirst(x) => x # <<>> /\ Head(x) = "close"
        /\ PasswordFirst(x) => x # <<>> /\ Head(x) = "password"
    BY DEF Begins, Ends, MarkerCopy, AttachCopy, CreateCopy, StagePlan, OpenNew, MarkNew, MarkerNew, AttachNew, CreateNew, RegisterNew, CloseFirst, PasswordFirst
  <1>3. /\ ReopenLast(x) => x # <<>> /\ Head(x) = "reopen"
        /\ PasswordOpen(x) => x # <<>> /\ Head(x) = "password"
        /\ PasswordAlone(x) => x # <<>> /\ Head(x) = "password"
        /\ AttachAgain(x) => x # <<>> /\ Head(x) = "attach"
        /\ RekeyPlan(x) => x # <<>> /\ Head(x) = "rekey"
        /\ DetachPlan(x) => x # <<>> /\ Head(x) = "detach"
        /\ CloseRekey(x) => x # <<>> /\ Head(x) = "close"
        /\ ExitPlan(x) => x # <<>> /\ Head(x) = "exit"
        /\ UnregisterPlan(x) => x # <<>> /\ Head(x) = "unregister"
        /\ RemoveDirPlan(x) => x # <<>> /\ Head(x) = "removeDir"
        /\ RemoveImagePlan(x) => x # <<>> /\ Head(x) = "removeImage"
        /\ LockImage(x) => x # <<>> /\ Head(x) = "lock"
    BY DEF Begins, Ends, ReopenLast, PasswordOpen, PasswordAlone, AttachAgain, RekeyPlan, DetachPlan, CloseRekey, ExitPlan, UnregisterPlan, RemoveDirPlan, RemoveImagePlan, LockImage
  <1>4. /\ WipePlan(x) => x # <<>> /\ Head(x) = "wipe"
        /\ OpenWipe(x) => x # <<>> /\ Head(x) = "open"
        /\ LockLast(x) => x # <<>> /\ Head(x) = "lock"
        /\ CloseLast(x) => x # <<>> /\ Head(x) = "close"
        /\ ServePlan(x) => x # <<>> /\ Head(x) = "serve"
        /\ RegisterPrimary(x) => x # <<>> /\ Head(x) = "register"
        /\ MovePlan(x) => x # <<>> /\ Head(x) = "move"
    BY DEF Begins, Ends, WipePlan, OpenWipe, LockLast, CloseLast, ServePlan, RegisterPrimary, MovePlan
  <1> QED
    BY <1>1, <1>2, <1>3, <1>4

(* A step of the operation of one user leaves the others alone.            *)
LEMMA StepKept ==
  ASSUME UsersInv, up, begun, op.todo # <<>>, ~ServePlan(op.todo),
         Typed', up', begun', root' = {},
         NEW u \in Ids, op.user = u, op'.user = u, NEW y, op'.todo = y,
         \A w \in Ids \ {u} : Untouched(w),
         OfUser(u)',
         y # <<>> => Underway(u, y)'
  PROVE  UsersInv'
  <1>2. ASSUME NEW w \in Ids
        PROVE  OfUser(w)'
    <2>1. CASE w = u
      BY <2>1
    <2>2. CASE w # u
      <3>1. OfUser(w) /\ Untouched(w) /\ ~Acting(w)
        BY <2>2 DEF UsersInv, Acting
      <3> QED
        BY <3>1, UntouchedKept
    <2> QED
      BY <2>1, <2>2
  <1>3. Planned'
    <2>1. y # <<>> => Underway(op.user, op.todo)'
      BY DEF Underway, Adding, Unlocking, Encrypting, FirstPassword, Rekeying, Deleting, LoggingOut
    <2> QED
      BY <2>1 DEF Planned
  <1>4. Down' /\ Begun'
    BY DEF Down, Begun
  <1> QED
    BY <1>2, <1>3, <1>4 DEF UsersInv

(* What an operation that is not the start of the host is about.           *)
LEMMA AtStep ==
  ASSUME UsersInv, op.todo # <<>>, Head(op.todo) \notin {"serve", "register", "move"}
  PROVE  /\ begun /\ up /\ root = {} /\ Underway(op.user, op.todo) /\ ~ServePlan(op.todo)
         /\ op.user \in Ids /\ op.todo \in Seq(Effects)
         /\ file \in [Ids -> UserRecords \cup {NoValue}] /\ places \in [Ids -> Places]
         /\ OfUser(op.user)
  <1>1. Typed /\ op.user \in Ids /\ op.todo \in Seq(Effects)
    BY OpFields DEF UsersInv
  <1>2. ~ServePlan(op.todo) /\ ~RegisterPrimary(op.todo) /\ ~MovePlan(op.todo)
    BY Heads
  <1>3. ~Starting(op.user, op.todo)
    BY <1>2 DEF Starting
  <1>4. begun /\ up /\ Underway(op.user, op.todo)
    BY <1>3 DEF UsersInv, Planned
  <1> QED
    BY <1>1, <1>2, <1>4 DEF UsersInv, Begun, Typed, TypeOK

(* A step that changes the user's places and no more than drops its effect.*)
LEMMA PlacesStep ==
  ASSUME UsersInv, op.todo # <<>>, Head(op.todo) \notin {"serve", "register", "move"},
         NEW u \in Ids, op.user = u, NEW q \in Places, At(u, q),
         op' \in OpRecords, op'.user = u, NEW y, op'.todo = y,
         UNCHANGED <<file, root, lanFile, begun, up, memory, standing, ghosts, upsets>>,
         OfUser(u)',
         y # <<>> => Underway(u, y)'
  PROVE  UsersInv'
  <1>1. /\ begun /\ up /\ root = {} /\ ~ServePlan(op.todo) /\ Typed
    BY AtStep DEF UsersInv
  <1>2. /\ places' \in [Ids -> Places]
        /\ \A w \in Ids : w # u => places'[w] = places[w]
    BY <1>1, PlaceAt
  <1>3. UNCHANGED <<file, root, lanFile, begun, up, apps, driven, sessions, bound, standing, wrote, cut, excused, upsets>>
    BY DEF memory, ghosts
  <1>4. Typed'
    BY <1>1, <1>2, <1>3 DEF Typed, TypeOK, OpRecords
  <1>5. \A w \in Ids \ {u} : Untouched(w)
    BY <1>2, <1>3 DEF Untouched, SignedIn
  <1> QED
    BY <1>1, <1>3, <1>4, <1>5, StepKept

(* What attaching leaves of a place.                                       *)
LEMMA AttachedPlace ==
  ASSUME NEW p \in Places
  PROVE  LET q == [p EXCEPT !.attached = TRUE, !.plain = Entries(@)] IN
         /\ q \in Places /\ q.stage = p.stage /\ q.image = p.image /\ q.key = p.key
         /\ q.inside = p.inside /\ q.attached
         /\ Entries(q.plain) = Entries(p.plain)
  <1> DEFINE d == Entries(p.plain)
             half == [p EXCEPT !.attached = TRUE]
             q == [p EXCEPT !.attached = TRUE, !.plain = Entries(@)]
  <1>1. /\ p.plain \in (SUBSET Items) \cup {NoValue} /\ d \in SUBSET Items /\ Entries(d) = d
        /\ d = Entries(p.plain)
    BY PlaceFields, EntriesOf
  <1>2. /\ half \in Places /\ half.plain = p.plain /\ half.stage = p.stage /\ half.image = p.image
        /\ half.key = p.key /\ half.inside = p.inside /\ half.attached
    BY AttachedSet
  <1>3. q = [half EXCEPT !.plain = d]
    BY DEF Places
  <1> HIDE DEF half, d, q
  <1>4. q \in Places /\ q.stage = p.stage /\ q.image = p.image /\ q.key = p.key
        /\ q.inside = p.inside /\ q.attached /\ q.plain = d
    BY <1>1, <1>2, <1>3, PlainSet
  <1>5. Entries(q.plain) = Entries(p.plain)
    BY <1>1, <1>4
  <1> QED
    BY <1>4, <1>5 DEF q

(* The volume is attached.                                                 *)
LEMMA MountKept ==
  ASSUME UsersInv, mountStore
  PROVE  UsersInv'
  <1>0. op.user \in Ids /\ places \in [Ids -> Places] /\ Typed
    BY OpFields DEF UsersInv, Typed, TypeOK
  <1> PICK u \in Ids : u = op.user
    BY <1>0
  <1> PICK x : x = op.todo
    OBVIOUS
  <1> PICK y : y = Tail(op.todo)
    OBVIOUS
  <1> PICK p \in Places : p = places[u]
    BY <1>0
  <1>1. /\ x # <<>> /\ Head(x) = "attach" /\ Done
        /\ (p.attached /\ p.image = "marked") \/ p.key = op.password
        /\ UNCHANGED <<file, root, lanFile, begun, up, memory, standing, ghosts, upsets>>
    BY DEF mountStore, Doing, Idle, isMounted
  <1>2. PICK q \in Places : /\ At(u, q) /\ q.stage = p.stage /\ q.image = p.image /\ q.key = p.key
                            /\ q.inside = p.inside /\ q.attached
                            /\ Entries(q.plain) = Entries(p.plain)
    <2>1. CASE isMounted(u)
      BY <2>1 DEF mountStore, isMounted
    <2>2. CASE ~isMounted(u)
      BY <2>2, AttachedPlace DEF mountStore
    <2> QED
      BY <2>1, <2>2
  <1>3. /\ begun /\ up /\ Underway(u, x) /\ OfUser(u) /\ Typed
    BY <1>0, <1>1, AtStep
  <1>4. /\ op' \in OpRecords /\ op'.todo = y /\ op'.user = u
        /\ op'.password = op.password /\ op'.old = op.old /\ op'.kind = op.kind
    BY <1>1, <1>0, DoneOp
  <1>5. /\ places' \in [Ids -> Places] /\ places'[u] = q
    BY <1>0, <1>2, PlaceAt
  <1>6. UNCHANGED <<file, root, lanFile, begun, up, apps, driven, sessions, bound, standing, wrote, cut, excused, upsets>>
    BY <1>1 DEF memory, ghosts
  <1>8. \/ AttachNew(x) /\ Volume /\ Signing(u) /\ ~Encrypted(u) /\ u \notin standing /\ Nothing(u)
        \/ AttachOpen(x) /\ Signing(u) /\ Encrypted(u) /\ ~isMounted(u)
        \/ /\ Volume /\ Signing(u) /\ op.kind = "encrypt" /\ ~Encrypted(u)
           /\ \/ (AttachMark(x) \/ AttachFirst(x)) /\ Nothing(u)
              \/ AttachCopy(x) /\ (NoCut(u) => wrote[u] \subseteq Entries(p.stage))
        \/ /\ AttachAgain(x) /\ op.kind = "rekey" /\ op.password \in Passwords /\ file[u] # NoValue
           /\ In(u) /\ p.key = op.password /\ u \notin apps
    BY <1>1, <1>3, Heads DEF Underway, Adding, Unlocking, Encrypting, FirstPassword, Rekeying, Deleting, LoggingOut
  <1>9. /\ AttachNew(x) => MarkerNew(y)
        /\ AttachOpen(x) => ReopenPlan(y)
        /\ AttachMark(x) => MarkPlan(y)
        /\ AttachFirst(x) => MarkerFirst(y)
        /\ AttachCopy(x) => MarkerCopy(y)
        /\ AttachAgain(x) => PasswordOpen(y)
    BY DEF AttachNew, AttachOpen, AttachMark, AttachFirst, AttachCopy, AttachAgain
  <1>10. y # <<>> /\ Head(y) \in {"marker", "reopen", "mark", "password"}
    BY <1>8, <1>9, Heads
  <1>11. /\ Moving(x) => AttachCopy(x) /\ MarkerCopy(y)
         /\ Changing(x) => AttachAgain(x) /\ PasswordOpen(y)
    BY <1>1, <1>9, Heads DEF Moving, Changing
  <1>12. UNCHANGED <<Encrypted(u), NoCut(u), In(u), Nothing(u)>> /\ (Signing(u) => Signing(u)')
    BY <1>4, <1>6 DEF Encrypted, NoCut, In, SignedIn, Nothing, Signing
  <1>13. places'[u].attached /\ places'[u].stage = p.stage /\ places'[u].inside = p.inside /\ places'[u].key = p.key
    BY <1>2, <1>5
  <1>14. Underway(u, y)'
    <2>1. CASE AttachNew(x) /\ Volume /\ Signing(u) /\ ~Encrypted(u) /\ u \notin standing /\ Nothing(u)
      <3>1. Adding(u, y)'
        BY <1>6, <1>9, <1>12, <1>13, <2>1 DEF Adding
      <3> QED
        BY <3>1 DEF Underway
    <2>2. CASE AttachOpen(x) /\ Signing(u) /\ Encrypted(u)
      <3>2. p.image # "none"
        BY <1>1, <1>3, <2>2, NoValues DEF OfUser, Imageless, storeExists, Signing
      <3>3. OnVolume(u)'
        BY <1>2, <1>5, <1>13, <3>2 DEF OnVolume, storeExists
      <3>1. Unlocking(u, y)'
        BY <1>9, <1>12, <1>13, <2>2, <3>3 DEF Unlocking
      <3> QED
        BY <3>1 DEF Underway
    <2>3. CASE /\ Volume /\ Signing(u) /\ op.kind = "encrypt" /\ ~Encrypted(u)
               /\ \/ (AttachMark(x) \/ AttachFirst(x)) /\ Nothing(u)
                  \/ AttachCopy(x) /\ (NoCut(u) => wrote[u] \subseteq Entries(p.stage))
      <3>1. AttachMark(x) => ~Moving(x)
        BY <1>9, <1>11, Heads
      <3>2. AttachMark(x) /\ NoCut(u) /\ Nothing(u) => wrote[u] = {} /\ p.stage = NoValue
        BY <1>3, <2>3, <3>1 DEF OfUser, InPlace, Signing, Nothing
      <3>3. wrote' = wrote /\ op'.kind = "encrypt"
        BY <1>4, <1>6, <2>3
      <3>4. Encrypting(u, y)'
        BY <1>9, <1>12, <1>13, <2>3, <3>2, <3>3 DEF Encrypting
      <3> QED
        BY <3>4 DEF Underway
    <2>4. CASE AttachAgain(x) /\ op.kind = "rekey" /\ op.password \in Passwords /\ file[u] # NoValue
               /\ In(u) /\ p.key = op.password /\ u \notin apps
      <3>1. Rekeying(u, y)'
        BY <1>4, <1>6, <1>9, <1>12, <1>13, <2>4 DEF Rekeying
      <3> QED
        BY <3>1 DEF Underway
    <2> QED
      BY <1>8, <2>1, <2>2, <2>3, <2>4
  <1>15. /\ file[u] # NoValue /\ op.password \in Passwords /\ p.image # "none"
         /\ file'[u] = file[u] /\ places'[u].image = p.image /\ Entries(places'[u].plain) = Entries(p.plain)
    <2>1. file[u] # NoValue /\ op.password \in Passwords
      BY <1>8 DEF Signing
    <2>2. p.image # "none"
      BY <1>1, <1>3, <2>1, NoValues DEF OfUser, Imageless, storeExists
    <2> QED
      BY <1>2, <1>5, <1>6, <2>1, <2>2
  <1>16. Imageless(u)' /\ Unknown(u)' /\ Passworded(u)'
    BY <1>3, <1>6, <1>12, <1>13, <1>15 DEF OfUser, Imageless, Unknown, Passworded, storeExists
  <1>17. Keyed(u)' /\ OnTheDisk(u)'
    <2>1. Keyed(u)'
      BY <1>3, <1>4, <1>6, <1>10, <1>11, <1>13, <1>15
         DEF OfUser, Keyed, storeExists, NoRekey, Acting, Changing, Idle
    <2>2. OnTheDisk(u)'
      BY <1>3, <1>6, <1>13, <1>15 DEF OfUser, OnTheDisk, OnDisk
    <2> QED
      BY <2>1, <2>2
  <1>18. InPlace(u)'
    BY <1>3, <1>4, <1>6, <1>10, <1>11, <1>12, <1>13, <1>15 DEF OfUser, InPlace, storeExists, Acting, Moving, Idle
  <1>19. OverVolume(u)' /\ Attended(u)'
    BY <1>3, <1>4, <1>6, <1>10, <1>12, <1>13, <1>15 DEF OfUser, OverVolume, Attended, Acting, Idle, MayFail
  <1>20. Served(u)' /\ DrivenOf(u)'
    <2>1. Away(x) => AttachAgain(x) /\ PasswordOpen(y)
      BY <1>1, <1>9, Heads DEF Away
    <2>2. ~WipePlan(x)
      BY <1>1, Heads
    <2>3. Served(u)'
      BY <1>3, <1>4, <1>6, <1>10, <1>12, <1>15, <2>1 DEF OfUser, Served, Acting, Away, Idle, NoRekey
    <2>4. DrivenOf(u)'
      BY <1>3, <1>6, <2>2 DEF OfUser, DrivenOf, NoRekey
    <2> QED
      BY <2>3, <2>4
  <1>21. OfUser(u)'
    BY <1>16, <1>17, <1>18, <1>19, <1>20 DEF OfUser
  <1> QED
    BY <1>1, <1>2, <1>4, <1>14, <1>21, PlacesStep

(* The plans that share a first effect part at a later one.                *)
LEMMA Apart ==
  ASSUME NEW x
  PROVE  /\ MarkPlan(x) => ~MarkNew(x)
         /\ MarkerCopy(x) => ~MarkerNew(x) /\ ~MarkerFirst(x)
         /\ MarkerFirst(x) => ~MarkerCopy(x)
         /\ AttachCopy(x) => ~AttachNew(x) /\ ~AttachOpen(x) /\ ~AttachMark(x) /\ ~AttachAgain(x) /\ ~AttachFirst(x)
         /\ AttachAgain(x) => ~AttachNew(x) /\ ~AttachOpen(x) /\ ~AttachMark(x) /\ ~AttachFirst(x)
         /\ CreateCopy(x) => ~CreateNew(x) /\ ~CreateFirst(x)
         /\ PasswordOpen(x) => ~PasswordFirst(x) /\ ~PasswordAlone(x)
         /\ PasswordFirst(x) => ~PasswordAlone(x)
         /\ ReopenPlan(x) => ~ReopenLast(x)
         /\ CloseRekey(x) => ~CloseFirst(x) /\ ~CloseLast(x)
         /\ LockImage(x) => ~LockLast(x)
         /\ OpenNew(x) => ~OpenWipe(x)
  <1> DEFINE M(y) == MarkerCopy(y) => ~MarkerNew(y) /\ ~MarkerFirst(y)
  <1>1. ASSUME NEW y
        PROVE  M(y)
    <2>1. /\ MarkerCopy(y) => CopyPlan(Tail(y))
          /\ MarkerNew(y) => MarkNew(Tail(y))
          /\ MarkerFirst(y) => MarkPlan(Tail(y))
      BY DEF MarkerCopy, MarkerNew, MarkerFirst
    <2>2. /\ CopyPlan(Tail(y)) => Head(Tail(y)) = "copy"
          /\ MarkNew(Tail(y)) => Head(Tail(y)) = "mark"
          /\ MarkPlan(Tail(y)) => Head(Tail(y)) = "mark"
      BY Heads
    <2> QED
      BY <2>1, <2>2
  <1> DEFINE A(y) == AttachCopy(y) => ~AttachNew(y) /\ ~AttachOpen(y) /\ ~AttachMark(y) /\ ~AttachAgain(y) /\ ~AttachFirst(y)
             C(y) == AttachAgain(y) => ~AttachNew(y) /\ ~AttachOpen(y) /\ ~AttachMark(y) /\ ~AttachFirst(y)
  <1>2. ASSUME NEW y
        PROVE  A(y) /\ C(y)
    <2>1. /\ AttachCopy(y) => MarkerCopy(Tail(y))
          /\ AttachNew(y) => MarkerNew(Tail(y))
          /\ AttachFirst(y) => MarkerFirst(Tail(y))
          /\ AttachOpen(y) => ReopenPlan(Tail(y))
          /\ AttachMark(y) => MarkPlan(Tail(y))
          /\ AttachAgain(y) => PasswordOpen(Tail(y))
      BY DEF AttachCopy, AttachNew, AttachFirst, AttachOpen, AttachMark, AttachAgain
    <2>2. /\ MarkerCopy(Tail(y)) => Head(Tail(y)) = "marker"
          /\ MarkerNew(Tail(y)) => Head(Tail(y)) = "marker"
          /\ MarkerFirst(Tail(y)) => Head(Tail(y)) = "marker"
          /\ ReopenPlan(Tail(y)) => Head(Tail(y)) = "reopen"
          /\ MarkPlan(Tail(y)) => Head(Tail(y)) = "mark"
          /\ PasswordOpen(Tail(y)) => Head(Tail(y)) = "password"
      BY Heads
    <2>3. M(Tail(y))
      BY <1>1
    <2> QED
      BY <2>1, <2>2, <2>3
  <1>3. /\ MarkPlan(x) => ~MarkNew(x)
        /\ PasswordOpen(x) => ~PasswordFirst(x) /\ ~PasswordAlone(x)
        /\ PasswordFirst(x) => ~PasswordAlone(x)
    <2>1. /\ MarkPlan(x) => ReopenPlan(Tail(x))
          /\ MarkNew(x) => OpenNew(Tail(x))
          /\ PasswordOpen(x) => ReopenLast(Tail(x))
          /\ PasswordFirst(x) => CloseFirst(Tail(x))
          /\ PasswordAlone(x) => Tail(x) = <<>>
      BY DEF MarkPlan, MarkNew, PasswordOpen, PasswordFirst, PasswordAlone, Ends
    <2>2. /\ ReopenPlan(Tail(x)) => Head(Tail(x)) = "reopen"
          /\ OpenNew(Tail(x)) => Head(Tail(x)) = "open"
          /\ ReopenLast(Tail(x)) => Tail(x) # <<>> /\ Head(Tail(x)) = "reopen"
          /\ CloseFirst(Tail(x)) => Tail(x) # <<>> /\ Head(Tail(x)) = "close"
      BY Heads
    <2> QED
      BY <2>1, <2>2
  <1>4. CreateCopy(x) => ~CreateNew(x) /\ ~CreateFirst(x)
    <2>1. /\ CreateCopy(x) => AttachCopy(Tail(x))
          /\ CreateNew(x) => AttachNew(Tail(x))
          /\ CreateFirst(x) => AttachFirst(Tail(x))
      BY DEF CreateCopy, CreateNew, CreateFirst
    <2>2. A(Tail(x))
      BY <1>2
    <2> QED
      BY <2>1, <2>2
  <1>5. /\ ReopenPlan(x) => ~ReopenLast(x)
        /\ CloseRekey(x) => ~CloseFirst(x) /\ ~CloseLast(x)
        /\ LockImage(x) => ~LockLast(x)
        /\ OpenNew(x) => ~OpenWipe(x)
    <2>1. /\ ReopenPlan(x) => SessionPlan(Tail(x)) \/ UnlockPlan(Tail(x))
          /\ ReopenLast(x) => Tail(x) = <<>>
          /\ CloseRekey(x) => DetachPlan(Tail(x))
          /\ CloseFirst(x) => TwicePlan(Tail(x))
          /\ CloseLast(x) => LockLast(Tail(x))
          /\ LockImage(x) => RemoveImagePlan(Tail(x))
          /\ LockLast(x) => Tail(x) = <<>>
          /\ OpenNew(x) => UnlockPlan(Tail(x))
          /\ OpenWipe(x) => WipePlan(Tail(x))
      BY DEF ReopenPlan, ReopenLast, CloseRekey, CloseFirst, CloseLast, LockImage, LockLast, OpenNew, OpenWipe, Ends
    <2>2. /\ SessionPlan(Tail(x)) => Tail(x) # <<>>
          /\ UnlockPlan(Tail(x)) => Tail(x) # <<>> /\ Head(Tail(x)) = "unlock"
          /\ DetachPlan(Tail(x)) => Head(Tail(x)) = "detach"
          /\ TwicePlan(Tail(x)) => Head(Tail(x)) = "unlock"
          /\ LockLast(Tail(x)) => Head(Tail(x)) = "lock"
          /\ RemoveImagePlan(Tail(x)) => Tail(x) # <<>>
          /\ WipePlan(Tail(x)) => Head(Tail(x)) = "wipe"
      BY Heads
    <2> QED
      BY <2>1, <2>2
  <1> QED
    <2> MarkerCopy(x) => ~MarkerNew(x) /\ ~MarkerFirst(x)
      BY <1>1
    <2> A(x) /\ C(x)
      BY <1>2
    <2> QED
      BY <1>3, <1>4, <1>5

(* An operation cut while data move encrypts; cut while the key changes,   *)
(* it changes a password.                                                  *)
LEMMA Excuses ==
  ASSUME UsersInv, op.todo # <<>>
  PROVE  /\ Moving(op.todo) => op.kind = "encrypt"
         /\ Away(op.todo) \/ Changing(op.todo) => op.kind = "rekey"
  <1> PICK x : x = op.todo
    OBVIOUS
  <1>1. Underway(op.user, x) \/ Starting(op.user, x)
    BY DEF UsersInv, Planned
  <1>2. Moving(x) => Encrypting(op.user, x)
    <2>1. Moving(x) => Head(x) \in {"create", "attach", "marker", "copy", "unstage", "mark"}
      BY Heads DEF Moving
    <2>2. Moving(x) => Underway(op.user, x)
      BY <1>1, <2>1, Heads DEF Starting
    <2>3. Moving(x) => ~Adding(op.user, x) /\ ~Unlocking(op.user, x) /\ ~Rekeying(op.user, x)
      BY Heads, Apart DEF Moving, Adding, Unlocking, Rekeying
    <2>4. Moving(x) => ~FirstPassword(op.user, x) /\ ~Deleting(op.user, x) /\ ~LoggingOut(op.user, x)
      BY <2>1, Heads DEF FirstPassword, Deleting, LoggingOut
    <2> QED
      BY <2>2, <2>3, <2>4 DEF Underway
  <1>3. Away(x) \/ Changing(x) => Rekeying(op.user, x)
    <2>1. Away(x) \/ Changing(x) => Head(x) \in {"detach", "rekey", "attach", "password", "reopen"}
      BY Heads DEF Away, Changing
    <2>2. Away(x) \/ Changing(x) => Underway(op.user, x)
      BY <1>1, <2>1, Heads DEF Starting
    <2>3. Away(x) \/ Changing(x) => ~Adding(op.user, x)
      BY Heads, Apart DEF Away, Changing, Adding
    <2>4. Away(x) \/ Changing(x) => ~Unlocking(op.user, x)
      BY Heads, Apart DEF Away, Changing, Unlocking
    <2>5. Away(x) \/ Changing(x) => ~Encrypting(op.user, x)
      BY Heads, Apart DEF Away, Changing, Encrypting
    <2>6. Away(x) \/ Changing(x) => ~FirstPassword(op.user, x)
      BY Heads, Apart DEF Away, Changing, FirstPassword
    <2>7. Away(x) \/ Changing(x) => ~Deleting(op.user, x) /\ ~LoggingOut(op.user, x)
      BY <2>1, Heads DEF Deleting, LoggingOut
    <2> QED
      BY <2>2, <2>3, <2>4, <2>5, <2>6, <2>7 DEF Underway
  <1> QED
    BY <1>2, <1>3 DEF Encrypting, Rekeying

(* An image is created for who has none.                                   *)
LEMMA CreateKept ==
  ASSUME UsersInv, createStore, Head(op.todo) = "create"
  PROVE  UsersInv'
  <1>0. op.user \in Ids /\ places \in [Ids -> Places] /\ Typed
    BY OpFields DEF UsersInv, Typed, TypeOK
  <1> PICK u \in Ids : u = op.user
    BY <1>0
  <1> PICK x : x = op.todo
    OBVIOUS
  <1> PICK y : y = Tail(op.todo)
    OBVIOUS
  <1> PICK p \in Places : p = places[u]
    BY <1>0
  <1>1. /\ x # <<>> /\ Head(x) = "create" /\ Done /\ p.image = "none"
        /\ UNCHANGED <<file, root, lanFile, begun, up, memory, standing, ghosts, upsets>>
    BY DEF createStore, Doing, Idle, storeExists
  <1>3. /\ begun /\ up /\ Underway(u, x) /\ OfUser(u) /\ Typed /\ root = {}
    BY <1>0, <1>1, AtStep
  <1>4. /\ op' \in OpRecords /\ op'.todo = y /\ op'.user = u
        /\ op'.password = op.password /\ op'.old = op.old /\ op'.kind = op.kind
    BY <1>1, <1>0, DoneOp
  <1>8. /\ Volume /\ Signing(u) /\ ~Encrypted(u)
        /\ \/ CreateNew(x) /\ u \notin standing /\ Nothing(u)
           \/ /\ op.kind = "encrypt"
              /\ \/ CreateFirst(x) /\ Nothing(u)
                 \/ CreateCopy(x) /\ (NoCut(u) => wrote[u] \subseteq Entries(p.stage))
    BY <1>1, <1>3, Heads DEF Underway, Adding, Unlocking, Encrypting, FirstPassword, Rekeying, Deleting, LoggingOut
  <1>2. PICK q \in Places : /\ At(u, q) /\ q.plain = p.plain /\ q.stage = p.stage /\ q.image = "bare"
                            /\ q.key = op.password /\ q.inside = p.inside /\ q.attached = p.attached
    <2> DEFINE half == [p EXCEPT !.image = "bare"]
    <2>1. /\ half \in Places /\ half.plain = p.plain /\ half.stage = p.stage /\ half.image = "bare"
          /\ half.inside = p.inside /\ half.attached = p.attached
      BY ImageSet
    <2>2. [p EXCEPT !.image = "bare", !.key = op.password] = [half EXCEPT !.key = op.password]
      BY DEF Places
    <2>3. op.password \in Passwords \cup {NoValue}
      BY <1>0, OpFields
    <2>4. At(u, [half EXCEPT !.key = op.password])
      BY <1>1, <2>2 DEF createStore, Doing
    <2> DEFINE z == [half EXCEPT !.key = op.password]
    <2> HIDE DEF half
    <2>5. /\ z \in Places /\ z.plain = half.plain /\ z.stage = half.stage /\ z.image = half.image
          /\ z.key = op.password /\ z.inside = half.inside /\ z.attached = half.attached
      BY <2>1, <2>3, KeySet
    <2>6. At(u, z)
      BY <2>4
    <2> HIDE DEF z
    <2> QED
      BY <2>1, <2>5, <2>6
  <1>5. /\ places' \in [Ids -> Places] /\ places'[u] = q
    BY <1>0, <1>2, PlaceAt
  <1>6. UNCHANGED <<file, root, lanFile, begun, up, apps, driven, sessions, bound, standing, wrote, cut, excused, upsets>>
    BY <1>1 DEF memory, ghosts
  <1>9. /\ CreateNew(x) => AttachNew(y)
        /\ CreateFirst(x) => AttachFirst(y)
        /\ CreateCopy(x) => AttachCopy(y)
    BY DEF CreateNew, CreateFirst, CreateCopy
  <1>10. y # <<>>
    BY <1>8, <1>9, Heads
  <1>11. /\ Moving(x) => AttachCopy(y)
         /\ ~Changing(x) /\ ~Away(x) /\ ~WipePlan(x)
    BY <1>1, <1>9, Heads DEF Moving, Changing, Away
  <1>12. UNCHANGED <<Encrypted(u), NoCut(u), In(u), Nothing(u)>> /\ (Signing(u) => Signing(u)')
    BY <1>4, <1>6 DEF Encrypted, NoCut, In, SignedIn, Nothing, Signing
  <1>13. /\ places'[u].plain = p.plain /\ places'[u].stage = p.stage /\ places'[u].image = "bare"
         /\ places'[u].key = op.password /\ places'[u].inside = p.inside /\ places'[u].attached = p.attached
    BY <1>2, <1>5
  <1>14. Underway(u, y)'
    <2>1. CASE CreateNew(x) /\ u \notin standing /\ Nothing(u)
      <3>1. Adding(u, y)'
        BY <1>6, <1>8, <1>9, <1>12, <2>1 DEF Adding
      <3> QED
        BY <3>1 DEF Underway
    <2>2. CASE /\ op.kind = "encrypt"
               /\ \/ CreateFirst(x) /\ Nothing(u)
                  \/ CreateCopy(x) /\ (NoCut(u) => wrote[u] \subseteq Entries(p.stage))
      <3>1. wrote' = wrote /\ op'.kind = "encrypt"
        BY <1>4, <1>6, <2>2
      <3>2. Encrypting(u, y)'
        BY <1>8, <1>9, <1>12, <1>13, <2>2, <3>1 DEF Encrypting
      <3> QED
        BY <3>2 DEF Underway
    <2> QED
      BY <1>8, <2>1, <2>2
  <1>15. /\ file[u] # NoValue /\ op.password \in Passwords /\ file[u].password = op.password /\ file'[u] = file[u]
    BY <1>6, <1>8 DEF Signing
  <1>16. Imageless(u)' /\ Unknown(u)' /\ Passworded(u)'
    BY <1>3, <1>8, <1>12, <1>13, <1>15, NoValues DEF OfUser, Imageless, Unknown, Passworded, storeExists
  <1>17. Keyed(u)' /\ OnTheDisk(u)'
    <2>1. Keyed(u)'
      BY <1>13, <1>15 DEF Keyed
    <2>2. OnTheDisk(u)'
      BY <1>3, <1>6, <1>13 DEF OfUser, OnTheDisk, OnDisk
    <2> QED
      BY <2>1, <2>2
  <1>18. InPlace(u)'
    <2>1. CASE AttachCopy(y)
      BY <1>4, <1>10, <2>1 DEF InPlace, Acting, Moving, Idle
    <2>2. CASE ~AttachCopy(y)
      <3>1. Nothing(u)
        BY <1>8, <1>9, <2>2
      <3>2. NoCut(u) => wrote'[u] = {} /\ p.stage = NoValue
        BY <1>3, <1>6, <1>11, <1>15, <2>2, <3>1 DEF OfUser, InPlace, Nothing
      <3> QED
        BY <1>8, <1>12, <1>13, <3>2 DEF InPlace
    <2> QED
      BY <2>1, <2>2
  <1>19. OverVolume(u)' /\ Attended(u)'
    BY <1>8, <1>12 DEF OverVolume, Attended
  <1>20. Served(u)' /\ DrivenOf(u)'
    <2>1. Served(u)'
      BY <1>3, <1>6, <1>11, <1>12, <1>15 DEF OfUser, Served, NoRekey
    <2>2. DrivenOf(u)'
      BY <1>3, <1>6, <1>11 DEF OfUser, DrivenOf, NoRekey
    <2> QED
      BY <2>1, <2>2
  <1>21. OfUser(u)'
    BY <1>16, <1>17, <1>18, <1>19, <1>20 DEF OfUser
  <1> QED
    BY <1>1, <1>2, <1>4, <1>14, <1>21, PlacesStep

(* An image is marked, attached.                                           *)
LEMMA MarkerKept ==
  ASSUME UsersInv, createStore, Head(op.todo) = "marker"
  PROVE  UsersInv'
  <1>0. op.user \in Ids /\ places \in [Ids -> Places] /\ Typed
    BY OpFields DEF UsersInv, Typed, TypeOK
  <1> PICK u \in Ids : u = op.user
    BY <1>0
  <1> PICK x : x = op.todo
    OBVIOUS
  <1> PICK y : y = Tail(op.todo)
    OBVIOUS
  <1> PICK p \in Places : p = places[u]
    BY <1>0
  <1>1. /\ x # <<>> /\ Head(x) = "marker" /\ Done
        /\ UNCHANGED <<file, root, lanFile, begun, up, memory, standing, ghosts, upsets>>
    BY DEF createStore, Doing, Idle
  <1>3. /\ begun /\ up /\ Underway(u, x) /\ OfUser(u) /\ Typed /\ root = {}
    BY <1>0, <1>1, AtStep
  <1>4. /\ op' \in OpRecords /\ op'.todo = y /\ op'.user = u
        /\ op'.password = op.password /\ op'.old = op.old /\ op'.kind = op.kind
    BY <1>1, <1>0, DoneOp
  <1>8. /\ Volume /\ Signing(u) /\ ~Encrypted(u) /\ p.attached
        /\ \/ MarkerNew(x) /\ u \notin standing /\ Nothing(u)
           \/ /\ op.kind = "encrypt"
              /\ \/ MarkerFirst(x) /\ Nothing(u)
                 \/ MarkerCopy(x) /\ (NoCut(u) => wrote[u] \subseteq Entries(p.stage))
    BY <1>1, <1>3, Heads DEF Underway, Adding, Unlocking, Encrypting, FirstPassword, Rekeying, Deleting, LoggingOut
  <1>2. PICK q \in Places : /\ At(u, q) /\ q.plain = p.plain /\ q.stage = p.stage /\ q.image = "marked"
                            /\ q.key = p.key /\ q.inside = p.inside /\ q.attached = p.attached
    <2> DEFINE z == [p EXCEPT !.image = "marked"]
    <2>1. At(u, z)
      BY <1>1 DEF createStore, Doing
    <2>2. /\ z \in Places /\ z.plain = p.plain /\ z.stage = p.stage /\ z.image = "marked"
          /\ z.key = p.key /\ z.inside = p.inside /\ z.attached = p.attached
      BY ImageSet
    <2> HIDE DEF z
    <2> QED
      BY <2>1, <2>2
  <1>5. /\ places' \in [Ids -> Places] /\ places'[u] = q
    BY <1>0, <1>2, PlaceAt
  <1>6. UNCHANGED <<file, root, lanFile, begun, up, apps, driven, sessions, bound, standing, wrote, cut, excused, upsets>>
    BY <1>1 DEF memory, ghosts
  <1>9. /\ MarkerNew(x) => MarkNew(y)
        /\ MarkerFirst(x) => MarkPlan(y)
        /\ MarkerCopy(x) => CopyPlan(y)
    BY DEF MarkerNew, MarkerFirst, MarkerCopy
  <1>10. y # <<>>
    BY <1>8, <1>9, Heads
  <1>11. /\ Moving(x) => MarkerCopy(x)
         /\ ~Changing(x) /\ ~Away(x) /\ ~WipePlan(x)
    BY <1>1, <1>9, Heads DEF Moving, Changing, Away
  <1>12. UNCHANGED <<Encrypted(u), NoCut(u), In(u), Nothing(u)>> /\ (Signing(u) => Signing(u)')
    BY <1>4, <1>6 DEF Encrypted, NoCut, In, SignedIn, Nothing, Signing
  <1>13. /\ places'[u].plain = p.plain /\ places'[u].stage = p.stage /\ places'[u].image = "marked"
         /\ places'[u].key = p.key /\ places'[u].inside = p.inside /\ places'[u].attached
    BY <1>2, <1>5, <1>8
  <1>15. /\ file[u] # NoValue /\ op.password \in Passwords /\ file[u].password = op.password /\ file'[u] = file[u]
         /\ p.image # "none"
    BY <1>3, <1>6, <1>8 DEF Signing, OfUser, Imageless, storeExists
  <1>7. Nothing(u) /\ NoCut(u) /\ ~MarkerCopy(x) => wrote[u] = {} /\ p.stage = NoValue
    BY <1>3, <1>11, <1>15 DEF OfUser, InPlace, Nothing
  <1>14. Underway(u, y)'
    <2>1. CASE MarkerNew(x) /\ u \notin standing /\ Nothing(u)
      <3>1. Adding(u, y)'
        BY <1>6, <1>8, <1>9, <1>12, <1>13, <2>1 DEF Adding
      <3> QED
        BY <3>1 DEF Underway
    <2>2. CASE op.kind = "encrypt" /\ MarkerFirst(x) /\ Nothing(u)
      <3>1. wrote' = wrote /\ op'.kind = "encrypt" /\ ~MarkerCopy(x)
        BY <1>4, <1>6, <2>2, Apart
      <3>2. Encrypting(u, y)'
        BY <1>7, <1>8, <1>9, <1>12, <1>13, <2>2, <3>1 DEF Encrypting
      <3> QED
        BY <3>2 DEF Underway
    <2>3. CASE op.kind = "encrypt" /\ MarkerCopy(x) /\ (NoCut(u) => wrote[u] \subseteq Entries(p.stage))
      <3>1. wrote' = wrote /\ op'.kind = "encrypt"
        BY <1>4, <1>6, <2>3
      <3>2. Encrypting(u, y)'
        BY <1>8, <1>9, <1>12, <1>13, <2>3, <3>1 DEF Encrypting
      <3> QED
        BY <3>2 DEF Underway
    <2> QED
      BY <1>8, <2>1, <2>2, <2>3
  <1>16. Imageless(u)' /\ Unknown(u)' /\ Passworded(u)'
    BY <1>3, <1>8, <1>12, <1>13, <1>15, NoValues DEF OfUser, Imageless, Unknown, Passworded, storeExists
  <1>17. Keyed(u)' /\ OnTheDisk(u)'
    <2>1. Keyed(u)'
      BY <1>3, <1>6, <1>11, <1>13, <1>15 DEF OfUser, Keyed, NoRekey, storeExists
    <2>2. OnTheDisk(u)'
      BY <1>3, <1>6, <1>13 DEF OfUser, OnTheDisk, OnDisk
    <2> QED
      BY <2>1, <2>2
  <1>18. InPlace(u)'
    <2>1. CASE MarkerCopy(x)
      BY <1>4, <1>9, <1>10, <2>1 DEF InPlace, Acting, Moving, Idle
    <2>2. CASE ~MarkerCopy(x)
      <3>1. Nothing(u)
        BY <1>8, <2>2
      <3> QED
        BY <1>6, <1>7, <1>8, <1>12, <1>13, <2>2, <3>1 DEF InPlace
    <2> QED
      BY <2>1, <2>2
  <1>19. OverVolume(u)' /\ Attended(u)'
    BY <1>8, <1>12 DEF OverVolume, Attended
  <1>20. Served(u)' /\ DrivenOf(u)'
    <2>1. Served(u)'
      BY <1>3, <1>6, <1>11, <1>12, <1>15 DEF OfUser, Served, NoRekey
    <2>2. DrivenOf(u)'
      BY <1>3, <1>6, <1>11 DEF OfUser, DrivenOf, NoRekey
    <2> QED
      BY <2>1, <2>2
  <1>21. OfUser(u)'
    BY <1>16, <1>17, <1>18, <1>19, <1>20 DEF OfUser
  <1> QED
    BY <1>1, <1>2, <1>4, <1>14, <1>21, PlacesStep

(* A volume is detached, before its password changes or after a session.   *)
LEMMA UnmountKept ==
  ASSUME UsersInv, unmountStore
  PROVE  UsersInv'
  <1>0. op.user \in Ids /\ places \in [Ids -> Places] /\ Typed
    BY OpFields DEF UsersInv, Typed, TypeOK
  <1> PICK u \in Ids : u = op.user
    BY <1>0
  <1> PICK x : x = op.todo
    OBVIOUS
  <1> PICK y : y = Tail(op.todo)
    OBVIOUS
  <1> PICK p \in Places : p = places[u]
    BY <1>0
  <1>1. /\ x # <<>> /\ Head(x) \in {"detach", "lock"} /\ Done
        /\ UNCHANGED <<file, root, lanFile, begun, up, memory, standing, ghosts, upsets>>
    BY DEF unmountStore, Doing, Idle
  <1>3. /\ begun /\ up /\ Underway(u, x) /\ OfUser(u) /\ Typed /\ root = {}
    BY <1>0, <1>1, AtStep
  <1>4. /\ op' \in OpRecords /\ op'.todo = y /\ op'.user = u
        /\ op'.password = op.password /\ op'.old = op.old /\ op'.kind = op.kind
    BY <1>1, <1>0, DoneOp
  <1>2. PICK q \in Places : /\ At(u, q) /\ q.plain = p.plain /\ q.stage = p.stage /\ q.image = p.image
                            /\ q.key = p.key /\ q.inside = p.inside
                            /\ (q.attached => p.attached) /\ ~(q.attached /\ q.image = "marked")
    <2> DEFINE z == [p EXCEPT !.attached = FALSE]
    <2>1. At(u, IF isMounted(u) THEN z ELSE p)
      BY DEF unmountStore
    <2>2. /\ z \in Places /\ z.plain = p.plain /\ z.stage = p.stage /\ z.image = p.image
          /\ z.key = p.key /\ z.inside = p.inside /\ ~z.attached
      BY AttachedSet
    <2> HIDE DEF z
    <2>3. CASE isMounted(u)
      BY <2>1, <2>2, <2>3
    <2>4. CASE ~isMounted(u)
      BY <2>1, <2>4 DEF isMounted
    <2> QED
      BY <2>3, <2>4
  <1>5. /\ places' \in [Ids -> Places] /\ places'[u] = q
    BY <1>0, <1>2, PlaceAt
  <1>6. UNCHANGED <<file, root, lanFile, begun, up, apps, driven, sessions, bound, standing, wrote, cut, excused, upsets>>
    BY <1>1 DEF memory, ghosts
  <1>8. /\ file[u] # NoValue /\ u \notin apps
        /\ \/ /\ DetachPlan(x) /\ op.kind = "rekey" /\ op.password \in Passwords /\ In(u)
              /\ file[u].password = op.old
           \/ LockImage(x) /\ op.kind = "delete" /\ wrote[u] = {} /\ u \notin standing /\ Out(u) /\ (Volume => Encrypted(u))
           \/ LockLast(x) /\ Out(u)
    BY <1>1, <1>3, Heads DEF Underway, Adding, Unlocking, Encrypting, FirstPassword, Rekeying, Deleting, LoggingOut
  <1>9. /\ DetachPlan(x) => RekeyPlan(y)
        /\ LockImage(x) => RemoveImagePlan(y)
        /\ LockLast(x) => y = <<>>
    BY DEF DetachPlan, LockImage, LockLast, Ends
  <1>10. /\ ~Moving(x) /\ ~Changing(x) /\ ~WipePlan(x)
         /\ Away(x) => DetachPlan(x)
    BY <1>1, Heads DEF Moving, Changing, Away
  <1>11. RekeyPlan(y) => y # <<>>
    BY Heads
  <1>12. UNCHANGED <<Encrypted(u), NoCut(u), NoRekey(u), In(u), Out(u)>>
    BY <1>6 DEF Encrypted, NoCut, NoRekey, In, Out, SignedIn
  <1>13. /\ places'[u].plain = p.plain /\ places'[u].stage = p.stage /\ places'[u].image = p.image
         /\ places'[u].key = p.key /\ places'[u].inside = p.inside /\ (places'[u].attached => p.attached)
         /\ ~isMounted(u)'
    BY <1>2, <1>5 DEF isMounted
  <1>14. y # <<>> => Underway(u, y)'
    <2>1. CASE /\ DetachPlan(x) /\ op.kind = "rekey" /\ op.password \in Passwords /\ In(u)
               /\ file[u].password = op.old
      <3>1. Rekeying(u, y)'
        BY <1>4, <1>6, <1>8, <1>9, <1>12, <2>1 DEF Rekeying
      <3> QED
        BY <3>1 DEF Underway
    <2>2. CASE LockImage(x) /\ op.kind = "delete" /\ wrote[u] = {} /\ u \notin standing /\ Out(u) /\ (Volume => Encrypted(u))
      <3>1. ~UnregisterPlan(y)
        BY <1>9, <2>2, Heads
      <3>2. Deleting(u, y)'
        BY <1>4, <1>6, <1>8, <1>9, <1>12, <2>2, <3>1 DEF Deleting
      <3> QED
        BY <3>2 DEF Underway
    <2>3. CASE LockLast(x)
      BY <1>9, <2>3
    <2> QED
      BY <1>8, <2>1, <2>2, <2>3
  <1>15. file'[u] = file[u] /\ wrote'[u] = wrote[u] /\ storeExists(u)' = storeExists(u)
    BY <1>6, <1>13 DEF storeExists
  <1>16. Imageless(u)' /\ Unknown(u)' /\ Passworded(u)'
    BY <1>3, <1>6, <1>8, <1>12, <1>13, <1>15 DEF OfUser, Imageless, Unknown, Passworded
  <1>17. Keyed(u)' /\ OnTheDisk(u)'
    <2>1. Keyed(u)'
      BY <1>3, <1>10, <1>12, <1>13, <1>15 DEF OfUser, Keyed
    <2>2. OnTheDisk(u)'
      BY <1>3, <1>6, <1>13, <1>15 DEF OfUser, OnTheDisk, OnDisk
    <2> QED
      BY <2>1, <2>2
  <1>18. InPlace(u)'
    BY <1>3, <1>10, <1>12, <1>13, <1>15 DEF OfUser, InPlace
  <1>19. OverVolume(u)' /\ Attended(u)'
    BY <1>6, <1>8, <1>13 DEF OverVolume, Attended
  <1>20. Served(u)' /\ DrivenOf(u)'
    <2>1. Served(u)'
      BY <1>3, <1>4, <1>6, <1>9, <1>10, <1>11, <1>12, <1>15 DEF OfUser, Served, Acting, Idle, Away
    <2>2. DrivenOf(u)'
      BY <1>6, <1>8 DEF DrivenOf
    <2> QED
      BY <2>1, <2>2
  <1>21. OfUser(u)'
    BY <1>16, <1>17, <1>18, <1>19, <1>20 DEF OfUser
  <1> QED
    BY <1>1, <1>2, <1>4, <1>14, <1>21, PlacesStep

(* The volume stays busy: who signs in next is not asked why.              *)
LEMMA BusyKept ==
  ASSUME UsersInv, Busy
  PROVE  UsersInv'
  <1>0. op.user \in Ids /\ places \in [Ids -> Places] /\ Typed
    BY OpFields DEF UsersInv, Typed, TypeOK
  <1> PICK u \in Ids : u = op.user
    BY <1>0
  <1> PICK x : x = op.todo
    OBVIOUS
  <1> PICK y : y = Tail(op.todo)
    OBVIOUS
  <1> PICK p \in Places : p = places[u]
    BY <1>0
  <1>1. /\ x # <<>> /\ Head(x) = "lock" /\ Done
        /\ excused' = excused \cup {u} /\ upsets < MaxUpsets /\ upsets' = upsets + 1
        /\ UNCHANGED <<file, places, root, lanFile, begun, up, apps, driven, sessions, bound, standing, wrote, cut>>
    BY DEF Busy, Doing, Idle, disk, memory
  <1>3. /\ begun /\ up /\ Underway(u, x) /\ OfUser(u) /\ Typed /\ root = {}
    BY <1>0, <1>1, AtStep
  <1>4. /\ op' \in OpRecords /\ op'.todo = y /\ op'.user = u
        /\ op'.password = op.password /\ op'.old = op.old /\ op'.kind = op.kind
    BY <1>1, <1>0, DoneOp
  <1>8. /\ file[u] # NoValue /\ u \notin apps
        /\ \/ LockImage(x) /\ op.kind = "delete" /\ wrote[u] = {} /\ u \notin standing /\ Out(u) /\ (Volume => Encrypted(u))
           \/ LockLast(x) /\ Out(u)
    BY <1>1, <1>3, Heads DEF Underway, Adding, Unlocking, Encrypting, FirstPassword, Rekeying, Deleting, LoggingOut
  <1>9. /\ LockImage(x) => RemoveImagePlan(y)
        /\ LockLast(x) => y = <<>>
    BY DEF LockImage, LockLast, Ends
  <1>10. ~Moving(x) /\ ~Changing(x) /\ ~WipePlan(x) /\ ~Away(x)
    BY <1>1, Heads DEF Moving, Changing, Away
  <1>12. UNCHANGED <<Encrypted(u), NoCut(u), NoRekey(u), In(u), Out(u), storeExists(u), isMounted(u)>>
    BY <1>1 DEF Encrypted, NoCut, NoRekey, In, Out, SignedIn, storeExists, isMounted
  <1>14. y # <<>> => Underway(u, y)'
    <2>1. CASE LockImage(x) /\ op.kind = "delete" /\ wrote[u] = {} /\ u \notin standing /\ Out(u) /\ (Volume => Encrypted(u))
      <3>1. ~UnregisterPlan(y)
        BY <1>9, <2>1, Heads
      <3>2. Deleting(u, y)'
        BY <1>1, <1>4, <1>8, <1>9, <1>12, <2>1, <3>1 DEF Deleting
      <3> QED
        BY <3>2 DEF Underway
    <2>2. CASE LockLast(x)
      BY <1>9, <2>2
    <2> QED
      BY <1>8, <2>1, <2>2
  <1>16. Imageless(u)' /\ Unknown(u)' /\ Passworded(u)'
    BY <1>1, <1>3, <1>12 DEF OfUser, Imageless, Unknown, Passworded, OnDisk
  <1>17. Keyed(u)' /\ OnTheDisk(u)' /\ InPlace(u)'
    BY <1>1, <1>3, <1>10, <1>12 DEF OfUser, Keyed, OnTheDisk, OnDisk, InPlace
  <1>19. OverVolume(u)' /\ Attended(u)'
    BY <1>1, <1>8 DEF OverVolume, Attended
  <1>20. Served(u)' /\ DrivenOf(u)'
    BY <1>1, <1>3, <1>8, <1>10, <1>12 DEF OfUser, Served, DrivenOf
  <1>21. OfUser(u)'
    BY <1>16, <1>17, <1>19, <1>20 DEF OfUser
  <1>22. Typed'
    <2>1. upsets' \in 0 .. MaxUpsets
      BY <1>0, <1>1, BoundsAssumption DEF Typed, TypeOK
    <2> QED
      BY <1>0, <1>1, <1>4, <2>1 DEF Typed, TypeOK, OpRecords
  <1>23. \A w \in Ids \ {u} : Untouched(w)
    BY <1>1 DEF Untouched, SignedIn
  <1>24. ~ServePlan(op.todo)
    BY <1>1, Heads
  <1> QED
    BY <1>1, <1>3, <1>4, <1>14, <1>21, <1>22, <1>23, <1>24, StepKept

(* The image gets its new password before the user does.                   *)
LEMMA RekeyKept ==
  ASSUME UsersInv, changeStorePassword
  PROVE  UsersInv'
  <1>0. op.user \in Ids /\ places \in [Ids -> Places] /\ Typed
    BY OpFields DEF UsersInv, Typed, TypeOK
  <1> PICK u \in Ids : u = op.user
    BY <1>0
  <1> PICK x : x = op.todo
    OBVIOUS
  <1> PICK y : y = Tail(op.todo)
    OBVIOUS
  <1> PICK p \in Places : p = places[u]
    BY <1>0
  <1>1. /\ x # <<>> /\ Head(x) = "rekey" /\ Done /\ p.key = op.old
        /\ UNCHANGED <<file, root, lanFile, begun, up, memory, standing, ghosts, upsets>>
    BY DEF changeStorePassword, Doing, Idle
  <1>3. /\ begun /\ up /\ Underway(u, x) /\ OfUser(u) /\ Typed /\ root = {}
    BY <1>0, <1>1, AtStep
  <1>4. /\ op' \in OpRecords /\ op'.todo = y /\ op'.user = u
        /\ op'.password = op.password /\ op'.old = op.old /\ op'.kind = op.kind
    BY <1>1, <1>0, DoneOp
  <1>2. PICK q \in Places : /\ At(u, q) /\ q.plain = p.plain /\ q.stage = p.stage /\ q.image = p.image
                            /\ q.key = op.password /\ q.inside = p.inside /\ q.attached = p.attached
    <2> DEFINE z == [p EXCEPT !.key = op.password]
    <2>1. At(u, z)
      BY DEF changeStorePassword
    <2>2. op.password \in Passwords \cup {NoValue}
      BY <1>0, OpFields
    <2>3. /\ z \in Places /\ z.plain = p.plain /\ z.stage = p.stage /\ z.image = p.image
          /\ z.key = op.password /\ z.inside = p.inside /\ z.attached = p.attached
      BY <2>2, KeySet
    <2> HIDE DEF z
    <2> QED
      BY <2>1, <2>3
  <1>5. /\ places' \in [Ids -> Places] /\ places'[u] = q
    BY <1>0, <1>2, PlaceAt
  <1>6. UNCHANGED <<file, root, lanFile, begun, up, apps, driven, sessions, bound, standing, wrote, cut, excused, upsets>>
    BY <1>1 DEF memory, ghosts
  <1>8. /\ file[u] # NoValue /\ u \notin apps /\ RekeyPlan(x) /\ op.kind = "rekey"
        /\ op.password \in Passwords /\ In(u) /\ file[u].password = op.old
    BY <1>1, <1>3, Heads DEF Underway, Adding, Unlocking, Encrypting, FirstPassword, Rekeying, Deleting, LoggingOut
  <1>9. AttachAgain(y) /\ y # <<>>
    BY <1>8, Heads DEF RekeyPlan
  <1>10. ~Moving(x) /\ ~WipePlan(x)
    BY <1>1, Heads DEF Moving
  <1>12. UNCHANGED <<Encrypted(u), NoCut(u), In(u)>>
    BY <1>6 DEF Encrypted, NoCut, In, SignedIn
  <1>13. /\ places'[u].plain = p.plain /\ places'[u].stage = p.stage /\ places'[u].image = p.image
         /\ places'[u].key = op.password /\ places'[u].inside = p.inside /\ places'[u].attached = p.attached
    BY <1>2, <1>5
  <1>14. Underway(u, y)'
    <2>1. Rekeying(u, y)'
      BY <1>4, <1>6, <1>8, <1>9, <1>12, <1>13 DEF Rekeying
    <2> QED
      BY <2>1 DEF Underway
  <1>15. file'[u] = file[u] /\ wrote'[u] = wrote[u] /\ storeExists(u)' = storeExists(u) /\ isMounted(u)' = isMounted(u)
    BY <1>6, <1>13 DEF storeExists, isMounted
  <1>7. storeExists(u)
    <2>1. p.key # NoValue
      BY <1>1, <1>3, <1>8 DEF OfUser, Served
    <2> QED
      BY <1>3, <2>1 DEF OfUser, Imageless
  <1>16. Imageless(u)' /\ Unknown(u)' /\ Passworded(u)'
    BY <1>3, <1>6, <1>7, <1>8, <1>12, <1>13, <1>15 DEF OfUser, Imageless, Unknown, Passworded
  <1>17. Keyed(u)' /\ OnTheDisk(u)'
    <2>1. Keyed(u)'
      BY <1>4, <1>9 DEF Keyed, Changing, Acting, Idle
    <2>2. OnTheDisk(u)'
      BY <1>3, <1>6, <1>13, <1>15 DEF OfUser, OnTheDisk, OnDisk
    <2> QED
      BY <2>1, <2>2
  <1>18. InPlace(u)'
    BY <1>3, <1>10, <1>12, <1>13, <1>15 DEF OfUser, InPlace
  <1>19. OverVolume(u)' /\ Attended(u)'
    BY <1>6, <1>8, <1>12 DEF OverVolume, Attended
  <1>20. Served(u)' /\ DrivenOf(u)'
    <2>1. Served(u)'
      BY <1>3, <1>4, <1>9, <1>12, <1>15 DEF OfUser, Served, Acting, Idle, Away
    <2>2. DrivenOf(u)'
      BY <1>6, <1>8 DEF DrivenOf
    <2> QED
      BY <2>1, <2>2
  <1>21. OfUser(u)'
    BY <1>16, <1>17, <1>18, <1>19, <1>20 DEF OfUser
  <1> QED
    BY <1>1, <1>2, <1>4, <1>14, <1>21, PlacesStep

(* The directory is moved aside, for its image to be made.                 *)
LEMMA StageKept ==
  ASSUME UsersInv, encryptExisting, Head(op.todo) = "stage"
  PROVE  UsersInv'
  <1>0. op.user \in Ids /\ places \in [Ids -> Places] /\ Typed
    BY OpFields DEF UsersInv, Typed, TypeOK
  <1> PICK u \in Ids : u = op.user
    BY <1>0
  <1> PICK x : x = op.todo
    OBVIOUS
  <1> PICK y : y = Tail(op.todo)
    OBVIOUS
  <1> PICK p \in Places : p = places[u]
    BY <1>0
  <1>1. /\ x # <<>> /\ Head(x) = "stage" /\ Done
        /\ UNCHANGED <<file, root, lanFile, begun, up, memory, standing, ghosts, upsets>>
    BY DEF encryptExisting, Doing, Idle
  <1>3. /\ begun /\ up /\ Underway(u, x) /\ OfUser(u) /\ Typed /\ root = {}
    BY <1>0, <1>1, AtStep
  <1>4. /\ op' \in OpRecords /\ op'.todo = y /\ op'.user = u
        /\ op'.password = op.password /\ op'.old = op.old /\ op'.kind = op.kind
    BY <1>1, <1>0, DoneOp
  <1>8. /\ Volume /\ Signing(u) /\ op.kind = "encrypt" /\ ~Encrypted(u) /\ StagePlan(x)
        /\ ~storeExists(u) /\ file[u] # NoValue
    BY <1>1, <1>3, Heads DEF Underway, Adding, Unlocking, Encrypting, FirstPassword, Rekeying, Deleting, LoggingOut, Signing
  <1>7. /\ p.plain \in (SUBSET Items) \cup {NoValue} /\ p.stage \in (SUBSET Items) \cup {NoValue}
        /\ Entries(NoValue) = {}
    BY PlaceFields, EntriesOf
  <1>2. PICK q \in Places : /\ At(u, q) /\ q.image = p.image
                            /\ q.key = p.key /\ q.inside = p.inside /\ q.attached = p.attached
                            /\ \/ q.stage = p.stage /\ q.plain = p.plain /\ (p.plain = NoValue \/ p.stage # NoValue)
                               \/ q.stage = p.plain /\ q.plain = NoValue /\ p.plain # NoValue /\ p.stage = NoValue
    <2> DEFINE half == [p EXCEPT !.stage = p.plain]
               z == [half EXCEPT !.plain = NoValue]
    <2>1. [p EXCEPT !.stage = p.plain, !.plain = NoValue] = z
      BY DEF Places
    <2>2. At(u, IF p.plain # NoValue /\ p.stage = NoValue THEN z ELSE p)
      BY <1>1, <2>1 DEF encryptExisting, Doing
    <2>3. /\ half \in Places /\ half.stage = p.plain /\ half.image = p.image
          /\ half.key = p.key /\ half.inside = p.inside /\ half.attached = p.attached
      BY <1>7, StageSet
    <2> HIDE DEF half
    <2>4. /\ z \in Places /\ z.plain = NoValue /\ z.stage = half.stage /\ z.image = half.image
          /\ z.key = half.key /\ z.inside = half.inside /\ z.attached = half.attached
      BY <2>3, PlainSet
    <2> HIDE DEF z
    <2>5. CASE p.plain # NoValue /\ p.stage = NoValue
      BY <2>2, <2>3, <2>4, <2>5
    <2>6. CASE ~(p.plain # NoValue /\ p.stage = NoValue)
      BY <2>2, <2>6
    <2> QED
      BY <2>5, <2>6
  <1>5. /\ places' \in [Ids -> Places] /\ places'[u] = q
    BY <1>0, <1>2, PlaceAt
  <1>6. UNCHANGED <<file, root, lanFile, begun, up, apps, driven, sessions, bound, standing, wrote, cut, excused, upsets>>
    BY <1>1 DEF memory, ghosts
  <1>9. CreateCopy(y) /\ y # <<>>
    BY <1>8, Heads DEF StagePlan
  <1>10. ~Moving(x) /\ ~Changing(x) /\ ~Away(x) /\ ~WipePlan(x)
    BY <1>1, Heads DEF Moving, Changing, Away
  <1>12. UNCHANGED <<Encrypted(u), NoCut(u), NoRekey(u), In(u)>> /\ (Signing(u) => Signing(u)')
    BY <1>4, <1>6 DEF Encrypted, NoCut, NoRekey, In, SignedIn, Signing
  <1>13. /\ places'[u].stage = q.stage /\ places'[u].image = p.image
         /\ places'[u].key = p.key /\ places'[u].inside = p.inside /\ places'[u].attached = p.attached
         /\ Entries(places'[u].plain) \cup Entries(places'[u].stage) = Entries(p.plain) \cup Entries(p.stage)
    <2>1. Entries(q.plain) \cup Entries(q.stage) = Entries(p.plain) \cup Entries(p.stage)
      BY <1>2, <1>7
    <2> QED
      BY <1>2, <1>5, <2>1
  <1>14. Underway(u, y)'
    <2>1. NoCut(u) => wrote[u] \subseteq Entries(q.stage)
      BY <1>2, <1>3, <1>7, <1>8, <1>10 DEF OfUser, InPlace
    <2>2. wrote' = wrote /\ op'.kind = "encrypt"
      BY <1>4, <1>6, <1>8
    <2>3. Encrypting(u, y)'
      BY <1>8, <1>9, <1>12, <1>13, <2>1, <2>2 DEF Encrypting
    <2> QED
      BY <2>3 DEF Underway
  <1>15. file'[u] = file[u] /\ wrote'[u] = wrote[u] /\ storeExists(u)' = storeExists(u)
    BY <1>6, <1>13 DEF storeExists
  <1>16. Imageless(u)' /\ Unknown(u)' /\ Passworded(u)'
    BY <1>3, <1>6, <1>8, <1>12, <1>13, <1>15 DEF OfUser, Imageless, Unknown, Passworded
  <1>17. Keyed(u)' /\ OnTheDisk(u)'
    <2>1. Keyed(u)'
      BY <1>8, <1>15 DEF Keyed
    <2>2. OnDisk(u)' = OnDisk(u)
      BY <1>13 DEF OnDisk
    <2>3. OnTheDisk(u)'
      BY <1>3, <1>6, <2>2 DEF OfUser, OnTheDisk
    <2> QED
      BY <2>1, <2>3
  <1>18. InPlace(u)'
    BY <1>4, <1>9 DEF InPlace, Acting, Idle, Moving
  <1>19. OverVolume(u)' /\ Attended(u)'
    BY <1>8, <1>12 DEF OverVolume, Attended
  <1>20. Served(u)' /\ DrivenOf(u)'
    BY <1>3, <1>6, <1>10, <1>12, <1>15 DEF OfUser, Served, DrivenOf
  <1>21. OfUser(u)'
    BY <1>16, <1>17, <1>18, <1>19, <1>20 DEF OfUser
  <1> QED
    BY <1>1, <1>2, <1>4, <1>14, <1>21, PlacesStep

(* An entry is copied into the volume, or all are there.                   *)
LEMMA CopyKept ==
  ASSUME UsersInv, encryptExisting, Head(op.todo) = "copy"
  PROVE  UsersInv'
  <1>0. op.user \in Ids /\ places \in [Ids -> Places] /\ Typed
    BY OpFields DEF UsersInv, Typed, TypeOK
  <1> PICK u \in Ids : u = op.user
    BY <1>0
  <1> PICK x : x = op.todo
    OBVIOUS
  <1> PICK p \in Places : p = places[u]
    BY <1>0
  <1>1. /\ x # <<>> /\ Head(x) = "copy"
        /\ \/ Entries(p.stage) \subseteq Contents(p) /\ Done /\ UNCHANGED places
           \/ UNCHANGED op /\ \E i \in Entries(p.stage) \ Contents(p) : At(u, Stored(p, {i}))
        /\ UNCHANGED <<file, root, lanFile, begun, up, memory, standing, ghosts, upsets>>
    BY DEF encryptExisting, Doing, Idle
  <1>3. /\ begun /\ up /\ Underway(u, x) /\ OfUser(u) /\ Typed /\ root = {} /\ op.todo \in Seq(Effects)
    BY <1>0, <1>1, AtStep
  <1> PICK y : y = op'.todo
    OBVIOUS
  <1>8. /\ Volume /\ Signing(u) /\ op.kind = "encrypt" /\ ~Encrypted(u) /\ CopyPlan(x)
        /\ p.attached /\ (NoCut(u) => wrote[u] \subseteq Entries(p.stage)) /\ file[u] # NoValue
    BY <1>1, <1>3, Heads DEF Underway, Adding, Unlocking, Encrypting, FirstPassword, Rekeying, Deleting, LoggingOut, Signing
  <1>7. p.stage \in (SUBSET Items) \cup {NoValue} /\ Entries(p.stage) \in SUBSET Items /\ Contents(p) = p.inside
    BY <1>8, PlaceFields, EntriesOf DEF Contents
  <1>4. /\ op' \in OpRecords /\ op'.user = u
        /\ op'.password = op.password /\ op'.old = op.old /\ op'.kind = op.kind
        /\ \/ y = Tail(x) /\ Entries(p.stage) \subseteq p.inside
           \/ y = x
    <2>1. CASE UNCHANGED op
      BY <1>3, <2>1, OpFields
    <2>2. CASE Done /\ Entries(p.stage) \subseteq Contents(p)
      BY <1>1, <1>3, <1>7, <2>2, DoneOp
    <2> QED
      BY <1>1, <2>1, <2>2
  <1>2. PICK q \in Places : /\ At(u, q) /\ q.stage = p.stage /\ q.image = p.image
                            /\ q.key = p.key /\ q.plain = p.plain /\ q.attached
                            /\ p.inside \subseteq q.inside
    <2>1. CASE UNCHANGED places
      <3>1. At(u, p)
        BY <1>0, <2>1 DEF At
      <3> QED
        BY <1>8, <3>1
    <2>2. CASE \E i \in Entries(p.stage) \ Contents(p) : At(u, Stored(p, {i}))
      <3> PICK i \in Entries(p.stage) \ Contents(p) : At(u, Stored(p, {i}))
        BY <2>2
      <3>1. {i} \in SUBSET Items
        BY <1>7
      <3> DEFINE z == Stored(p, {i})
      <3>2. /\ z \in Places /\ z.stage = p.stage /\ z.image = p.image /\ z.key = p.key /\ z.attached = p.attached
            /\ z.inside = (IF p.attached THEN p.inside \cup {i} ELSE p.inside)
            /\ z.plain = (IF p.attached THEN p.plain ELSE Entries(p.plain) \cup {i})
        BY <3>1, StoredIs
      <3>3. At(u, z)
        OBVIOUS
      <3> HIDE DEF z
      <3> QED
        BY <1>8, <3>2, <3>3
    <2> QED
      BY <1>1, <2>1, <2>2
  <1>5. /\ places' \in [Ids -> Places] /\ places'[u] = q
    BY <1>0, <1>2, PlaceAt
  <1>6. UNCHANGED <<file, root, lanFile, begun, up, apps, driven, sessions, bound, standing, wrote, cut, excused, upsets>>
    BY <1>1 DEF memory, ghosts
  <1>9. /\ y # <<>>
        /\ \/ UnstagePlan(y) /\ Entries(p.stage) \subseteq p.inside
           \/ CopyPlan(y)
    BY <1>4, <1>8, Heads DEF CopyPlan
  <1>10. ~Changing(x) /\ ~Away(x) /\ ~WipePlan(x)
    BY <1>1, Heads DEF Changing, Away
  <1>12. UNCHANGED <<Encrypted(u), NoCut(u), NoRekey(u), In(u)>> /\ (Signing(u) => Signing(u)')
    BY <1>4, <1>6 DEF Encrypted, NoCut, NoRekey, In, SignedIn, Signing
  <1>13. /\ places'[u].stage = p.stage /\ places'[u].image = p.image
         /\ places'[u].key = p.key /\ p.inside \subseteq places'[u].inside /\ places'[u].attached
         /\ places'[u].plain = p.plain
    BY <1>2, <1>5
  <1>14. Underway(u, y)'
    <2>1. wrote' = wrote /\ op'.kind = "encrypt"
      BY <1>4, <1>6, <1>8
    <2>2. CASE CopyPlan(y)
      <3>1. Encrypting(u, y)'
        BY <1>8, <1>12, <1>13, <2>1, <2>2 DEF Encrypting
      <3> QED
        BY <3>1 DEF Underway
    <2>3. CASE UnstagePlan(y) /\ Entries(p.stage) \subseteq p.inside
      <3>1. Entries(places'[u].stage) \subseteq places'[u].inside
        BY <1>13, <2>3
      <3>2. NoCut(u)' => wrote'[u] \subseteq places'[u].inside
        BY <1>8, <1>12, <1>13, <2>1, <3>1
      <3>3. Encrypting(u, y)'
        BY <1>8, <1>12, <1>13, <2>1, <2>3, <3>1, <3>2 DEF Encrypting
      <3> QED
        BY <3>3 DEF Underway
    <2> QED
      BY <1>9, <2>2, <2>3
  <1>15. file'[u] = file[u] /\ wrote'[u] = wrote[u] /\ storeExists(u)' = storeExists(u) /\ storeExists(u)
    BY <1>3, <1>6, <1>8, <1>13 DEF storeExists, OfUser, Imageless
  <1>16. Imageless(u)' /\ Unknown(u)' /\ Passworded(u)'
    BY <1>3, <1>6, <1>8, <1>12, <1>13, <1>15 DEF OfUser, Imageless, Unknown, Passworded
  <1>17. Keyed(u)' /\ OnTheDisk(u)'
    <2>1. Keyed(u)'
      BY <1>3, <1>10, <1>12, <1>13, <1>15 DEF OfUser, Keyed
    <2>2. OnDisk(u) \subseteq OnDisk(u)'
      BY <1>13 DEF OnDisk
    <2>3. OnTheDisk(u)'
      BY <1>3, <1>6, <2>2 DEF OfUser, OnTheDisk
    <2> QED
      BY <2>1, <2>3
  <1>18. InPlace(u)'
    BY <1>4, <1>9 DEF InPlace, Acting, Idle, Moving
  <1>19. OverVolume(u)' /\ Attended(u)'
    BY <1>8, <1>12 DEF OverVolume, Attended
  <1>20. Served(u)' /\ DrivenOf(u)'
    BY <1>3, <1>6, <1>10, <1>12, <1>15 DEF OfUser, Served, DrivenOf
  <1>21. OfUser(u)'
    BY <1>16, <1>17, <1>18, <1>19, <1>20 DEF OfUser
  <1> QED
    BY <1>1, <1>2, <1>4, <1>14, <1>21, PlacesStep

(* What was moved aside goes, once all of it is in the volume.             *)
LEMMA UnstageKept ==
  ASSUME UsersInv, encryptExisting, Head(op.todo) = "unstage"
  PROVE  UsersInv'
  <1>0. op.user \in Ids /\ places \in [Ids -> Places] /\ Typed
    BY OpFields DEF UsersInv, Typed, TypeOK
  <1> PICK u \in Ids : u = op.user
    BY <1>0
  <1> PICK x : x = op.todo
    OBVIOUS
  <1> PICK y : y = Tail(op.todo)
    OBVIOUS
  <1> PICK p \in Places : p = places[u]
    BY <1>0
  <1>1. /\ x # <<>> /\ Head(x) = "unstage" /\ Done
        /\ UNCHANGED <<file, root, lanFile, begun, up, memory, standing, ghosts, upsets>>
    BY DEF encryptExisting, Doing, Idle
  <1>3. /\ begun /\ up /\ Underway(u, x) /\ OfUser(u) /\ Typed /\ root = {}
    BY <1>0, <1>1, AtStep
  <1>4. /\ op' \in OpRecords /\ op'.todo = y /\ op'.user = u
        /\ op'.password = op.password /\ op'.old = op.old /\ op'.kind = op.kind
    BY <1>1, <1>0, DoneOp
  <1>8. /\ Volume /\ Signing(u) /\ op.kind = "encrypt" /\ ~Encrypted(u) /\ UnstagePlan(x)
        /\ p.attached /\ Entries(p.stage) \subseteq p.inside
        /\ NoCut(u) => wrote[u] \subseteq p.inside
    BY <1>1, <1>3, Heads DEF Underway, Adding, Unlocking, Encrypting, FirstPassword, Rekeying, Deleting, LoggingOut
  <1>7. file[u] # NoValue /\ Entries(NoValue) = {}
    BY <1>8, EntriesOf DEF Signing
  <1>2. PICK q \in Places : /\ At(u, q) /\ q.stage = NoValue /\ q.image = p.image
                            /\ q.key = p.key /\ q.plain = p.plain /\ q.attached = p.attached
                            /\ q.inside = p.inside
    <2> DEFINE z == [p EXCEPT !.stage = NoValue]
    <2>1. At(u, z)
      BY <1>1 DEF encryptExisting, Doing
    <2>3. NoValue \in (SUBSET Items) \cup {NoValue}
      OBVIOUS
    <2>2. /\ z \in Places /\ z.stage = NoValue /\ z.image = p.image
          /\ z.key = p.key /\ z.plain = p.plain /\ z.attached = p.attached
          /\ z.inside = p.inside
      BY <2>3, StageSet
    <2> HIDE DEF z
    <2> QED
      BY <2>1, <2>2
  <1>5. /\ places' \in [Ids -> Places] /\ places'[u] = q
    BY <1>0, <1>2, PlaceAt
  <1>6. UNCHANGED <<file, root, lanFile, begun, up, apps, driven, sessions, bound, standing, wrote, cut, excused, upsets>>
    BY <1>1 DEF memory, ghosts
  <1>9. MarkPlan(y) /\ y # <<>>
    BY <1>8, Heads DEF UnstagePlan
  <1>10. ~Changing(x) /\ ~Away(x) /\ ~WipePlan(x)
    BY <1>1, Heads DEF Changing, Away
  <1>12. UNCHANGED <<Encrypted(u), NoCut(u), NoRekey(u), In(u)>> /\ (Signing(u) => Signing(u)')
    BY <1>4, <1>6 DEF Encrypted, NoCut, NoRekey, In, SignedIn, Signing
  <1>13. /\ places'[u].stage = NoValue /\ places'[u].image = p.image
         /\ places'[u].key = p.key /\ places'[u].inside = p.inside /\ places'[u].attached
         /\ places'[u].plain = p.plain
    BY <1>2, <1>5, <1>8
  <1>14. Underway(u, y)'
    <2>1. wrote' = wrote /\ op'.kind = "encrypt"
      BY <1>4, <1>6, <1>8
    <2>2. Encrypting(u, y)'
      BY <1>8, <1>9, <1>12, <1>13, <2>1 DEF Encrypting
    <2> QED
      BY <2>2 DEF Underway
  <1>15. file'[u] = file[u] /\ wrote'[u] = wrote[u] /\ storeExists(u)' = storeExists(u) /\ storeExists(u)
    BY <1>3, <1>6, <1>8, <1>13 DEF storeExists, OfUser, Imageless
  <1>16. Imageless(u)' /\ Unknown(u)' /\ Passworded(u)'
    BY <1>3, <1>6, <1>7, <1>12, <1>13, <1>15 DEF OfUser, Imageless, Unknown, Passworded
  <1>17. Keyed(u)' /\ OnTheDisk(u)'
    <2>1. Keyed(u)'
      BY <1>3, <1>10, <1>12, <1>13, <1>15 DEF OfUser, Keyed
    <2>2. OnDisk(u) \subseteq OnDisk(u)'
      BY <1>8, <1>13 DEF OnDisk
    <2>3. OnTheDisk(u)'
      BY <1>3, <1>6, <2>2 DEF OfUser, OnTheDisk
    <2> QED
      BY <2>1, <2>3
  <1>18. InPlace(u)'
    BY <1>4, <1>9 DEF InPlace, Acting, Idle, Moving
  <1>19. OverVolume(u)' /\ Attended(u)'
    BY <1>8, <1>12 DEF OverVolume, Attended
  <1>20. Served(u)' /\ DrivenOf(u)'
    BY <1>3, <1>6, <1>10, <1>12, <1>15 DEF OfUser, Served, DrivenOf
  <1>21. OfUser(u)'
    BY <1>16, <1>17, <1>18, <1>19, <1>20 DEF OfUser
  <1> QED
    BY <1>1, <1>2, <1>4, <1>14, <1>21, PlacesStep

(* A user who is deleted loses the image, then the directory.              *)
LEMMA RemoveKept ==
  ASSUME UsersInv, Remove
  PROVE  UsersInv'
  <1>0. op.user \in Ids /\ places \in [Ids -> Places] /\ Typed
    BY OpFields DEF UsersInv, Typed, TypeOK
  <1> PICK u \in Ids : u = op.user
    BY <1>0
  <1> PICK x : x = op.todo
    OBVIOUS
  <1> PICK y : y = Tail(op.todo)
    OBVIOUS
  <1> PICK p \in Places : p = places[u]
    BY <1>0
  <1>1. /\ x # <<>> /\ Head(x) \in {"removeImage", "removeDir"} /\ Done
        /\ UNCHANGED <<file, root, lanFile, begun, up, memory, standing, ghosts, upsets>>
    BY DEF Remove, Doing, Idle
  <1>3. /\ begun /\ up /\ Underway(u, x) /\ OfUser(u) /\ Typed /\ root = {}
    BY <1>0, <1>1, AtStep
  <1>4. /\ op' \in OpRecords /\ op'.todo = y /\ op'.user = u
        /\ op'.password = op.password /\ op'.old = op.old /\ op'.kind = op.kind
    BY <1>1, <1>0, DoneOp
  <1>8. /\ file[u] # NoValue /\ u \notin apps /\ u \notin standing /\ Out(u) /\ wrote[u] = {}
        /\ op.kind = "delete" /\ (Volume => Encrypted(u))
        /\ \/ RemoveImagePlan(x) /\ Head(x) = "removeImage"
           \/ RemoveDirPlan(x) /\ ~storeExists(u) /\ Head(x) = "removeDir"
    BY <1>1, <1>3, Heads DEF Underway, Adding, Unlocking, Encrypting, FirstPassword, Rekeying, Deleting, LoggingOut
  <1>7. Entries(NoValue) = {}
    BY EntriesOf
  <1>2. PICK q \in Places : /\ At(u, q) /\ q.stage = p.stage
                            /\ \/ RemoveImagePlan(x) /\ q.image = "none" /\ q.key = NoValue /\ q.inside = {} /\ q.attached = p.attached
                               \/ /\ RemoveDirPlan(x) /\ q.image = "none" /\ q.plain = NoValue /\ ~q.attached
                                  /\ q.image = p.image /\ q.key = p.key /\ q.inside = p.inside /\ q.attached = p.attached
    <2>1. CASE Head(x) = "removeImage"
      <3> DEFINE p1 == [p EXCEPT !.image = "none"]
                 p2 == [p1 EXCEPT !.key = NoValue]
                 z == [p2 EXCEPT !.inside = {}]
      <3>1. [p EXCEPT !.image = "none", !.key = NoValue, !.inside = {}] = z
        BY DEF Places
      <3>2. At(u, z)
        BY <2>1, <3>1 DEF Remove, Doing
      <3>3. p1 \in Places /\ p1.stage = p.stage /\ p1.image = "none" /\ p1.attached = p.attached
        BY ImageSet
      <3> HIDE DEF p1
      <3>4. p2 \in Places /\ p2.stage = p.stage /\ p2.image = "none" /\ p2.key = NoValue /\ p2.attached = p.attached
        BY <3>3, KeySet
      <3> HIDE DEF p2
      <3>5. /\ z \in Places /\ z.stage = p.stage /\ z.image = "none" /\ z.key = NoValue /\ z.inside = {}
            /\ z.attached = p.attached
        BY <3>4, InsideSet
      <3> HIDE DEF z
      <3> QED
        BY <1>8, <2>1, <3>2, <3>5
    <2>2. CASE Head(x) = "removeDir"
      <3> DEFINE z == [p EXCEPT !.plain = NoValue]
      <3>1. At(u, z) /\ ~p.attached
        BY <2>2 DEF Remove, Doing
      <3>2. /\ z \in Places /\ z.stage = p.stage /\ z.image = p.image /\ z.plain = NoValue
            /\ z.key = p.key /\ z.inside = p.inside /\ z.attached = p.attached
        <4>1. NoValue \in (SUBSET Items) \cup {NoValue}
          OBVIOUS
        <4> QED
          BY <4>1 DEF Places
      <3>3. p.image = "none" /\ RemoveDirPlan(x)
        BY <1>8, <2>2 DEF storeExists
      <3> HIDE DEF z
      <3> QED
        BY <3>1, <3>2, <3>3
    <2> QED
      BY <1>1, <2>1, <2>2
  <1>5. /\ places' \in [Ids -> Places] /\ places'[u] = q
    BY <1>0, <1>2, PlaceAt
  <1>6. UNCHANGED <<file, root, lanFile, begun, up, apps, driven, sessions, bound, standing, wrote, cut, excused, upsets>>
    BY <1>1 DEF memory, ghosts
  <1>9. /\ RemoveImagePlan(x) => RemoveDirPlan(y)
        /\ RemoveDirPlan(x) => UnregisterPlan(y)
    BY DEF RemoveImagePlan, RemoveDirPlan
  <1>10. ~Moving(x) /\ ~Changing(x) /\ ~Away(x) /\ ~WipePlan(x)
    BY <1>1, Heads DEF Moving, Changing, Away
  <1>11. /\ RemoveImagePlan(x) => ~UnregisterPlan(y) /\ ~RemoveDirPlan(x)
         /\ y # <<>>
    BY <1>8, <1>9, Heads
  <1>12. UNCHANGED <<Encrypted(u), NoCut(u), NoRekey(u), In(u), Out(u)>>
    BY <1>6 DEF Encrypted, NoCut, NoRekey, In, Out, SignedIn
  <1>13. /\ places'[u].stage = p.stage /\ ~storeExists(u)'
         /\ places'[u].inside = {} /\ places'[u].attached = p.attached /\ places'[u].key = NoValue
         /\ RemoveDirPlan(x) => ~p.attached
    <2>1. CASE RemoveImagePlan(x) /\ q.image = "none" /\ q.key = NoValue /\ q.inside = {} /\ q.attached = p.attached
      BY <1>2, <1>5, <1>11, <2>1 DEF storeExists
    <2>2. CASE /\ RemoveDirPlan(x) /\ q.image = "none" /\ ~q.attached
               /\ q.image = p.image /\ q.key = p.key /\ q.inside = p.inside /\ q.attached = p.attached
      BY <1>2, <1>3, <1>5, <2>2 DEF storeExists, OfUser, Imageless
    <2> QED
      BY <1>2, <2>1, <2>2
  <1>22. p.attached => Encrypted(u)
    BY <1>3, <1>8 DEF OfUser, Imageless
  <1>14. Underway(u, y)'
    <2>3. UnregisterPlan(y) => ~places'[u].attached
      BY <1>8, <1>11, <1>13
    <2>1. UnregisterPlan(y) /\ NoCut(u)' => OnDisk(u)' = {}
      <3>1. UnregisterPlan(y) => RemoveDirPlan(x) /\ q.plain = NoValue
        BY <1>2, <1>11
      <3>2. NoCut(u) => p.stage = NoValue
        BY <1>3, <1>8, <1>10 DEF OfUser, InPlace
      <3> QED
        BY <1>5, <1>7, <1>12, <1>13, <3>1, <3>2 DEF OnDisk
    <2>2. Deleting(u, y)'
      BY <1>4, <1>6, <1>8, <1>9, <1>12, <1>13, <2>1, <2>3 DEF Deleting
    <2> QED
      BY <2>2 DEF Underway
  <1>15. file'[u] = file[u] /\ wrote'[u] = {}
    BY <1>6, <1>8
  <1>16. Imageless(u)' /\ Unknown(u)' /\ Passworded(u)'
    BY <1>3, <1>6, <1>8, <1>12, <1>13, <1>15, <1>22 DEF OfUser, Imageless, Unknown, Passworded
  <1>17. Keyed(u)' /\ OnTheDisk(u)'
    BY <1>13, <1>15 DEF Keyed, OnTheDisk
  <1>18. InPlace(u)'
    BY <1>3, <1>8, <1>10, <1>12, <1>13, <1>15 DEF OfUser, InPlace
  <1>19. OverVolume(u)' /\ Attended(u)'
    BY <1>6, <1>8, <1>13 DEF OverVolume, Attended, isMounted, storeExists
  <1>20. Served(u)' /\ DrivenOf(u)'
    BY <1>3, <1>6, <1>8, <1>10, <1>12, <1>15 DEF OfUser, Served, DrivenOf
  <1>21. OfUser(u)'
    BY <1>16, <1>17, <1>18, <1>19, <1>20 DEF OfUser
  <1> QED
    BY <1>1, <1>2, <1>4, <1>14, <1>21, PlacesStep

(* A step that writes the user's record, and no more of what others see.   *)
LEMMA FileStep ==
  ASSUME UsersInv, op.todo # <<>>, Head(op.todo) # "serve", begun, up,
         NEW u \in Ids, op.user = u, NEW r \in UserRecords \cup {NoValue}, file' = [file EXCEPT ![u] = r],
         NEW q \in Places, At(u, q),
         op' \in OpRecords, op'.user = u, NEW y, op'.todo = y, begun' = TRUE,
         UNCHANGED <<root, lanFile, up, apps, driven, sessions, bound, standing, wrote, cut, excused, upsets>>,
         OfUser(u)',
         y # <<>> => Underway(u, y)'
  PROVE  UsersInv'
  <1>1. /\ ~ServePlan(op.todo) /\ Typed /\ root = {}
    BY Heads DEF UsersInv, Begun
  <1>2. /\ places' \in [Ids -> Places]
        /\ \A w \in Ids : w # u => places'[w] = places[w]
    BY <1>1, PlaceAt
  <1>3. /\ file' \in [Ids -> UserRecords \cup {NoValue}]
        /\ \A w \in Ids : w # u => file'[w] = file[w]
    BY <1>1 DEF Typed, TypeOK
  <1>4. Typed'
    BY <1>1, <1>2, <1>3 DEF Typed, TypeOK, OpRecords
  <1>5. \A w \in Ids \ {u} : Untouched(w)
    BY <1>2, <1>3 DEF Untouched, SignedIn
  <1> QED
    BY <1>1, <1>4, <1>5, StepKept

(* Somebody is put into the user file who was not there.                   *)
LEMMA RegisterKept ==
  ASSUME UsersInv, writeUsersFile, Head(op.todo) = "register", begun
  PROVE  UsersInv'
  <1>0. op.user \in Ids /\ places \in [Ids -> Places] /\ Typed
        /\ file \in [Ids -> UserRecords \cup {NoValue}]
    BY OpFields DEF UsersInv, Typed, TypeOK
  <1> PICK u \in Ids : u = op.user
    BY <1>0
  <1> PICK x : x = op.todo
    OBVIOUS
  <1> PICK y : y = Tail(op.todo)
    OBVIOUS
  <1> PICK p \in Places : p = places[u]
    BY <1>0
  <1> DEFINE r == [password |-> op.password, encrypted |-> FALSE]
  <1>1. /\ x # <<>> /\ Head(x) = "register" /\ Done /\ up /\ begun' = TRUE
        /\ file' = [file EXCEPT ![u] = r]
        /\ At(u, [p EXCEPT !.plain = Entries(@)])
        /\ UNCHANGED <<root, lanFile, up, apps, driven, sessions, bound, standing, wrote, cut, excused, upsets>>
    BY DEF writeUsersFile, Doing, Idle, memory, ghosts
  <1>22. r \in UserRecords /\ r.password = op.password /\ ~r.encrypted /\ r # NoValue
    <2>1. op.password \in Passwords \cup {NoValue}
      BY <1>0, OpFields
    <2>2. r \in UserRecords
      BY <2>1 DEF UserRecords
    <2> QED
      BY <2>2, NoValues
  <1> HIDE DEF r
  <1>3. /\ Underway(u, x) /\ OfUser(u) /\ Typed /\ root = {}
    BY <1>0, <1>1, Heads DEF UsersInv, Planned, Starting, Begun
  <1>4. /\ op' \in OpRecords /\ op'.todo = y /\ op'.user = u
        /\ op'.password = op.password /\ op'.old = op.old /\ op'.kind = op.kind
    BY <1>1, <1>0, DoneOp
  <1>8. RegisterNew(x) /\ op.kind = "open" /\ op.password \in Passwords /\ file[u] = NoValue
    BY <1>1, <1>3, Heads DEF Underway, Adding, Unlocking, Encrypting, FirstPassword, Rekeying, Deleting, LoggingOut
  <1>2. PICK q \in Places : /\ At(u, q) /\ q.stage = p.stage /\ q.image = p.image
                            /\ q.key = p.key /\ Entries(q.plain) = Entries(p.plain) /\ q.attached = p.attached
                            /\ q.inside = p.inside
    <2> DEFINE z == [p EXCEPT !.plain = Entries(p.plain)]
    <2>1. At(u, z)
      BY <1>1
    <2>3. Entries(p.plain) \in (SUBSET Items) \cup {NoValue} /\ Entries(Entries(p.plain)) = Entries(p.plain)
      BY PlaceFields, EntriesOf
    <2>2. /\ z \in Places /\ z.stage = p.stage /\ z.image = p.image
          /\ z.key = p.key /\ z.plain = Entries(p.plain) /\ z.attached = p.attached
          /\ z.inside = p.inside
      BY <2>3 DEF Places
    <2> HIDE DEF z
    <2> QED
      BY <2>1, <2>2, <2>3
  <1>5. /\ places' \in [Ids -> Places] /\ places'[u] = q /\ file'[u] = r
    BY <1>0, <1>1, <1>2, PlaceAt
  <1>6. begun
    OBVIOUS
  <1>9. IF Volume THEN CreateNew(y) ELSE OpenNew(y)
    BY <1>8 DEF RegisterNew
  <1>10. ~Moving(x) /\ ~Changing(x) /\ ~Away(x) /\ ~WipePlan(x) /\ y # <<>>
    BY <1>1, <1>9, Heads DEF Moving, Changing, Away
  <1>12. UNCHANGED <<NoCut(u), NoRekey(u), In(u)>> /\ ~Encrypted(u)'
    BY <1>1, <1>5, <1>22 DEF NoCut, NoRekey, In, SignedIn, Encrypted
  <1>13. /\ p.image = "none" /\ ~In(u) /\ u \notin apps /\ u \notin standing
         /\ NoCut(u) => p.stage = NoValue /\ wrote[u] = {} /\ OnDisk(u) = {}
    BY <1>3, <1>8 DEF OfUser, Unknown, Served, storeExists, OnTheDisk
  <1>15. /\ places'[u].stage = p.stage /\ places'[u].image = "none"
         /\ places'[u].key = p.key /\ places'[u].inside = p.inside /\ places'[u].attached = p.attached
         /\ Entries(places'[u].plain) = Entries(p.plain) /\ ~storeExists(u)'
    BY <1>2, <1>5, <1>13 DEF storeExists
  <1>14. Underway(u, y)'
    <2>1. Signing(u)' /\ Nothing(u)'
      BY <1>1, <1>4, <1>5, <1>8, <1>12, <1>13, <1>22 DEF Signing, Nothing
    <2>2. u \notin standing'
      BY <1>1, <1>13
    <2>3. Adding(u, y)'
      BY <1>9, <1>12, <2>1, <2>2 DEF Adding
    <2> QED
      BY <2>3 DEF Underway
  <1>16. Imageless(u)' /\ Unknown(u)' /\ Passworded(u)'
    BY <1>3, <1>5, <1>8, <1>12, <1>13, <1>15, <1>22, NoValues DEF OfUser, Imageless, Unknown, Passworded, storeExists
  <1>17. Keyed(u)' /\ OnTheDisk(u)'
    <2>1. OnDisk(u)' = OnDisk(u)
      BY <1>15 DEF OnDisk
    <2> QED
      BY <1>1, <1>3, <1>15, <2>1 DEF OfUser, Keyed, OnTheDisk
  <1>18. InPlace(u)'
    BY <1>1, <1>12, <1>13, <1>15 DEF InPlace
  <1>19. OverVolume(u)' /\ Attended(u)'
    BY <1>12 DEF OverVolume, Attended
  <1>20. Served(u)' /\ DrivenOf(u)'
    BY <1>1, <1>12, <1>13 DEF Served, DrivenOf
  <1>21. OfUser(u)'
    BY <1>16, <1>17, <1>18, <1>19, <1>20 DEF OfUser
  <1> QED
    BY <1>1, <1>2, <1>3, <1>4, <1>14, <1>21, <1>22, FileStep

(* A user's password is written: a first one, or another.                  *)
LEMMA PasswordKept ==
  ASSUME UsersInv, writeUsersFile, Head(op.todo) = "password"
  PROVE  UsersInv'
  <1>0. op.user \in Ids /\ places \in [Ids -> Places] /\ Typed
        /\ file \in [Ids -> UserRecords \cup {NoValue}]
    BY OpFields DEF UsersInv, Typed, TypeOK
  <1> PICK u \in Ids : u = op.user
    BY <1>0
  <1> PICK x : x = op.todo
    OBVIOUS
  <1> PICK y : y = Tail(op.todo)
    OBVIOUS
  <1> PICK p \in Places : p = places[u]
    BY <1>0
  <1> DEFINE r == [file[u] EXCEPT !.password = op.password]
  <1>1. /\ x # <<>> /\ Head(x) = "password" /\ Done /\ begun' = TRUE
        /\ file' = [file EXCEPT ![u] = r]
        /\ UNCHANGED places
        /\ UNCHANGED <<root, lanFile, up, apps, driven, sessions, bound, standing, wrote, cut, excused, upsets>>
    BY DEF writeUsersFile, Doing, Idle, memory, ghosts
  <1>2. At(u, p) /\ p \in Places
    BY <1>0, <1>1 DEF At
  <1>3. /\ begun /\ up /\ Underway(u, x) /\ OfUser(u) /\ Typed /\ root = {}
    BY <1>0, <1>1, AtStep
  <1>4. /\ op' \in OpRecords /\ op'.todo = y /\ op'.user = u
        /\ op'.password = op.password /\ op'.old = op.old /\ op'.kind = op.kind
    BY <1>1, <1>0, DoneOp
  <1>8. /\ op.password \in Passwords /\ file[u] # NoValue
        /\ \/ /\ PasswordFirst(x) /\ op.kind = "encrypt" /\ Out(u) /\ file[u].password = NoValue
           \/ /\ PasswordOpen(x) \/ PasswordAlone(x)
              /\ op.kind = "rekey" /\ In(u)
              /\ PasswordOpen(x) => p.key = op.password /\ u \notin apps /\ p.attached
              /\ PasswordAlone(x) => ~storeExists(u)
    BY <1>1, <1>3, Heads, Apart DEF Underway, Adding, Unlocking, Encrypting, FirstPassword, Rekeying, Deleting, LoggingOut
  <1>22. r \in UserRecords /\ r.password = op.password /\ r.encrypted = Encrypted(u) /\ r # NoValue
    <2>1. file[u] \in UserRecords
      BY <1>0, <1>8
    <2>2. r \in UserRecords /\ r.password = op.password /\ r.encrypted = file[u].encrypted
      BY <1>8, <2>1 DEF UserRecords
    <2> QED
      BY <2>2, NoValues DEF Encrypted
  <1> HIDE DEF r
  <1>5. /\ places' \in [Ids -> Places] /\ places'[u] = p
        /\ file'[u] = r
    BY <1>0, <1>1, <1>2, PlaceAt
  <1>9. /\ PasswordFirst(x) => CloseFirst(y) /\ y # <<>>
        /\ PasswordOpen(x) => ReopenLast(y) /\ y # <<>>
        /\ PasswordAlone(x) => y = <<>>
    BY Heads DEF PasswordFirst, PasswordOpen, PasswordAlone, Ends
  <1>10. /\ ~Moving(x) /\ ~WipePlan(x)
         /\ Away(x) \/ Changing(x) => PasswordOpen(x)
    BY <1>1, Heads DEF Moving, Changing, Away
  <1>12. UNCHANGED <<Encrypted(u), NoCut(u), NoRekey(u), In(u), Out(u), storeExists(u), isMounted(u)>>
    BY <1>1, <1>5, <1>22 DEF NoCut, NoRekey, In, Out, SignedIn, Encrypted, storeExists, isMounted
  <1>14. y # <<>> => Underway(u, y)'
    <2>1. CASE PasswordFirst(x) /\ op.kind = "encrypt" /\ Out(u)
      <3>1. FirstPassword(u, y)'
        BY <1>4, <1>5, <1>8, <1>9, <1>12, <1>22, <2>1 DEF FirstPassword
      <3> QED
        BY <3>1 DEF Underway
    <2>2. CASE PasswordOpen(x) /\ op.kind = "rekey" /\ In(u) /\ p.attached
      <3>2. storeExists(u)
        BY <1>3, <1>8, <2>2, NoValues DEF OfUser, Imageless
      <3>3. OnVolume(u)'
        BY <1>5, <1>12, <2>2, <3>2 DEF OnVolume
      <3>1. Rekeying(u, y)'
        BY <1>4, <1>5, <1>8, <1>9, <1>12, <1>22, <2>2, <3>3 DEF Rekeying
      <3> QED
        BY <3>1 DEF Underway
    <2>3. CASE PasswordAlone(x)
      BY <1>9, <2>3
    <2> QED
      BY <1>8, <2>1, <2>2, <2>3
  <1>16. Imageless(u)' /\ Unknown(u)' /\ Passworded(u)'
    BY <1>1, <1>3, <1>5, <1>8, <1>12, <1>22, NoValues DEF OfUser, Imageless, Unknown, Passworded
  <1>17. Keyed(u)' /\ OnTheDisk(u)'
    <2>1. Keyed(u)'
      <3>1. CASE PasswordFirst(x) /\ file[u].password = NoValue
        BY <1>3, <1>8, <1>12, <3>1 DEF OfUser, Keyed, Passworded
      <3>2. CASE PasswordOpen(x) /\ p.key = op.password
        BY <1>5, <1>22, <3>2 DEF Keyed
      <3>3. CASE PasswordAlone(x) /\ ~storeExists(u)
        BY <1>12, <3>3 DEF Keyed
      <3> QED
        BY <1>8, <3>1, <3>2, <3>3
    <2>2. OnDisk(u)' = OnDisk(u)
      BY <1>1 DEF OnDisk
    <2> QED
      BY <1>1, <1>3, <2>1, <2>2 DEF OfUser, OnTheDisk
  <1>18. InPlace(u)'
    BY <1>1, <1>3, <1>8, <1>10, <1>12 DEF OfUser, InPlace
  <1>19. OverVolume(u)' /\ Attended(u)'
    <2>1. OverVolume(u)'
      BY <1>1, <1>3, <1>8, <1>12 DEF OfUser, OverVolume
    <2>2. Attended(u)'
      <3>1. CASE In(u)
        BY <1>12, <3>1 DEF Attended
      <3>2. CASE ~In(u)
        BY <1>3, <1>8, <1>12, <3>2 DEF OfUser, Passworded, Attended
      <3> QED
        BY <3>1, <3>2
    <2> QED
      BY <2>1, <2>2
  <1>20. Served(u)' /\ DrivenOf(u)'
    <2>1. Served(u)'
      <3>1. CASE PasswordOpen(x)
        BY <1>3, <1>4, <1>5, <1>8, <1>9, <1>12, <1>22, <3>1, NoValues DEF OfUser, Served, Acting, Idle, Away
      <3>2. CASE ~PasswordOpen(x)
        BY <1>1, <1>3, <1>5, <1>8, <1>10, <1>12, <1>22, <3>2, NoValues DEF OfUser, Served
      <3> QED
        BY <3>1, <3>2
    <2>2. DrivenOf(u)'
      BY <1>1, <1>3, <1>10, <1>12 DEF OfUser, DrivenOf
    <2> QED
      BY <2>1, <2>2
  <1>21. OfUser(u)'
    BY <1>16, <1>17, <1>18, <1>19, <1>20 DEF OfUser
  <1> QED
    BY <1>1, <1>2, <1>3, <1>4, <1>14, <1>21, <1>22, FileStep

(* The user file says that the household is in the volume.                 *)
LEMMA MarkKept ==
  ASSUME UsersInv, writeUsersFile, Head(op.todo) = "mark"
  PROVE  UsersInv'
  <1>0. op.user \in Ids /\ places \in [Ids -> Places] /\ Typed
        /\ file \in [Ids -> UserRecords \cup {NoValue}]
    BY OpFields DEF UsersInv, Typed, TypeOK
  <1> PICK u \in Ids : u = op.user
    BY <1>0
  <1> PICK x : x = op.todo
    OBVIOUS
  <1> PICK y : y = Tail(op.todo)
    OBVIOUS
  <1> PICK p \in Places : p = places[u]
    BY <1>0
  <1> DEFINE r == [file[u] EXCEPT !.encrypted = TRUE]
  <1>1. /\ x # <<>> /\ Head(x) = "mark" /\ Done /\ begun' = TRUE
        /\ file' = [file EXCEPT ![u] = r]
        /\ UNCHANGED places
        /\ UNCHANGED <<root, lanFile, up, apps, driven, sessions, bound, standing, wrote, cut, excused, upsets>>
    BY DEF writeUsersFile, Doing, Idle, memory, ghosts
  <1>2. At(u, p) /\ p \in Places
    BY <1>0, <1>1 DEF At
  <1>3. /\ begun /\ up /\ Underway(u, x) /\ OfUser(u) /\ Typed /\ root = {}
    BY <1>0, <1>1, AtStep
  <1>4. /\ op' \in OpRecords /\ op'.todo = y /\ op'.user = u
        /\ op'.password = op.password /\ op'.old = op.old /\ op'.kind = op.kind
    BY <1>1, <1>0, DoneOp
  <1>8. /\ Volume /\ Signing(u) /\ ~Encrypted(u) /\ p.attached
        /\ \/ MarkNew(x) /\ u \notin standing /\ Nothing(u)
           \/ MarkPlan(x) /\ (NoCut(u) => wrote[u] \subseteq p.inside /\ p.stage = NoValue)
    BY <1>1, <1>3, Heads DEF Underway, Adding, Unlocking, Encrypting, FirstPassword, Rekeying, Deleting, LoggingOut
  <1>22. /\ r \in UserRecords /\ r.password = file[u].password /\ r.encrypted /\ r # NoValue
         /\ file[u] # NoValue /\ file[u].password = op.password /\ op.password \in Passwords
    <2>1. file[u] \in UserRecords /\ file[u] # NoValue /\ file[u].password = op.password /\ op.password \in Passwords
      BY <1>0, <1>8 DEF Signing
    <2>2. r \in UserRecords /\ r.password = file[u].password /\ r.encrypted
      BY <2>1 DEF UserRecords
    <2> QED
      BY <2>1, <2>2, NoValues
  <1> HIDE DEF r
  <1>5. /\ places' \in [Ids -> Places] /\ places'[u] = p
        /\ file'[u] = r
    BY <1>0, <1>1, <1>2, PlaceAt
  <1>9. /\ MarkNew(x) => OpenNew(y)
        /\ MarkPlan(x) => ReopenPlan(y)
    BY DEF MarkNew, MarkPlan
  <1>11. y # <<>> /\ Head(y) \in {"open", "reopen"}
    BY <1>8, <1>9, Heads
  <1>10. /\ ~WipePlan(x) /\ ~Away(x) /\ ~Changing(x)
         /\ Moving(x) => MarkPlan(x)
    BY <1>1, Heads DEF Moving, Changing, Away
  <1>12. UNCHANGED <<NoCut(u), NoRekey(u), In(u), storeExists(u), isMounted(u)>> /\ Encrypted(u)'
    BY <1>1, <1>5, <1>22 DEF NoCut, NoRekey, In, SignedIn, Encrypted, storeExists, isMounted
  <1>14. Underway(u, y)'
    <2>4. storeExists(u)
      BY <1>3, <1>8 DEF OfUser, Imageless
    <2>1. Signing(u)' /\ OnVolume(u)'
      BY <1>1, <1>4, <1>5, <1>8, <1>12, <1>22, <2>4 DEF Signing, OnVolume
    <2>2. CASE MarkNew(x) /\ u \notin standing
      <3>1. Adding(u, y)'
        BY <1>1, <1>9, <1>12, <2>1, <2>2 DEF Adding
      <3> QED
        BY <3>1 DEF Underway
    <2>3. CASE MarkPlan(x)
      <3>1. Unlocking(u, y)'
        BY <1>9, <1>12, <2>1, <2>3 DEF Unlocking
      <3> QED
        BY <3>1 DEF Underway
    <2> QED
      BY <1>8, <2>2, <2>3
  <1>16. Imageless(u)' /\ Unknown(u)' /\ Passworded(u)'
    BY <1>1, <1>3, <1>5, <1>8, <1>12, <1>22, NoValues DEF OfUser, Imageless, Unknown, Passworded
  <1>17. Keyed(u)' /\ OnTheDisk(u)'
    <2>1. Keyed(u)'
      BY <1>1, <1>3, <1>5, <1>10, <1>12, <1>22 DEF OfUser, Keyed
    <2>2. OnDisk(u)' = OnDisk(u)
      BY <1>1 DEF OnDisk
    <2> QED
      BY <1>1, <1>3, <2>1, <2>2 DEF OfUser, OnTheDisk
  <1>18. InPlace(u)'
    <2>1. NoCut(u) => wrote[u] \subseteq p.inside /\ p.stage = NoValue
      <3>1. CASE MarkNew(x) /\ Nothing(u)
        <4>1. ~Moving(x)
          BY <1>10, <3>1, Apart
        <4> QED
          BY <1>3, <1>22, <3>1, <4>1 DEF OfUser, InPlace, Nothing
      <3> QED
        BY <1>8, <3>1
    <2> QED
      BY <1>1, <1>5, <1>12, <2>1 DEF InPlace
  <1>19. OverVolume(u)' /\ Attended(u)'
    BY <1>4, <1>5, <1>8, <1>11 DEF OverVolume, Attended, Acting, Idle, MayFail
  <1>20. Served(u)' /\ DrivenOf(u)'
    <2>1. Served(u)'
      BY <1>1, <1>3, <1>5, <1>8, <1>10, <1>12, <1>22, NoValues DEF OfUser, Served
    <2>2. DrivenOf(u)'
      BY <1>1, <1>3, <1>10, <1>12 DEF OfUser, DrivenOf
    <2> QED
      BY <2>1, <2>2
  <1>21. OfUser(u)'
    BY <1>16, <1>17, <1>18, <1>19, <1>20 DEF OfUser
  <1> QED
    BY <1>1, <1>2, <1>3, <1>4, <1>14, <1>21, <1>22, FileStep

(* Who is deleted leaves the user file, and nothing else.                  *)
LEMMA UnregisterKept ==
  ASSUME UsersInv, writeUsersFile, Head(op.todo) = "unregister"
  PROVE  UsersInv'
  <1>0. op.user \in Ids /\ places \in [Ids -> Places] /\ Typed
        /\ file \in [Ids -> UserRecords \cup {NoValue}]
    BY OpFields DEF UsersInv, Typed, TypeOK
  <1> PICK u \in Ids : u = op.user
    BY <1>0
  <1> PICK x : x = op.todo
    OBVIOUS
  <1> PICK y : y = Tail(op.todo)
    OBVIOUS
  <1> PICK p \in Places : p = places[u]
    BY <1>0
  <1>1. /\ x # <<>> /\ Head(x) = "unregister" /\ Done /\ begun' = TRUE
        /\ file' = [file EXCEPT ![u] = NoValue]
        /\ UNCHANGED places
        /\ UNCHANGED <<root, lanFile, up, apps, driven, sessions, bound, standing, wrote, cut, excused, upsets>>
    BY DEF writeUsersFile, Doing, Idle, memory, ghosts
  <1>2. At(u, p) /\ p \in Places
    BY <1>0, <1>1 DEF At
  <1>3. /\ begun /\ up /\ Underway(u, x) /\ OfUser(u) /\ Typed /\ root = {}
    BY <1>0, <1>1, AtStep
  <1>4. /\ op' \in OpRecords /\ op'.todo = y /\ op'.user = u
        /\ op'.password = op.password /\ op'.old = op.old /\ op'.kind = op.kind
    BY <1>1, <1>0, DoneOp
  <1>8. /\ op.kind = "delete" /\ UnregisterPlan(x) /\ ~storeExists(u) /\ file[u] # NoValue
        /\ wrote[u] = {} /\ u \notin apps /\ u \notin standing /\ Out(u)
        /\ ~places[u].attached
        /\ NoCut(u) => OnDisk(u) = {}
    BY <1>1, <1>3, Heads DEF Underway, Adding, Unlocking, Encrypting, FirstPassword, Rekeying, Deleting, LoggingOut
  <1>5. file'[u] = NoValue
    BY <1>0, <1>1
  <1>9. ExitPlan(y)
    BY <1>8 DEF UnregisterPlan
  <1>10. ~Moving(x)
    BY <1>1, Heads DEF Moving
  <1>12. UNCHANGED <<NoCut(u), In(u), storeExists(u), OnDisk(u)>>
    BY <1>1 DEF NoCut, In, SignedIn, storeExists, OnDisk
  <1>14. Underway(u, y)'
    <2>1. Deleting(u, y)'
      BY <1>4, <1>5, <1>8, <1>9 DEF Deleting
    <2> QED
      BY <2>1 DEF Underway
  <1>16. Imageless(u)' /\ Unknown(u)' /\ Passworded(u)'
    BY <1>1, <1>3, <1>5, <1>8, <1>10, <1>12 DEF OfUser, Imageless, Unknown, Passworded, InPlace
  <1>17. Keyed(u)' /\ OnTheDisk(u)' /\ InPlace(u)'
    BY <1>1, <1>5, <1>8 DEF Keyed, OnTheDisk, InPlace
  <1>19. OverVolume(u)' /\ Attended(u)'
    BY <1>5 DEF OverVolume, Attended
  <1>20. Served(u)' /\ DrivenOf(u)'
    BY <1>1, <1>8, <1>12 DEF Served, DrivenOf, In, Out
  <1>21. OfUser(u)'
    BY <1>16, <1>17, <1>19, <1>20 DEF OfUser
  <1> QED
    BY <1>1, <1>2, <1>3, <1>4, <1>14, <1>21, FileStep

(* The App of a user closes, and what it drives with it.                   *)
LEMMA CloseKept ==
  ASSUME UsersInv, CloseApp
  PROVE  UsersInv'
  <1>0. op.user \in Ids /\ places \in [Ids -> Places] /\ Typed
    BY OpFields DEF UsersInv, Typed, TypeOK
  <1> PICK u \in Ids : u = op.user
    BY <1>0
  <1> PICK x : x = op.todo
    OBVIOUS
  <1> PICK y : y = Tail(op.todo)
    OBVIOUS
  <1> PICK p \in Places : p = places[u]
    BY <1>0
  <1>1. /\ x # <<>> /\ Head(x) = "close" /\ Done
        /\ apps' = apps \ {u} /\ driven' = driven \ {u}
        /\ UNCHANGED <<file, places, root, lanFile, begun, up, sessions, bound, standing, wrote, cut, excused, upsets>>
    BY DEF CloseApp, Closed, Doing, Idle, disk, ghosts
  <1>3. /\ begun /\ up /\ Underway(u, x) /\ OfUser(u) /\ Typed /\ root = {}
    BY <1>0, <1>1, AtStep
  <1>4. /\ op' \in OpRecords /\ op'.todo = y /\ op'.user = u
        /\ op'.password = op.password /\ op'.old = op.old /\ op'.kind = op.kind
    BY <1>1, <1>0, DoneOp
  <1>8. /\ file[u] # NoValue
        /\ \/ /\ CloseFirst(x) /\ op.kind = "encrypt" /\ op.password \in Passwords /\ Out(u)
              /\ file[u].password = op.password
           \/ /\ CloseRekey(x) /\ op.kind = "rekey" /\ op.password \in Passwords /\ In(u)
              /\ file[u].password = op.old
           \/ CloseLast(x) /\ op.kind = "open" /\ Out(u)
    BY <1>1, <1>3, Heads DEF Underway, Adding, Unlocking, Encrypting, FirstPassword, Rekeying, Deleting, LoggingOut
  <1>9. /\ CloseFirst(x) => TwicePlan(y)
        /\ CloseRekey(x) => DetachPlan(y)
        /\ CloseLast(x) => LockLast(y)
    BY DEF CloseFirst, CloseRekey, CloseLast
  <1>10. ~Moving(x) /\ ~Changing(x) /\ ~Away(x) /\ ~WipePlan(x)
    BY <1>1, Heads DEF Moving, Changing, Away
  <1>11. y # <<>> /\ (~CloseRekey(x) => Head(y) \in {"unlock", "lock"})
    BY <1>8, <1>9, Heads
  <1>12. UNCHANGED <<Encrypted(u), NoCut(u), NoRekey(u), In(u), Out(u), storeExists(u), isMounted(u), OnDisk(u)>>
    BY <1>1 DEF Encrypted, NoCut, NoRekey, In, Out, SignedIn, storeExists, isMounted, OnDisk
  <1>14. Underway(u, y)'
    <2>1. CASE /\ CloseFirst(x) /\ op.kind = "encrypt" /\ op.password \in Passwords
               /\ file[u].password = op.password
      <3>1. Signing(u)'
        BY <1>1, <1>4, <1>8, <2>1 DEF Signing
      <3>2. op'.kind # "open"
        BY <1>4, <2>1
      <3>3. Unlocking(u, y)'
        BY <1>9, <2>1, <3>1, <3>2 DEF Unlocking
      <3> QED
        BY <3>3 DEF Underway
    <2>2. CASE /\ CloseRekey(x) /\ op.kind = "rekey" /\ op.password \in Passwords /\ In(u)
               /\ file[u].password = op.old
      <3>1. Rekeying(u, y)'
        BY <1>1, <1>4, <1>8, <1>9, <1>12, <2>2 DEF Rekeying
      <3> QED
        BY <3>1 DEF Underway
    <2>3. CASE CloseLast(x) /\ op.kind = "open" /\ Out(u)
      <3>1. LoggingOut(u, y)'
        BY <1>1, <1>4, <1>8, <1>9, <1>12, <2>3 DEF LoggingOut
      <3> QED
        BY <3>1 DEF Underway
    <2> QED
      BY <1>8, <2>1, <2>2, <2>3
  <1>16. Imageless(u)' /\ Unknown(u)' /\ Passworded(u)'
    BY <1>1, <1>3, <1>8, <1>12 DEF OfUser, Imageless, Unknown, Passworded
  <1>17. Keyed(u)' /\ OnTheDisk(u)'
    BY <1>1, <1>3, <1>10, <1>12 DEF OfUser, Keyed, OnTheDisk
  <1>18. InPlace(u)'
    BY <1>1, <1>3, <1>10, <1>12 DEF OfUser, InPlace
  <1>19. OverVolume(u)' /\ Attended(u)'
    <2>1. CASE CloseRekey(x) /\ In(u)
      BY <1>1, <1>12, <2>1 DEF OverVolume, Attended
    <2>2. CASE ~CloseRekey(x)
      BY <1>1, <1>4, <1>11, <2>2 DEF OverVolume, Attended, Acting, Idle, MayFail
    <2> QED
      BY <1>8, <2>1, <2>2, Apart
  <1>20. Served(u)' /\ DrivenOf(u)'
    <2>1. Served(u)'
      <3>1. CASE CloseRekey(x)
        BY <1>1, <1>3, <1>4, <1>8, <1>9, <1>11, <1>12, <3>1 DEF OfUser, Served, Away, Acting, Idle
      <3>2. CASE Out(u)
        BY <1>12, <3>2 DEF Served, In, Out
      <3> QED
        BY <1>8, <3>1, <3>2
    <2>2. DrivenOf(u)'
      BY <1>1 DEF DrivenOf
    <2> QED
      BY <2>1, <2>2
  <1>21. OfUser(u)'
    BY <1>16, <1>17, <1>18, <1>19, <1>20 DEF OfUser
  <1>22. Typed'
    <2>1. apps' \subseteq Ids /\ driven' \subseteq apps'
      BY <1>0, <1>1 DEF Typed, TypeOK
    <2> QED
      BY <1>0, <1>1, <1>4, <2>1 DEF Typed, TypeOK, OpRecords
  <1>23. \A w \in Ids \ {u} : Untouched(w)
    BY <1>1 DEF Untouched, SignedIn
  <1>24. ~ServePlan(op.todo)
    BY <1>1, Heads
  <1> QED
    BY <1>1, <1>3, <1>4, <1>14, <1>21, <1>22, <1>23, <1>24, StepKept

(* The App of a user opens, for the operation or after it.                 *)
LEMMA OpenKept ==
  ASSUME UsersInv, OpenApp
  PROVE  UsersInv'
  <1>0. op.user \in Ids /\ places \in [Ids -> Places] /\ Typed
    BY OpFields DEF UsersInv, Typed, TypeOK
  <1> PICK u \in Ids : u = op.user
    BY <1>0
  <1> PICK x : x = op.todo
    OBVIOUS
  <1> PICK y : y = Tail(op.todo)
    OBVIOUS
  <1> PICK p \in Places : p = places[u]
    BY <1>0
  <1>1. /\ x # <<>> /\ Head(x) \in {"open", "reopen"} /\ Done
        /\ apps' = apps \cup {u}
        /\ driven' = driven \cup (IF Head(x) = "reopen" THEN {u} \cap standing ELSE {})
        /\ At(u, IF u \in apps THEN p ELSE Stored(p, {Db}))
        /\ UNCHANGED <<file, root, lanFile, begun, up, sessions, bound, standing, wrote, cut, excused, upsets>>
    BY DEF OpenApp, bootApp, Resumes, Doing, Idle, ghosts
  <1>3. /\ begun /\ up /\ Underway(u, x) /\ OfUser(u) /\ Typed /\ root = {}
    BY <1>0, <1>1, AtStep
  <1>4. /\ op' \in OpRecords /\ op'.todo = y /\ op'.user = u
        /\ op'.password = op.password /\ op'.old = op.old /\ op'.kind = op.kind
    BY <1>1, <1>0, DoneOp
  <1>2. PICK q \in Places : /\ At(u, q) /\ q.stage = p.stage /\ q.image = p.image
                            /\ q.key = p.key /\ q.attached = p.attached
                            /\ p.inside \subseteq q.inside /\ Entries(p.plain) \subseteq Entries(q.plain)
                            /\ ~p.attached => q.inside = p.inside
    <2>1. CASE u \in apps
      BY <1>1, <2>1
    <2>2. CASE u \notin apps
      <3> DEFINE z == Stored(p, {Db})
      <3>1. {Db} \in SUBSET Items
        BY DEF Items
      <3>2. /\ z \in Places /\ z.stage = p.stage /\ z.image = p.image /\ z.key = p.key /\ z.attached = p.attached
            /\ z.inside = IF p.attached THEN p.inside \cup {Db} ELSE p.inside
            /\ Entries(p.plain) \subseteq Entries(z.plain)
        BY <3>1, StoredIs
      <3>3. At(u, z)
        BY <1>1, <2>2
      <3> HIDE DEF z
      <3> QED
        BY <3>2, <3>3
    <2> QED
      BY <2>1, <2>2
  <1>5. /\ places' \in [Ids -> Places] /\ places'[u] = q
    BY <1>0, <1>2, PlaceAt
  <1>8. /\ file[u] # NoValue /\ (Encrypted(u) => p.attached /\ storeExists(u)) /\ (Head(x) = "open" /\ Volume => Encrypted(u))
        /\ \/ OpenNew(x) /\ Signing(u) /\ u \notin standing /\ (Volume => Encrypted(u)) /\ Head(x) = "open"
           \/ OpenWipe(x) /\ op.kind = "delete" /\ Head(x) = "open"
           \/ ReopenPlan(x) /\ Signing(u) /\ (Volume => Encrypted(u)) /\ Head(x) = "reopen"
           \/ ReopenLast(x) /\ In(u) /\ Head(x) = "reopen"
    BY <1>1, <1>3, Heads DEF Underway, Adding, Unlocking, Encrypting, FirstPassword, Rekeying, Deleting, LoggingOut, Signing, OnVolume
  <1>9. /\ OpenNew(x) => UnlockPlan(y)
        /\ OpenWipe(x) => WipePlan(y)
        /\ ReopenPlan(x) => SessionPlan(y) \/ UnlockPlan(y)
        /\ ReopenLast(x) => y = <<>>
    BY DEF OpenNew, OpenWipe, ReopenPlan, ReopenLast, Ends
  <1>10. ~Moving(x) /\ ~Changing(x) /\ ~WipePlan(x)
    BY <1>1, Heads DEF Moving, Changing
  <1>11. /\ ~ReopenLast(x) => y # <<>> /\ Head(y) \in {"unlock", "wipe", "session"}
         /\ WipePlan(y) => y # <<>>
    BY <1>8, <1>9, Heads
  <1>12. UNCHANGED <<Encrypted(u), NoCut(u), NoRekey(u), In(u)>> /\ (Signing(u) => Signing(u)')
    BY <1>1, <1>4 DEF Encrypted, NoCut, NoRekey, In, SignedIn, Signing
  <1>13. /\ places'[u].stage = p.stage /\ places'[u].image = p.image
         /\ places'[u].key = p.key /\ places'[u].attached = p.attached
         /\ p.inside \subseteq places'[u].inside /\ Entries(p.plain) \subseteq Entries(places'[u].plain)
         /\ ~p.attached => places'[u].inside = p.inside
         /\ storeExists(u)' = storeExists(u) /\ isMounted(u)' = isMounted(u)
    BY <1>2, <1>5 DEF storeExists, isMounted
  <1>14. y # <<>> => Underway(u, y)'
    <2>1. CASE OpenNew(x) /\ Signing(u) /\ (Volume => Encrypted(u))
      <3>1. Unlocking(u, y)'
        BY <1>9, <1>12, <2>1 DEF Unlocking
      <3> QED
        BY <3>1 DEF Underway
    <2>2. CASE OpenWipe(x) /\ op.kind = "delete"
      <3>2. p.attached => storeExists(u)
        BY <1>3, <1>8 DEF OfUser, Imageless
      <3>3. Volume => Encrypted(u)
        BY <1>8, <2>2, Heads
      <3>1. Deleting(u, y)'
        BY <1>1, <1>4, <1>8, <1>9, <1>12, <1>13, <2>2, <3>2, <3>3 DEF Deleting
      <3> QED
        BY <3>1 DEF Underway
    <2>3. CASE ReopenPlan(x) /\ Signing(u) /\ (Volume => Encrypted(u))
      <3>1. u \in apps'
        BY <1>1
      <3>2. Unlocking(u, y)'
        BY <1>9, <1>12, <2>3, <3>1 DEF Unlocking
      <3> QED
        BY <3>2 DEF Underway
    <2>4. CASE ReopenLast(x)
      BY <1>9, <2>4
    <2> QED
      BY <1>8, <2>1, <2>2, <2>3, <2>4
  <1>16. Imageless(u)' /\ Unknown(u)' /\ Passworded(u)'
    BY <1>1, <1>3, <1>8, <1>12, <1>13 DEF OfUser, Imageless, Unknown, Passworded
  <1>17. Keyed(u)' /\ OnTheDisk(u)'
    <2>1. Keyed(u)'
      BY <1>1, <1>3, <1>10, <1>12, <1>13 DEF OfUser, Keyed
    <2>2. OnDisk(u) \subseteq OnDisk(u)'
      BY <1>13 DEF OnDisk
    <2> QED
      BY <1>1, <1>3, <2>1, <2>2 DEF OfUser, OnTheDisk
  <1>18. InPlace(u)'
    BY <1>1, <1>3, <1>8, <1>10, <1>12, <1>13 DEF OfUser, InPlace
  <1>19. OverVolume(u)' /\ Attended(u)'
    <2>1. OverVolume(u)'
      BY <1>8, <1>12, <1>13 DEF OverVolume
    <2>2. Attended(u)'
      <3>1. CASE ReopenLast(x) /\ In(u)
        BY <1>12, <3>1 DEF Attended
      <3>2. CASE ~ReopenLast(x)
        BY <1>4, <1>11, <3>2 DEF Attended, Acting, Idle, MayFail
      <3> QED
        BY <1>8, <3>1, <3>2, Apart, Heads
    <2> QED
      BY <2>1, <2>2
  <1>20. Served(u)' /\ DrivenOf(u)'
    <2>1. Served(u)'
      BY <1>1, <1>3, <1>12 DEF OfUser, Served
    <2>2. DrivenOf(u)'
      <3>1. CASE Head(x) = "reopen"
        BY <1>1, <3>1 DEF DrivenOf
      <3>2. CASE OpenNew(x) /\ u \notin standing
        BY <1>1, <3>2 DEF DrivenOf
      <3>3. CASE OpenWipe(x)
        BY <1>4, <1>9, <1>11, <3>3 DEF DrivenOf, Acting, Idle
      <3> QED
        BY <1>8, <3>1, <3>2, <3>3
    <2> QED
      BY <2>1, <2>2
  <1>21. OfUser(u)'
    BY <1>16, <1>17, <1>18, <1>19, <1>20 DEF OfUser
  <1>22. Typed'
    <2>1. apps' \subseteq Ids /\ driven' \subseteq apps'
      BY <1>0, <1>1 DEF Typed, TypeOK
    <2> QED
      BY <1>0, <1>1, <1>4, <1>5, <2>1 DEF Typed, TypeOK, OpRecords
  <1>23. \A w \in Ids \ {u} : Untouched(w)
    <2>1. \A w \in Ids : w # u => places'[w] = places[w]
      BY <1>0, <1>2, PlaceAt
    <2> QED
      BY <1>1, <2>1 DEF Untouched, SignedIn
  <1>24. ~ServePlan(op.todo)
    BY <1>1, Heads
  <1> QED
    BY <1>1, <1>3, <1>4, <1>14, <1>21, <1>22, <1>23, <1>24, StepKept

(* A session starts: its user's App is open, over the volume if there is   *)
(* one.                                                                    *)
LEMMA SessionKept ==
  ASSUME UsersInv, Session
  PROVE  UsersInv'
  <1>0. op.user \in Ids /\ places \in [Ids -> Places] /\ Typed
    BY OpFields DEF UsersInv, Typed, TypeOK
  <1> PICK u \in Ids : u = op.user
    BY <1>0
  <1> PICK x : x = op.todo
    OBVIOUS
  <1> PICK y : y = Tail(op.todo)
    OBVIOUS
  <1> PICK p \in Places : p = places[u]
    BY <1>0
  <1> PICK t \in Tokens : sessions[t] = NoValue /\ sessions' = [sessions EXCEPT ![t] = [user |-> u, idle |-> FALSE]]
    BY DEF Session
  <1> DEFINE r == [user |-> u, idle |-> FALSE]
  <1>1. /\ x # <<>> /\ Head(x) = "session" /\ Done
        /\ excused' = excused \ {u}
        /\ UNCHANGED <<file, places, root, lanFile, begun, up, apps, driven, bound, standing, wrote, cut, upsets>>
    BY DEF Session, Doing, Idle, disk
  <1>3. /\ begun /\ up /\ Underway(u, x) /\ OfUser(u) /\ Typed /\ root = {}
    BY <1>0, <1>1, AtStep
  <1>4. /\ op' \in OpRecords /\ op'.todo = y /\ op'.user = u
        /\ op'.password = op.password /\ op'.old = op.old /\ op'.kind = op.kind
    BY <1>1, <1>0, DoneOp
  <1>2. r \in SessionRecords /\ r.user = u /\ r # NoValue
    <2>1. r \in SessionRecords
      BY DEF SessionRecords
    <2> QED
      BY <2>1, NoValues
  <1> HIDE DEF r
  <1>5. /\ sessions \in [Tokens -> SessionRecords \cup {NoValue}]
        /\ sessions' \in [Tokens -> SessionRecords \cup {NoValue}]
        /\ sessions'[t] = r /\ \A s \in Tokens \ {t} : sessions'[s] = sessions[s]
    BY <1>0, <1>2 DEF Typed, TypeOK, r
  <1>8. SessionPlan(x) /\ Signing(u) /\ u \in apps /\ (Volume => Encrypted(u))
    BY <1>1, <1>3, Heads DEF Underway, Adding, Unlocking, Encrypting, FirstPassword, Rekeying, Deleting, LoggingOut
  <1>9. y = <<>>
    BY <1>8 DEF SessionPlan, Ends
  <1>10. ~Moving(x) /\ ~Changing(x) /\ ~Away(x) /\ ~WipePlan(x)
    BY <1>1, Heads DEF Moving, Changing, Away
  <1>12. UNCHANGED <<Encrypted(u), NoCut(u), NoRekey(u), storeExists(u), isMounted(u), OnDisk(u)>>
    BY <1>1 DEF Encrypted, NoCut, NoRekey, storeExists, isMounted, OnDisk
  <1>13. In(u)' /\ file[u] # NoValue /\ file[u].password # NoValue
    BY <1>2, <1>5, <1>8, NoValues DEF In, SignedIn, Signing
  <1>16. Imageless(u)' /\ Unknown(u)' /\ Passworded(u)'
    BY <1>1, <1>3, <1>12 DEF OfUser, Imageless, Unknown, Passworded
  <1>17. Keyed(u)' /\ OnTheDisk(u)'
    BY <1>1, <1>3, <1>10, <1>12 DEF OfUser, Keyed, OnTheDisk
  <1>18. InPlace(u)'
    BY <1>1, <1>3, <1>10, <1>12 DEF OfUser, InPlace
  <1>19. OverVolume(u)' /\ Attended(u)'
    BY <1>1, <1>3, <1>12, <1>13 DEF OfUser, OverVolume, Attended
  <1>20. Served(u)' /\ DrivenOf(u)'
    BY <1>1, <1>3, <1>8, <1>10, <1>12, <1>13 DEF OfUser, Served, DrivenOf
  <1>21. OfUser(u)'
    BY <1>16, <1>17, <1>18, <1>19, <1>20 DEF OfUser
  <1>22. Typed'
    <2>1. excused' \subseteq Ids
      BY <1>0, <1>1 DEF Typed, TypeOK
    <2> QED
      BY <1>0, <1>1, <1>4, <1>5, <2>1 DEF Typed, TypeOK, OpRecords
  <1>23. ASSUME NEW w \in Ids \ {u}
         PROVE  Untouched(w)
    <2>1. \A s \in Tokens : SignedIn(s, w)' <=> SignedIn(s, w)
      BY <1>2, <1>5 DEF SignedIn
    <2> QED
      BY <1>1, <2>1 DEF Untouched
  <1>24. ~ServePlan(op.todo)
    BY <1>1, Heads
  <1> QED
    BY <1>1, <1>3, <1>4, <1>9, <1>21, <1>22, <1>23, <1>24, StepKept

(* A user's data are emptied, and the sessions and the App go.             *)
LEMMA WipeKept ==
  ASSUME UsersInv, Wipe
  PROVE  UsersInv'
  <1>0. op.user \in Ids /\ places \in [Ids -> Places] /\ Typed
    BY OpFields DEF UsersInv, Typed, TypeOK
  <1> PICK u \in Ids : u = op.user
    BY <1>0
  <1> PICK x : x = op.todo
    OBVIOUS
  <1> PICK y : y = Tail(op.todo)
    OBVIOUS
  <1> PICK p \in Places : p = places[u]
    BY <1>0
  <1>1. /\ x # <<>> /\ Head(x) = "wipe" /\ Done
        /\ \E left \in SUBSET p.inside, image \in {"bare", p.image} :
             At(u, IF p.attached THEN [p EXCEPT !.inside = left, !.image = image] ELSE [p EXCEPT !.plain = NoValue])
        /\ apps' = apps \ {u} /\ driven' = driven \ {u}
        /\ sessions' = [t \in Tokens |-> IF SignedIn(t, u) THEN NoValue ELSE sessions[t]]
        /\ standing' = standing \ {u}
        /\ wrote' = [wrote EXCEPT ![u] = {}]
        /\ UNCHANGED <<file, root, lanFile, begun, up, bound, cut, excused, upsets>>
    BY DEF Wipe, Closed, Doing, Idle
  <1>3. /\ begun /\ up /\ Underway(u, x) /\ OfUser(u) /\ Typed /\ root = {}
    BY <1>0, <1>1, AtStep
  <1>4. /\ op' \in OpRecords /\ op'.todo = y /\ op'.user = u
        /\ op'.password = op.password /\ op'.old = op.old /\ op'.kind = op.kind
    BY <1>1, <1>0, DoneOp
  <1>2. PICK q \in Places : /\ At(u, q) /\ q.stage = p.stage
                            /\ q.image = p.image \/ (q.image = "bare" /\ p.attached)
                            /\ q.key = p.key /\ q.attached = p.attached /\ q.inside \subseteq p.inside
    <2>1. CASE p.attached
      <3> PICK left \in SUBSET p.inside, image \in {"bare", p.image} :
                 At(u, [p EXCEPT !.inside = left, !.image = image])
        BY <1>1, <2>1
      <3> DEFINE half == [p EXCEPT !.inside = left]
                 z == [half EXCEPT !.image = image]
      <3>1. left \in SUBSET Items /\ image \in {"none", "bare", "marked"}
        BY PlaceFields
      <3>2. /\ half \in Places /\ half.stage = p.stage /\ half.key = p.key /\ half.attached = p.attached
            /\ half.inside = left
        BY <3>1, InsideSet
      <3>3. At(u, z)
        BY DEF Places
      <3> HIDE DEF half
      <3>4. /\ z \in Places /\ z.stage = p.stage /\ z.image = image /\ z.key = p.key
            /\ z.attached = p.attached /\ z.inside = left
        BY <3>1, <3>2, ImageSet
      <3> HIDE DEF z
      <3> QED
        BY <2>1, <3>3, <3>4
    <2>2. CASE ~p.attached
      <3> DEFINE z == [p EXCEPT !.plain = NoValue]
      <3>1. NoValue \in (SUBSET Items) \cup {NoValue}
        OBVIOUS
      <3>2. /\ z \in Places /\ z.stage = p.stage /\ z.image = p.image /\ z.key = p.key /\ z.attached = p.attached
            /\ z.inside \subseteq p.inside
        BY <3>1 DEF Places
      <3>3. At(u, z)
        BY <1>1, <2>2
      <3> HIDE DEF z
      <3> QED
        BY <3>2, <3>3
    <2> QED
      BY <2>1, <2>2
  <1>5. /\ places' \in [Ids -> Places] /\ places'[u] = q
    BY <1>0, <1>2, PlaceAt
  <1>7. /\ wrote' \in [Ids -> SUBSET Docs] /\ wrote'[u] = {}
        /\ \A w \in Ids \ {u} : wrote'[w] = wrote[w]
        /\ sessions' \in [Tokens -> SessionRecords \cup {NoValue}]
        /\ \A t \in Tokens : sessions'[t] = IF SignedIn(t, u) THEN NoValue ELSE sessions[t]
    BY <1>0, <1>1 DEF Typed, TypeOK
  <1>8. /\ WipePlan(x) /\ file[u] # NoValue /\ op.kind = "delete" /\ (Volume => Encrypted(u))
        /\ p.attached => p.image # "none"
    BY <1>1, <1>3, Heads DEF Underway, Adding, Unlocking, Encrypting, FirstPassword, Rekeying, Deleting, LoggingOut, storeExists
  <1>9. LockImage(y) \/ (~Volume /\ RemoveDirPlan(y))
    BY <1>8 DEF WipePlan
  <1>10. ~Moving(x) /\ ~Changing(x)
    BY <1>1, Heads DEF Moving, Changing
  <1>11. y # <<>> /\ Head(y) \in {"lock", "removeDir"} /\ ~UnregisterPlan(y)
    BY <1>9, Heads
  <1>12. UNCHANGED <<Encrypted(u), NoCut(u), NoRekey(u)>> /\ Out(u)' /\ ~In(u)'
    BY <1>1, <1>7 DEF Encrypted, NoCut, NoRekey, In, Out, SignedIn
  <1>13. /\ places'[u].stage = p.stage
         /\ places'[u].key = p.key /\ places'[u].attached = p.attached
         /\ places'[u].inside \subseteq p.inside
         /\ storeExists(u)' = storeExists(u)
    BY <1>2, <1>5, <1>8 DEF storeExists
  <1>14. Underway(u, y)'
    <2>1. RemoveDirPlan(y) => ~storeExists(u)'
      <3>1. ~Volume => ~storeExists(u)
        BY <1>3 DEF OfUser, Imageless
      <3>2. LockImage(y) => ~RemoveDirPlan(y)
        BY Heads
      <3> QED
        BY <1>9, <1>13, <3>1, <3>2
    <2>2. u \notin apps' /\ u \notin standing'
      BY <1>1
    <2>3. Deleting(u, y)'
      BY <1>1, <1>4, <1>7, <1>8, <1>9, <1>11, <1>12, <2>1, <2>2 DEF Deleting
    <2> QED
      BY <2>3 DEF Underway
  <1>16. Imageless(u)' /\ Unknown(u)' /\ Passworded(u)'
    BY <1>1, <1>3, <1>8, <1>12, <1>13 DEF OfUser, Imageless, Unknown, Passworded
  <1>17. Keyed(u)' /\ OnTheDisk(u)'
    <2>1. Keyed(u)'
      BY <1>1, <1>3, <1>10, <1>12, <1>13 DEF OfUser, Keyed
    <2> QED
      BY <1>7, <2>1 DEF OnTheDisk
  <1>18. InPlace(u)'
    BY <1>1, <1>3, <1>7, <1>10, <1>12, <1>13 DEF OfUser, InPlace
  <1>19. OverVolume(u)' /\ Attended(u)'
    BY <1>1, <1>4, <1>11 DEF OverVolume, Attended, Acting, Idle, MayFail
  <1>20. Served(u)' /\ DrivenOf(u)'
    BY <1>1, <1>12 DEF Served, DrivenOf
  <1>21. OfUser(u)'
    BY <1>16, <1>17, <1>18, <1>19, <1>20 DEF OfUser
  <1>22. Typed'
    <2>1. apps' \subseteq Ids /\ driven' \subseteq apps' /\ standing' \subseteq Ids
      BY <1>0, <1>1 DEF Typed, TypeOK
    <2> QED
      BY <1>0, <1>1, <1>4, <1>5, <1>7, <2>1 DEF Typed, TypeOK, OpRecords
  <1>23. ASSUME NEW w \in Ids \ {u}
         PROVE  Untouched(w)
    <2>1. \A t \in Tokens : SignedIn(t, w)' <=> SignedIn(t, w)
      BY <1>7 DEF SignedIn
    <2>2. places'[w] = places[w]
      BY <1>0, <1>2, PlaceAt
    <2> QED
      BY <1>1, <1>7, <2>1, <2>2 DEF Untouched
  <1>24. ~ServePlan(op.todo)
    BY <1>1, Heads
  <1> QED
    BY <1>1, <1>3, <1>4, <1>14, <1>21, <1>22, <1>23, <1>24, StepKept

-----------------------------------------------------------------------------
(* Proofs: the lists of effects an operation is made of.                   *)

(* A list put before another.                                              *)
LEMMA Fronted ==
  ASSUME NEW v \in Seq(Effects), v # <<>>, NEW s \in Seq(Effects)
  PROVE  /\ v \o s \in Seq(Effects) /\ Begins(v \o s, Head(v)) /\ Tail(v \o s) = Tail(v) \o s
         /\ Tail(v) \in Seq(Effects)
  <1> DEFINE z == v \o s
  <1>1. z \in Seq(Effects) /\ Len(z) = Len(v) + Len(s) /\ Len(v) > 0 /\ z[1] = v[1] /\ Len(v) \in Nat /\ Len(s) \in Nat
    OBVIOUS
  <1>2. /\ \A i \in 1 .. Len(v) : z[i] = v[i]
        /\ \A i \in Len(v) + 1 .. Len(v) + Len(s) : z[i] = s[i - Len(v)]
    OBVIOUS
  <1>3. Tail(v) \in Seq(Effects) /\ Len(Tail(v)) = Len(v) - 1 /\ \A i \in 1 .. Len(v) - 1 : Tail(v)[i] = v[i + 1]
    OBVIOUS
  <1> DEFINE t == Tail(v) \o s
             w == Tail(z)
  <1>4. /\ t \in Seq(Effects) /\ Len(t) = Len(v) + Len(s) - 1
        /\ \A i \in 1 .. Len(v) - 1 : t[i] = Tail(v)[i]
        /\ \A i \in Len(v) .. Len(v) + Len(s) - 1 : t[i] = s[i - (Len(v) - 1)]
    BY <1>3
  <1>5. /\ w \in Seq(Effects) /\ Len(w) = Len(v) + Len(s) - 1
        /\ \A i \in 1 .. Len(v) + Len(s) - 1 : w[i] = z[i + 1]
    BY <1>1
  <1>6. z # <<>> /\ Head(z) = Head(v)
    BY <1>1
  <1> HIDE DEF z, t, w
  <1>7. \A i \in 1 .. Len(v) + Len(s) - 1 : w[i] = t[i]
    <2> TAKE i \in 1 .. Len(v) + Len(s) - 1
    <2>1. w[i] = z[i + 1] /\ i + 1 \in 1 .. Len(v) + Len(s)
      BY <1>1, <1>5
    <2>2. CASE i \in 1 .. Len(v) - 1
      <3>1. z[i + 1] = v[i + 1] /\ Tail(v)[i] = v[i + 1] /\ t[i] = Tail(v)[i]
        BY <1>1, <1>2, <1>3, <1>4, <2>2
      <3> QED
        BY <2>1, <3>1
    <2>3. CASE i \in Len(v) .. Len(v) + Len(s) - 1
      <3>1. i + 1 \in Len(v) + 1 .. Len(v) + Len(s) /\ (i + 1) - Len(v) = i - (Len(v) - 1)
        BY <1>1, <2>3
      <3>2. z[i + 1] = s[(i + 1) - Len(v)]
        BY <1>2, <3>1
      <3>3. t[i] = s[i - (Len(v) - 1)]
        BY <1>4, <2>3
      <3> QED
        BY <2>1, <3>1, <3>2, <3>3
    <2> QED
      BY <1>1, <2>2, <2>3
  <1>8. w = t
    BY <1>4, <1>5, <1>7
  <1> QED
    BY <1>1, <1>3, <1>6, <1>8 DEF z, t, w, Begins

(* Concatenation associates.                                               *)
LEMMA Associates ==
  ASSUME NEW q \in Seq(Effects), NEW r \in Seq(Effects), NEW s \in Seq(Effects)
  PROVE  (q \o r) \o s = q \o (r \o s) /\ q \o r \in Seq(Effects)
  OBVIOUS

(* Nothing in front changes nothing.                                       *)
LEMMA NothingBefore ==
  ASSUME NEW s \in Seq(Effects)
  PROVE  <<>> \o s = s /\ <<>> \in Seq(Effects)
  OBVIOUS

(* A list in front of another.                                             *)
LEMMA Prefixed ==
  ASSUME NEW e \in Effects, NEW s \in Seq(Effects)
  PROVE  <<e>> \o s \in Seq(Effects) /\ Begins(<<e>> \o s, e) /\ Tail(<<e>> \o s) = s
  <1>1. <<e>> \in Seq(Effects) /\ <<e>> # <<>> /\ Head(<<e>>) = e /\ Tail(<<e>>) = <<>>
    OBVIOUS
  <1> QED
    BY <1>1, Fronted, NothingBefore

(* The effects, one by one.                                                *)
LEMMA EffectsAre ==
  /\ "register" \in Effects /\ "password" \in Effects /\ "mark" \in Effects /\ "create" \in Effects
  /\ "attach" \in Effects /\ "marker" \in Effects /\ "stage" \in Effects /\ "copy" \in Effects
  /\ "unstage" \in Effects /\ "detach" \in Effects /\ "rekey" \in Effects /\ "unlock" \in Effects
  /\ "open" \in Effects /\ "reopen" \in Effects /\ "close" \in Effects /\ "session" \in Effects
  /\ "lock" \in Effects /\ "wipe" \in Effects /\ "removeImage" \in Effects /\ "removeDir" \in Effects
  /\ "unregister" \in Effects /\ "move" \in Effects /\ "serve" \in Effects /\ "exit" \in Effects
  BY DEF Effects

(* What unlocking leaves to do, before what was left.                      *)
LEMMA FirstPlans ==
  ASSUME NEW s \in Seq(Effects), MarkPlan(s),
         NEW st \in Effects, NEW cr \in Effects, NEW at \in Effects, NEW ma \in Effects, NEW co \in Effects,
         NEW un \in Effects,
         st = "stage", cr = "create", at = "attach", ma = "marker", co = "copy", un = "unstage"
  PROVE  /\ <<at>> \o s \in Seq(Effects) /\ AttachMark(<<at>> \o s)
         /\ <<cr, at, ma>> \o s \in Seq(Effects) /\ CreateFirst(<<cr, at, ma>> \o s)
         /\ <<st, cr, at, ma, co, un>> \o s \in Seq(Effects)
         /\ StagePlan(<<st, cr, at, ma, co, un>> \o s)
  <1> DEFINE c1 == <<ma>>
             c2 == <<at, ma>>
             c3 == <<cr, at, ma>>
             s2 == <<co, un>>
             s3 == <<ma, co, un>>
             s4 == <<at, ma, co, un>>
             s5 == <<cr, at, ma, co, un>>
             s6 == <<st, cr, at, ma, co, un>>
  <1>1. AttachMark(<<at>> \o s) /\ <<at>> \o s \in Seq(Effects)
    BY Prefixed DEF AttachMark
  <1>2. MarkerFirst(c1 \o s) /\ UnstagePlan(<<un>> \o s)
    BY Prefixed DEF MarkerFirst, UnstagePlan
  <1>3. c2 \in Seq(Effects) /\ c2 # <<>> /\ Head(c2) = at /\ Tail(c2) = c1
    OBVIOUS
  <1>4. c3 \in Seq(Effects) /\ c3 # <<>> /\ Head(c3) = cr /\ Tail(c3) = c2
    OBVIOUS
  <1>5. s2 \in Seq(Effects) /\ s2 # <<>> /\ Head(s2) = co /\ Tail(s2) = <<un>>
    OBVIOUS
  <1>6. s3 \in Seq(Effects) /\ s3 # <<>> /\ Head(s3) = ma /\ Tail(s3) = s2
    OBVIOUS
  <1>7. s4 \in Seq(Effects) /\ s4 # <<>> /\ Head(s4) = at /\ Tail(s4) = s3
    OBVIOUS
  <1>8. s5 \in Seq(Effects) /\ s5 # <<>> /\ Head(s5) = cr /\ Tail(s5) = s4
    OBVIOUS
  <1>9. s6 \in Seq(Effects) /\ s6 # <<>> /\ Head(s6) = st /\ Tail(s6) = s5
    OBVIOUS
  <1> HIDE DEF c1, c2, c3, s2, s3, s4, s5, s6
  <1>10. AttachFirst(c2 \o s)
    BY <1>2, <1>3, Fronted DEF AttachFirst
  <1>11. c3 \o s \in Seq(Effects) /\ CreateFirst(c3 \o s)
    BY <1>4, <1>10, Fronted DEF CreateFirst
  <1>12. CopyPlan(s2 \o s)
    BY <1>2, <1>5, Fronted DEF CopyPlan
  <1>13. MarkerCopy(s3 \o s)
    BY <1>6, <1>12, Fronted DEF MarkerCopy
  <1>14. AttachCopy(s4 \o s)
    BY <1>7, <1>13, Fronted DEF AttachCopy
  <1>15. CreateCopy(s5 \o s)
    BY <1>8, <1>14, Fronted DEF CreateCopy
  <1>16. s6 \o s \in Seq(Effects) /\ StagePlan(s6 \o s)
    BY <1>9, <1>15, Fronted DEF StagePlan
  <1> QED
    BY <1>1, <1>11, <1>16 DEF c3, s6

(* What unlock puts in front of the rest.                                  *)
LEMMA UnlockPlans ==
  ASSUME NEW u \in Ids, NEW s \in Seq(Effects), SessionPlan(s) \/ UnlockPlan(s)
  PROVE  LET x == UnlockEffects(u) \o s IN
         /\ x \in Seq(Effects)
         /\ Encrypted(u) /\ isMounted(u) => ReopenPlan(x)
         /\ Encrypted(u) /\ ~isMounted(u) => AttachOpen(x)
         /\ ~Encrypted(u) /\ ~Volume => ReopenPlan(x)
         /\ ~Encrypted(u) /\ Volume /\ storeExists(u) => AttachMark(x)
         /\ ~Encrypted(u) /\ Volume /\ ~storeExists(u) =>
              IF Contents(places[u]) \notin {NoValue, {}} THEN StagePlan(x) ELSE CreateFirst(x)
  <1>0. /\ "attach" \in Effects /\ "create" \in Effects /\ "marker" \in Effects /\ "stage" \in Effects
        /\ "copy" \in Effects /\ "unstage" \in Effects /\ "mark" \in Effects /\ "reopen" \in Effects
    BY EffectsAre
  <1> PICK st \in Effects : st = "stage"
    BY <1>0
  <1> PICK cr \in Effects : cr = "create"
    BY <1>0
  <1> PICK at \in Effects : at = "attach"
    BY <1>0
  <1> PICK mr \in Effects : mr = "marker"
    BY <1>0
  <1> PICK co \in Effects : co = "copy"
    BY <1>0
  <1> PICK un \in Effects : un = "unstage"
    BY <1>0
  <1> PICK ma \in Effects : ma = "mark"
    BY <1>0
  <1> PICK re \in Effects : re = "reopen"
    BY <1>0
  <1>1. PICK R \in Seq(Effects) : ReopenPlan(R) /\ R = <<re>> \o s
    BY Prefixed DEF ReopenPlan
  <1>2. PICK M \in Seq(Effects) : MarkPlan(M) /\ M = <<ma>> \o R
    BY <1>1, Prefixed DEF MarkPlan
  <1>3. PICK x : x = UnlockEffects(u) \o s
    OBVIOUS
  <1>4. <<re>> \in Seq(Effects) /\ <<ma>> \in Seq(Effects)
    OBVIOUS
  <1>6. ASSUME NEW v \in Seq(Effects)
        PROVE  (v \o <<re>>) \o s = v \o R /\ ((v \o <<ma>>) \o <<re>>) \o s = v \o M
    <2>1. (v \o <<re>>) \o s = v \o R
      BY <1>1, <1>4, Associates
    <2>2. v \o <<ma>> \in Seq(Effects) /\ (v \o <<ma>>) \o R = v \o M
      BY <1>2, <1>4, Associates
    <2>3. ((v \o <<ma>>) \o <<re>>) \o s = (v \o <<ma>>) \o R
      BY <1>1, <1>4, <2>2, Associates
    <2> QED
      BY <2>1, <2>2, <2>3
  <1>7. PICK n \in Seq(Effects) : n = <<>>
    BY NothingBefore
  <1>8. <<at>> \in Seq(Effects)
    OBVIOUS
  <1>9. <<cr, at, mr>> \in Seq(Effects)
    OBVIOUS
  <1>10. <<st, cr, at, mr, co, un>> \in Seq(Effects)
    OBVIOUS
  <1> DEFINE A == <<at>>
             C == <<cr, at, mr>>
             S == <<st, cr, at, mr, co, un>>
  <1>11. UnlockEffects(u) =
           (IF Encrypted(u) THEN IF isMounted(u) THEN n ELSE A
            ELSE IF ~Volume THEN n
            ELSE (IF storeExists(u) THEN A
                  ELSE IF Contents(places[u]) \notin {NoValue, {}} THEN S ELSE C) \o <<ma>>)
           \o <<re>>
    BY <1>7 DEF UnlockEffects
  <1>16. A \in Seq(Effects) /\ C \in Seq(Effects) /\ S \in Seq(Effects)
    BY <1>8, <1>9, <1>10
  <1> HIDE DEF A, C, S
  <1>12. /\ n \o R = R
         /\ A \o R \in Seq(Effects) /\ AttachOpen(A \o R)
         /\ A \o M \in Seq(Effects) /\ AttachMark(A \o M)
         /\ C \o M \in Seq(Effects) /\ CreateFirst(C \o M)
         /\ S \o M \in Seq(Effects) /\ StagePlan(S \o M)
    <2>1. n \o R = R
      BY <1>7, NothingBefore
    <2>2. A \o R \in Seq(Effects) /\ AttachOpen(A \o R)
      BY <1>1, <1>8, Prefixed DEF AttachOpen, A
    <2>3. /\ A \o M \in Seq(Effects) /\ AttachMark(A \o M)
          /\ C \o M \in Seq(Effects) /\ CreateFirst(C \o M)
          /\ S \o M \in Seq(Effects) /\ StagePlan(S \o M)
      BY <1>2, FirstPlans DEF A, C, S
    <2> QED
      BY <2>1, <2>2, <2>3
  <1>13. CASE Encrypted(u)
    <2>1. /\ isMounted(u) => x = R
          /\ ~isMounted(u) => x = A \o R
      BY <1>3, <1>6, <1>11, <1>12, <1>13, <1>16
    <2> QED
      BY <1>1, <1>3, <1>12, <1>13, <2>1
  <1>14. CASE ~Encrypted(u) /\ ~Volume
    <2>1. x = R
      BY <1>3, <1>6, <1>11, <1>12, <1>14
    <2> QED
      BY <1>1, <1>3, <1>14, <2>1
  <1>15. CASE ~Encrypted(u) /\ Volume
    <2>1. /\ storeExists(u) => x = A \o M
          /\ ~storeExists(u) /\ Contents(places[u]) \notin {NoValue, {}} => x = S \o M
          /\ ~storeExists(u) /\ ~(Contents(places[u]) \notin {NoValue, {}}) => x = C \o M
      BY <1>3, <1>6, <1>11, <1>15, <1>16
    <2> QED
      BY <1>3, <1>12, <1>15, <2>1
  <1> QED
    BY <1>13, <1>14, <1>15

(* The last of a list before another.                                      *)
LEMMA LastBefore ==
  ASSUME NEW v \in Seq(Effects), v # <<>>, Tail(v) = <<>>, NEW s \in Seq(Effects)
  PROVE  v \o s \in Seq(Effects) /\ Begins(v \o s, Head(v)) /\ Tail(v \o s) = s
  BY Fronted, NothingBefore

(* The operations as they begin.                                           *)
LEMMA ShortPlans ==
  /\ UnlockPlan(<<"unlock", "session">>) /\ <<"unlock", "session">> \in Seq(Effects)
  /\ PasswordFirst(<<"password", "close", "unlock", "unlock", "session">>)
  /\ <<"password", "close", "unlock", "unlock", "session">> \in Seq(Effects)
  /\ CloseLast(<<"close", "lock">>) /\ <<"close", "lock">> \in Seq(Effects)
  /\ ServePlan(<<"serve">>) /\ <<"serve">> \in Seq(Effects)
  /\ MovePlan(<<"move", "register", "serve">>) /\ <<"move", "register", "serve">> \in Seq(Effects)
  <1>1. /\ "unlock" \in Effects /\ "session" \in Effects /\ "close" \in Effects /\ "lock" \in Effects
        /\ "password" \in Effects /\ "serve" \in Effects /\ "move" \in Effects /\ "register" \in Effects
    BY EffectsAre
  <1>2. UnlockPlan(<<"unlock", "session">>) /\ <<"unlock", "session">> \in Seq(Effects)
    BY <1>1 DEF UnlockPlan, SessionPlan, Begins, Ends
  <1>3. CloseLast(<<"close", "lock">>) /\ <<"close", "lock">> \in Seq(Effects)
    BY <1>1 DEF CloseLast, LockLast, Begins, Ends
  <1>4. ServePlan(<<"serve">>) /\ <<"serve">> \in Seq(Effects)
    BY <1>1 DEF ServePlan, Begins, Ends
  <1>5. MovePlan(<<"move", "register", "serve">>) /\ <<"move", "register", "serve">> \in Seq(Effects)
    BY <1>1 DEF MovePlan, RegisterPrimary, ServePlan, Begins, Ends
  <1>6. /\ PasswordFirst(<<"password", "close", "unlock", "unlock", "session">>)
        /\ <<"password", "close", "unlock", "unlock", "session">> \in Seq(Effects)
    BY <1>1 DEF PasswordFirst, CloseFirst, TwicePlan, UnlockPlan, SessionPlan, Begins, Ends
  <1> QED
    BY <1>2, <1>3, <1>4, <1>5, <1>6

(* What add leaves to do.                                                  *)
LEMMA AddPlan ==
  LET x == <<"register">> \o (IF Volume THEN <<"create", "attach", "marker", "mark">> ELSE <<>>)
             \o <<"open", "unlock", "session">>
  IN  x \in Seq(Effects) /\ RegisterNew(x)
  <1>1. /\ "unlock" \in Effects /\ "session" \in Effects /\ "open" \in Effects /\ "register" \in Effects
        /\ "create" \in Effects /\ "attach" \in Effects /\ "marker" \in Effects /\ "mark" \in Effects
    BY EffectsAre
  <1> DEFINE s == <<"open", "unlock", "session">>
             r == <<"register">>
             n == <<>>
             c1 == <<"mark">>
             c2 == <<"marker", "mark">>
             c3 == <<"attach", "marker", "mark">>
             c4 == <<"create", "attach", "marker", "mark">>
  <1>2. s \in Seq(Effects) /\ s # <<>> /\ Head(s) = "open" /\ Tail(s) = <<"unlock", "session">>
    BY <1>1
  <1>3. r \in Seq(Effects) /\ r # <<>> /\ Head(r) = "register" /\ Tail(r) = <<>> /\ n \in Seq(Effects)
    BY <1>1
  <1>4. c1 \in Seq(Effects) /\ c1 # <<>> /\ Head(c1) = "mark" /\ Tail(c1) = <<>>
    BY <1>1
  <1>5. c2 \in Seq(Effects) /\ c2 # <<>> /\ Head(c2) = "marker" /\ Tail(c2) = c1
    BY <1>1
  <1>6. c3 \in Seq(Effects) /\ c3 # <<>> /\ Head(c3) = "attach" /\ Tail(c3) = c2
    BY <1>1
  <1>7. c4 \in Seq(Effects) /\ c4 # <<>> /\ Head(c4) = "create" /\ Tail(c4) = c3
    BY <1>1
  <1>8. n \o s = s /\ \A w \in Seq(Effects) : n \o w = w
    BY <1>2, NothingBefore
  <1> DEFINE v == IF Volume THEN c4 ELSE n
             x == (r \o v) \o s
  <1>9. OpenNew(s)
    BY <1>2, ShortPlans DEF OpenNew, Begins
  <1> HIDE DEF s, r, n, c1, c2, c3, c4
  <1>10. MarkNew(c1 \o s)
    BY <1>2, <1>4, <1>9, LastBefore DEF MarkNew
  <1>11. MarkerNew(c2 \o s)
    BY <1>2, <1>5, <1>10, Fronted DEF MarkerNew
  <1>12. AttachNew(c3 \o s)
    BY <1>2, <1>6, <1>11, Fronted DEF AttachNew
  <1>13. CreateNew(c4 \o s)
    BY <1>2, <1>7, <1>12, Fronted DEF CreateNew
  <1>14. v \in Seq(Effects) /\ IF Volume THEN CreateNew(v \o s) ELSE OpenNew(v \o s)
    BY <1>3, <1>7, <1>8, <1>9, <1>13
  <1> HIDE DEF v
  <1>18. r \in Seq(Effects) /\ v \in Seq(Effects) /\ s \in Seq(Effects)
    BY <1>2, <1>3, <1>14
  <1>15. v \o s \in Seq(Effects) /\ x = r \o (v \o s)
    BY <1>18, Associates
  <1>16. r \o (v \o s) \in Seq(Effects) /\ Begins(r \o (v \o s), "register") /\ Tail(r \o (v \o s)) = v \o s
    BY <1>3, <1>15, LastBefore
  <1>17. x \in Seq(Effects) /\ RegisterNew(x)
    BY <1>14, <1>15, <1>16 DEF RegisterNew
  <1> QED
    BY <1>17 DEF x, v, s, r, n, c4

(* What a changed password takes, with a mounted volume and without.       *)
LEMMA RekeyPlans ==
  ASSUME NEW u \in Ids, Encrypted(u) => isMounted(u)
  PROVE  /\ RekeyEffects(u) \in Seq(Effects)
         /\ Encrypted(u) => CloseRekey(RekeyEffects(u))
         /\ ~Encrypted(u) => PasswordAlone(RekeyEffects(u))
  <1>1. /\ "close" \in Effects /\ "detach" \in Effects /\ "rekey" \in Effects /\ "attach" \in Effects
        /\ "password" \in Effects /\ "reopen" \in Effects
    BY EffectsAre
  <1> DEFINE n == <<>>
             p == <<"password">>
             o == <<"reopen">>
             c1 == <<"attach">>
             c2 == <<"rekey", "attach">>
             c3 == <<"detach", "rekey", "attach">>
             c4 == <<"close", "detach", "rekey", "attach">>
             s == p \o o
  <1>2. p \in Seq(Effects) /\ p # <<>> /\ Head(p) = "password" /\ Tail(p) = <<>> /\ n \in Seq(Effects)
    BY <1>1
  <1>3. o \in Seq(Effects) /\ o # <<>> /\ Head(o) = "reopen" /\ Tail(o) = <<>>
    BY <1>1
  <1>4. c1 \in Seq(Effects) /\ c1 # <<>> /\ Head(c1) = "attach" /\ Tail(c1) = <<>>
    BY <1>1
  <1>5. c2 \in Seq(Effects) /\ c2 # <<>> /\ Head(c2) = "rekey" /\ Tail(c2) = c1
    BY <1>1
  <1>6. c3 \in Seq(Effects) /\ c3 # <<>> /\ Head(c3) = "detach" /\ Tail(c3) = c2
    BY <1>1
  <1>7. c4 \in Seq(Effects) /\ c4 # <<>> /\ Head(c4) = "close" /\ Tail(c4) = c3
    BY <1>1
  <1>8. \A w \in Seq(Effects) : n \o w = w /\ w \o n = w
    BY NothingBefore
  <1>9. RekeyEffects(u) = IF Encrypted(u) THEN (c4 \o p) \o o ELSE (n \o p) \o n
    BY DEF RekeyEffects
  <1>10. ReopenLast(o) /\ PasswordAlone(p)
    BY <1>2, <1>3 DEF ReopenLast, PasswordAlone, Ends, Begins
  <1> HIDE DEF p, o, n, c1, c2, c3, c4
  <1>11. s \in Seq(Effects) /\ PasswordOpen(s)
    BY <1>2, <1>3, <1>10, LastBefore DEF PasswordOpen
  <1>12. (c4 \o p) \o o = c4 \o s
    BY <1>2, <1>3, <1>7, Associates
  <1> HIDE DEF s
  <1>13. AttachAgain(c1 \o s)
    BY <1>4, <1>11, LastBefore DEF AttachAgain
  <1>14. RekeyPlan(c2 \o s)
    BY <1>5, <1>11, <1>13, Fronted DEF RekeyPlan
  <1>15. DetachPlan(c3 \o s)
    BY <1>6, <1>11, <1>14, Fronted DEF DetachPlan
  <1>16. c4 \o s \in Seq(Effects) /\ CloseRekey(c4 \o s)
    BY <1>7, <1>11, <1>15, Fronted DEF CloseRekey
  <1>17. (n \o p) \o n = p
    BY <1>2, <1>8
  <1> QED
    BY <1>2, <1>9, <1>10, <1>12, <1>16, <1>17

(* What a deleted user takes.                                              *)
LEMMA DeletePlan ==
  ASSUME NEW u \in Ids, Encrypted(u) \/ ~Volume
  PROVE  LET x == <<"open", "wipe">> \o (IF Encrypted(u) THEN <<"lock", "removeImage">> ELSE <<>>)
                    \o <<"removeDir", "unregister", "exit">>
         IN  x \in Seq(Effects) /\ OpenWipe(x)
  <1>1. /\ "open" \in Effects /\ "wipe" \in Effects /\ "lock" \in Effects /\ "removeImage" \in Effects
        /\ "removeDir" \in Effects /\ "unregister" \in Effects /\ "exit" \in Effects
    BY EffectsAre
  <1> DEFINE n == <<>>
             w1 == <<"wipe">>
             w2 == <<"open", "wipe">>
             c1 == <<"removeImage">>
             c2 == <<"lock", "removeImage">>
             s == <<"removeDir", "unregister", "exit">>
             v == IF Encrypted(u) THEN c2 ELSE n
             x == (w2 \o v) \o s
  <1>2. w1 \in Seq(Effects) /\ w1 # <<>> /\ Head(w1) = "wipe" /\ Tail(w1) = <<>> /\ n \in Seq(Effects)
    BY <1>1
  <1>3. w2 \in Seq(Effects) /\ w2 # <<>> /\ Head(w2) = "open" /\ Tail(w2) = w1
    BY <1>1
  <1>4. c1 \in Seq(Effects) /\ c1 # <<>> /\ Head(c1) = "removeImage" /\ Tail(c1) = <<>>
    BY <1>1
  <1>5. c2 \in Seq(Effects) /\ c2 # <<>> /\ Head(c2) = "lock" /\ Tail(c2) = c1
    BY <1>1
  <1>6. s \in Seq(Effects) /\ RemoveDirPlan(s)
    BY <1>1 DEF RemoveDirPlan, UnregisterPlan, ExitPlan, Begins, Ends
  <1>8. \A w \in Seq(Effects) : n \o w = w
    BY NothingBefore
  <1> HIDE DEF n, w1, w2, c1, c2, s
  <1>9. RemoveImagePlan(c1 \o s)
    BY <1>4, <1>6, LastBefore DEF RemoveImagePlan
  <1>10. LockImage(c2 \o s)
    BY <1>5, <1>6, <1>9, Fronted DEF LockImage
  <1>11. v \in Seq(Effects) /\ (LockImage(v \o s) \/ (~Volume /\ RemoveDirPlan(v \o s)))
    BY <1>2, <1>5, <1>6, <1>8, <1>10
  <1> HIDE DEF v
  <1>12. v \o s \in Seq(Effects) /\ x = w2 \o (v \o s)
    BY <1>3, <1>6, <1>11, Associates
  <1>13. WipePlan(w1 \o (v \o s))
    BY <1>2, <1>11, <1>12, LastBefore DEF WipePlan
  <1>14. w2 \o (v \o s) \in Seq(Effects) /\ OpenWipe(w2 \o (v \o s))
    BY <1>3, <1>12, <1>13, Fronted DEF OpenWipe
  <1>15. x \in Seq(Effects) /\ OpenWipe(x)
    BY <1>12, <1>14
  <1> QED
    BY <1>15 DEF x, v, w2, c2, n, s

-----------------------------------------------------------------------------
(* Proofs: requests.                                                       *)

(* Nothing but the operation under way has changed.                        *)
UnchangedButOp ==
  UNCHANGED <<file, places, root, lanFile, begun, up, apps, driven, sessions, bound, standing, wrote, cut, excused, upsets>>

(* What to unlock is decided by what is there.                             *)
LEMMA UnlockKept ==
  ASSUME UsersInv, unlock
  PROVE  UsersInv'
  <1>0. op.user \in Ids /\ places \in [Ids -> Places] /\ Typed
    BY OpFields DEF UsersInv, Typed, TypeOK
  <1> PICK u \in Ids : u = op.user
    BY <1>0
  <1> PICK x : x = op.todo
    OBVIOUS
  <1> PICK p \in Places : p = places[u]
    BY <1>0
  <1> PICK y : y = UnlockEffects(u) \o Tail(op.todo)
    OBVIOUS
  <1>1. /\ x # <<>> /\ Head(x) = "unlock" /\ Goes(UnlockEffects(u)) /\ UnchangedButOp
    BY DEF unlock, Doing, Idle, disk, memory, ghosts, UnchangedButOp
  <1>3. /\ begun /\ up /\ Underway(u, x) /\ OfUser(u) /\ Typed /\ root = {} /\ op.todo \in Seq(Effects)
    BY <1>0, <1>1, AtStep
  <1>8. /\ UnlockPlan(x) \/ TwicePlan(x)
        /\ Signing(u) /\ (op.kind = "open" /\ Volume => Encrypted(u))
    BY <1>1, <1>3, Heads DEF Underway, Adding, Unlocking, Encrypting, FirstPassword, Rekeying, Deleting, LoggingOut
  <1>9. Tail(x) \in Seq(Effects) /\ (SessionPlan(Tail(x)) \/ UnlockPlan(Tail(x)))
    BY <1>1, <1>3, <1>8 DEF UnlockPlan, TwicePlan
  <1>2. /\ y \in Seq(Effects)
        /\ Encrypted(u) /\ isMounted(u) => ReopenPlan(y)
        /\ Encrypted(u) /\ ~isMounted(u) => AttachOpen(y)
        /\ ~Encrypted(u) /\ ~Volume => ReopenPlan(y)
        /\ ~Encrypted(u) /\ Volume /\ storeExists(u) => AttachMark(y)
        /\ ~Encrypted(u) /\ Volume /\ ~storeExists(u) =>
             IF Contents(places[u]) \notin {NoValue, {}} THEN StagePlan(y) ELSE CreateFirst(y)
    BY <1>9, UnlockPlans
  <1>4. /\ op' \in OpRecords /\ op'.todo = y /\ op'.user = u
        /\ op'.password = op.password /\ op'.old = op.old /\ op'.kind = op.kind
    <2>1. op' = [op EXCEPT !.todo = y]
      BY <1>1 DEF Goes
    <2>2. op \in OpRecords
      BY <1>0, OpFields
    <2> QED
      BY <1>2, <2>1, <2>2 DEF OpRecords
  <1>6. UNCHANGED <<file, places, root, lanFile, begun, up, apps, driven, sessions, bound, standing, wrote, cut, excused, upsets>>
    BY <1>1 DEF UnchangedButOp
  <1>7. /\ file[u] # NoValue /\ op.kind \in {"open", "encrypt"}
        /\ ~Encrypted(u) /\ Volume => op.kind = "encrypt"
    BY <1>8 DEF Signing
  <1>10. ~Moving(x) /\ ~Changing(x) /\ ~Away(x) /\ ~WipePlan(x)
    BY <1>1, Heads DEF Moving, Changing, Away
  <1>12. /\ UNCHANGED <<Encrypted(u), NoCut(u), NoRekey(u), In(u), storeExists(u), isMounted(u), OnDisk(u), Nothing(u)>>
         /\ (Signing(u) => Signing(u)')
    BY <1>4, <1>6 DEF Encrypted, NoCut, NoRekey, In, SignedIn, storeExists, isMounted, OnDisk, Nothing, Signing
  <1>14. Underway(u, y)'
    <2>1. CASE Encrypted(u) /\ isMounted(u)
      <3>1. OnVolume(u)'
        BY <1>6, <2>1 DEF isMounted, OnVolume, storeExists
      <3>2. Unlocking(u, y)'
        BY <1>2, <1>8, <1>12, <2>1, <3>1 DEF Unlocking
      <3> QED
        BY <3>2 DEF Underway
    <2>2. CASE Encrypted(u) /\ ~isMounted(u)
      <3>1. Unlocking(u, y)'
        BY <1>2, <1>8, <1>12, <2>2 DEF Unlocking
      <3> QED
        BY <3>1 DEF Underway
    <2>3. CASE ~Encrypted(u) /\ ~Volume
      <3>1. Unlocking(u, y)'
        BY <1>2, <1>8, <1>12, <2>3 DEF Unlocking
      <3> QED
        BY <3>1 DEF Underway
    <2>4. CASE ~Encrypted(u) /\ Volume /\ storeExists(u)
      <3>1. Nothing(u)
        BY <1>3, <1>7, <1>10, <2>4 DEF OfUser, InPlace, Nothing
      <3>2. op'.kind = "encrypt"
        BY <1>4, <1>7, <2>4
      <3>3. Encrypting(u, y)'
        BY <1>2, <1>8, <1>12, <2>4, <3>1, <3>2 DEF Encrypting
      <3> QED
        BY <3>3 DEF Underway
    <2>5. CASE ~Encrypted(u) /\ Volume /\ ~storeExists(u)
      <3>1. op'.kind = "encrypt"
        BY <1>4, <1>7, <2>5
      <3>2. CASE StagePlan(y)
        <4>1. Encrypting(u, y)'
          BY <1>8, <1>12, <2>5, <3>1, <3>2 DEF Encrypting
        <4> QED
          BY <4>1 DEF Underway
      <3>3. CASE ~StagePlan(y)
        <4>1. CreateFirst(y) /\ Contents(p) \in {NoValue, {}}
          BY <1>2, <2>5, <3>3
        <4>2. Contents(p) = p.plain
          BY <1>3, <2>5 DEF OfUser, Imageless, Contents
        <4>3. Entries(p.plain) = {}
          BY <4>1, <4>2 DEF Entries
        <4>4. Nothing(u)
          BY <1>3, <1>7, <1>10, <2>5, <4>3 DEF OfUser, InPlace, Nothing
        <4>5. Encrypting(u, y)'
          BY <1>8, <1>12, <2>5, <3>1, <4>1, <4>4 DEF Encrypting
        <4> QED
          BY <4>5 DEF Underway
      <3> QED
        BY <3>2, <3>3
    <2> QED
      BY <2>1, <2>2, <2>3, <2>4, <2>5, VolumeAssumption
  <1>16. Imageless(u)' /\ Unknown(u)' /\ Passworded(u)'
    BY <1>3, <1>6, <1>12 DEF OfUser, Imageless, Unknown, Passworded
  <1>17. Keyed(u)' /\ OnTheDisk(u)'
    BY <1>3, <1>6, <1>10, <1>12 DEF OfUser, Keyed, OnTheDisk
  <1>18. InPlace(u)'
    BY <1>3, <1>6, <1>10, <1>12 DEF OfUser, InPlace
  <1>19. OverVolume(u)' /\ Attended(u)'
    <2>1. Encrypted(u) /\ isMounted(u) => y # <<>> /\ Head(y) = "reopen"
      BY <1>2, Heads
    <2> QED
      BY <1>3, <1>4, <1>6, <1>12, <2>1 DEF OfUser, OverVolume, Attended, Acting, Idle, MayFail
  <1>20. Served(u)' /\ DrivenOf(u)'
    BY <1>3, <1>6, <1>10, <1>12 DEF OfUser, Served, DrivenOf
  <1>21. OfUser(u)'
    BY <1>16, <1>17, <1>18, <1>19, <1>20 DEF OfUser
  <1>22. Typed'
    BY <1>0, <1>4, <1>6 DEF Typed, TypeOK, OpRecords
  <1>23. \A w \in Ids \ {u} : Untouched(w)
    BY <1>6 DEF Untouched, SignedIn
  <1>24. ~ServePlan(op.todo)
    BY <1>1, Heads
  <1> QED
    BY <1>1, <1>3, <1>4, <1>6, <1>14, <1>21, <1>22, <1>23, <1>24, StepKept

(* Between operations.                                                     *)
LEMMA AtRest ==
  ASSUME UsersInv, Ready
  PROVE  /\ begun /\ root = {} /\ Typed /\ ~ServePlan(op.todo)
         /\ \A w \in Ids : OfUser(w) /\ ~Acting(w)
  BY Heads DEF UsersInv, Begun, Ready, Acting, Idle

(* An operation begins.                                                    *)
LEMMA BeginKept ==
  ASSUME UsersInv, Ready, UnchangedButOp, op' \in OpRecords, NEW u \in Ids, op'.user = u, NEW y, op'.todo = y,
         Underway(u, y)'
  PROVE  UsersInv'
  <1>1. /\ begun /\ root = {} /\ Typed /\ ~ServePlan(op.todo) /\ up
        /\ \A w \in Ids : OfUser(w) /\ ~Acting(w)
    BY AtRest DEF Ready
  <1>2. UNCHANGED <<file, places, root, lanFile, begun, up, apps, driven, sessions, bound, standing, wrote, cut, excused, upsets>>
    BY DEF UnchangedButOp
  <1>3. Typed'
    BY <1>1, <1>2 DEF Typed, TypeOK, OpRecords
  <1>4. \A w \in Ids : Untouched(w)
    BY <1>2 DEF Untouched, SignedIn
  <1>5. \A w \in Ids : OfUser(w)'
    BY <1>1, <1>4, UntouchedKept
  <1>6. Planned'
    <2>1. Underway(op.user, op.todo)'
      BY DEF Underway, Adding, Unlocking, Encrypting, FirstPassword, Rekeying, Deleting, LoggingOut
    <2> QED
      BY <1>1, <1>2, <2>1 DEF Planned
  <1>7. Down' /\ Begun'
    BY <1>1, <1>2 DEF Down, Begun
  <1> QED
    BY <1>3, <1>5, <1>6, <1>7 DEF UsersInv

(* A user is added, with a password.                                       *)
LEMMA AddKept ==
  ASSUME UsersInv, NEW u \in Ids, NEW p \in Passwords, add(u, p)
  PROVE  UsersInv'
  <1> PICK y : y = <<"register">> \o (IF Volume THEN <<"create", "attach", "marker", "mark">> ELSE <<>>)
                   \o <<"open", "unlock", "session">>
    OBVIOUS
  <1>1. y \in Seq(Effects) /\ RegisterNew(y)
    BY AddPlan
  <1>2. /\ Ready /\ file[u] = NoValue /\ UnchangedButOp
        /\ op' = [user |-> u, password |-> p, old |-> NoValue, kind |-> "open", todo |-> y]
    BY DEF add, Begin, disk, memory, ghosts, UnchangedButOp
  <1>3. op' \in OpRecords /\ op'.user = u /\ op'.todo = y /\ op'.kind = "open" /\ op'.password = p
    BY <1>1, <1>2 DEF OpRecords, Cuts
  <1>4. file' = file
    BY <1>2 DEF UnchangedButOp
  <1>5. Adding(u, y)'
    BY <1>1, <1>2, <1>3, <1>4 DEF Adding
  <1>6. Underway(u, y)'
    BY <1>5 DEF Underway
  <1> QED
    BY <1>2, <1>3, <1>6, BeginKept

(* A user signs in.                                                        *)
LEMMA LoginKept ==
  ASSUME UsersInv, NEW u \in Ids, NEW p \in Passwords, login(u, p)
  PROVE  UsersInv'
  <1> PICK y : y = <<"unlock", "session">>
    OBVIOUS
  <1>1. y \in Seq(Effects) /\ UnlockPlan(y)
    BY ShortPlans
  <1> PICK k : k = IF Volume /\ ~Encrypted(u) THEN "encrypt" ELSE "open"
    OBVIOUS
  <1>2. /\ Ready /\ file[u] # NoValue /\ file[u].password = p /\ UnchangedButOp
        /\ op' = [user |-> u, password |-> p, old |-> NoValue, kind |-> k, todo |-> y]
    BY DEF login, Begin, disk, memory, ghosts, UnchangedButOp
  <1>3. op' \in OpRecords /\ op'.user = u /\ op'.todo = y /\ op'.kind = k /\ op'.password = p
    BY <1>1, <1>2 DEF OpRecords, Cuts
  <1>4. file' = file
    BY <1>2 DEF UnchangedButOp
  <1>5. Signing(u)'
    BY <1>2, <1>3, <1>4 DEF Signing
  <1>6. (op.kind = "open" /\ Volume => Encrypted(u))'
    BY <1>3, <1>4 DEF Encrypted
  <1>7. Unlocking(u, y)'
    BY <1>1, <1>5, <1>6 DEF Unlocking
  <1>8. Underway(u, y)'
    BY <1>7 DEF Underway
  <1> QED
    BY <1>2, <1>3, <1>8, BeginKept

(* A user sets a first password.                                           *)
LEMMA SetPasswordKept ==
  ASSUME UsersInv, NEW u \in Ids, NEW p \in Passwords, setPassword(u, p)
  PROVE  UsersInv'
  <1> PICK y : y = <<"password", "close", "unlock", "unlock", "session">>
    OBVIOUS
  <1>1. y \in Seq(Effects) /\ PasswordFirst(y)
    BY ShortPlans
  <1>2. /\ Ready /\ file[u] # NoValue /\ file[u].password = NoValue /\ UnchangedButOp
        /\ op' = [user |-> u, password |-> p, old |-> NoValue, kind |-> "encrypt", todo |-> y]
    BY DEF setPassword, Begin, disk, memory, ghosts, UnchangedButOp
  <1>3. op' \in OpRecords /\ op'.user = u /\ op'.todo = y /\ op'.kind = "encrypt" /\ op'.password = p
    BY <1>1, <1>2 DEF OpRecords, Cuts
  <1>4. file' = file /\ sessions' = sessions
    BY <1>2 DEF UnchangedButOp
  <1>5. Out(u)
    BY <1>2, AtRest DEF OfUser, Served, In, Out
  <1>6. Out(u)'
    BY <1>4, <1>5 DEF Out, SignedIn
  <1>7. FirstPassword(u, y)'
    BY <1>1, <1>2, <1>3, <1>4, <1>6 DEF FirstPassword
  <1>8. Underway(u, y)'
    BY <1>7 DEF Underway
  <1> QED
    BY <1>2, <1>3, <1>8, BeginKept

(* A user changes the password.                                            *)
LEMMA ChangePasswordKept ==
  ASSUME UsersInv, NEW t \in Tokens, NEW old \in Passwords, NEW p \in Passwords, changePassword(t, old, p)
  PROVE  UsersInv'
  <1> PICK u \in Registered : /\ Known(t, u) /\ (Encrypted(u) => isMounted(u)) /\ file[u].password = old
                              /\ Begin(u, p, old, "rekey", RekeyEffects(u))
    BY DEF changePassword
  <1>0. u \in Ids /\ file[u] # NoValue
    BY DEF Registered
  <1> PICK y : y = RekeyEffects(u)
    OBVIOUS
  <1>1. /\ y \in Seq(Effects)
        /\ Encrypted(u) => CloseRekey(y)
        /\ ~Encrypted(u) => PasswordAlone(y)
    BY <1>0, RekeyPlans
  <1>2. /\ Ready /\ UnchangedButOp
        /\ op' = [user |-> u, password |-> p, old |-> old, kind |-> "rekey", todo |-> y]
    BY DEF Begin, disk, memory, ghosts, UnchangedButOp
  <1>3. /\ op' \in OpRecords /\ op'.user = u /\ op'.todo = y /\ op'.kind = "rekey" /\ op'.password = p
        /\ op'.old = old
    BY <1>0, <1>1, <1>2 DEF OpRecords, Cuts
  <1>4. file' = file /\ sessions' = sessions /\ places' = places
    BY <1>2 DEF UnchangedButOp
  <1>5. In(u)'
    BY <1>4 DEF Known, In, SignedIn
  <1>6. ~Encrypted(u) => ~storeExists(u)
    <2>1. In(u)
      BY DEF Known, In
    <2> QED
      BY <1>0, <1>2, <2>1, AtRest DEF OfUser, Served, Imageless
  <1>7. (PasswordAlone(y) => ~storeExists(u)')
    <2>1. ~Encrypted(u) => ~storeExists(u)'
      BY <1>4, <1>6 DEF storeExists
    <2>2. Encrypted(u) => ~PasswordAlone(y)
      BY <1>1, Heads
    <2> QED
      BY <2>1, <2>2
  <1>8. Rekeying(u, y)'
    BY <1>0, <1>1, <1>3, <1>4, <1>5, <1>7 DEF Rekeying
  <1>9. Underway(u, y)'
    BY <1>8 DEF Underway
  <1> QED
    BY <1>0, <1>2, <1>3, <1>9, BeginKept

(* A user deletes all data.                                                *)
LEMMA DeleteKept ==
  ASSUME UsersInv, NEW t \in Tokens, deleteUser(t)
  PROVE  UsersInv'
  <1> PICK u \in Registered : /\ Known(t, u) /\ (Encrypted(u) => isMounted(u))
                              /\ Begin(u, NoValue, NoValue, "delete",
                                       <<"open", "wipe">> \o (IF Encrypted(u) THEN <<"lock", "removeImage">> ELSE <<>>)
                                       \o <<"removeDir", "unregister", "exit">>)
    BY DEF deleteUser
  <1>0. u \in Ids /\ file[u] # NoValue
    BY DEF Registered
  <1> PICK y : y = <<"open", "wipe">> \o (IF Encrypted(u) THEN <<"lock", "removeImage">> ELSE <<>>)
                   \o <<"removeDir", "unregister", "exit">>
    OBVIOUS
  <1>2. /\ Ready /\ UnchangedButOp
        /\ op' = [user |-> u, password |-> NoValue, old |-> NoValue, kind |-> "delete", todo |-> y]
    BY DEF Begin, disk, memory, ghosts, UnchangedButOp
  <1>5. Encrypted(u) \/ ~Volume
    <2>1. In(u)
      BY DEF Known, In
    <2> QED
      BY <1>0, <1>2, <2>1, AtRest DEF OfUser, Served
  <1>1. y \in Seq(Effects) /\ OpenWipe(y)
    BY <1>0, <1>5, DeletePlan
  <1>3. op' \in OpRecords /\ op'.user = u /\ op'.todo = y /\ op'.kind = "delete"
    BY <1>0, <1>1, <1>2 DEF OpRecords, Cuts
  <1>4. file' = file /\ places' = places
    BY <1>2 DEF UnchangedButOp
  <1>6. (Encrypted(u) => OnVolume(u))' /\ (Volume => Encrypted(u))'
    BY <1>4, <1>5 DEF Encrypted, isMounted, OnVolume, storeExists
  <1>7. Deleting(u, y)'
    BY <1>0, <1>1, <1>3, <1>4, <1>6 DEF Deleting
  <1>8. Underway(u, y)'
    BY <1>7 DEF Underway
  <1> QED
    BY <1>0, <1>2, <1>3, <1>8, BeginKept

(* A step between operations that leaves none under way, or a logout.      *)
LEMMA RestStep ==
  ASSUME UsersInv, Ready, Typed', UNCHANGED <<root, begun, up>>,
         \A w \in Ids : OfUser(w)',
         ~Idle' => Underway(op.user, op.todo)'
  PROVE  UsersInv'
  <1>1. begun /\ root = {} /\ up
    BY AtRest DEF Ready
  <1>2. Planned'
    BY <1>1 DEF Planned, Idle
  <1>3. Down' /\ Begun'
    BY <1>1 DEF Down, Begun
  <1> QED
    BY <1>2, <1>3 DEF UsersInv

(* Between operations sessions may end.                                    *)
LEMMA LessKept ==
  ASSUME UsersInv, Ready, NEW w \in Ids,
         UNCHANGED <<file, places, root, begun, up, apps, driven, bound, standing, wrote, cut>>,
         \A t \in Tokens : SignedIn(t, w)' => SignedIn(t, w),
         Attended(w)'
  PROVE  OfUser(w)'
  <1>1. OfUser(w) /\ ~Acting(w)
    BY AtRest
  <1>2. UNCHANGED <<NoCut(w), NoRekey(w), storeExists(w), OnDisk(w)>> /\ (In(w)' => In(w))
    BY DEF NoCut, NoRekey, storeExists, OnDisk, In
  <1>3. Encrypted(w)' = Encrypted(w)
    BY DEF Encrypted
  <1>4. Imageless(w)' /\ Unknown(w)' /\ Passworded(w)'
    BY <1>1, <1>2, <1>3 DEF OfUser, Imageless, Unknown, Passworded
  <1>5. Keyed(w)' /\ OnTheDisk(w)' /\ InPlace(w)'
    BY <1>1, <1>2, <1>3 DEF OfUser, Keyed, OnTheDisk, InPlace
  <1>6. OverVolume(w)' /\ Served(w)' /\ DrivenOf(w)'
    BY <1>1, <1>2, <1>3 DEF OfUser, OverVolume, Served, DrivenOf
  <1> QED
    BY <1>4, <1>5, <1>6 DEF OfUser

(* The last session out locks the store.                                   *)
LEMMA LogoutKept ==
  ASSUME UsersInv, NEW t \in Tokens, logout(t)
  PROVE  UsersInv'
  <1>1. PICK u \in Ids :
          /\ Ready /\ SignedIn(t, u)
          /\ sessions' = [sessions EXCEPT ![t] = NoValue]
          /\ op' = [NoOp EXCEPT !.user = u,
                               !.todo = IF ~Remaining(t, u) /\ file[u] # NoValue /\ Encrypted(u)
                                        THEN <<"close", "lock">> ELSE <<>>]
          /\ UNCHANGED <<disk, up, apps, driven, bound, standing, ghosts, upsets>>
    BY DEF logout
  <1> PICK y : y = IF ~Remaining(t, u) /\ file[u] # NoValue /\ Encrypted(u)
                   THEN <<"close", "lock">> ELSE <<>>
    OBVIOUS
  <1>2. UNCHANGED <<file, places, root, lanFile, begun, up, apps, driven, bound, standing, wrote, cut, excused, upsets>>
    BY <1>1 DEF disk, ghosts
  <1>3. Typed /\ \A w \in Ids : OfUser(w) /\ ~Acting(w)
    BY <1>1, AtRest
  <1>4. y \in Seq(Effects) /\ (y # <<>> => CloseLast(y) /\ ~Remaining(t, u) /\ file[u] # NoValue /\ Encrypted(u))
    BY ShortPlans
  <1>5. op' \in OpRecords /\ op'.user = u /\ op'.kind = "open" /\ op'.todo = y
    BY <1>1, <1>4, NoOpIs DEF OpRecords, NoOp
  <1>6. sessions' \in [Tokens -> SessionRecords \cup {NoValue}]
    BY <1>1, <1>3 DEF Typed, TypeOK
  <1>7. Typed'
    BY <1>2, <1>3, <1>5, <1>6 DEF Typed, TypeOK, OpRecords
  <1>8. \A s \in Tokens, w \in Ids : /\ SignedIn(s, w)' => SignedIn(s, w)
                                     /\ SignedIn(s, w) /\ s # t => SignedIn(s, w)'
                                     /\ SignedIn(s, w) /\ w # u => SignedIn(s, w)'
                                     /\ ~SignedIn(t, w)'
    <2>1. sessions \in [Tokens -> SessionRecords \cup {NoValue}]
      BY <1>3 DEF Typed, TypeOK
    <2> QED
      BY <1>1, <2>1 DEF SignedIn
  <1>9. ASSUME NEW w \in Ids
        PROVE  OfUser(w)'
    <2>1. CASE w # u
      <3>1. Untouched(w)
        BY <1>2, <1>8, <2>1 DEF Untouched
      <3> QED
        BY <1>1, <1>3, <3>1, UntouchedKept, AtRest
    <2>2. CASE w = u
      <3>1. Remaining(t, u) => In(u)'
        BY <1>8 DEF Remaining, In
      <3>2. ~Remaining(t, u) /\ file[u] # NoValue /\ Encrypted(u) =>
              y # <<>> /\ Head(y) = "close"
        BY <1>4, Heads
      <3>3. ~Remaining(t, u) /\ file[u] # NoValue /\ Encrypted(u) =>
              Acting(u)' /\ (Head(op.todo) \notin MayFail)'
        BY <1>5, <3>2 DEF Acting, Idle, MayFail
      <3>4. Attended(u)'
        BY <1>2, <3>1, <3>3 DEF Attended, Encrypted
      <3> QED
        BY <1>1, <1>2, <1>8, <2>2, <3>4, LessKept
    <2> QED
      BY <2>1, <2>2
  <1>10. ~Idle' => Underway(op.user, op.todo)'
    <2>1. ~Remaining(t, u) => Out(u)'
      BY <1>8 DEF Remaining, Out
    <2>2. y # <<>> => LoggingOut(u, y)'
      BY <1>2, <1>4, <1>5, <2>1 DEF LoggingOut
    <2>3. y # <<>> => LoggingOut(op.user, op.todo)'
      BY <1>5, <2>2 DEF LoggingOut
    <2> QED
      BY <1>5, <2>3 DEF Idle, Underway
  <1> QED
    BY <1>1, <1>2, <1>7, <1>9, <1>10, RestStep

(* A session runs out.                                                     *)
LEMMA GoesIdleKept ==
  ASSUME UsersInv, NEW t \in Tokens, GoesIdle(t)
  PROVE  UsersInv'
  <1>1. /\ Ready /\ sessions[t] # NoValue
        /\ sessions' = [sessions EXCEPT ![t].idle = TRUE]
        /\ UNCHANGED <<file, places, root, lanFile, begun, up, apps, driven, bound, standing, op, wrote, cut, excused, upsets>>
    BY DEF GoesIdle, disk, ghosts
  <1>3. Typed /\ \A w \in Ids : OfUser(w) /\ ~Acting(w)
    BY <1>1, AtRest
  <1>2. sessions \in [Tokens -> SessionRecords \cup {NoValue}] /\ sessions[t] \in SessionRecords
    BY <1>1, <1>3 DEF Typed, TypeOK
  <1>4. PICK r \in SessionRecords : sessions' = [sessions EXCEPT ![t] = r] /\ r.user = sessions[t].user /\ r # NoValue
    <2> DEFINE z == [sessions[t] EXCEPT !.idle = TRUE]
    <2>1. z \in SessionRecords /\ z.user = sessions[t].user
      BY <1>2 DEF SessionRecords
    <2>2. sessions' = [sessions EXCEPT ![t] = z]
      BY <1>1
    <2> HIDE DEF z
    <2> QED
      BY <2>1, <2>2, NoValues
  <1>5. sessions' \in [Tokens -> SessionRecords \cup {NoValue}]
    BY <1>2, <1>4
  <1>6. Typed'
    BY <1>1, <1>3, <1>5 DEF Typed, TypeOK, OpRecords
  <1>7. \A s \in Tokens, w \in Ids : SignedIn(s, w)' <=> SignedIn(s, w)
    BY <1>1, <1>2, <1>4 DEF SignedIn
  <1>8. \A w \in Ids : Untouched(w)
    BY <1>1, <1>7 DEF Untouched
  <1>9. \A w \in Ids : OfUser(w)'
    BY <1>1, <1>3, <1>8, UntouchedKept, AtRest
  <1>10. Idle'
    BY <1>1 DEF Ready, Idle
  <1> QED
    BY <1>1, <1>6, <1>9, <1>10, RestStep

(* ... and is dropped, which locks nothing.                                *)
LEMMA ExpireKept ==
  ASSUME UsersInv, NEW t \in Tokens, Expire(t)
  PROVE  UsersInv'
  <1>1. /\ Ready /\ sessions[t] # NoValue
        /\ sessions' = [sessions EXCEPT ![t] = NoValue]
        /\ excused' = IF Remaining(t, sessions[t].user) THEN excused ELSE excused \cup {sessions[t].user}
        /\ UNCHANGED <<file, places, root, lanFile, begun, up, apps, driven, bound, standing, op, wrote, cut, upsets>>
    BY DEF Expire, disk
  <1>3. Typed /\ \A w \in Ids : OfUser(w) /\ ~Acting(w)
    BY <1>1, AtRest
  <1>2. sessions \in [Tokens -> SessionRecords \cup {NoValue}] /\ sessions[t].user \in Ids
    BY <1>1, <1>3 DEF Typed, TypeOK, SessionRecords
  <1> PICK u \in Ids : u = sessions[t].user
    BY <1>2
  <1>5. sessions' \in [Tokens -> SessionRecords \cup {NoValue}] /\ excused' \subseteq Ids
    BY <1>1, <1>2, <1>3 DEF Typed, TypeOK
  <1>6. Typed'
    BY <1>1, <1>3, <1>5 DEF Typed, TypeOK, OpRecords
  <1>8. \A s \in Tokens, w \in Ids : /\ SignedIn(s, w)' => SignedIn(s, w)
                                     /\ SignedIn(s, w) /\ s # t => SignedIn(s, w)'
                                     /\ SignedIn(s, w) /\ w # u => SignedIn(s, w)'
    BY <1>1, <1>2 DEF SignedIn
  <1>7. \A w \in Ids : In(w) => In(w)' \/ w \in excused'
    <2>1. Remaining(t, u) => In(u)'
      BY <1>8 DEF Remaining, In
    <2>2. ~Remaining(t, u) => u \in excused'
      BY <1>1
    <2>3. \A w \in Ids : w # u /\ In(w) => In(w)'
      BY <1>8 DEF In
    <2> QED
      BY <2>1, <2>2, <2>3
  <1>9. ASSUME NEW w \in Ids
        PROVE  OfUser(w)'
    <2>1. Attended(w)'
      BY <1>1, <1>3, <1>7, AtRest DEF OfUser, Attended, Encrypted, isMounted
    <2> QED
      BY <1>1, <1>8, <2>1, LessKept
  <1>10. Idle'
    BY <1>1 DEF Ready, Idle
  <1> QED
    BY <1>1, <1>6, <1>9, <1>10, RestStep

(* The network is asked for, or no longer.                                 *)
LEMMA SetLanKept ==
  ASSUME UsersInv, NEW t \in Tokens, NEW on \in BOOLEAN, setLan(t, on)
  PROVE  UsersInv'
  <1>1. /\ Ready /\ lanFile' = on /\ bound' = on
        /\ on => \A u \in Registered : file[u].password # NoValue
        /\ UNCHANGED <<file, places, root, begun, up, apps, driven, sessions, standing, op, wrote, cut, excused, upsets>>
    BY DEF setLan, ghosts
  <1>3. Typed /\ \A w \in Ids : OfUser(w) /\ ~Acting(w)
    BY <1>1, AtRest
  <1>6. Typed'
    BY <1>1, <1>3 DEF Typed, TypeOK, OpRecords
  <1>9. ASSUME NEW w \in Ids
        PROVE  OfUser(w)'
    <2>1. Passworded(w)'
      <3>1. file[w] # NoValue /\ file[w].password = NoValue => ~on
        BY <1>1 DEF Registered
      <3> QED
        BY <1>1, <1>3, <3>1 DEF OfUser, Passworded, Encrypted, storeExists
    <2>2. /\ Imageless(w)' /\ Unknown(w)' /\ Keyed(w)' /\ OnTheDisk(w)' /\ InPlace(w)'
      BY <1>1, <1>3 DEF OfUser, Imageless, Unknown, Keyed, OnTheDisk, InPlace, storeExists, NoCut, NoRekey, OnDisk, Acting, Idle, Encrypted
    <2>3. OverVolume(w)' /\ Attended(w)' /\ Served(w)' /\ DrivenOf(w)'
      BY <1>1, <1>3, AtRest DEF OfUser, OverVolume, Attended, Served, DrivenOf, NoRekey, Acting, Idle, Encrypted, isMounted, In, SignedIn
    <2> QED
      BY <2>1, <2>2, <2>3 DEF OfUser
  <1>10. Idle'
    BY <1>1 DEF Ready, Idle
  <1> QED
    BY <1>1, <1>6, <1>9, <1>10, RestStep

(* Something is put into the household, or a standing run is started.      *)
LEMMA RequestKept ==
  ASSUME UsersInv, NEW t \in Tokens, Request(t)
  PROVE  UsersInv'
  <1>1. PICK u \in Registered :
          /\ Ready /\ Known(t, u) /\ appFor(u)
          /\ \/ \E d \in Docs \ wrote[u] :
                  /\ wrote' = [wrote EXCEPT ![u] = @ \cup {d}]
                  /\ At(u, Stored(places[u], {d, Db}))
                  /\ UNCHANGED <<standing, driven>>
             \/ /\ u \notin standing
                /\ standing' = standing \cup {u}
                /\ driven' = driven \cup {u}
                /\ At(u, Stored(places[u], {Db}))
                /\ UNCHANGED wrote
          /\ apps' = apps \cup {u}
          /\ UNCHANGED <<file, root, lanFile, begun, up, sessions, bound, op, cut, excused, upsets>>
    BY DEF Request
  <1>2. /\ Typed /\ begun /\ root = {} /\ ~ServePlan(op.todo)
        /\ u \in Ids /\ file[u] # NoValue
        /\ \A w \in Ids : OfUser(w) /\ ~Acting(w)
    BY <1>1, AtRest DEF Registered
  <1>3. places \in [Ids -> Places] /\ wrote \in [Ids -> SUBSET Docs] /\ apps \subseteq Ids /\ driven \subseteq apps
        /\ standing \subseteq Ids
    BY <1>2 DEF Typed, TypeOK
  <1> PICK p \in Places : p = places[u]
    BY <1>2, <1>3
  <1>4. PICK items \in SUBSET Items :
          /\ At(u, Stored(p, items))
          /\ wrote' \in [Ids -> SUBSET Docs] /\ wrote'[u] \subseteq wrote[u] \cup items
          /\ \A w \in Ids : w # u => wrote'[w] = wrote[w]
          /\ standing \subseteq standing' /\ standing' \subseteq standing \cup {u}
          /\ driven \subseteq driven' /\ driven' \subseteq driven \cup {u}
          /\ u \in standing' => u \in standing \/ u \in driven'
    <2>1. CASE \E d \in Docs \ wrote[u] :
                  /\ wrote' = [wrote EXCEPT ![u] = @ \cup {d}]
                  /\ At(u, Stored(places[u], {d, Db}))
                  /\ UNCHANGED <<standing, driven>>
      <3>1. PICK d \in Docs \ wrote[u] :
                  /\ wrote' = [wrote EXCEPT ![u] = @ \cup {d}]
                  /\ At(u, Stored(places[u], {d, Db}))
                  /\ UNCHANGED <<standing, driven>>
        BY <2>1
      <3>2. {d, Db} \in SUBSET Items
        BY DEF Items
      <3>3. /\ wrote' \in [Ids -> SUBSET Docs] /\ wrote'[u] \subseteq wrote[u] \cup {d, Db}
            /\ \A w \in Ids : w # u => wrote'[w] = wrote[w]
        BY <1>2, <1>3, <3>1
      <3> QED
        BY <3>1, <3>2, <3>3
    <2>2. CASE /\ u \notin standing
               /\ standing' = standing \cup {u}
               /\ driven' = driven \cup {u}
               /\ At(u, Stored(places[u], {Db}))
               /\ UNCHANGED wrote
      <3>1. {Db} \in SUBSET Items
        BY DEF Items
      <3> QED
        BY <1>3, <2>2, <3>1
    <2> QED
      BY <1>1, <2>1, <2>2
  <1>5. PICK q \in Places :
          /\ At(u, q) /\ q.stage = p.stage /\ q.image = p.image /\ q.key = p.key /\ q.attached = p.attached
          /\ q.inside = IF p.attached THEN p.inside \cup items ELSE p.inside
          /\ Entries(p.plain) \subseteq Entries(q.plain)
          /\ ~p.attached => Entries(q.plain) = Entries(p.plain) \cup items
    <2> DEFINE z == Stored(p, items)
    <2>1. /\ z \in Places /\ z.stage = p.stage /\ z.image = p.image /\ z.key = p.key /\ z.attached = p.attached
          /\ z.inside = IF p.attached THEN p.inside \cup items ELSE p.inside
          /\ z.plain = IF p.attached THEN p.plain ELSE Entries(p.plain) \cup items
          /\ Entries(p.plain) \subseteq Entries(z.plain)
      BY StoredIs
    <2>2. At(u, z)
      BY <1>4
    <2>3. Entries(p.plain) \cup items \in SUBSET Items
      BY PlaceFields, EntriesOf
    <2> HIDE DEF z
    <2>4. ~p.attached => Entries(z.plain) = Entries(p.plain) \cup items
      BY <2>1, <2>3, NoValues DEF Entries
    <2> QED
      BY <2>1, <2>2, <2>4
  <1>6. /\ places' \in [Ids -> Places] /\ places'[u] = q
        /\ \A w \in Ids : w # u => places'[w] = places[w]
    BY <1>2, <1>5, PlaceAt
  <1>7. UNCHANGED <<file, root, lanFile, begun, up, sessions, bound, op, cut, excused, upsets>> /\ apps' = apps \cup {u}
    BY <1>1
  <1>8. Typed'
    BY <1>2, <1>3, <1>4, <1>6, <1>7 DEF Typed, TypeOK, OpRecords
  <1>9. ASSUME NEW w \in Ids, w # u
        PROVE  OfUser(w)'
    <2>1. Untouched(w)
      BY <1>3, <1>4, <1>6, <1>7, <1>9 DEF Untouched, SignedIn
    <2> QED
      BY <1>2, <1>9, <2>1, UntouchedKept
  <1>10. In(u) /\ (Encrypted(u) => isMounted(u)) /\ ~Acting(u) /\ ~Acting(u)'
    BY <1>1, <1>2, <1>7 DEF In, Known, appFor, Acting, Idle
  <1>11. /\ (Encrypted(u) => Volume) /\ (Volume => Encrypted(u))
         /\ NoRekey(u) => u \in apps
    BY <1>2, <1>10 DEF OfUser, Passworded, Served
  <1>12. UNCHANGED <<Encrypted(u), NoCut(u), NoRekey(u), In(u)>>
    BY <1>7 DEF Encrypted, NoCut, NoRekey, In, SignedIn
  <1>13. /\ places'[u].stage = p.stage /\ places'[u].image = p.image /\ places'[u].key = p.key
         /\ places'[u].attached = p.attached
         /\ places'[u].inside = IF p.attached THEN p.inside \cup items ELSE p.inside
         /\ Entries(p.plain) \subseteq Entries(places'[u].plain)
         /\ ~p.attached => Entries(places'[u].plain) = Entries(p.plain) \cup items
    BY <1>5, <1>6
  <1>14. /\ ~Encrypted(u) => p.image = "none" /\ ~p.attached
         /\ Encrypted(u) => p.image # "none"
    BY <1>2, <1>10, <1>11 DEF OfUser, Imageless, storeExists, isMounted
  <1>15. Imageless(u)' /\ Unknown(u)' /\ Passworded(u)'
    BY <1>2, <1>7, <1>12, <1>13, <1>14 DEF OfUser, Imageless, Unknown, Passworded, storeExists
  <1>16. Keyed(u)' /\ OnTheDisk(u)'
    <2>1. Keyed(u)'
      BY <1>2, <1>7, <1>10, <1>12, <1>13 DEF OfUser, Keyed, storeExists
    <2>2. OnDisk(u) \cup items \subseteq OnDisk(u)'
      <3>1. CASE p.attached
        BY <1>13, <3>1 DEF OnDisk
      <3>2. CASE ~p.attached
        BY <1>13, <3>2 DEF OnDisk
      <3> QED
        BY <3>1, <3>2
    <2>3. OnTheDisk(u)'
      BY <1>2, <1>4, <1>7, <2>2 DEF OfUser, OnTheDisk
    <2> QED
      BY <2>1, <2>3
  <1>17. InPlace(u)'
    <2>1. CASE Encrypted(u)
      BY <1>2, <1>4, <1>7, <1>10, <1>12, <1>13, <2>1 DEF OfUser, InPlace, isMounted
    <2>2. CASE ~Encrypted(u)
      BY <1>2, <1>4, <1>7, <1>10, <1>12, <1>13, <1>14, <2>2 DEF OfUser, InPlace, storeExists
    <2> QED
      BY <2>1, <2>2
  <1>18. OverVolume(u)' /\ Attended(u)'
    BY <1>10, <1>12, <1>13 DEF OverVolume, Attended, isMounted
  <1>19. Served(u)' /\ DrivenOf(u)'
    <2>1. Served(u)'
      BY <1>2, <1>7, <1>10, <1>12 DEF OfUser, Served
    <2>2. NoRekey(u) /\ u \in standing => u \in driven
      BY <1>2, <1>10, <1>11 DEF OfUser, DrivenOf
    <2>3. DrivenOf(u)'
      BY <1>4, <1>12, <2>2 DEF DrivenOf
    <2> QED
      BY <2>1, <2>3
  <1>20. OfUser(u)'
    BY <1>15, <1>16, <1>17, <1>18, <1>19 DEF OfUser
  <1>21. Idle'
    BY <1>1 DEF Ready, Idle
  <1> QED
    BY <1>1, <1>8, <1>9, <1>20, <1>21, RestStep

-----------------------------------------------------------------------------
(* Proofs: calls that fail, and the end of the host.                       *)

(* What is cut short is known to be.                                       *)
LEMMA CutIs ==
  ASSUME UsersInv, cut' = CutShort
  PROVE  /\ cut' \subseteq Ids \X Cuts /\ cut \subseteq cut'
         /\ ~Idle => <<op.user, op.kind>> \in cut'
  <1>1. cut \subseteq Ids \X Cuts /\ op.user \in Ids /\ op.kind \in Cuts
    BY OpFields DEF UsersInv, Typed, TypeOK
  <1> QED
    BY <1>1 DEF CutShort

(* A call of hdiutil fails.                                                *)
LEMMA FailKept ==
  ASSUME UsersInv, Fail
  PROVE  UsersInv'
  <1>0. op.user \in Ids /\ Typed
    BY OpFields DEF UsersInv
  <1> PICK u \in Ids : u = op.user
    BY <1>0
  <1> PICK x : x = op.todo
    OBVIOUS
  <1>1. /\ x # <<>> /\ Head(x) \in MayFail \cup {"removeDir"} /\ op' = NoOp /\ cut' = CutShort
        /\ upsets' = upsets \/ (upsets < MaxUpsets /\ upsets' = upsets + 1)
        /\ UNCHANGED <<file, places, root, lanFile, begun, up, apps, driven, sessions, bound, standing, wrote, excused>>
    BY DEF Fail, Doing, Idle, MayFail, disk, memory
  <1>2. /\ begun /\ up /\ OfUser(u) /\ root = {} /\ ~ServePlan(x)
    BY <1>1, AtStep DEF MayFail
  <1>3. /\ cut' \subseteq Ids \X Cuts /\ cut \subseteq cut' /\ <<u, op.kind>> \in cut'
    BY <1>1, CutIs DEF Idle
  <1>4. upsets' \in 0 .. MaxUpsets
    BY <1>0, <1>1, BoundsAssumption DEF Typed, TypeOK
  <1>5. Typed'
    BY <1>0, <1>1, <1>3, <1>4, NoOpIs DEF Typed, TypeOK, OpRecords
  <1>6. ASSUME NEW w \in Ids, w # u
        PROVE  OfUser(w)'
    <2>1. Untouched(w)
      BY <1>1, <1>3 DEF Untouched, SignedIn
    <2>2. OfUser(w) /\ ~Acting(w)
      BY <1>6 DEF UsersInv, Acting
    <2> QED
      BY <1>2, <2>1, <2>2, UntouchedKept
  <1>7. /\ Moving(x) => op.kind = "encrypt"
        /\ Away(x) \/ Changing(x) => op.kind = "rekey"
        /\ ~WipePlan(x)
    BY <1>1, Excuses, Heads DEF MayFail
  <1>8. /\ NoCut(u)' => NoCut(u) /\ ~Moving(x)
        /\ NoRekey(u)' => NoRekey(u) /\ ~Away(x) /\ ~Changing(x)
    BY <1>3, <1>7 DEF NoCut, NoRekey
  <1>9. UNCHANGED <<storeExists(u), isMounted(u), Encrypted(u), OnDisk(u), In(u)>>
    BY <1>1 DEF storeExists, isMounted, Encrypted, OnDisk, In, SignedIn
  <1>10. Imageless(u)' /\ Unknown(u)' /\ Passworded(u)'
    BY <1>1, <1>2, <1>8, <1>9 DEF OfUser, Imageless, Unknown, Passworded
  <1>11. Keyed(u)' /\ OnTheDisk(u)' /\ InPlace(u)'
    BY <1>1, <1>2, <1>8, <1>9 DEF OfUser, Keyed, OnTheDisk, InPlace
  <1>16. Head(x) = "removeDir" => ~isMounted(u)
    <2>1. Head(x) = "removeDir" => Underway(u, x)
      BY <1>1, AtStep
    <2>2. Head(x) = "removeDir" => ~storeExists(u)
      BY <2>1, Heads DEF Underway, Adding, Unlocking, Encrypting, FirstPassword, Rekeying, Deleting, LoggingOut
    <2> QED
      BY <2>2 DEF storeExists, isMounted
  <1>12. OverVolume(u)' /\ Attended(u)'
    BY <1>1, <1>2, <1>9, <1>16 DEF OfUser, OverVolume, Attended
  <1>13. Served(u)' /\ DrivenOf(u)'
    BY <1>1, <1>2, <1>7, <1>8, <1>9 DEF OfUser, Served, DrivenOf
  <1>14. OfUser(u)'
    BY <1>10, <1>11, <1>12, <1>13 DEF OfUser
  <1>15. Planned' /\ Down' /\ Begun'
    BY <1>1, <1>2, NoOpIs DEF Planned, Down, Begun
  <1> QED
    BY <1>5, <1>6, <1>14, <1>15 DEF UsersInv

(* A place's volume may be detached, and no more.                          *)
Slipped(w) ==
  /\ places'[w].plain = places[w].plain /\ places'[w].stage = places[w].stage
  /\ places'[w].image = places[w].image /\ places'[w].key = places[w].key
  /\ places'[w].inside = places[w].inside /\ (places'[w].attached => places[w].attached)

(* Some of the volumes are detached.                                       *)
LEMMA SlippedIs ==
  ASSUME places \in [Ids -> Places], NEW S,
         places' = [u \in Ids |-> IF u \in S THEN [places[u] EXCEPT !.attached = FALSE] ELSE places[u]]
  PROVE  places' \in [Ids -> Places] /\ \A w \in Ids : Slipped(w)
  <1>1. ASSUME NEW w \in Ids
        PROVE  places'[w] \in Places /\ Slipped(w)
    <2>1. CASE w \in S
      <3> PICK p \in Places : p = places[w]
        OBVIOUS
      <3>1. places'[w] = [p EXCEPT !.attached = FALSE]
        BY <2>1
      <3> DEFINE q == [p EXCEPT !.attached = FALSE]
      <3>2. /\ q \in Places /\ q.plain = p.plain /\ q.stage = p.stage /\ q.image = p.image /\ q.key = p.key
            /\ q.inside = p.inside /\ ~q.attached
        BY AttachedSet
      <3> HIDE DEF q
      <3> QED
        BY <3>1, <3>2 DEF Slipped, q
    <2>2. CASE w \notin S
      BY <2>2 DEF Slipped
    <2> QED
      BY <2>1, <2>2
  <1>2. places' \in [Ids -> Places]
    BY <1>1
  <1> QED
    BY <1>1, <1>2

(* Volumes that stay busy are counted.                                     *)
LEMMA BusyCounted ==
  ASSUME Typed, NEW busy \in BusyNow
  PROVE  busy \subseteq Ids /\ upsets + Cardinality(busy) \in 0 .. MaxUpsets
  <1>1. busy \subseteq Ids /\ upsets + Cardinality(busy) <= MaxUpsets
    BY DEF BusyNow, Mounted, Registered
  <1>2. IsFiniteSet(busy)
    BY <1>1, IdsAssumption, FS_Subset
  <1>3. Cardinality(busy) \in Nat
    BY <1>2, FS_CardinalityType
  <1> QED
    BY <1>1, <1>3, BoundsAssumption DEF Typed, TypeOK

(* The host is gone, whatever it was doing.                                *)
LEMMA GoneKept ==
  ASSUME UsersInv, up, Gone, Typed', UNCHANGED <<file, root, begun, standing, wrote>>,
         \A w \in Ids : Slipped(w),
         cut \subseteq cut',
         ~Idle /\ (~begun \/ Moving(op.todo) \/ Changing(op.todo)) => <<op.user, op.kind>> \in cut'
  PROVE  UsersInv'
  <1>1. /\ up' = FALSE /\ op' = NoOp /\ apps' = {} /\ driven' = {} /\ bound' = FALSE
        /\ \A t \in Tokens : sessions'[t] = NoValue
    BY DEF Gone
  <1>2. Planned' /\ Down'
    BY <1>1, NoOpIs DEF Planned, Down, Quiet
  <1>3. Begun'
    <2>1. ~begun => Starting(op.user, op.todo) /\ op.todo # <<>>
      BY DEF UsersInv, Begun, Planned, Idle
    <2>2. ~begun => op.user = Primary /\ op.kind = "migrate"
      BY <2>1 DEF Starting
    <2>3. ~begun => <<Primary, "migrate">> \in cut'
      BY <2>1, <2>2 DEF Idle
    <2>4. ~begun => ~NoCut(Primary)'
      BY <2>3 DEF NoCut
    <2>5. /\ begun => root = {}
          /\ ~begun => /\ \A u \in Ids : file[u] = NoValue /\ places[u].stage = NoValue
                       /\ \A u \in Ids \ {Primary} : places[u].plain = NoValue
      BY DEF UsersInv, Begun
    <2> QED
      BY <1>1, <2>4, <2>5 DEF Begun, Slipped
  <1>4. ASSUME NEW w \in Ids
        PROVE  OfUser(w)'
    <2>1. OfUser(w) /\ Slipped(w)
      BY DEF UsersInv
    <2>2. UNCHANGED <<storeExists(w), Encrypted(w), OnDisk(w)>> /\ (places'[w].attached => places[w].attached)
      BY <2>1 DEF Slipped, storeExists, Encrypted, OnDisk
    <2>3. NoCut(w)' => NoCut(w) /\ ~(Acting(w) /\ Moving(op.todo))
      BY Excuses DEF NoCut, Acting, Idle
    <2>4. NoRekey(w)' => NoRekey(w) /\ ~(Acting(w) /\ Changing(op.todo))
      BY Excuses DEF NoRekey, Acting, Idle
    <2>5. Imageless(w)' /\ Unknown(w)' /\ Passworded(w)'
      BY <1>1, <2>1, <2>2, <2>3 DEF OfUser, Imageless, Unknown, Passworded, Slipped
    <2>6. Keyed(w)' /\ OnTheDisk(w)' /\ InPlace(w)'
      BY <1>1, <2>1, <2>2, <2>3, <2>4 DEF OfUser, Keyed, OnTheDisk, InPlace, Slipped
    <2>7. OverVolume(w)' /\ Attended(w)' /\ Served(w)' /\ DrivenOf(w)'
      BY <1>1 DEF OverVolume, Attended, Served, DrivenOf, In, SignedIn
    <2> QED
      BY <2>5, <2>6, <2>7 DEF OfUser
  <1> QED
    BY <1>2, <1>3, <1>4 DEF UsersInv

(* The exit after a factory reset.                                         *)
LEMMA ExitKept ==
  ASSUME UsersInv, Exit
  PROVE  UsersInv'
  <1>1. /\ up /\ op.todo # <<>> /\ Head(op.todo) = "exit" /\ Gone
        /\ UNCHANGED <<file, places, root, lanFile, begun, standing, wrote, cut, excused, upsets>>
    BY DEF Exit, Doing, Idle, disk, ghosts
  <1>2. begun /\ ~Moving(op.todo) /\ ~Changing(op.todo)
    BY <1>1, AtStep, Heads DEF Moving, Changing
  <1>3. Typed
    BY DEF UsersInv
  <1>4. Typed'
    BY <1>1, <1>3, NoOpIs DEF Gone, Typed, TypeOK, OpRecords
  <1>5. \A w \in Ids : Slipped(w)
    BY <1>1 DEF Slipped
  <1> QED
    BY <1>1, <1>2, <1>4, <1>5, GoneKept

(* A death of the host, or of the machine.                                 *)
LEMMA CrashKept ==
  ASSUME UsersInv, NEW reboot \in BOOLEAN, Crash(reboot)
  PROVE  UsersInv'
  <1>1. /\ up /\ upsets < MaxUpsets /\ upsets' = upsets + 1 /\ Gone /\ cut' = CutShort
        /\ places' = IF reboot THEN [u \in Ids |-> [places[u] EXCEPT !.attached = FALSE]] ELSE places
        /\ UNCHANGED <<file, root, lanFile, begun, standing, wrote, excused>>
    BY DEF Crash
  <1>2. Typed /\ places \in [Ids -> Places]
    BY DEF UsersInv, Typed, TypeOK
  <1>3. /\ cut' \subseteq Ids \X Cuts /\ cut \subseteq cut' /\ (~Idle => <<op.user, op.kind>> \in cut')
    BY <1>1, CutIs
  <1>4. places' \in [Ids -> Places] /\ \A w \in Ids : Slipped(w)
    <2>1. CASE reboot
      <3>1. places' = [u \in Ids |-> IF u \in Ids THEN [places[u] EXCEPT !.attached = FALSE] ELSE places[u]]
        BY <1>1, <2>1
      <3> QED
        BY <1>2, <3>1, SlippedIs
    <2>2. CASE ~reboot
      BY <1>1, <1>2, <2>2 DEF Slipped
    <2> QED
      BY <2>1, <2>2
  <1>5. upsets' \in 0 .. MaxUpsets
    BY <1>1, <1>2, BoundsAssumption DEF Typed, TypeOK
  <1>6. Typed'
    BY <1>1, <1>2, <1>3, <1>4, <1>5, NoOpIs DEF Gone, Typed, TypeOK, OpRecords
  <1> QED
    BY <1>1, <1>3, <1>4, <1>6, GoneKept

(* A stop of the host.                                                     *)
LEMMA CloseAllKept ==
  ASSUME UsersInv, closeAll
  PROVE  UsersInv'
  <1>1. PICK busy \in BusyNow :
          /\ Ready /\ Gone
          /\ places' = [u \in Ids |-> IF u \in Mounted \ busy THEN [places[u] EXCEPT !.attached = FALSE]
                                      ELSE places[u]]
          /\ upsets' = upsets + Cardinality(busy)
          /\ excused' = busy
          /\ UNCHANGED <<file, root, lanFile, begun, standing, wrote, cut>>
    BY DEF closeAll
  <1>2. Typed /\ places \in [Ids -> Places]
    BY DEF UsersInv, Typed, TypeOK
  <1>3. excused' \subseteq Ids /\ upsets' \in 0 .. MaxUpsets
    BY <1>1, <1>2, BusyCounted
  <1>4. places' \in [Ids -> Places] /\ \A w \in Ids : Slipped(w)
    BY <1>1, <1>2, SlippedIs
  <1>5. Typed'
    BY <1>1, <1>2, <1>3, <1>4, NoOpIs DEF Gone, Typed, TypeOK, OpRecords
  <1> QED
    BY <1>1, <1>4, <1>5, GoneKept DEF Ready

-----------------------------------------------------------------------------
(* Proofs: the start of the host.                                          *)

(* Of who is not known before the user file is written nothing is on disk. *)
LEMMA NobodyYet ==
  ASSUME UsersInv, ~begun, NEW w \in Ids
  PROVE  /\ file[w] = NoValue /\ ~storeExists(w) /\ Entries(places[w].stage) = {} /\ places[w].inside = {}
         /\ (w # Primary \/ (Idle /\ NoCut(Primary)) => OnDisk(w) = {})
  <1>1. /\ file[w] = NoValue /\ places[w].stage = NoValue
        /\ w # Primary \/ (Idle /\ NoCut(Primary)) => places[w].plain = NoValue
    BY DEF UsersInv, Begun
  <1>2. OfUser(w)
    BY DEF UsersInv
  <1>3. ~storeExists(w) /\ places[w].inside = {}
    BY <1>1, <1>2 DEF OfUser, Unknown, Imageless
  <1> QED
    BY <1>1, <1>3 DEF OnDisk, Entries

(* The host comes up.                                                      *)
LEMMA LoadKept ==
  ASSUME UsersInv, loadUsers
  PROVE  UsersInv'
  <1> PICK b : b = (begun \/ root = {})
    OBVIOUS
  <1> PICK y : y = IF b THEN <<"serve">> ELSE <<"move", "register", "serve">>
    OBVIOUS
  <1> PICK k : k = IF b THEN "open" ELSE "migrate"
    OBVIOUS
  <1>1. /\ ~up /\ up' = TRUE /\ begun' = b
        /\ op' = [NoOp EXCEPT !.kind = k, !.todo = y]
        /\ UNCHANGED <<file, places, root, lanFile, apps, driven, sessions, bound, standing, wrote, cut, excused, upsets>>
    BY DEF loadUsers, memory, ghosts
  <1>2. /\ Typed /\ op.todo = <<>> /\ Quiet /\ (begun => root = {}) /\ ~ServePlan(op.todo)
        /\ ~begun => \A u \in Ids : places[u].stage = NoValue
        /\ ~begun => \A u \in Ids \ {Primary} : places[u].plain = NoValue
    BY <1>1, NoOpIs, Heads DEF UsersInv, Down, Begun
  <1>3. y \in Seq(Effects) /\ (b => ServePlan(y)) /\ (~b => MovePlan(y)) /\ y # <<>>
    <2>1. y \in Seq(Effects) /\ (b => ServePlan(y)) /\ (~b => MovePlan(y))
      BY ShortPlans
    <2> QED
      BY <2>1, Heads
  <1>4. op' \in OpRecords /\ op'.user = Primary /\ op'.password = NoValue /\ op'.kind = k /\ op'.todo = y
    BY <1>1, <1>3, NoOpIs DEF OpRecords, NoOp, Cuts
  <1>5. Typed'
    BY <1>1, <1>2, <1>4 DEF Typed, TypeOK, OpRecords
  <1>6. Quiet'
    BY <1>1, <1>2 DEF Quiet
  <1>7. Planned'
    <2>1. Starting(Primary, y)'
      BY <1>1, <1>3, <1>4, <1>6 DEF Starting
    <2>2. Starting(op.user, op.todo)'
      BY <1>4, <2>1 DEF Starting
    <2> QED
      BY <1>1, <2>2 DEF Planned
  <1>8. Down' /\ Begun'
    <2>1. ~Idle'
      BY <1>3, <1>4 DEF Idle
    <2>2. \A u \in Ids : ~b => file[u] = NoValue
      BY NobodyYet
    <2> QED
      BY <1>1, <1>2, <2>1, <2>2 DEF Down, Begun
  <1>9. ASSUME NEW w \in Ids
        PROVE  OfUser(w)'
    <2>1. OfUser(w) /\ ~Acting(w)
      BY <1>2 DEF UsersInv, Acting, Idle
    <2>2. UNCHANGED <<storeExists(w), isMounted(w), Encrypted(w), OnDisk(w), NoCut(w), NoRekey(w), In(w)>> /\ ~In(w)
      BY <1>1, <1>2 DEF storeExists, isMounted, Encrypted, OnDisk, NoCut, NoRekey, In, SignedIn, Quiet
    <2>3. Unknown(w)'
      <3>1. ~begun /\ NoCut(w) => OnDisk(w) = {}
        BY <1>2, NobodyYet DEF Idle
      <3> QED
        BY <1>1, <2>1, <2>2, <3>1 DEF OfUser, Unknown
    <2>4. Imageless(w)' /\ Passworded(w)'
      BY <1>1, <2>1, <2>2 DEF OfUser, Imageless, Passworded
    <2>5. Keyed(w)' /\ OnTheDisk(w)' /\ InPlace(w)'
      BY <1>1, <2>1, <2>2 DEF OfUser, Keyed, OnTheDisk, InPlace
    <2>6. OverVolume(w)'
      BY <1>1, <2>1, <2>2 DEF OfUser, OverVolume
    <2>7. Attended(w)'
      <3>1. ~b => file'[w] = NoValue
        BY <1>1, NobodyYet
      <3>2. b => ServePlan(op.todo)'
        BY <1>3, <1>4 DEF ServePlan, Ends, Begins
      <3> QED
        BY <3>1, <3>2 DEF Attended
    <2>8. Served(w)' /\ DrivenOf(w)'
      BY <1>1, <1>2, <2>2 DEF Served, DrivenOf, Quiet
    <2> QED
      BY <2>3, <2>4, <2>5, <2>6, <2>7, <2>8 DEF OfUser
  <1> QED
    BY <1>5, <1>7, <1>8, <1>9 DEF UsersInv

(* What the start of the host is about.                                    *)
LEMMA AtStart ==
  ASSUME UsersInv, up, op.todo # <<>>
  PROVE  /\ Typed /\ op.user \in Ids /\ places \in [Ids -> Places]
         /\ Head(op.todo) = "serve" => op.user = Primary /\ Quiet /\ ServePlan(op.todo) /\ begun /\ root = {}
         /\ Head(op.todo) = "move" =>
              op.user = Primary /\ Quiet /\ MovePlan(op.todo) /\ op.kind = "migrate" /\ op.password = NoValue /\ ~begun
         /\ Head(op.todo) = "register" /\ ~begun =>
              /\ op.user = Primary /\ Quiet /\ RegisterPrimary(op.todo) /\ op.kind = "migrate"
              /\ op.password = NoValue /\ root = {}
  <1> PICK x : x = op.todo
    OBVIOUS
  <1>1. Typed /\ op.user \in Ids /\ places \in [Ids -> Places] /\ (begun => root = {})
    BY OpFields DEF UsersInv, Typed, TypeOK, Begun
  <1>2. (begun /\ Underway(op.user, x)) \/ Starting(op.user, x)
    BY DEF UsersInv, Planned
  <1>3. Head(x) \in {"serve", "move"} => ~Underway(op.user, x)
    BY Heads DEF Underway, Adding, Unlocking, Encrypting, FirstPassword, Rekeying, Deleting, LoggingOut
  <1>4. Head(x) = "serve" => ~RegisterPrimary(x) /\ ~MovePlan(x)
    BY Heads
  <1>5. Head(x) = "move" => ~RegisterPrimary(x) /\ ~ServePlan(x)
    BY Heads
  <1>6. Head(x) = "register" => ~MovePlan(x) /\ ~ServePlan(x)
    BY Heads
  <1> QED
    BY <1>1, <1>2, <1>3, <1>4, <1>5, <1>6 DEF Starting

(* Before the user file is written, what is known of who.                  *)
LEMMA NobodyKept ==
  ASSUME UsersInv, ~begun, Quiet, Quiet', ~begun', NEW w \in Ids,
         UNCHANGED <<file, standing, wrote, cut>>,
         places'[w].stage = places[w].stage, places'[w].image = places[w].image,
         places'[w].key = places[w].key, places'[w].inside = places[w].inside,
         places'[w].attached = places[w].attached,
         OnTheDisk(w)'
  PROVE  OfUser(w)'
  <1>1. OfUser(w) /\ file[w] = NoValue
    BY NobodyYet DEF UsersInv
  <1>2. UNCHANGED <<storeExists(w), NoCut(w)>> /\ ~In(w)'
    BY DEF storeExists, NoCut, In, SignedIn, Quiet
  <1>3. Imageless(w)' /\ Unknown(w)' /\ Passworded(w)' /\ Keyed(w)' /\ InPlace(w)'
    BY <1>1, <1>2 DEF OfUser, Imageless, Unknown, Passworded, Keyed, InPlace, Quiet
  <1>4. OverVolume(w)' /\ Attended(w)' /\ Served(w)' /\ DrivenOf(w)'
    BY <1>1, <1>2 DEF OverVolume, Attended, Served, DrivenOf, Quiet
  <1> QED
    BY <1>3, <1>4 DEF OfUser

(* A single-user layout moves, entry by entry.                             *)
LEMMA MoveKept ==
  ASSUME UsersInv, Move
  PROVE  UsersInv'
  <1> PICK x : x = op.todo
    OBVIOUS
  <1> PICK y : y = Tail(op.todo)
    OBVIOUS
  <1>1. /\ up /\ x # <<>> /\ Head(x) = "move"
        /\ UNCHANGED <<file, lanFile, begun, up, apps, driven, sessions, bound, standing, wrote, cut, excused, upsets>>
    BY DEF Move, Doing, Idle, memory, ghosts
  <1>2. /\ Typed /\ places \in [Ids -> Places] /\ op.user = Primary /\ Quiet /\ MovePlan(x) /\ op.kind = "migrate"
        /\ op.password = NoValue /\ ~begun
    BY <1>1, AtStart
  <1>3. Quiet' /\ ~begun' /\ up'
    BY <1>1, <1>2 DEF Quiet
  <1>4. CASE root = {}
    <2>1. Done /\ UNCHANGED <<root, places>>
      BY <1>4 DEF Move
    <2>2. /\ op' \in OpRecords /\ op'.todo = y /\ op'.user = Primary
          /\ op'.password = NoValue /\ op'.kind = "migrate"
      BY <1>1, <1>2, <2>1, DoneOp
    <2>3. RegisterPrimary(y) /\ y # <<>>
      BY <1>2, Heads DEF MovePlan
    <2>4. Typed'
      BY <1>1, <1>2, <2>1, <2>2 DEF Typed, TypeOK, OpRecords
    <2>5. Planned'
      <3>1. Starting(Primary, y)'
        BY <1>3, <1>4, <2>1, <2>2, <2>3 DEF Starting
      <3>2. Starting(op.user, op.todo)'
        BY <2>2, <3>1 DEF Starting
      <3> QED
        BY <1>3, <3>2 DEF Planned
    <2>6. Down' /\ Begun'
      <3>1. ~Idle'
        BY <2>2, <2>3 DEF Idle
      <3> QED
        BY <1>1, <1>2, <1>3, <2>1, <3>1 DEF UsersInv, Down, Begun
    <2>7. ASSUME NEW w \in Ids
          PROVE  OfUser(w)'
      <3>1. OnTheDisk(w)'
        BY <1>1, <2>1 DEF UsersInv, OfUser, OnTheDisk, OnDisk
      <3> QED
        BY <1>1, <1>2, <1>3, <2>1, <3>1, NobodyKept
    <2> QED
      BY <2>4, <2>5, <2>6, <2>7 DEF UsersInv
  <1>5. CASE root # {}
    <2>1. PICK d \in root :
            /\ root' = root \ {d}
            /\ At(Primary, [places[Primary] EXCEPT !.plain = Entries(@) \cup {d}])
            /\ UNCHANGED op
      BY <1>5 DEF Move
    <2> PICK p \in Places : p = places[Primary]
      BY <1>2, PrimaryAssumption
    <2>2. root \subseteq Docs /\ {d} \subseteq Items
      BY <1>2, <2>1 DEF Typed, TypeOK, Items
    <2>3. PICK q \in Places : /\ At(Primary, q) /\ q.stage = p.stage /\ q.image = p.image /\ q.key = p.key
                              /\ q.inside = p.inside /\ q.attached = p.attached
                              /\ Entries(q.plain) = Entries(p.plain) \cup {d}
      <3> DEFINE e == Entries(p.plain) \cup {d}
                 z == [p EXCEPT !.plain = e]
      <3>1. At(Primary, z)
        BY <2>1
      <3>2. e \in SUBSET Items
        BY <2>2, PlaceFields, EntriesOf
      <3>3. Entries(e) = e
        BY <3>2, NoValues DEF Entries
      <3> HIDE DEF e
      <3>4. /\ z \in Places /\ z.plain = e /\ z.stage = p.stage /\ z.image = p.image /\ z.key = p.key
            /\ z.inside = p.inside /\ z.attached = p.attached
        BY <3>2 DEF Places
      <3> HIDE DEF z
      <3> QED
        BY <3>1, <3>3, <3>4 DEF e
    <2>4. /\ places' \in [Ids -> Places] /\ places'[Primary] = q
          /\ \A w \in Ids : w # Primary => places'[w] = places[w]
      BY <1>2, <2>3, PlaceAt, PrimaryAssumption
    <2>5. Typed'
      BY <1>1, <1>2, <2>1, <2>2, <2>4 DEF Typed, TypeOK, OpRecords
    <2>6. Planned'
      <3>1. Starting(op.user, op.todo)'
        BY <1>2, <1>3, <2>1 DEF Starting
      <3> QED
        BY <1>3, <3>1 DEF Planned
    <2>7. Down' /\ Begun'
      <3>1. ~Idle'
        BY <1>1, <2>1 DEF Idle
      <3>2. \A u \in Ids : places'[u].stage = places[u].stage
        BY <2>3, <2>4
      <3> QED
        BY <1>1, <1>2, <1>3, <2>4, <3>1, <3>2 DEF UsersInv, Down, Begun
    <2>8. ASSUME NEW w \in Ids
          PROVE  OfUser(w)'
      <3>1. OnTheDisk(w)
        BY DEF UsersInv, OfUser
      <3>2. CASE w # Primary
        <4>1. OnTheDisk(w)'
          BY <1>1, <2>4, <3>1, <3>2 DEF OnTheDisk, OnDisk
        <4> QED
          BY <1>1, <1>2, <1>3, <2>4, <3>2, <4>1, NobodyKept
      <3>3. CASE w = Primary
        <4>1. OnDisk(w)' = OnDisk(w) \cup {d}
          BY <2>3, <2>4, <3>3 DEF OnDisk
        <4>2. OnTheDisk(w)'
          BY <1>1, <2>1, <3>1, <3>3, <4>1 DEF OnTheDisk
        <4> QED
          BY <1>1, <1>2, <1>3, <2>3, <2>4, <3>3, <4>2, NobodyKept
      <3> QED
        BY <3>2, <3>3
    <2> QED
      BY <2>5, <2>6, <2>7, <2>8 DEF UsersInv
  <1> QED
    BY <1>4, <1>5

(* The user file is written for the first time.                            *)
LEMMA FirstKept ==
  ASSUME UsersInv, writeUsersFile, Head(op.todo) = "register", ~begun
  PROVE  UsersInv'
  <1> PICK u \in Ids : u = Primary
    BY PrimaryAssumption
  <1> PICK x : x = op.todo
    OBVIOUS
  <1> PICK y : y = Tail(op.todo)
    OBVIOUS
  <1> DEFINE r == [password |-> op.password, encrypted |-> FALSE]
  <1>0. up /\ x # <<>> /\ Head(x) = "register"
    BY DEF writeUsersFile, Doing, Idle
  <1>1. /\ Typed /\ op.user = u /\ places \in [Ids -> Places] /\ Quiet /\ RegisterPrimary(x)
        /\ op.kind = "migrate" /\ op.password = NoValue /\ root = {}
    BY <1>0, AtStart
  <1> PICK p \in Places : p = places[u]
    BY <1>1
  <1>2. /\ Done /\ begun' = TRUE
        /\ file' = [file EXCEPT ![u] = r]
        /\ At(u, [p EXCEPT !.plain = Entries(@)])
        /\ UNCHANGED <<root, lanFile, up, apps, driven, sessions, bound, standing, wrote, cut, excused, upsets>>
    BY <1>0, <1>1 DEF writeUsersFile, Doing, memory, ghosts
  <1>3. r \in UserRecords /\ r.password = NoValue /\ ~r.encrypted /\ r # NoValue
    <2>1. r \in UserRecords
      BY <1>1 DEF UserRecords
    <2> QED
      BY <1>1, <2>1, NoValues
  <1> HIDE DEF r
  <1>4. /\ op' \in OpRecords /\ op'.todo = y /\ op'.user = u /\ op'.kind = "migrate"
    BY <1>0, <1>1, <1>2, DoneOp
  <1>5. PICK q \in Places : /\ At(u, q) /\ q.stage = p.stage /\ q.image = p.image
                            /\ q.key = p.key /\ Entries(q.plain) = Entries(p.plain) /\ q.attached = p.attached
                            /\ q.inside = p.inside
    <2> DEFINE z == [p EXCEPT !.plain = Entries(p.plain)]
    <2>1. At(u, z)
      BY <1>2
    <2>3. Entries(p.plain) \in (SUBSET Items) \cup {NoValue} /\ Entries(Entries(p.plain)) = Entries(p.plain)
      BY PlaceFields, EntriesOf
    <2>2. /\ z \in Places /\ z.stage = p.stage /\ z.image = p.image
          /\ z.key = p.key /\ z.plain = Entries(p.plain) /\ z.attached = p.attached
          /\ z.inside = p.inside
      BY <2>3 DEF Places
    <2> HIDE DEF z
    <2> QED
      BY <2>1, <2>2, <2>3
  <1>6. /\ places' \in [Ids -> Places] /\ places'[u] = q
        /\ \A w \in Ids : w # u => places'[w] = places[w]
    BY <1>1, <1>5, PlaceAt
  <1>7. file' \in [Ids -> UserRecords \cup {NoValue}] /\ file'[u] = r /\ \A w \in Ids : w # u => file'[w] = file[w]
    BY <1>1, <1>2, <1>3 DEF Typed, TypeOK
  <1>8. Typed'
    BY <1>1, <1>2, <1>4, <1>6, <1>7 DEF Typed, TypeOK, OpRecords
  <1>9. Quiet' /\ begun' /\ up'
    BY <1>0, <1>1, <1>2 DEF Quiet
  <1>10. Planned'
    <2>1. ServePlan(y)
      BY <1>1 DEF RegisterPrimary
    <2>2. Starting(u, y)'
      BY <1>4, <1>9, <2>1 DEF Starting
    <2>3. Starting(op.user, op.todo)'
      BY <1>4, <2>2 DEF Starting
    <2> QED
      BY <1>9, <2>3 DEF Planned
  <1>11. Down' /\ Begun'
    BY <1>1, <1>2, <1>9 DEF Down, Begun
  <1>12. ASSUME NEW w \in Ids, w # u
         PROVE  OfUser(w)'
    <2>1. OfUser(w) /\ file[w] = NoValue /\ ~storeExists(w) /\ OnDisk(w) = {}
      BY <1>12, NobodyYet DEF UsersInv
    <2>2. UNCHANGED <<storeExists(w), NoCut(w), OnDisk(w)>> /\ ~In(w)' /\ file'[w] = NoValue /\ places'[w] = places[w]
      BY <1>2, <1>6, <1>7, <1>9, <1>12, <2>1 DEF storeExists, NoCut, OnDisk, In, SignedIn, Quiet
    <2>3. Imageless(w)' /\ Unknown(w)' /\ Passworded(w)' /\ Keyed(w)' /\ OnTheDisk(w)' /\ InPlace(w)'
      BY <1>2, <1>9, <2>1, <2>2 DEF OfUser, Imageless, Unknown, Passworded, Keyed, OnTheDisk, InPlace, Quiet
    <2>4. OverVolume(w)' /\ Attended(w)' /\ Served(w)' /\ DrivenOf(w)'
      BY <1>9, <2>2 DEF OverVolume, Attended, Served, DrivenOf, Quiet
    <2> QED
      BY <2>3, <2>4 DEF OfUser
  <1>13. OfUser(u)'
    <2>1. OfUser(u) /\ file[u] = NoValue /\ p.image = "none" /\ Entries(p.stage) = {} /\ p.inside = {} /\ places[u].stage = NoValue
      BY NobodyYet DEF UsersInv, storeExists, Begun
    <2>2. /\ places'[u].stage = NoValue /\ places'[u].image = "none" /\ places'[u].key = p.key
          /\ Entries(places'[u].plain) = Entries(p.plain) /\ places'[u].inside = {} /\ places'[u].attached = p.attached
      BY <1>5, <1>6, <2>1
    <2>3. ~Encrypted(u)' /\ file'[u].password = NoValue /\ file'[u] # NoValue /\ ~storeExists(u)' /\ ~In(u)'
      BY <1>3, <1>7, <1>9, <2>2 DEF Encrypted, storeExists, In, SignedIn, Quiet
    <2>4. wrote[u] \subseteq Entries(p.plain)
      BY <1>1, <2>1 DEF OfUser, OnTheDisk, OnDisk
    <2>5. Imageless(u)' /\ Unknown(u)' /\ Passworded(u)' /\ Keyed(u)'
      BY <1>9, <2>1, <2>2, <2>3 DEF OfUser, Imageless, Unknown, Passworded, Keyed, Quiet, storeExists
    <2>6. OnTheDisk(u)' /\ InPlace(u)'
      BY <1>2, <2>2, <2>3, <2>4 DEF OnTheDisk, OnDisk, InPlace
    <2>7. OverVolume(u)' /\ Attended(u)' /\ Served(u)' /\ DrivenOf(u)'
      BY <1>9, <2>3 DEF OverVolume, Attended, Served, DrivenOf, Quiet
    <2> QED
      BY <2>5, <2>6, <2>7 DEF OfUser
  <1> QED
    BY <1>8, <1>10, <1>11, <1>12, <1>13 DEF UsersInv

(* Hygiene, resumeAll and the listener.                                    *)
LEMMA ServeKept ==
  ASSUME UsersInv, serve
  PROVE  UsersInv'
  <1>1. PICK busy \in BusyNow, forced \in BOOLEAN :
          /\ Doing("serve")
          /\ places' = [u \in Ids |->
                LET p == IF u \in Mounted \ busy THEN [places[u] EXCEPT !.attached = FALSE] ELSE places[u]
                IN  IF u \in Unlocked(busy) THEN Stored(p, {Db}) ELSE p]
          /\ apps' = Unlocked(busy)
          /\ driven' = standing \cap Unlocked(busy)
          /\ bound' = MayListen(forced \/ lanFile)
          /\ excused' = excused \cup busy
          /\ upsets' = upsets + Cardinality(busy)
          /\ Done
          /\ UNCHANGED <<file, root, lanFile, begun, up, sessions, standing, wrote, cut>>
    BY DEF serve
  <1>2. /\ up /\ op.todo # <<>> /\ Head(op.todo) = "serve"
    BY <1>1 DEF Doing, Idle
  <1>3. /\ Typed /\ places \in [Ids -> Places] /\ Quiet /\ ServePlan(op.todo) /\ begun /\ root = {}
    BY <1>2, AtStart
  <1>4. op' \in OpRecords /\ op'.todo = <<>>
    BY <1>1, <1>2, <1>3, DoneOp DEF ServePlan, Ends
  <1>5. busy \subseteq Ids /\ busy \subseteq Mounted /\ upsets' \in 0 .. MaxUpsets /\ excused' \subseteq Ids
    <2>1. busy \subseteq Mounted
      BY DEF BusyNow
    <2> QED
      BY <1>1, <1>3, <2>1, BusyCounted DEF Typed, TypeOK
  <1>6. bound' \in BOOLEAN /\ (bound' => \A u \in Registered : file[u].password # NoValue)
    BY <1>1 DEF MayListen
  <1>7. apps' \subseteq Ids /\ driven' \subseteq apps'
    BY <1>1 DEF Unlocked, Registered
  <1>8. ASSUME NEW w \in Ids
        PROVE  /\ places'[w] \in Places /\ places'[w].stage = places[w].stage /\ places'[w].image = places[w].image
               /\ places'[w].key = places[w].key
               /\ Entries(places[w].plain) \subseteq Entries(places'[w].plain)
               /\ places[w].inside \subseteq places'[w].inside
               /\ places'[w].attached <=> places[w].attached /\ w \notin Mounted \ busy
               /\ w \notin Registered => places'[w] = places[w]
               /\ ~places[w].attached => places'[w].inside = places[w].inside
    <2>1. PICK p \in Places : p = places[w]
      BY <1>3
    <2>2. PICK h \in Places : /\ h = IF w \in Mounted \ busy THEN [places[w] EXCEPT !.attached = FALSE] ELSE places[w]
                              /\ h.plain = p.plain /\ h.stage = p.stage /\ h.image = p.image /\ h.key = p.key
                              /\ h.inside = p.inside
                              /\ h.attached <=> p.attached /\ w \notin Mounted \ busy
      <3>1. CASE w \in Mounted \ busy
        <4> DEFINE z == [p EXCEPT !.attached = FALSE]
        <4>1. /\ z \in Places /\ z.plain = p.plain /\ z.stage = p.stage /\ z.image = p.image /\ z.key = p.key
              /\ z.inside = p.inside /\ ~z.attached
          BY AttachedSet
        <4>2. z = IF w \in Mounted \ busy THEN [places[w] EXCEPT !.attached = FALSE] ELSE places[w]
          BY <2>1, <3>1
        <4> HIDE DEF z
        <4> QED
          BY <3>1, <4>1, <4>2
      <3>2. CASE w \notin Mounted \ busy
        BY <2>1, <3>2
      <3> QED
        BY <3>1, <3>2
    <2>3. places'[w] = IF w \in Unlocked(busy) THEN Stored(h, {Db}) ELSE h
      BY <1>1, <2>2
    <2>4. w \in Mounted \ busy => w \in Registered
      BY DEF Mounted
    <2>5. CASE w \in Unlocked(busy)
      <3>1. {Db} \in SUBSET Items
        BY DEF Items
      <3> DEFINE z == Stored(h, {Db})
      <3>2. /\ z \in Places /\ z.stage = h.stage /\ z.image = h.image /\ z.key = h.key /\ z.attached = h.attached
            /\ z.inside = IF h.attached THEN h.inside \cup {Db} ELSE h.inside
            /\ Entries(h.plain) \subseteq Entries(z.plain)
        BY <3>1, StoredIs
      <3>3. places'[w] = z
        BY <2>3, <2>5
      <3>4. w \in Registered
        BY <2>5 DEF Unlocked
      <3> HIDE DEF z
      <3>5. h.inside \subseteq z.inside /\ (~h.attached => z.inside = h.inside)
        BY <3>2
      <3> QED
        BY <2>1, <2>2, <3>2, <3>3, <3>4, <3>5
    <2>6. CASE w \notin Unlocked(busy)
      <3>1. places'[w] = h
        BY <2>3, <2>6
      <3>2. w \notin Registered => h = places[w]
        BY <2>2, <2>4
      <3> QED
        BY <2>1, <2>2, <3>1, <3>2
    <2> QED
      BY <2>5, <2>6
  <1>9. places' \in [Ids -> Places]
    BY <1>1, <1>8
  <1>10. Typed'
    BY <1>1, <1>3, <1>4, <1>5, <1>6, <1>7, <1>9 DEF Typed, TypeOK, OpRecords
  <1>11. Planned' /\ Down' /\ Begun'
    BY <1>1, <1>2, <1>3, <1>4 DEF Planned, Down, Begun
  <1>12. ~Moving(op.todo) /\ ~Changing(op.todo)
    BY <1>2, Heads DEF Moving, Changing
  <1>13. ASSUME NEW w \in Ids
         PROVE  OfUser(w)'
    <2>1. OfUser(w)
      BY DEF UsersInv
    <2>2. /\ UNCHANGED <<storeExists(w), Encrypted(w), NoCut(w), NoRekey(w)>> /\ ~In(w)'
          /\ OnDisk(w) \subseteq OnDisk(w)'
      <3>1. UNCHANGED <<storeExists(w), Encrypted(w), NoCut(w), NoRekey(w)>> /\ ~In(w)'
        BY <1>1, <1>3, <1>8 DEF storeExists, Encrypted, NoCut, NoRekey, In, SignedIn, Quiet
      <3>2. OnDisk(w) \subseteq OnDisk(w)'
        BY <1>8 DEF OnDisk
      <3> QED
        BY <3>1, <3>2
    <2>3. w \in Registered <=> file[w] # NoValue
      BY DEF Registered
    <2>4. Imageless(w)'
      <3>1. w \in Unlocked(busy) /\ Encrypted(w) => storeExists(w)
        BY <1>5 DEF Unlocked, Mounted, isMounted, storeExists
      <3> QED
        BY <1>1, <1>8, <2>1, <2>2, <2>3, <3>1 DEF OfUser, Imageless
    <2>5. Unknown(w)'
      <3>1. file[w] = NoValue => w \notin Unlocked(busy) /\ places'[w] = places[w]
        BY <1>8, <2>3 DEF Unlocked
      <3>2. file[w] = NoValue => OnDisk(w)' = OnDisk(w)
        BY <3>1 DEF OnDisk
      <3> QED
        BY <1>1, <2>1, <2>2, <3>1, <3>2 DEF OfUser, Unknown
    <2>6. Passworded(w)'
      BY <1>1, <1>6, <2>1, <2>2, <2>3 DEF OfUser, Passworded
    <2>7. Keyed(w)' /\ OnTheDisk(w)'
      BY <1>1, <1>8, <1>12, <2>1, <2>2 DEF OfUser, Keyed, OnTheDisk
    <2>8. InPlace(w)'
      BY <1>1, <1>8, <1>12, <2>1, <2>2 DEF OfUser, InPlace
    <2>9. OverVolume(w)'
      <3>1. w \in Unlocked(busy) /\ Encrypted(w) => w \in busy /\ places[w].attached
        BY <1>5 DEF Unlocked, Mounted, isMounted
      <3> QED
        BY <1>1, <1>8, <2>2, <3>1 DEF OverVolume
    <2>10. Attended(w)'
      <3>1. file[w] # NoValue /\ Encrypted(w) /\ isMounted(w)' => w \in busy
        BY <1>8, <2>3 DEF Mounted, isMounted
      <3> QED
        BY <1>1, <2>2, <3>1 DEF Attended
    <2>11. Served(w)' /\ DrivenOf(w)'
      BY <1>1, <2>2 DEF Served, DrivenOf
    <2> QED
      BY <2>4, <2>5, <2>6, <2>7, <2>8, <2>9, <2>10, <2>11 DEF OfUser
  <1> QED
    BY <1>10, <1>11, <1>13 DEF UsersInv

-----------------------------------------------------------------------------
(* Proofs: the invariant, and what follows from it.                        *)

(* The invariant holds at the start, ...                                   *)
LEMMA UsersStart == Init => UsersInv
  <1> SUFFICES ASSUME Init PROVE UsersInv
    OBVIOUS
  <1>1. NoPlace \in Places /\ NoPlace.plain = NoValue /\ NoPlace.stage = NoValue /\ NoPlace.image = "none"
        /\ NoPlace.inside = {} /\ ~NoPlace.attached /\ NoPlace.key = NoValue
    BY DEF NoPlace, Places
  <1>2. \A u \in Ids : file[u] = NoValue /\ places[u] = NoPlace /\ wrote[u] = IF u = Primary THEN Legacy ELSE {}
    BY DEF Init
  <1>3. Typed
    <2>1. file \in [Ids -> UserRecords \cup {NoValue}] /\ places \in [Ids -> Places] /\ root \subseteq Docs
      BY <1>1, LegacyAssumption DEF Init
    <2>2. wrote \in [Ids -> SUBSET Docs] /\ sessions \in [Tokens -> SessionRecords \cup {NoValue}]
      BY LegacyAssumption DEF Init
    <2>3. upsets \in 0 .. MaxUpsets
      BY BoundsAssumption DEF Init
    <2>4. /\ up \in BOOLEAN /\ lanFile \in BOOLEAN /\ bound \in BOOLEAN /\ begun \in BOOLEAN
          /\ apps \subseteq Ids /\ driven \subseteq apps /\ standing \subseteq Ids
          /\ op \in OpRecords /\ cut \subseteq Ids \X Cuts /\ excused \subseteq Ids
      BY NoOpIs DEF Init
    <2> QED
      BY <2>1, <2>2, <2>3, <2>4, TypedIs
  <1>4. Planned /\ Down
    BY NoOpIs DEF Init, Planned, Down, Quiet
  <1>5. Begun
    <2>1. ~up /\ ~begun
      BY DEF Init
    <2> QED
      BY <1>1, <1>2, <2>1, PrimaryAssumption DEF Begun
  <1>6. ASSUME NEW u \in Ids
        PROVE  OfUser(u)
    <2>1. /\ apps = {} /\ standing = {} /\ ~begun /\ ~up /\ root = Legacy /\ ~In(u) /\ ~storeExists(u)
      BY <1>1, <1>2 DEF Init, In, SignedIn, storeExists
    <2>2. Imageless(u) /\ Unknown(u) /\ Passworded(u) /\ Keyed(u) /\ OnTheDisk(u) /\ InPlace(u)
      BY <1>1, <1>2, <2>1 DEF Imageless, Unknown, Passworded, Keyed, OnTheDisk, InPlace
    <2>3. OverVolume(u) /\ Attended(u) /\ Served(u) /\ DrivenOf(u)
      BY <2>1 DEF OverVolume, Attended, Served, DrivenOf
    <2> QED
      BY <2>2, <2>3 DEF OfUser
  <1> QED
    BY <1>3, <1>4, <1>5, <1>6 DEF UsersInv

(* An effect of the operation under way.                                   *)
LEMMA EffectKept ==
  ASSUME UsersInv, Effect
  PROVE  UsersInv'
  <1>1. CASE writeUsersFile
    <2>1. Head(op.todo) \in {"register", "password", "mark", "unregister"}
      BY <1>1 DEF writeUsersFile, Doing
    <2> QED
      BY <1>1, <2>1, RegisterKept, FirstKept, PasswordKept, MarkKept, UnregisterKept
  <1>2. CASE createStore
    <2>1. Head(op.todo) \in {"create", "marker"}
      BY <1>2 DEF createStore, Doing
    <2> QED
      BY <1>2, <2>1, CreateKept, MarkerKept
  <1>3. CASE encryptExisting
    <2>1. Head(op.todo) \in {"stage", "copy", "unstage"}
      BY <1>3 DEF encryptExisting, Doing
    <2> QED
      BY <1>3, <2>1, StageKept, CopyKept, UnstageKept
  <1>4. CASE mountStore \/ unmountStore \/ Busy \/ changeStorePassword
    BY <1>4, MountKept, UnmountKept, BusyKept, RekeyKept
  <1>5. CASE CloseApp \/ OpenApp \/ unlock \/ Session \/ Wipe \/ Remove
    BY <1>5, CloseKept, OpenKept, UnlockKept, SessionKept, WipeKept, RemoveKept
  <1>6. CASE Move \/ serve \/ Exit
    BY <1>6, MoveKept, ServeKept, ExitKept
  <1> QED
    BY <1>1, <1>2, <1>3, <1>4, <1>5, <1>6 DEF Effect

(* ... every step keeps it, ...                                            *)
LEMMA UsersStep == UsersInv /\ [Next]_vars => UsersInv'
  <1> SUFFICES ASSUME UsersInv, [Next]_vars PROVE UsersInv'
    OBVIOUS
  <1>1. CASE Effect
    BY <1>1, EffectKept
  <1>2. CASE Fail \/ loadUsers \/ closeAll
    BY <1>2, FailKept, LoadKept, CloseAllKept
  <1>3. CASE \E reboot \in BOOLEAN : Crash(reboot)
    BY <1>3, CrashKept
  <1>4. CASE \E u \in Ids, p \in Passwords : add(u, p) \/ login(u, p) \/ setPassword(u, p)
    BY <1>4, AddKept, LoginKept, SetPasswordKept
  <1>5. CASE \E t \in Tokens : logout(t) \/ GoesIdle(t) \/ Expire(t)
    BY <1>5, LogoutKept, GoesIdleKept, ExpireKept
  <1>6. CASE \E t \in Tokens : Request(t) \/ deleteUser(t)
    BY <1>6, RequestKept, DeleteKept
  <1>7. CASE \E t \in Tokens : \E on \in BOOLEAN : setLan(t, on)
    BY <1>7, SetLanKept
  <1>8. CASE \E t \in Tokens : \E old, p \in Passwords : changePassword(t, old, p)
    BY <1>8, ChangePasswordKept
  <1>9. CASE UNCHANGED vars
    <2>1. /\ UnchangedButOp /\ UNCHANGED op /\ UNCHANGED <<file, places, root, lanFile, begun, up, apps, driven, sessions, bound, standing, wrote, cut, excused, upsets>>
      BY <1>9 DEF vars, disk, memory, ghosts, UnchangedButOp
    <2>2. Typed' /\ Down' /\ Begun'
      BY <2>1 DEF UsersInv, Typed, TypeOK, OpRecords, Down, Quiet, Begun, Idle, NoCut
    <2>3. Planned'
      <3>1. Starting(op.user, op.todo)' <=> Starting(op.user, op.todo)
        BY <2>1 DEF Starting, Quiet
      <3>2. Underway(op.user, op.todo)' <=> Underway(op.user, op.todo)
        <4> PICK u : u = op.user
          OBVIOUS
        <4> PICK x : x = op.todo
          OBVIOUS
        <4>1. UNCHANGED <<Signing(u), Nothing(u), OnVolume(u), Encrypted(u), isMounted(u), storeExists(u), In(u), Out(u), NoCut(u), OnDisk(u)>>
          BY <2>1 DEF Signing, Nothing, OnVolume, Encrypted, isMounted, storeExists, In, Out, SignedIn, NoCut, OnDisk
        <4>2. /\ Adding(u, x)' <=> Adding(u, x)
              /\ Unlocking(u, x)' <=> Unlocking(u, x)
              /\ Encrypting(u, x)' <=> Encrypting(u, x)
          BY <2>1, <4>1 DEF Adding, Unlocking, Encrypting
        <4>3. /\ FirstPassword(u, x)' <=> FirstPassword(u, x)
              /\ Rekeying(u, x)' <=> Rekeying(u, x)
              /\ Deleting(u, x)' <=> Deleting(u, x)
              /\ LoggingOut(u, x)' <=> LoggingOut(u, x)
          BY <2>1, <4>1 DEF FirstPassword, Rekeying, Deleting, LoggingOut
        <4>4. Underway(u, x)' <=> Underway(u, x)
          BY <4>2, <4>3 DEF Underway
        <4> QED
          BY <2>1, <4>4 DEF Underway, Adding, Unlocking, Encrypting, FirstPassword, Rekeying, Deleting, LoggingOut
      <3> QED
        BY <2>1, <3>1, <3>2 DEF UsersInv, Planned
    <2>4. ASSUME NEW w \in Ids
          PROVE  OfUser(w)'
      <3>1. OfUser(w)
        BY DEF UsersInv
      <3>2. UNCHANGED <<storeExists(w), Encrypted(w), isMounted(w), NoCut(w), NoRekey(w), In(w), OnDisk(w), Acting(w)>>
        BY <2>1 DEF storeExists, Encrypted, isMounted, NoCut, NoRekey, In, SignedIn, OnDisk, Acting, Idle
      <3>3. UNCHANGED <<Imageless(w), Unknown(w), Passworded(w), Keyed(w), OnTheDisk(w), InPlace(w)>>
        BY <2>1, <3>2 DEF Imageless, Unknown, Passworded, Keyed, OnTheDisk, InPlace
      <3>4. UNCHANGED <<OverVolume(w), Attended(w), Served(w), DrivenOf(w)>>
        BY <2>1, <3>2 DEF OverVolume, Attended, Served, DrivenOf
      <3> QED
        BY <3>1, <3>3, <3>4 DEF OfUser
    <2> QED
      BY <2>2, <2>3, <2>4 DEF UsersInv
  <1> QED
    BY <1>1, <1>2, <1>3, <1>4, <1>5, <1>6, <1>7, <1>8, <1>9 DEF Next

(* ... and so it holds always.                                             *)
LEMMA UsersAlways == Spec => []UsersInv
  BY UsersStart, UsersStep, PTL DEF Spec

(* What a user has put into the household is on disk, and read with the    *)
(* user's password.                                                        *)
LEMMA WholeFollows == UsersInv => StoresWhole
  <1> SUFFICES ASSUME UsersInv PROVE StoresWhole
    OBVIOUS
  <1>1. TypeOK /\ \A u \in Ids : OfUser(u)
    BY DEF UsersInv, Typed
  <1>2. NothingLost
    BY <1>1 DEF NothingLost, OfUser, OnTheDisk
  <1>3. SeesAll
    <2> SUFFICES ASSUME NEW u \in apps, Ready, cut \cap {<<u, "encrypt">>, <<u, "migrate">>} = {}
                 PROVE  wrote[u] \subseteq Seen(u)
      BY DEF SeesAll
    <2>1. u \in Ids /\ OfUser(u) /\ NoCut(u) /\ ~Acting(u)
      BY <1>1 DEF TypeOK, NoCut, Ready, Acting
    <2>2. file[u] # NoValue
      BY <2>1 DEF OfUser, Unknown
    <2>3. CASE Encrypted(u)
      BY <2>1, <2>2, <2>3 DEF OfUser, InPlace, OverVolume, Seen, Contents
    <2>4. CASE ~Encrypted(u)
      <3>1. wrote[u] \subseteq Entries(places[u].plain) /\ (storeExists(u) => wrote[u] = {})
        BY <2>1, <2>2, <2>4 DEF OfUser, InPlace
      <3>2. places[u].attached => storeExists(u)
        BY <2>1, <2>4 DEF OfUser, Imageless
      <3>3. Entries(places[u].plain) = {} \/ Entries(places[u].plain) = places[u].plain
        BY DEF Entries
      <3>4. wrote[u] = {} \/ (Seen(u) = places[u].plain /\ wrote[u] \subseteq places[u].plain)
        BY <3>1, <3>2, <3>3 DEF Seen, Contents
      <3> QED
        BY <3>4
    <2> QED
      BY <2>3, <2>4
  <1>4. KeysMatch
    BY <1>1 DEF KeysMatch, Registered, OfUser, Keyed, NoRekey, Acting
  <1>5. Wiped
    BY <1>1 DEF Wiped, Registered, OfUser, Unknown, NoCut
  <1> QED
    BY <1>1, <1>2, <1>3, <1>4, <1>5 DEF StoresWhole

-----------------------------------------------------------------------------
(* Proofs: a volume the user file, or its own marker, does not know of.    *)

Has(x, e) == \E i \in 1 .. Len(x) : x[i] = e

HalfCut(u) == \E kind \in {"open", "encrypt", "delete"} : <<u, kind>> \in cut
Listed(u) == file[u] # NoValue /\ Encrypted(u) /\ places[u].image = "marked"

(* The operation under way will mark the volume, or remove its user.       *)
Making(u) ==
  /\ Acting(u) /\ op.kind \in {"open", "encrypt", "delete"}
  /\ \/ Has(op.todo, "marker") \/ Has(op.todo, "unregister")
     \/ places[u].image = "marked" /\ Has(op.todo, "mark")

(* A volume is known of, being made or removed, or was cut short in that.  *)
Finished(u) == storeExists(u) \/ places[u].attached => Listed(u) \/ HalfCut(u) \/ Making(u)
AllFinished == \A u \in Ids : Finished(u)

(* What a list has is its first effect, or in the rest of it.              *)
LEMMA HasIs ==
  ASSUME NEW x \in Seq(Effects), x # <<>>, NEW e
  PROVE  /\ Has(x, e) <=> Head(x) = e \/ Has(Tail(x), e)
         /\ Tail(x) \in Seq(Effects)
  <1>1. /\ Len(x) \in Nat \ {0} /\ Head(x) = x[1] /\ Len(Tail(x)) = Len(x) - 1 /\ Tail(x) \in Seq(Effects)
        /\ \A i \in 1 .. Len(Tail(x)) : Tail(x)[i] = x[i + 1]
    OBVIOUS
  <1>2. ASSUME Has(x, e) PROVE Head(x) = e \/ Has(Tail(x), e)
    <2>1. PICK i \in 1 .. Len(x) : x[i] = e
      BY <1>2 DEF Has
    <2>2. CASE i = 1
      BY <1>1, <2>1, <2>2
    <2>3. CASE i # 1
      <3>1. i - 1 \in 1 .. Len(Tail(x)) /\ Tail(x)[i - 1] = x[i]
        BY <1>1, <2>1, <2>3
      <3> QED
        BY <2>1, <3>1 DEF Has
    <2> QED
      BY <2>2, <2>3
  <1>3. ASSUME Has(Tail(x), e) PROVE Has(x, e)
    <2>1. PICK i \in 1 .. Len(Tail(x)) : Tail(x)[i] = e
      BY <1>3 DEF Has
    <2>2. i + 1 \in 1 .. Len(x) /\ x[i + 1] = e
      BY <1>1, <2>1
    <2> QED
      BY <2>2 DEF Has
  <1>4. Head(x) = e => Has(x, e)
    BY <1>1 DEF Has
  <1> QED
    BY <1>1, <1>2, <1>3, <1>4

(* Nothing is left in a list that is empty.                                *)
LEMMA HasNothing == \A e : ~Has(<<>>, e)
  BY DEF Has

(* What the plans have left.                                               *)
LEMMA PlansHave ==
  ASSUME NEW x \in Seq(Effects)
  PROVE  /\ AttachNew(x) \/ AttachFirst(x) \/ AttachCopy(x) => Has(x, "marker")
         /\ MarkNew(x) \/ MarkPlan(x) \/ CopyPlan(x) => Has(x, "mark")
         /\ LockImage(x) \/ RemoveImagePlan(x) \/ RemoveDirPlan(x) => Has(x, "unregister")
         /\ MarkNew(x) \/ MarkPlan(x) => ~Has(x, "marker") /\ ~Has(x, "unregister")
         /\ UnlockPlan(x) \/ TwicePlan(x) \/ ExitPlan(x) =>
              ~Has(x, "marker") /\ ~Has(x, "unregister") /\ ~Has(x, "mark")
  <1> DEFINE On(y) == y \in Seq(Effects) /\ y # <<>>
             With(y, z, e) == Has(y, e) <=> Head(y) = e \/ Has(z, e)
  <1>1. ASSUME NEW y, On(y) PROVE Tail(y) \in Seq(Effects) /\ \A e : With(y, Tail(y), e)
    BY <1>1, HasIs
  <1>2. ASSUME NEW y, On(y), MarkerNew(y) \/ MarkerFirst(y) \/ MarkerCopy(y) PROVE Has(y, "marker")
    <2>1. Head(y) = "marker"
      BY <1>2, Heads
    <2> QED
      BY <1>1, <1>2, <2>1
  <1>3. AttachNew(x) \/ AttachFirst(x) \/ AttachCopy(x) => Has(x, "marker")
    <2> SUFFICES ASSUME AttachNew(x) \/ AttachFirst(x) \/ AttachCopy(x) PROVE Has(x, "marker")
      OBVIOUS
    <2>1. On(x) /\ (MarkerNew(Tail(x)) \/ MarkerFirst(Tail(x)) \/ MarkerCopy(Tail(x)))
      BY Heads DEF AttachNew, AttachFirst, AttachCopy
    <2>2. On(Tail(x))
      BY <1>1, <2>1, Heads
    <2> QED
      BY <1>1, <1>2, <2>1, <2>2
  <1>4. ASSUME NEW y, On(y), MarkNew(y) \/ MarkPlan(y) PROVE Has(y, "mark")
    <2>1. Head(y) = "mark"
      BY <1>4, Heads
    <2> QED
      BY <1>1, <1>4, <2>1
  <1>5. MarkNew(x) \/ MarkPlan(x) \/ CopyPlan(x) => Has(x, "mark")
    <2>1. CASE MarkNew(x) \/ MarkPlan(x)
      BY <1>4, <2>1, Heads
    <2>2. CASE CopyPlan(x)
      <3>1. On(x) /\ UnstagePlan(Tail(x))
        BY <2>2, Heads DEF CopyPlan
      <3>2. On(Tail(x)) /\ MarkPlan(Tail(Tail(x)))
        BY <1>1, <3>1, Heads DEF UnstagePlan
      <3>3. On(Tail(Tail(x)))
        BY <1>1, <3>2, Heads
      <3>4. Has(Tail(Tail(x)), "mark")
        BY <1>4, <3>2, <3>3
      <3> QED
        BY <1>1, <3>1, <3>2, <3>4
    <2> QED
      BY <2>1, <2>2
  <1>6. ASSUME NEW y, On(y), RemoveDirPlan(y) PROVE Has(y, "unregister")
    <2>1. UnregisterPlan(Tail(y))
      BY <1>6 DEF RemoveDirPlan
    <2>2. On(Tail(y)) /\ Head(Tail(y)) = "unregister"
      BY <1>1, <1>6, <2>1, Heads
    <2> QED
      BY <1>1, <1>6, <2>2
  <1>7. ASSUME NEW y, On(y), RemoveImagePlan(y) PROVE Has(y, "unregister")
    <2>1. RemoveDirPlan(Tail(y))
      BY <1>7 DEF RemoveImagePlan
    <2>2. On(Tail(y))
      BY <1>1, <1>7, <2>1, Heads
    <2> QED
      BY <1>1, <1>6, <1>7, <2>1, <2>2
  <1>8. LockImage(x) \/ RemoveImagePlan(x) \/ RemoveDirPlan(x) => Has(x, "unregister")
    <2>1. CASE RemoveImagePlan(x) \/ RemoveDirPlan(x)
      BY <1>6, <1>7, <2>1, Heads
    <2>2. CASE LockImage(x)
      <3>1. On(x) /\ RemoveImagePlan(Tail(x))
        BY <2>2, Heads DEF LockImage
      <3>2. On(Tail(x))
        BY <1>1, <3>1, Heads
      <3> QED
        BY <1>1, <1>7, <3>1, <3>2
    <2> QED
      BY <2>1, <2>2
  <1> DEFINE Neither(y) == ~Has(y, "marker") /\ ~Has(y, "unregister")
             Bare(y) == Neither(y) /\ ~Has(y, "mark")
  <1>9. ASSUME NEW y, On(y), SessionPlan(y) PROVE Bare(y)
    <2>1. Head(y) = "session" /\ Tail(y) = <<>>
      BY <1>9 DEF SessionPlan, Ends, Begins
    <2> QED
      BY <1>1, <1>9, <2>1, HasNothing
  <1>10. ASSUME NEW y, On(y), UnlockPlan(y) PROVE Bare(y)
    <2>1. Head(y) = "unlock" /\ SessionPlan(Tail(y))
      BY <1>10, Heads DEF UnlockPlan
    <2>2. On(Tail(y))
      BY <1>1, <1>10, <2>1, Heads
    <2>3. Bare(Tail(y))
      BY <1>9, <2>1, <2>2
    <2> QED
      BY <1>1, <1>10, <2>1, <2>3
  <1>11. ASSUME NEW y, On(y), OpenNew(y) \/ ReopenPlan(y) PROVE Neither(y)
    <2>1. Head(y) \in {"open", "reopen"} /\ (SessionPlan(Tail(y)) \/ UnlockPlan(Tail(y)))
      BY <1>11, Heads DEF OpenNew, ReopenPlan
    <2>2. On(Tail(y))
      BY <1>1, <1>11, <2>1, Heads
    <2>3. Neither(Tail(y))
      BY <1>9, <1>10, <2>1, <2>2
    <2> QED
      BY <1>1, <1>11, <2>1, <2>3
  <1>12. MarkNew(x) \/ MarkPlan(x) => Neither(x)
    <2> SUFFICES ASSUME MarkNew(x) \/ MarkPlan(x) PROVE Neither(x)
      OBVIOUS
    <2>1. On(x) /\ Head(x) = "mark" /\ (OpenNew(Tail(x)) \/ ReopenPlan(Tail(x)))
      BY Heads DEF MarkNew, MarkPlan
    <2>2. On(Tail(x))
      BY <1>1, <2>1, Heads
    <2>3. Neither(Tail(x))
      BY <1>11, <2>1, <2>2
    <2> QED
      BY <1>1, <2>1, <2>3
  <1>13. ExitPlan(x) => Bare(x)
    <2> SUFFICES ASSUME ExitPlan(x) PROVE Bare(x)
      OBVIOUS
    <2>1. On(x) /\ Head(x) = "exit" /\ Tail(x) = <<>>
      BY DEF ExitPlan, Ends, Begins
    <2> QED
      BY <1>1, <2>1, HasNothing
  <1>14. UnlockPlan(x) \/ TwicePlan(x) => Bare(x)
    <2>1. CASE UnlockPlan(x)
      BY <1>10, <2>1, Heads
    <2>2. CASE TwicePlan(x)
      <3>1. On(x) /\ Head(x) = "unlock" /\ UnlockPlan(Tail(x))
        BY <2>2, Heads DEF TwicePlan
      <3>2. On(Tail(x))
        BY <1>1, <3>1, Heads
      <3>3. Bare(Tail(x))
        BY <1>10, <3>1, <3>2
      <3> QED
        BY <1>1, <3>1, <3>3
    <2> QED
      BY <2>1, <2>2
  <1> QED
    BY <1>3, <1>5, <1>8, <1>12, <1>13, <1>14

(* A step that leaves a user's volume and record as they are.              *)
Still(u) ==
  /\ places'[u].image = places[u].image
  /\ places'[u].attached => places[u].attached \/ storeExists(u)
  /\ file[u] # NoValue => file'[u] # NoValue /\ file'[u].encrypted = file[u].encrypted
  /\ cut \subseteq cut'

(* The operation goes on, past an effect that finishes nothing.            *)
Onward ==
  /\ op'.user = op.user /\ op'.kind = op.kind
  /\ \/ op'.todo = op.todo
     \/ op.todo # <<>> /\ Head(op.todo) \notin {"marker", "mark", "unregister"} /\ op'.todo = Tail(op.todo)

(* What is being made goes on being made.                                  *)
LEMMA MakingOn ==
  ASSUME UsersInv, NEW u, Making(u), places'[u].image = places[u].image, Onward
  PROVE  Making(u)'
  <1>1. op.todo \in Seq(Effects)
    BY OpFields DEF UsersInv
  <1>2. \A e \in {"marker", "mark", "unregister"} : Has(op.todo, e) => Has(op'.todo, e)
    BY <1>1, HasIs DEF Onward
  <1>3. \/ Has(op'.todo, "marker") \/ Has(op'.todo, "unregister")
        \/ places'[u].image = "marked" /\ Has(op'.todo, "mark")
    BY <1>2 DEF Making
  <1>4. op'.todo # <<>>
    BY <1>3, HasNothing
  <1> QED
    BY <1>3, <1>4 DEF Making, Onward, Acting, Idle

(* A volume that is left alone stays finished.                             *)
LEMMA StillFinished ==
  ASSUME UsersInv, NEW u, Finished(u), Still(u), Making(u) => Onward \/ HalfCut(u)'
  PROVE  Finished(u)'
  <1>1. (storeExists(u) \/ places[u].attached)' => storeExists(u) \/ places[u].attached
    BY DEF Still, storeExists
  <1>2. Listed(u) => Listed(u)'
    BY DEF Still, Listed, Encrypted
  <1>3. HalfCut(u) => HalfCut(u)'
    BY DEF Still, HalfCut
  <1>4. Making(u) => Making(u)' \/ HalfCut(u)'
    <2>1. CASE Onward
      BY <2>1, MakingOn DEF Still
    <2> QED
      BY <2>1
  <1> QED
    BY <1>1, <1>2, <1>3, <1>4 DEF Finished

(* An effect on one user's places leaves the others alone.                 *)
LEMMA OthersFinished ==
  ASSUME UsersInv, NEW u \in Ids, Finished(u), u # op.user,
         places'[u] = places[u], file'[u] = file[u], cut \subseteq cut'
  PROVE  Finished(u)'
  <1>1. Still(u) /\ ~Making(u)
    BY DEF Still, Making, Acting
  <1> QED
    BY <1>1, StillFinished

(* An encryption of what is there leaves the volume as it is.              *)
LEMMA EncryptedPlace ==
  ASSUME UsersInv, encryptExisting, NEW v \in Ids, v = op.user
  PROVE  places'[v].image = places[v].image /\ places'[v].attached = places[v].attached
  <1>0. places \in [Ids -> Places]
    BY DEF UsersInv, Typed, TypeOK
  <1> PICK p \in Places : p = places[v]
    BY <1>0
  <1>1. PICK q \in Places : q.image = p.image /\ q.attached = p.attached /\ places' = [places EXCEPT ![v] = q]
    <2>1. p.plain \in (SUBSET Items) \cup {NoValue} /\ NoValue \in (SUBSET Items) \cup {NoValue}
          /\ Entries(p.stage) \in SUBSET Items
      BY PlaceFields, EntriesOf
    <2>2. CASE UNCHANGED places
      BY <1>0, <2>2
    <2>3. CASE At(v, [p EXCEPT !.stage = p.plain, !.plain = NoValue])
      <3> DEFINE half == [p EXCEPT !.stage = p.plain]
                 z == [half EXCEPT !.plain = NoValue]
      <3>1. [p EXCEPT !.stage = p.plain, !.plain = NoValue] = z
        BY DEF Places
      <3>2. half \in Places /\ half.image = p.image /\ half.attached = p.attached
        BY <2>1, StageSet
      <3> HIDE DEF half
      <3>3. z \in Places /\ z.image = p.image /\ z.attached = p.attached
        BY <2>1, <3>2, PlainSet
      <3> HIDE DEF z
      <3> QED
        BY <2>3, <3>1, <3>3 DEF At
    <2>4. CASE At(v, [p EXCEPT !.stage = NoValue])
      <3> DEFINE z == [p EXCEPT !.stage = NoValue]
      <3>1. z \in Places /\ z.image = p.image /\ z.attached = p.attached
        BY <2>1, StageSet
      <3>2. At(v, z)
        BY <2>4
      <3> HIDE DEF z
      <3> QED
        BY <3>1, <3>2 DEF At
    <2>5. CASE \E i \in Entries(p.stage) : At(v, Stored(p, {i}))
      <3> PICK i \in Entries(p.stage) : At(v, Stored(p, {i}))
        BY <2>5
      <3> DEFINE z == Stored(p, {i})
      <3>1. {i} \in SUBSET Items
        BY <2>1
      <3>2. z \in Places /\ z.image = p.image /\ z.attached = p.attached
        BY <3>1, StoredIs
      <3>3. At(v, z)
        OBVIOUS
      <3> HIDE DEF z
      <3> QED
        BY <3>2, <3>3 DEF At
    <2>6. \/ UNCHANGED places
          \/ At(v, [p EXCEPT !.stage = p.plain, !.plain = NoValue])
          \/ At(v, [p EXCEPT !.stage = NoValue])
          \/ \E i \in Entries(p.stage) : At(v, Stored(p, {i}))
      <3>1. At(v, p) => UNCHANGED places
        BY <1>0 DEF At
      <3> QED
        BY <3>1 DEF encryptExisting
    <2> QED
      BY <2>2, <2>3, <2>4, <2>5, <2>6
  <1> QED
    BY <1>0, <1>1

(* The effects on the volume.                                              *)
LEMMA VolumeFinished ==
  ASSUME UsersInv, NEW u \in Ids, Finished(u),
         createStore \/ mountStore \/ unmountStore \/ changeStorePassword \/ encryptExisting
  PROVE  Finished(u)'
  <1>0. op.user \in Ids /\ places \in [Ids -> Places] /\ op.todo \in Seq(Effects) /\ Typed
    BY OpFields DEF UsersInv, Typed, TypeOK
  <1> PICK v \in Ids : v = op.user
    BY <1>0
  <1> PICK x \in Seq(Effects) : x = op.todo
    BY <1>0
  <1> PICK p \in Places : p = places[v]
    BY <1>0
  <1>1. /\ x # <<>> /\ UNCHANGED <<file, cut>>
        /\ Head(x) \in {"create", "marker", "attach", "detach", "lock", "rekey", "stage", "copy", "unstage"}
    BY DEF createStore, mountStore, unmountStore, changeStorePassword, encryptExisting, Doing, Idle, ghosts
  <1>2. /\ OfUser(v) /\ Underway(v, x)
    BY <1>1, AtStep
  <1>3. CASE u # v
    <2>1. \E q : places' = [places EXCEPT ![v] = q]
      <3>1. UNCHANGED places => places' = [places EXCEPT ![v] = p]
        BY <1>0
      <3>2. UNCHANGED places \/ \E q : At(v, q)
        BY DEF createStore, mountStore, unmountStore, changeStorePassword, encryptExisting
      <3> QED
        BY <3>1, <3>2 DEF At
    <2>2. places'[u] = places[u]
      BY <1>0, <1>3, <2>1
    <2> QED
      BY <1>1, <1>3, <2>2, OthersFinished
  <1>4. CASE u = v /\ createStore
    <2>1. CASE Head(x) = "create"
      <3>1. Done /\ op'.todo = Tail(x) /\ op'.user = v /\ op'.kind = op.kind
        BY <1>0, <1>1, <1>4, DoneOp DEF createStore
      <3>2. (CreateNew(x) \/ CreateFirst(x) \/ CreateCopy(x)) /\ op.kind \in {"open", "encrypt"}
        BY <1>2, <2>1, Heads DEF Underway, Adding, Unlocking, Encrypting, FirstPassword, Rekeying, Deleting, LoggingOut, Signing
      <3>3. AttachNew(Tail(x)) \/ AttachFirst(Tail(x)) \/ AttachCopy(Tail(x))
        BY <3>2 DEF CreateNew, CreateFirst, CreateCopy
      <3>4. Tail(x) \in Seq(Effects) /\ Has(Tail(x), "marker") /\ Tail(x) # <<>>
        BY <1>1, <3>3, HasIs, PlansHave, Heads
      <3> QED
        BY <1>4, <3>1, <3>2, <3>4 DEF Finished, Making, Acting, Idle
    <2>2. CASE Head(x) = "marker"
      <3>1. Done /\ op'.todo = Tail(x) /\ op'.user = v /\ op'.kind = op.kind
        BY <1>0, <1>1, <1>4, DoneOp DEF createStore
      <3>2. (MarkerNew(x) \/ MarkerFirst(x) \/ MarkerCopy(x)) /\ op.kind \in {"open", "encrypt"}
        BY <1>2, <2>2, Heads DEF Underway, Adding, Unlocking, Encrypting, FirstPassword, Rekeying, Deleting, LoggingOut, Signing
      <3>3. MarkNew(Tail(x)) \/ MarkPlan(Tail(x)) \/ CopyPlan(Tail(x))
        BY <3>2 DEF MarkerNew, MarkerFirst, MarkerCopy
      <3>4. Tail(x) \in Seq(Effects) /\ Has(Tail(x), "mark") /\ Tail(x) # <<>>
        BY <1>1, <3>3, HasIs, PlansHave, Heads
      <3>5. places'[v].image = "marked"
        <4>1. places' = [places EXCEPT ![v] = [p EXCEPT !.image = "marked"]]
          BY <1>4, <2>2 DEF createStore, Doing, At
        <4>2. [p EXCEPT !.image = "marked"].image = "marked"
          BY DEF Places
        <4> QED
          BY <1>0, <4>1, <4>2
      <3> QED
        BY <1>4, <3>1, <3>2, <3>4, <3>5 DEF Finished, Making, Acting, Idle
    <2> QED
      BY <1>4, <2>1, <2>2 DEF createStore, Doing
  <1>5. CASE u = v /\ ~createStore
    <2>1. Onward
      <3>1. CASE Done
        BY <1>0, <1>1, <1>5, <3>1, DoneOp DEF Onward, mountStore, unmountStore, changeStorePassword, encryptExisting, Doing
      <3>2. CASE UNCHANGED op
        BY <3>2 DEF Onward
      <3> QED
        BY <1>5, <3>1, <3>2 DEF mountStore, unmountStore, changeStorePassword, encryptExisting
    <2>2. places'[v].image = p.image /\ (places'[v].attached => p.attached \/ storeExists(v))
      <3>1. CASE mountStore
        <4>1. isMounted(v) \/ p.key = op.password
          BY <3>1 DEF mountStore
        <4>2. op.password \in Passwords
          BY <1>2, <3>1, Heads DEF mountStore, Doing, Underway, Adding, Unlocking, Encrypting, FirstPassword, Rekeying,
                 Deleting, LoggingOut, Signing
        <4>3. storeExists(v)
          BY <1>2, <4>1, <4>2, NoValues DEF isMounted, storeExists, OfUser, Imageless
        <4>4. CASE isMounted(v)
          BY <1>0, <3>1, <4>4 DEF mountStore, At
        <4>5. CASE ~isMounted(v)
          <5>1. places' = [places EXCEPT ![v] = [p EXCEPT !.attached = TRUE, !.plain = Entries(@)]]
            BY <3>1, <4>5 DEF mountStore, At
          <5> QED
            BY <1>0, <4>3, <5>1, AttachedPlace
        <4> QED
          BY <4>4, <4>5
      <3>2. CASE unmountStore
        <4>1. CASE isMounted(v)
          <5>1. places' = [places EXCEPT ![v] = [p EXCEPT !.attached = FALSE]]
            BY <3>2, <4>1 DEF unmountStore, At
          <5>2. [p EXCEPT !.attached = FALSE].image = p.image /\ ~[p EXCEPT !.attached = FALSE].attached
            BY AttachedSet
          <5> QED
            BY <1>0, <5>1, <5>2
        <4>2. CASE ~isMounted(v)
          BY <1>0, <3>2, <4>2 DEF unmountStore, At
        <4> QED
          BY <4>1, <4>2
      <3>3. CASE changeStorePassword
        <4>1. places' = [places EXCEPT ![v] = [p EXCEPT !.key = op.password]]
          BY <3>3 DEF changeStorePassword, At
        <4>2. [p EXCEPT !.key = op.password].image = p.image /\ [p EXCEPT !.key = op.password].attached = p.attached
          BY <1>0, OpFields, KeySet
        <4> QED
          BY <1>0, <4>1, <4>2
      <3>4. CASE encryptExisting
        BY <1>0, <3>4, EncryptedPlace
      <3> QED
        BY <1>5, <3>1, <3>2, <3>3, <3>4
    <2>3. Still(v)
      BY <1>1, <2>2 DEF Still
    <2> QED
      BY <1>5, <2>1, <2>3, StillFinished
  <1> QED
    BY <1>3, <1>4, <1>5

(* The effects on the user file.                                           *)
LEMMA FileFinished ==
  ASSUME UsersInv, NEW u \in Ids, Finished(u), writeUsersFile
  PROVE  Finished(u)'
  <1>0. op.user \in Ids /\ places \in [Ids -> Places] /\ op.todo \in Seq(Effects) /\ Typed
        /\ file \in [Ids -> UserRecords \cup {NoValue}]
    BY OpFields DEF UsersInv, Typed, TypeOK
  <1> PICK v \in Ids : v = op.user
    BY <1>0
  <1> PICK x \in Seq(Effects) : x = op.todo
    BY <1>0
  <1> PICK p \in Places : p = places[v]
    BY <1>0
  <1>1. /\ x # <<>> /\ Done /\ up /\ UNCHANGED cut
        /\ Head(x) \in {"register", "password", "mark", "unregister"}
    BY DEF writeUsersFile, Doing, Idle, ghosts
  <1>2. op'.todo = Tail(x) /\ op'.user = v /\ op'.kind = op.kind
    BY <1>0, <1>1, DoneOp
  <1>3. CASE u # v
    <2>1. /\ \E q : places' = [places EXCEPT ![v] = q]
          /\ \E r : file' = [file EXCEPT ![v] = r]
      <3>1. UNCHANGED places => places' = [places EXCEPT ![v] = p]
        BY <1>0
      <3> QED
        BY <3>1 DEF writeUsersFile, At
    <2>2. places'[u] = places[u] /\ file'[u] = file[u]
      BY <1>0, <1>3, <2>1
    <2> QED
      BY <1>1, <1>3, <2>2, OthersFinished
  <1>4. CASE Head(x) = "register"
    <2>1. file[v] = NoValue
      <3>1. (begun /\ Underway(v, x)) \/ Starting(v, x)
        BY <1>1 DEF UsersInv, Planned
      <3>2. CASE Starting(v, x)
        BY <1>4, <3>2, Heads DEF Starting, UsersInv, Begun
      <3>3. CASE Underway(v, x)
        BY <1>4, <3>3, Heads DEF Underway, Adding, Unlocking, Encrypting, FirstPassword, Rekeying, Deleting, LoggingOut
      <3> QED
        BY <3>1, <3>2, <3>3
    <2>2. ~storeExists(v) /\ ~p.attached
      BY <2>1 DEF UsersInv, OfUser, Unknown, Imageless
    <2>3. places'[v].image = p.image /\ places'[v].attached = p.attached
      <3> DEFINE z == [p EXCEPT !.plain = Entries(p.plain)]
      <3>1. Entries(p.plain) \in (SUBSET Items) \cup {NoValue}
        BY PlaceFields, EntriesOf
      <3>2. z \in Places /\ z.image = p.image /\ z.attached = p.attached
        BY <3>1 DEF Places
      <3>3. At(v, z)
        BY <1>4 DEF writeUsersFile, Doing
      <3> HIDE DEF z
      <3> QED
        BY <1>0, <3>2, <3>3 DEF At
    <2>4. ~storeExists(v)' /\ ~places'[v].attached
      BY <2>2, <2>3 DEF storeExists
    <2> QED
      BY <1>3, <2>4 DEF Finished
  <1>5. CASE Head(x) = "password"
    <2>1. UNCHANGED places /\ file' = [file EXCEPT ![v].password = op.password]
      BY <1>5 DEF writeUsersFile, Doing
    <2>2. file[v] # NoValue => file'[v] # NoValue /\ file'[v].encrypted = file[v].encrypted
      <3> SUFFICES ASSUME file[v] # NoValue
                   PROVE  file'[v] # NoValue /\ file'[v].encrypted = file[v].encrypted
        OBVIOUS
      <3> PICK r \in UserRecords : r = file[v]
        BY <1>0
      <3>1. file'[v] = [r EXCEPT !.password = op.password]
        BY <1>0, <2>1
      <3>2. op.password \in Passwords \cup {NoValue}
        BY <1>0, OpFields
      <3>3. [r EXCEPT !.password = op.password] \in UserRecords /\ [r EXCEPT !.password = op.password].encrypted = r.encrypted
        BY <3>2 DEF UserRecords
      <3> QED
        BY <3>1, <3>3, NoValues
    <2>3. Still(v) /\ Onward
      BY <1>1, <1>2, <1>5, <2>1, <2>2 DEF Still, Onward
    <2> QED
      BY <1>3, <2>3, StillFinished
  <1>6. CASE Head(x) = "mark" /\ u = v
    <2>1. UNCHANGED places /\ file' = [file EXCEPT ![v].encrypted = TRUE]
      BY <1>6 DEF writeUsersFile, Doing
    <2>2. (MarkNew(x) \/ MarkPlan(x)) /\ Signing(v)
      <3>1. Underway(v, x)
        BY <1>1, <1>6, AtStep
      <3> QED
        BY <1>6, <3>1, Heads DEF Underway, Adding, Unlocking, Encrypting, FirstPassword, Rekeying, Deleting, LoggingOut
    <2>3. file'[v] # NoValue /\ Encrypted(v)'
      <3> PICK r \in UserRecords : r = file[v]
        BY <1>0, <2>2 DEF Signing
      <3>1. file'[v] = [r EXCEPT !.encrypted = TRUE]
        BY <1>0, <2>1
      <3>2. [r EXCEPT !.encrypted = TRUE] \in UserRecords /\ [r EXCEPT !.encrypted = TRUE].encrypted
        BY DEF UserRecords
      <3> QED
        BY <3>1, <3>2, NoValues DEF Encrypted
    <2>4. ~Has(x, "marker") /\ ~Has(x, "unregister")
      BY <2>2, PlansHave
    <2>5. Making(v) => places[v].image = "marked"
      BY <2>4 DEF Making
    <2>6. Listed(v) \/ Making(v) => Listed(v)'
      BY <2>1, <2>3, <2>5 DEF Listed
    <2>7. UNCHANGED <<HalfCut(v), storeExists(v), places[v]>>
      BY <1>1, <2>1 DEF HalfCut, storeExists
    <2> QED
      BY <1>6, <2>6, <2>7 DEF Finished
  <1>7. CASE Head(x) = "unregister" /\ u = v
    <2>1. ~storeExists(v) /\ ~places[v].attached
      <3>1. Underway(v, x)
        BY <1>1, <1>7, AtStep
      <3> QED
        BY <1>7, <3>1, Heads DEF Underway, Adding, Unlocking, Encrypting, FirstPassword, Rekeying, Deleting, LoggingOut
    <2>2. UNCHANGED places
      BY <1>7 DEF writeUsersFile, Doing
    <2> QED
      BY <1>7, <2>1, <2>2 DEF Finished, storeExists
  <1> QED
    BY <1>1, <1>3, <1>4, <1>5, <1>6, <1>7

(* The effects of a user's removal.                                        *)
LEMMA RemovalFinished ==
  ASSUME UsersInv, NEW u \in Ids, Finished(u), Wipe \/ Remove
  PROVE  Finished(u)'
  <1>0. op.user \in Ids /\ places \in [Ids -> Places] /\ op.todo \in Seq(Effects) /\ Typed
    BY OpFields DEF UsersInv, Typed, TypeOK
  <1> PICK v \in Ids : v = op.user
    BY <1>0
  <1> PICK x \in Seq(Effects) : x = op.todo
    BY <1>0
  <1> PICK p \in Places : p = places[v]
    BY <1>0
  <1>1. /\ x # <<>> /\ Done /\ UNCHANGED <<file, cut>>
        /\ Head(x) \in {"wipe", "removeImage", "removeDir"}
        /\ \E q : places' = [places EXCEPT ![v] = q]
    BY DEF Wipe, Remove, Doing, Idle, ghosts, At
  <1>2. op'.todo = Tail(x) /\ op'.user = v /\ op'.kind = op.kind
    BY <1>0, <1>1, DoneOp
  <1>3. CASE u # v
    <2>1. places'[u] = places[u]
      BY <1>0, <1>1, <1>3
    <2> QED
      BY <1>1, <1>3, <2>1, OthersFinished
  <1>4. /\ op.kind = "delete" /\ Underway(v, x)
        /\ WipePlan(x) \/ RemoveImagePlan(x) \/ (RemoveDirPlan(x) /\ ~storeExists(v))
    <2>1. Underway(v, x)
      BY <1>1, AtStep
    <2> QED
      BY <1>1, <2>1, Heads DEF Underway, Adding, Unlocking, Encrypting, FirstPassword, Rekeying, Deleting, LoggingOut
  <1>5. CASE u = v /\ (WipePlan(x) \/ RemoveImagePlan(x))
    <2>1. LockImage(Tail(x)) \/ RemoveDirPlan(Tail(x))
      BY <1>5 DEF WipePlan, RemoveImagePlan
    <2>2. Tail(x) # <<>> /\ Has(Tail(x), "unregister")
      BY <1>1, <2>1, HasIs, PlansHave, Heads
    <2> QED
      BY <1>2, <1>4, <1>5, <2>2 DEF Finished, Making, Acting, Idle
  <1>6. CASE u = v /\ RemoveDirPlan(x)
    <2>1. Head(x) = "removeDir" /\ ~storeExists(v)
      BY <1>4, <1>6, Heads
    <2>2. ~p.attached /\ At(v, [p EXCEPT !.plain = NoValue])
      BY <2>1 DEF Wipe, Remove, Doing
    <2> DEFINE z == [p EXCEPT !.plain = NoValue]
    <2>3. z \in Places /\ z.image = p.image /\ z.attached = p.attached
      BY DEF Places
    <2>4. At(v, z)
      BY <2>2
    <2> HIDE DEF z
    <2>5. ~storeExists(v)' /\ ~places'[v].attached
      BY <1>0, <2>1, <2>2, <2>3, <2>4 DEF At, storeExists
    <2> QED
      BY <1>6, <2>5 DEF Finished
  <1> QED
    BY <1>3, <1>4, <1>5, <1>6

(* Effects that leave every volume as it is: of an App or a session, ...   *)
LEMMA QuietFinished ==
  ASSUME UsersInv, NEW u \in Ids, Finished(u),
         Busy \/ CloseApp \/ OpenApp \/ Session \/ Move
  PROVE  Finished(u)'
  <1>0. op.user \in Ids /\ places \in [Ids -> Places] /\ op.todo \in Seq(Effects) /\ Typed
    BY OpFields DEF UsersInv, Typed, TypeOK
  <1>1. /\ op.todo # <<>> /\ UNCHANGED <<file, cut>>
        /\ Head(op.todo) \in {"lock", "close", "open", "reopen", "session", "move"}
        /\ Done \/ UNCHANGED op
    BY DEF Busy, CloseApp, OpenApp, Session, Move, Doing, Idle, disk, ghosts
  <1>2. Onward
    BY <1>0, <1>1, DoneOp DEF Onward
  <1>3. PICK v \in Ids, p \in Places, q \in Places :
          /\ p = places[v] /\ q.image = p.image /\ q.attached = p.attached
          /\ places' = [places EXCEPT ![v] = q]
    <2>1. CASE UNCHANGED places
      BY <1>0, <2>1
    <2>2. CASE OpenApp
      <3> PICK p \in Places : p = places[op.user]
        BY <1>0
      <3> DEFINE z == Stored(p, {Db})
      <3>1. z \in Places /\ z.image = p.image /\ z.attached = p.attached
        BY StoredIs DEF Items
      <3>2. At(op.user, p) \/ At(op.user, z)
        BY <2>2 DEF OpenApp, bootApp
      <3> HIDE DEF z
      <3> QED
        BY <1>0, <3>1, <3>2 DEF At
    <2>3. CASE \E d \in root : At(Primary, [places[Primary] EXCEPT !.plain = Entries(@) \cup {d}])
      <3> PICK d \in root : At(Primary, [places[Primary] EXCEPT !.plain = Entries(@) \cup {d}])
        BY <2>3
      <3> PICK p \in Places : p = places[Primary]
        BY <1>0, PrimaryAssumption
      <3> DEFINE z == [p EXCEPT !.plain = Entries(p.plain) \cup {d}]
      <3>1. Entries(p.plain) \cup {d} \in (SUBSET Items) \cup {NoValue}
        BY <1>0, PlaceFields, EntriesOf DEF Items, Typed, TypeOK
      <3>2. z \in Places /\ z.image = p.image /\ z.attached = p.attached
        BY <3>1, PlainSet
      <3>3. At(Primary, z)
        OBVIOUS
      <3> HIDE DEF z
      <3> QED
        BY <3>2, <3>3, PrimaryAssumption DEF At
    <2> QED
      BY <2>1, <2>2, <2>3 DEF Busy, CloseApp, Session, Move, disk
  <1>4. places'[u].image = places[u].image /\ places'[u].attached = places[u].attached
    BY <1>0, <1>3
  <1>5. Still(u)
    BY <1>1, <1>4 DEF Still
  <1> QED
    BY <1>2, <1>5, StillFinished

(* ... of a sign-in that begins to unlock, or of the exit, ...             *)
LEMMA TurnFinished ==
  ASSUME UsersInv, NEW u \in Ids, Finished(u), unlock \/ Exit
  PROVE  Finished(u)'
  <1>1. /\ op.todo # <<>> /\ Head(op.todo) \in {"unlock", "exit"} /\ UNCHANGED <<file, places, cut>>
    BY DEF unlock, Exit, Doing, Idle, disk, ghosts
  <1>2. Underway(op.user, op.todo) /\ op.todo \in Seq(Effects)
    BY <1>1, AtStep
  <1>3. UnlockPlan(op.todo) \/ TwicePlan(op.todo) \/ ExitPlan(op.todo)
    BY <1>1, <1>2, Heads DEF Underway, Adding, Unlocking, Encrypting, FirstPassword, Rekeying, Deleting, LoggingOut
  <1>4. ~Making(u)
    BY <1>2, <1>3, PlansHave DEF Making
  <1>5. Still(u)
    BY <1>1 DEF Still
  <1> QED
    BY <1>4, <1>5, StillFinished

(* ... of the start of the host, ...                                       *)
LEMMA ServeFinished ==
  ASSUME UsersInv, NEW u \in Ids, Finished(u), serve
  PROVE  Finished(u)'
  <1>0. places \in [Ids -> Places] /\ Typed
    BY DEF UsersInv, Typed, TypeOK
  <1>1. PICK busy \in BusyNow :
          /\ Doing("serve") /\ Done
          /\ places' = [w \in Ids |->
                LET p == IF w \in Mounted \ busy THEN [places[w] EXCEPT !.attached = FALSE] ELSE places[w]
                IN  IF w \in Unlocked(busy) THEN Stored(p, {Db}) ELSE p]
          /\ UNCHANGED <<file, cut>>
    BY DEF serve
  <1>2. Onward
    BY <1>0, <1>1, DoneOp DEF Onward, Doing, Idle
  <1> PICK p \in Places : p = places[u]
    BY <1>0
  <1>3. PICK h \in Places : /\ h = IF u \in Mounted \ busy THEN [p EXCEPT !.attached = FALSE] ELSE p
                            /\ h.image = p.image /\ (h.attached => p.attached)
    <2>1. CASE u \in Mounted \ busy
      <3> DEFINE z == [p EXCEPT !.attached = FALSE]
      <3>1. z \in Places /\ z.image = p.image /\ ~z.attached
        BY AttachedSet
      <3>2. z = IF u \in Mounted \ busy THEN [p EXCEPT !.attached = FALSE] ELSE p
        BY <2>1
      <3> HIDE DEF z
      <3> QED
        BY <3>1, <3>2
    <2>2. CASE u \notin Mounted \ busy
      BY <2>2
    <2> QED
      BY <2>1, <2>2
  <1>4. Stored(h, {Db}).image = h.image /\ Stored(h, {Db}).attached = h.attached
    BY StoredIs DEF Items
  <1>5. places'[u] = IF u \in Unlocked(busy) THEN Stored(h, {Db}) ELSE h
    BY <1>1, <1>3
  <1>6. places'[u].image = p.image /\ (places'[u].attached => p.attached)
    BY <1>3, <1>4, <1>5
  <1>7. Still(u)
    BY <1>1, <1>6 DEF Still
  <1> QED
    BY <1>2, <1>7, StillFinished

(* ... of a failure, a death or a stop, ...                                *)
LEMMA CutFinished ==
  ASSUME UsersInv, NEW u \in Ids, Finished(u),
         Fail \/ closeAll \/ \E reboot \in BOOLEAN : Crash(reboot)
  PROVE  Finished(u)'
  <1>0. places \in [Ids -> Places]
    BY DEF UsersInv, Typed, TypeOK
  <1>1. cut' = CutShort \/ (Ready /\ UNCHANGED cut)
    BY DEF Fail, closeAll, Crash
  <1>2. cut \subseteq cut' /\ (~Idle => <<op.user, op.kind>> \in cut')
    BY <1>1, CutIs DEF Ready
  <1>3. Making(u) => HalfCut(u)'
    BY <1>2 DEF Making, Acting, HalfCut
  <1>4. UNCHANGED file
    BY DEF Fail, closeAll, Crash, disk
  <1>5. places'[u].image = places[u].image /\ (places'[u].attached => places[u].attached)
    <2>1. CASE UNCHANGED places
      BY <2>1
    <2>2. CASE closeAll
      <3>1. PICK busy \in BusyNow :
              places' = [w \in Ids |-> IF w \in Mounted \ busy THEN [places[w] EXCEPT !.attached = FALSE]
                                       ELSE places[w]]
        BY <2>2 DEF closeAll
      <3>2. Slipped(u)
        BY <1>0, <3>1, SlippedIs
      <3> QED
        BY <3>2 DEF Slipped
    <2>3. CASE places' = [w \in Ids |-> [places[w] EXCEPT !.attached = FALSE]]
      <3>1. places' = [w \in Ids |-> IF w \in Ids THEN [places[w] EXCEPT !.attached = FALSE] ELSE places[w]]
        BY <2>3
      <3>2. Slipped(u)
        BY <1>0, <3>1, SlippedIs
      <3> QED
        BY <3>2 DEF Slipped
    <2> QED
      BY <2>1, <2>2, <2>3 DEF Fail, Crash, disk
  <1>6. Still(u)
    BY <1>2, <1>4, <1>5 DEF Still
  <1> QED
    BY <1>3, <1>6, StillFinished

(* ... and of what the host does while it does nothing else.               *)
LEMMA RestFinished ==
  ASSUME UsersInv, NEW u \in Ids, Finished(u), ~Acting(u), UNCHANGED <<file, cut>>,
         \/ UNCHANGED places
         \/ \E w \in Ids : \E items \in SUBSET Items : At(w, Stored(places[w], items))
  PROVE  Finished(u)'
  <1>0. places \in [Ids -> Places]
    BY DEF UsersInv, Typed, TypeOK
  <1>1. places'[u].image = places[u].image /\ places'[u].attached = places[u].attached
    <2>1. CASE UNCHANGED places
      BY <2>1
    <2>2. CASE \E w \in Ids : \E items \in SUBSET Items : At(w, Stored(places[w], items))
      <3> PICK w \in Ids, items \in SUBSET Items : At(w, Stored(places[w], items))
        BY <2>2
      <3> PICK p \in Places : p = places[w]
        BY <1>0
      <3> DEFINE z == Stored(p, items)
      <3>1. z.image = p.image /\ z.attached = p.attached
        BY StoredIs
      <3>2. places' = [places EXCEPT ![w] = z]
        BY DEF At
      <3> HIDE DEF z
      <3> QED
        BY <1>0, <3>1, <3>2
    <2> QED
      BY <2>1, <2>2
  <1>2. Still(u) /\ ~Making(u)
    BY <1>1 DEF Still, Making
  <1> QED
    BY <1>2, StillFinished

(* At first there is no volume, ...                                        *)
LEMMA FinishedStart == Init => AllFinished
  <1>1. NoPlace.image = "none" /\ ~NoPlace.attached
    BY DEF NoPlace
  <1> QED
    BY <1>1 DEF Init, AllFinished, Finished, storeExists

(* ... every step keeps them known of, ...                                 *)
LEMMA FinishedStep == UsersInv /\ AllFinished /\ [Next]_vars => AllFinished'
  <1> SUFFICES ASSUME UsersInv, [Next]_vars, NEW u \in Ids, Finished(u) PROVE Finished(u)'
    BY DEF AllFinished
  <1>1. CASE Effect
    BY <1>1, FileFinished, VolumeFinished, RemovalFinished, QuietFinished, TurnFinished, ServeFinished DEF Effect
  <1>2. CASE Fail \/ closeAll \/ \E reboot \in BOOLEAN : Crash(reboot)
    BY <1>2, CutFinished
  <1>3. Ready => ~Acting(u)
    BY DEF Ready, Acting
  <1>4. CASE loadUsers
    <2>1. ~Acting(u)
      BY <1>4, NoOpIs DEF loadUsers, UsersInv, Down, Acting, Idle
    <2> QED
      BY <1>4, <2>1, RestFinished DEF loadUsers, ghosts
  <1>5. CASE \E w \in Ids, p \in Passwords : add(w, p) \/ login(w, p) \/ setPassword(w, p)
    <2>1. Ready /\ UNCHANGED <<file, places, cut>>
      BY <1>5 DEF add, login, setPassword, Begin, disk, ghosts
    <2> QED
      BY <1>3, <2>1, RestFinished
  <1>6. CASE \E t \in Tokens : logout(t) \/ GoesIdle(t) \/ Expire(t) \/ deleteUser(t)
    <2>1. Ready /\ UNCHANGED <<file, places, cut>>
      BY <1>6 DEF logout, GoesIdle, Expire, deleteUser, Begin, disk, ghosts
    <2> QED
      BY <1>3, <2>1, RestFinished
  <1>7. CASE \E t \in Tokens : Request(t)
    <2>1. Ready /\ UNCHANGED <<file, cut>>
      BY <1>7 DEF Request
    <2>2. \E w \in Ids : \E items \in SUBSET Items : At(w, Stored(places[w], items))
      <3>1. Registered \subseteq Ids /\ Docs \subseteq Items /\ Db \in Items
        BY DEF Registered, Items
      <3>2. PICK w \in Registered : \/ \E d \in Docs \ wrote[w] : At(w, Stored(places[w], {d, Db}))
                                    \/ At(w, Stored(places[w], {Db}))
        BY <1>7 DEF Request
      <3>3. CASE At(w, Stored(places[w], {Db}))
        BY <3>1, <3>2, <3>3
      <3>4. CASE \E d \in Docs \ wrote[w] : At(w, Stored(places[w], {d, Db}))
        <4> PICK d \in Docs : At(w, Stored(places[w], {d, Db}))
          BY <3>4
        <4>1. {d, Db} \in SUBSET Items
          BY <3>1
        <4> QED
          BY <3>1, <3>2, <4>1
      <3> QED
        BY <3>2, <3>3, <3>4
    <2> QED
      BY <1>3, <2>1, <2>2, RestFinished
  <1>8. CASE \E t \in Tokens : \E on \in BOOLEAN : setLan(t, on)
    <2>1. Ready /\ UNCHANGED <<file, places, cut>>
      BY <1>8 DEF setLan, ghosts
    <2> QED
      BY <1>3, <2>1, RestFinished
  <1>9. CASE \E t \in Tokens : \E old, p \in Passwords : changePassword(t, old, p)
    <2>1. Ready /\ UNCHANGED <<file, places, cut>>
      BY <1>9 DEF changePassword, Begin, disk, ghosts
    <2> QED
      BY <1>3, <2>1, RestFinished
  <1>10. CASE UNCHANGED vars
    <2>1. UNCHANGED <<file, places, cut, op>>
      BY <1>10 DEF vars, disk, ghosts
    <2> QED
      BY <2>1 DEF Finished, storeExists, Listed, Encrypted, HalfCut, Making, Acting, Idle
  <1> QED
    BY <1>1, <1>2, <1>4, <1>5, <1>6, <1>7, <1>8, <1>9, <1>10 DEF Next

(* ... and so they always are.                                             *)
LEMMA FinishedAlways == Spec => [](UsersInv /\ AllFinished)
  BY UsersAlways, FinishedStart, FinishedStep, PTL DEF Spec

(* A user's data is open only where somebody with the password opened it.  *)
LEMMA OpenFollows == UsersInv /\ AllFinished => OpenedByOwner
  <1> SUFFICES ASSUME UsersInv, \A u \in Ids : Finished(u) PROVE OpenedByOwner
    BY DEF AllFinished
  <1>1. /\ \A u \in Ids : OfUser(u)
        /\ Ready => ~ServePlan(op.todo) /\ \A u \in Ids : ~Acting(u)
    BY AtRest DEF UsersInv
  <1>2. LockedWhenOut
    <2> SUFFICES ASSUME NEW u \in Ids, u \notin excused, Ready, places[u].attached
                 PROVE  HalfMade(u) \/ \E t \in Tokens : SignedIn(t, u)
      BY DEF LockedWhenOut
    <2>1. Listed(u) \/ HalfCut(u)
      BY <1>1 DEF Finished, Making
    <2>2. CASE u \in Mounted
      <3>1. In(u)
        BY <1>1, <2>2 DEF Mounted, Registered, Ready, OfUser, Attended
      <3> QED
        BY <3>1 DEF In
    <2>3. CASE u \notin Mounted
      <3>1. ~Listed(u)
        BY <2>3 DEF Listed, Mounted, Registered, isMounted
      <3> QED
        BY <2>1, <2>3, <3>1 DEF HalfMade, HalfCut
    <2> QED
      BY <2>2, <2>3
  <1>3. OpenIsMounted
    BY <1>1 DEF OpenIsMounted, Registered, OfUser, OverVolume
  <1>4. LanNeedsPasswords
    BY <1>1 DEF LanNeedsPasswords, Registered, OfUser, Passworded
  <1> QED
    BY <1>2, <1>3, <1>4 DEF OpenedByOwner

(* A standing run is driven by the App that serves its user.               *)
LEMMA DrivenFollows == UsersInv => StandingDriven
  <1> SUFFICES ASSUME UsersInv, NEW u \in apps \cap standing, Ready, <<u, "rekey">> \notin cut
               PROVE  u \in driven
    BY DEF StandingDriven
  <1>1. u \in Ids /\ OfUser(u) /\ ~Acting(u)
    BY AtRest DEF UsersInv, Typed, TypeOK
  <1> QED
    BY <1>1 DEF OfUser, DrivenOf, NoRekey

(* Whatever the volumes do, wherever an operation is cut, whenever the     *)
(* host dies, and whatever a wipe takes from a volume that stays attached, *)
(* its marker included: what a user has put into the household is on disk  *)
(* until the user is deleted, an App that serves sees all of it, the       *)
(* user's password opens the volume, and of who is gone nothing is left,   *)
(* but for the operations cut short that the property names (users.ts,     *)
(* crypt.ts).                                                              *)
THEOREM StoresAreWhole == Spec => []StoresWhole
  BY UsersAlways, WholeFollows, PTL

(* Between requests a volume, marked or not, is attached only for who is   *)
(* signed in, unless it was busy, the session ran out, or its making or    *)
(* removal was cut short and left it where no sign-out finds it; an        *)
(* encrypted user's App is open only over the mounted volume, and the      *)
(* network is listened to only while everybody has a password (Users.lock, *)
(* MayListen, users.ts, server.ts).                                        *)
THEOREM OnlyOwnersOpen == Spec => []OpenedByOwner
  BY FinishedAlways, OpenFollows, PTL

(* A standing run whose user's App is open is driven by that App, unless a *)
(* change of the password was cut short (users.ts: resumeAll, open).       *)
THEOREM StandingAreDriven == Spec => []StandingDriven
  BY UsersAlways, DrivenFollows, PTL
=============================================================================
