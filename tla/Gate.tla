---------------------------------- MODULE Gate ----------------------------------
(***************************************************************************)
(* Who uses a window of the GUI (apps/desktop/src/App.tsx, useUserGate,    *)
(* UserGate and App; api.ts).  Every window has one session and one token  *)
(* its requests carry; the first window's session is kept in the origin's  *)
(* localStorage, a window opened with ?fresh=1 keeps its own in memory.    *)
(* Requests and answers take their time, so an answer may meet a window    *)
(* that somebody else uses by then.  The shell opens every window but its  *)
(* first one fresh; two plain tabs of a browser, which would share what    *)
(* is kept, are left out.                                                  *)
(***************************************************************************)
EXTENDS Naturals, FiniteSets

CONSTANTS People,
          Windows,
          FreshWindows,  \* of Windows
          NoOne,
          MaxLogins,     \* bound on the tokens the host gives out
          MaxOnWire      \* bound on the requests under way

ASSUME FreshAssumption == \E first \in Windows : FreshWindows = Windows \ {first}
ASSUME NobodyAtTheGate == NoOne \notin People

VARIABLES
  window,    \* per window: the session it shows, and the token it sends
  stored,    \* localStorage: token, user and name, or NoSession
  owner,     \* per token: whom the host gave it to
  honoured,  \* the tokens the host takes
  wire,      \* requests under way, and their answers
  strayed    \* windows a rename was answered in after they had changed hands

GateVars == <<window, stored, owner, honoured, wire, strayed>>

NoToken == 0
Tokens == 1 .. MaxLogins
NoSession == [token |-> NoToken, user |-> NoOne, name |-> NoOne]
Sessions == [token : Tokens \cup {NoToken}, user : People \cup {NoOne}, name : People \cup {NoOne}]

GateTypeOK ==
  /\ window \in [Windows -> [session : Sessions, apiToken : Tokens \cup {NoToken}]]
  /\ stored \in Sessions
  /\ owner \in [Tokens -> People \cup {NoOne}] /\ honoured \subseteq Tokens
  /\ \A x \in wire : x.window \in Windows /\ x.token \in Tokens /\ x.by \in People
  /\ strayed \subseteq Windows

GateInit ==
  /\ window = [w \in Windows |-> [session |-> NoSession, apiToken |-> NoToken]]
  /\ stored = NoSession
  /\ owner = [t \in Tokens |-> NoOne]
  /\ honoured = {}
  /\ wire = {}
  /\ strayed = {}

SignedIn(w) == window[w].session.user # NoOne

-----------------------------------------------------------------------------
(* The gate.                                                               *)

(* Mutant of Store: every window's session is kept.                        *)
StoreAny(w, session) == stored' = session

Store(w, session) == IF w \in FreshWindows THEN UNCHANGED stored ELSE stored' = session

(* login, set-password or a new user: the host gives a token, and the      *)
(* window enters with it.                                                  *)
enter(w, p) ==
  /\ ~SignedIn(w)
  /\ \E t \in Tokens :
       /\ owner[t] = NoOne /\ \A earlier \in 1 .. t - 1 : owner[earlier] # NoOne
       /\ owner' = [owner EXCEPT ![t] = p]
       /\ honoured' = honoured \cup {t}
       /\ LET session == [token |-> t, user |-> p, name |-> p] IN
          /\ window' = [window EXCEPT ![w] = [session |-> session, apiToken |-> t]]
          /\ Store(w, session)
  /\ strayed' = strayed \ {w}
  /\ UNCHANGED <<wire>>

Message(w, kind) ==
  [window |-> w, token |-> window[w].apiToken, by |-> window[w].session.user, kind |-> kind, answer |-> "none"]

Sends(w, kind) ==
  /\ SignedIn(w) /\ Cardinality(wire) < MaxOnWire
  /\ wire' = wire \cup {Message(w, kind)}

(* The host is told, and the window forgets; the body is unmounted.        *)
signOut(w) ==
  /\ Sends(w, "logout")
  /\ window' = [window EXCEPT ![w] = [session |-> NoSession, apiToken |-> NoToken]]
  /\ Store(w, NoSession)
  /\ UNCHANGED <<owner, honoured, strayed>>

(* The page is loaded again: what it asked goes unanswered, and a logout   *)
(* under way may or may not reach the host.                                *)
Reload(w) ==
  LET kept == IF w \in FreshWindows \/ stored.token = NoToken THEN NoSession ELSE stored
      leaving == {x.token : x \in {x \in wire : x.window = w /\ x.kind = "logout"}}
  IN
  /\ window' = [window EXCEPT ![w] = [session |-> kept, apiToken |-> kept.token]]
  /\ wire' = {x \in wire : x.window # w}
  /\ honoured' \in {honoured, honoured \ leaving}
  /\ UNCHANGED <<stored, owner, strayed>>

(* Any other call of a page; and renameMe.                                 *)
request(w, kind) ==
  /\ Sends(w, kind)
  /\ UNCHANGED <<window, stored, owner, honoured, strayed>>

-----------------------------------------------------------------------------
(* The host.                                                               *)

Answered(x, how) == wire' = (wire \ {x}) \cup {[x EXCEPT !.answer = how]}

HostAnswers(x) ==
  /\ x.answer = "none"
  /\ IF x.token \in honoured
     THEN /\ Answered(x, "ok")
          /\ honoured' = IF x.kind = "logout" THEN honoured \ {x.token} ELSE honoured
     ELSE Answered(x, "401") /\ UNCHANGED honoured
  /\ UNCHANGED <<window, stored, owner, strayed>>

(* A restart forgets every session; a session expires.                     *)
Forgets ==
  /\ honoured # {}
  /\ \/ honoured' = {}
     \/ \E t \in honoured : honoured' = honoured \ {t}
  /\ UNCHANGED <<window, stored, owner, wire, strayed>>

-----------------------------------------------------------------------------
(* Answers.                                                                *)

(* Mutant of handleUnauthorized: every window hears of it.                 *)
handleUnauthorizedAll(w) ==
  /\ window' = [v \in Windows |-> [session |-> NoSession, apiToken |-> NoToken]]
  /\ stored' = NoSession

(* handleUnauthorized: the window's session goes, and the kept token.      *)
handleUnauthorized(w) ==
  /\ window' = [window EXCEPT ![w] =
                  IF @.apiToken = NoToken THEN @ ELSE [session |-> NoSession, apiToken |-> NoToken]]
  /\ stored' = IF window[w].apiToken = NoToken THEN stored ELSE [stored EXCEPT !.token = NoToken]

(* Mutant of renameLocal: the session it was asked in is put back.         *)
renameLocalWhole(w, p) ==
  IF SignedIn(w)
  THEN /\ window' = [window EXCEPT ![w].session.name = p, ![w].session.user = p]
       /\ Store(w, window'[w].session)
  ELSE UNCHANGED <<window, stored>>

renameLocal(w, p) ==
  IF SignedIn(w)
  THEN /\ window' = [window EXCEPT ![w].session.name = p]
       /\ Store(w, [window[w].session EXCEPT !.name = p])
  ELSE UNCHANGED <<window, stored>>

Answer(x) ==
  LET w == x.window IN
  /\ x.answer # "none"
  /\ wire' = wire \ {x}
  /\ IF x.answer = "401" THEN handleUnauthorized(w)
     ELSE IF x.kind = "rename" THEN renameLocal(w, x.by)
     ELSE UNCHANGED <<window, stored>>
  /\ strayed' = IF x.kind = "rename" /\ window[w].session.user # x.by THEN strayed \cup {w} ELSE strayed
  /\ UNCHANGED <<owner, honoured>>

(* The factory reset, answered: localStorage is cleared, and nobody is     *)
(* known to the host any more.                                             *)
wipe(w) ==
  /\ SignedIn(w) /\ window[w].session.token \in honoured
  /\ stored' = NoSession
  /\ honoured' = {}
  /\ UNCHANGED <<window, owner, wire, strayed>>

GateNext ==
  \/ Forgets
  \/ \E w \in Windows :
       \/ \E p \in People : enter(w, p)
       \/ signOut(w) \/ Reload(w) \/ wipe(w)
       \/ \E kind \in {"page", "rename"} : request(w, kind)
  \/ \E x \in wire : HostAnswers(x) \/ Answer(x)

-----------------------------------------------------------------------------
(* Properties.                                                             *)

(* A window sends what its user's session was given, and nothing when no   *)
(* one is signed in; it names that user, unless a rename was answered      *)
(* after the window had changed hands (App.tsx:110).                       *)
OwnScreen ==
  \A w \in Windows :
    LET session == window[w].session IN
    /\ window[w].apiToken = session.token
    /\ SignedIn(w) => owner[session.token] = session.user
    /\ w \notin strayed => session.name = session.user

(* What a reload of the first window restores is a session that was        *)
(* entered there, by the user it names; nothing another window did puts    *)
(* its own session there (App.tsx:42), nor does one that was left remain.  *)
RestoresOwn ==
  /\ stored.token # NoToken =>
       /\ owner[stored.token] = stored.user
       /\ \A w \in FreshWindows : window[w].session.token # stored.token
  /\ stored.token # NoToken => \E w \in Windows \ FreshWindows : window[w].session.token = stored.token

(* A window loses a session the host still honours only by signing out, by *)
(* a reload, or to an answer meant for an earlier session of that window,  *)
(* which api.ts:186 does not tell from one of its own.                     *)
KeptUnlessStale ==
  [][window' # window =>
       \A w \in Windows :
         LET mine == window[w].session.token IN
         SignedIn(w) /\ window'[w].session.token # mine /\ mine \in honoured' =>
           \/ signOut(w) \/ Reload(w)
           \/ \E x \in wire \ wire' : x.window = w /\ x.answer = "401" /\ x.token # mine]_GateVars
=============================================================================
