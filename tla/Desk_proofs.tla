----------------------------- MODULE Desk_proofs -----------------------------
(***************************************************************************)
(* Proofs about the process and the desk around the books.  First what a   *)
(* user sees and types, and the processes behind it: the GUI's gate,       *)
(* refresh and forms, the tray, the shell and the listener.  Then the host *)
(* at work: what wakes an agent and on which engine its turns run, when    *)
(* timers fire, and what the credential stores answer.  Each part has an   *)
(* inductive invariant of its own; a step of the desk moves one part and   *)
(* leaves the others as they are.                                          *)
(***************************************************************************)
EXTENDS MCDesk, FiniteSetTheorems, SequenceTheorems, TLAPS

-----------------------------------------------------------------------------
(* The gate.                                                               *)

Wire == [window : Windows, token : Tokens, by : People, kind : {"page", "rename", "logout"},
         answer : {"none", "ok", "401"}]

GateTyped ==
  /\ window \in [Windows -> [session : Sessions, apiToken : Tokens \cup {NoToken}]]
  /\ stored \in Sessions
  /\ owner \in [Tokens -> People \cup {NoOne}]
  /\ honoured \subseteq Tokens
  /\ wire \subseteq Wire
  /\ strayed \subseteq Windows

TokenOf(w) == window[w].session.token

(* A token is sent exactly while somebody is signed in, and then it is one *)
(* the host gave to that user.                                             *)
Carried ==
  \A w \in Windows :
    /\ window[w].apiToken = TokenOf(w)
    /\ SignedIn(w) <=> TokenOf(w) # NoToken
    /\ SignedIn(w) => owner[TokenOf(w)] = window[w].session.user
    /\ w \notin strayed => window[w].session.name = window[w].session.user

(* No two windows carry the same token.                                    *)
Distinct == \A v, w \in Windows : v # w /\ TokenOf(v) # NoToken => TokenOf(v) # TokenOf(w)

(* What is kept is the session of the first window, while it has a token.  *)
KeptIsFirst ==
  stored.token # NoToken =>
    /\ stored.user # NoOne
    /\ owner[stored.token] = stored.user
    /\ \A w \in Windows \ FreshWindows :
         TokenOf(w) = stored.token /\ (w \notin strayed => stored.name = stored.user)

(* The host takes, and requests carry, only tokens that were given; one it *)
(* has refused it never takes again.                                       *)
Given ==
  /\ \A t \in honoured : owner[t] # NoOne
  /\ \A x \in wire : owner[x.token] # NoOne /\ (x.answer = "401" => x.token \notin honoured)

GateInv == GateTyped /\ Carried /\ Distinct /\ KeptIsFirst /\ Given

-----------------------------------------------------------------------------
(* Refresh.                                                                *)

RefreshTyped ==
  /\ loader \in Loaders
  /\ loads \subseteq [n : Int, answer : Int]
  /\ \A x \in loads : x.n <= asked /\ x.answer \in {Unanswered, Failed} \cup Nat
  /\ \A x, y \in loads : x.n = y.n => x = y
  /\ asked \in Nat /\ ledgerSeq \in Nat
  /\ shown \in Nat \cup {Blank} /\ lastShown \in Nat /\ seenSeq \in Nat \cup {Blank}
  /\ loadError \in BOOLEAN /\ loadsCrossed \in BOOLEAN /\ overtaken \in BOOLEAN
  /\ headPoll \in [kind : {"none", "asked"}, answer : {Unanswered, Failed} \cup Nat]

(* Nothing on its way is ahead of the ledger.                              *)
NotAhead ==
  /\ lastShown <= ledgerSeq /\ seenSeq <= ledgerSeq
  /\ headPoll.answer <= ledgerSeq
  /\ \A x \in loads : x.answer <= ledgerSeq

(* The newest load's answer is no older than what was shown last, where    *)
(* only the newest counts or only the newest is under way.                 *)
NewestNotOlder ==
  /\ ~loadsCrossed => \A x \in loads : x.n = asked
  /\ loader # "page" \/ ~loadsCrossed =>
       \A x \in loads : x.n = asked /\ x.answer \in Nat => x.answer >= lastShown

(* The newest load's answer, on its way or shown, is as new as what the    *)
(* watcher has seen.                                                       *)
NewestCatchesUp ==
  loader # "page" /\ seenSeq # Blank /\ ~overtaken =>
    /\ \A x \in loads : x.n = asked /\ x.answer \in Nat => x.answer >= seenSeq
    /\ (\A x \in loads : x.n # asked) => shown >= seenSeq \/ loadError

RefreshInv == RefreshTyped /\ NotAhead /\ NewestNotOlder /\ NewestCatchesUp

-----------------------------------------------------------------------------
(* The tray.                                                               *)

(* A title about to be posted is right unless something changed since it   *)
(* was read; and every nightly under way was started.                      *)
TrayInv ==
  /\ moved \in BOOLEAN /\ poller.since \in BOOLEAN
  /\ DOMAIN poller = {"at", "found", "since"}
  /\ TitleTrue
  /\ poller.at = "posted" /\ ~poller.since => poller.found = PolledTitle
  /\ \A id \in runningIds : \E y \in started : y.second = id
  /\ SaidIsStarted

-----------------------------------------------------------------------------
(* The shell and the listener.                                             *)

ShellTyped ==
  /\ phase \in [Shells -> {"off", "up", "exiting", "quit", "killed"}]
  /\ host \in [Shells -> {"none", "booting", "serving", "stopping", "dead"}]
  /\ child \in [Shells -> BOOLEAN]
  /\ after \in [Shells -> Shells]

(* A shell that has not ended holds the child of its live host; whom a     *)
(* shell was relaunched after has quit.                                    *)
ShellInv ==
  /\ ShellTyped
  /\ \A x \in Shells :
       /\ phase[x] = "off" => ~HostAlive(x)
       /\ HostAlive(x) /\ phase[x] \in {"up", "exiting"} => child[x]
       /\ after[x] # x => phase[after[x]] = "quit"
  /\ QuitStops

(* What an App is at, it is at as its user's, on the attached volume, or   *)
(* was when it was closed.                                                 *)
AppOf(x) == [user |-> x.user, app |-> x.app]
AtWork(x) ==
  /\ x.user \in Members /\ x.app # NoApp
  /\ (apps[x.user] = x.app /\ x.user \in mounted) \/ AppOf(x) \in crossed

ServeKept ==
  /\ serveTurns \in Nat /\ sessionsOf \in [Members -> Int] /\ apps \in [Members -> Nat]
  /\ \A u \in Members : sessionsOf[u] > 0 => serveTurns > 0
  /\ \A x \in incoming : AtWork(x)
  /\ \A w \in working : AtWork(w) /\ w = AppOf(w)
  /\ InsideTheVolume

ServeInv == ServeKept /\ BoundAsSet

-----------------------------------------------------------------------------
(* Forms.                                                                  *)

Requests == [n : Nat, kind : {"load", "reset", "save", "extract"}, sent : SUBSET Edits,
             got : SUBSET Edits, answer : {"none", "ok", "refused"}]

FormsTyped ==
  /\ draft \in [open : BOOLEAN, holds : SUBSET Edits]
  /\ saved \subseteq Edits /\ had \subseteq Edits /\ typed \subseteq Edits
  /\ dirty \in BOOLEAN /\ saving \in BOOLEAN /\ stale \in BOOLEAN
  /\ made \in Nat
  /\ requests \subseteq Requests
  /\ ~draft.open => draft.holds = {}

(* One save at a time; the requests are told apart.                        *)
OneSave ==
  /\ \A r \in requests : r.kind = "save" => saving
  /\ \A r, q \in requests : r.kind = "save" /\ q.kind = "save" => r = q
  /\ \A r \in requests : r.n <= made
  /\ \A r, q \in requests : r.n = q.n => r = q

(* What the host has had: all it has, all it answered with, all that was   *)
(* sent to it with a save that it took.                                    *)
WasHad ==
  /\ saved \subseteq had
  /\ \A r \in requests :
       r.answer = "ok" /\ r.kind # "extract" => r.got \subseteq had /\ (r.kind = "save" => r.sent \subseteq had)

(* A form that reloads only without edits was clean when it asked; only    *)
(* the providers' asks with edits.                                         *)
CleanWhenAsked ==
  /\ form = "profile" /\ ~dirty => draft.holds \subseteq had \cup waived
  /\ form # "providers" =>
       \A r \in requests : r.kind \in {"load", "reset"} => r.sent \subseteq had \cup waived

(* A form holds all that is saved, and a save under way sends all of it,   *)
(* unless what filled the form was stale.                                  *)
SavesAll ==
  /\ form # "key" /\ ~stale =>
       /\ \A r \in requests : r.kind = "save" /\ r.answer = "none" => saved \subseteq r.sent
       /\ draft.open /\ (\A r \in requests : ~(r.kind = "save" /\ r.answer = "ok")) => saved \subseteq draft.holds
  /\ \A r \in requests : r.kind = "save" /\ r.answer = "ok" =>
       IF form = "key" THEN r.sent \subseteq saved ELSE r.sent = saved /\ r.got = saved

FormsInv == FormsTyped /\ OneSave /\ WasHad /\ CleanWhenAsked /\ SavesAll
-----------------------------------------------------------------------------
(* Proofs: the gate.                                                       *)

LEMMA GateStarts == GateInit => GateInv
  <1> SUFFICES ASSUME GateInit PROVE GateInv
    OBVIOUS
  <1>1. GateTyped
    BY DEF GateInit, GateTyped, NoSession, Sessions
  <1>2. Carried /\ Distinct /\ KeptIsFirst /\ Given
    BY DEF GateInit, Carried, Distinct, KeptIsFirst, Given, TokenOf, SignedIn, NoSession
  <1> QED
    BY <1>1, <1>2 DEF GateInv

(* A token is a number of its own, and nobody's is none.                   *)
LEMMA NoTokenOut == NoToken \notin Tokens
  BY DEF NoToken, Tokens

(* Somebody enters with a token that no window, request or store knows.    *)
LEMMA GateEnters ==
  ASSUME GateInv, NEW w \in Windows, NEW p \in People, enter(w, p)
  PROVE  GateInv'
  <1> USE DEF GateInv
  <1>1. PICK t \in Tokens :
          /\ owner[t] = NoOne
          /\ owner' = [owner EXCEPT ![t] = p]
          /\ honoured' = honoured \cup {t}
          /\ window' = [window EXCEPT ![w] = [session |-> [token |-> t, user |-> p, name |-> p], apiToken |-> t]]
          /\ Store(w, [token |-> t, user |-> p, name |-> p])
    BY DEF enter
  <1>2. strayed' = strayed \ {w} /\ wire' = wire /\ ~SignedIn(w)
    BY DEF enter
  <1>3. p # NoOne
    BY NobodyAtTheGate
  <1>4. GateTyped'
    BY <1>1, <1>2 DEF GateTyped, Store, Sessions
  <1>5. \A v \in Windows : TokenOf(v) # t
    BY <1>1, NoTokenOut DEF Carried, GateTyped, Sessions, TokenOf, SignedIn
  <1>6. \A v \in Windows : v # w => TokenOf(v)' = TokenOf(v) /\ SignedIn(v)' = SignedIn(v) /\ window'[v] = window[v]
    BY <1>1 DEF TokenOf, SignedIn, GateTyped
  <1>7. TokenOf(w)' = t /\ SignedIn(w)' /\ window'[w] = [session |-> [token |-> t, user |-> p, name |-> p], apiToken |-> t]
    BY <1>1, <1>3 DEF TokenOf, SignedIn, GateTyped
  <1>8. Carried'
    <2> SUFFICES ASSUME NEW v \in Windows
                 PROVE  /\ window'[v].apiToken = TokenOf(v)'
                        /\ SignedIn(v)' <=> TokenOf(v)' # NoToken
                        /\ SignedIn(v)' => owner'[TokenOf(v)'] = window'[v].session.user
                        /\ v \notin strayed' => window'[v].session.name = window'[v].session.user
      BY DEF Carried, TokenOf
    <2>1. CASE v = w
      BY <2>1, <1>1, <1>7, NoTokenOut DEF GateTyped
    <2>2. CASE v # w
      BY <2>2, <1>1, <1>2, <1>5, <1>6 DEF Carried, GateTyped
    <2> QED
      BY <2>1, <2>2
  <1>9. Distinct'
    BY <1>5, <1>6, <1>7 DEF Distinct
  <1>10. KeptIsFirst'
    <2>1. CASE w \in FreshWindows
      <3>1. stored' = stored /\ (stored.token # NoToken => stored.token # t)
        BY <2>1, <1>1, <1>3, FreshAssumption DEF Store, KeptIsFirst
      <3> QED
        BY <2>1, <3>1, <1>1, <1>2, <1>6 DEF KeptIsFirst, GateTyped, Sessions
    <2>2. CASE w \notin FreshWindows
      <3>1. stored' = [token |-> t, user |-> p, name |-> p]
        BY <2>2, <1>1 DEF Store
      <3>2. \A v \in Windows \ FreshWindows : v = w
        BY <2>2, FreshAssumption
      <3> QED
        BY <3>1, <3>2, <1>1, <1>3, <1>7 DEF KeptIsFirst, GateTyped
    <2> QED
      BY <2>1, <2>2
  <1>11. Given'
    BY <1>1, <1>2, <1>3 DEF Given, GateTyped, Wire
  <1> QED
    BY <1>4, <1>8, <1>9, <1>10, <1>11

(* The host gives no token and the windows stay; requests come and are     *)
(* answered, tokens are forgotten.                                         *)
LEMMA GateStays ==
  ASSUME GateInv, UNCHANGED <<window, owner, strayed>>, stored' \in {stored, NoSession},
         GateTyped', Given'
  PROVE  GateInv'
  <1>1. Carried' /\ Distinct'
    BY DEF GateInv, Carried, Distinct, TokenOf, SignedIn
  <1>2. KeptIsFirst'
    BY DEF GateInv, KeptIsFirst, TokenOf, NoSession
  <1> QED
    BY <1>1, <1>2 DEF GateInv

LEMMA GateAsks ==
  ASSUME GateInv, NEW w \in Windows, NEW kind \in {"page", "rename", "logout"}, Sends(w, kind)
  PROVE  /\ wire' \subseteq Wire
         /\ honoured' = honoured /\ owner' = owner => Given'
  <1>1. Message(w, kind) \in Wire /\ owner[Message(w, kind).token] # NoOne /\ Message(w, kind).answer = "none"
    BY NoTokenOut DEF GateInv, GateTyped, Carried, Sends, Message, Wire, SignedIn, TokenOf, Sessions
  <1>2. wire' = wire \cup {Message(w, kind)}
    BY DEF Sends
  <1> QED
    BY <1>1, <1>2 DEF GateInv, GateTyped, Given

(* A window is left: its session and what is kept of it are gone.          *)
LEMMA GateForgets ==
  ASSUME GateInv, NEW w \in Windows, UNCHANGED <<owner, strayed>>,
         window' = [window EXCEPT ![w] = [session |-> NoSession, apiToken |-> NoToken]],
         \/ stored' = NoSession
         \/ stored' = [stored EXCEPT !.token = NoToken]
         \/ w \in FreshWindows /\ stored' = stored,
         wire' \subseteq Wire, honoured' \subseteq Tokens, Given'
  PROVE  GateInv'
  <1> USE DEF GateInv
  <1>1. GateTyped'
    BY DEF GateTyped, NoSession, Sessions
  <1>2. \A v \in Windows : v # w => TokenOf(v)' = TokenOf(v) /\ window'[v] = window[v]
    BY DEF TokenOf, GateTyped
  <1>3. window'[w] = [session |-> NoSession, apiToken |-> NoToken] /\ TokenOf(w)' = NoToken
    BY DEF TokenOf, GateTyped, NoSession
  <1>4. Carried'
    <2> SUFFICES ASSUME NEW v \in Windows
                 PROVE  /\ window'[v].apiToken = TokenOf(v)'
                        /\ SignedIn(v)' <=> TokenOf(v)' # NoToken
                        /\ SignedIn(v)' => owner'[TokenOf(v)'] = window'[v].session.user
                        /\ v \notin strayed' => window'[v].session.name = window'[v].session.user
      BY DEF Carried, TokenOf
    <2>1. CASE v = w
      BY <2>1, <1>3 DEF NoSession, SignedIn
    <2>2. CASE v # w
      BY <2>2, <1>2 DEF Carried, SignedIn
    <2> QED
      BY <2>1, <2>2
  <1>5. Distinct'
    BY <1>2, <1>3 DEF Distinct
  <1>6. KeptIsFirst'
    <2>1. CASE w \in FreshWindows /\ stored' = stored
      BY <2>1, <1>2 DEF KeptIsFirst
    <2>2. CASE stored' = NoSession \/ stored' = [stored EXCEPT !.token = NoToken]
      BY <2>2 DEF KeptIsFirst, NoSession, GateTyped, Sessions
    <2> QED
      BY <2>1, <2>2
  <1> QED
    BY <1>1, <1>4, <1>5, <1>6

LEMMA GateSignsOut ==
  ASSUME GateInv, NEW w \in Windows, signOut(w)
  PROVE  GateInv'
  <1>1. Sends(w, "logout") /\ UNCHANGED <<owner, honoured, strayed>> /\ Store(w, NoSession)
        /\ window' = [window EXCEPT ![w] = [session |-> NoSession, apiToken |-> NoToken]]
    BY DEF signOut
  <1>2. wire' \subseteq Wire /\ Given'
    BY <1>1, GateAsks
  <1>3. honoured' \subseteq Tokens
    BY <1>1 DEF GateInv, GateTyped
  <1>4. stored' = NoSession \/ (w \in FreshWindows /\ stored' = stored)
    BY <1>1 DEF Store
  <1> QED
    BY <1>1, <1>2, <1>3, <1>4, GateForgets

(* The first window takes up what is kept, which is what it had.           *)
LEMMA GateReloads ==
  ASSUME GateInv, NEW w \in Windows, Reload(w)
  PROVE  GateInv'
  <1>1. /\ wire' \subseteq wire /\ honoured' \subseteq honoured
        /\ UNCHANGED <<stored, owner, strayed>>
    BY DEF Reload
  <1>2. wire' \subseteq Wire /\ honoured' \subseteq Tokens /\ Given'
    BY <1>1 DEF GateInv, GateTyped, Given
  <1>3. CASE w \in FreshWindows
    <2>1. window' = [window EXCEPT ![w] = [session |-> NoSession, apiToken |-> NoToken]]
      BY <1>3 DEF Reload, NoSession
    <2> QED
      BY <2>1, <1>1, <1>2, <1>3, GateForgets
  <1>4. CASE w \notin FreshWindows /\ stored.token = NoToken
    <2>1. window' = [window EXCEPT ![w] = [session |-> NoSession, apiToken |-> NoToken]]
      BY <1>4 DEF Reload, NoSession
    <2>2. stored' = [stored EXCEPT !.token = NoToken]
      BY <1>1, <1>4 DEF GateInv, GateTyped, Sessions
    <2> QED
      BY <2>1, <2>2, <1>1, <1>2, GateForgets
  <1>5. CASE w \notin FreshWindows /\ stored.token # NoToken
    <2>1. window' = [window EXCEPT ![w] = [session |-> stored, apiToken |-> stored.token]]
      BY <1>5 DEF Reload
    <2>2. TokenOf(w) = stored.token /\ stored.user # NoOne /\ owner[stored.token] = stored.user
          /\ (w \notin strayed => stored.name = stored.user)
      BY <1>5 DEF GateInv, KeptIsFirst
    <2>3. GateTyped'
      BY <2>1, <1>1, <1>2 DEF GateInv, GateTyped, Sessions
    <2>4. \A v \in Windows : TokenOf(v)' = TokenOf(v) /\ (v # w => window'[v] = window[v])
      BY <2>1, <2>2 DEF TokenOf, GateInv, GateTyped
    <2>5. window'[w] = [session |-> stored, apiToken |-> stored.token]
      BY <2>1 DEF GateInv, GateTyped
    <2>6. Carried'
      <3> SUFFICES ASSUME NEW v \in Windows
                   PROVE  /\ window'[v].apiToken = TokenOf(v)'
                          /\ SignedIn(v)' <=> TokenOf(v)' # NoToken
                          /\ SignedIn(v)' => owner'[TokenOf(v)'] = window'[v].session.user
                          /\ v \notin strayed' => window'[v].session.name = window'[v].session.user
        BY DEF Carried, TokenOf
      <3>1. CASE v = w
        BY <3>1, <2>2, <2>4, <2>5, <1>1, <1>5 DEF SignedIn
      <3>2. CASE v # w
        BY <3>2, <2>4, <1>1 DEF GateInv, Carried, SignedIn
      <3> QED
        BY <3>1, <3>2
    <2>7. Distinct' /\ KeptIsFirst'
      BY <2>4, <1>1 DEF GateInv, Distinct, KeptIsFirst
    <2> QED
      BY <2>3, <2>6, <2>7, <1>2 DEF GateInv
  <1> QED
    BY <1>3, <1>4, <1>5

LEMMA GateAnswered ==
  ASSUME GateInv, NEW x \in wire, HostAnswers(x)
  PROVE  GateInv'
  <1>1. UNCHANGED <<window, stored, owner, strayed>> /\ x \in Wire /\ owner[x.token] # NoOne
    BY DEF HostAnswers, GateInv, GateTyped, Given
  <1>2. /\ honoured' \subseteq honoured
        /\ \/ x.token \in honoured /\ wire' = (wire \ {x}) \cup {[x EXCEPT !.answer = "ok"]}
           \/ x.token \notin honoured /\ wire' = (wire \ {x}) \cup {[x EXCEPT !.answer = "401"]}
    BY DEF HostAnswers, Answered
  <1>3. \A how \in {"ok", "401"} :
          /\ [x EXCEPT !.answer = how] \in Wire
          /\ [x EXCEPT !.answer = how].token = x.token /\ [x EXCEPT !.answer = how].answer = how
    BY <1>1 DEF Wire
  <1>4. GateTyped'
    BY <1>1, <1>2, <1>3 DEF GateInv, GateTyped
  <1>5. Given'
    BY <1>1, <1>2, <1>3 DEF GateInv, Given
  <1> QED
    BY <1>1, <1>4, <1>5, GateStays

(* An answer to a window that was left does nothing more; a 401 takes what *)
(* session it has by now; a rename names it.                               *)
LEMMA GateHears ==
  ASSUME GateInv, NEW x \in wire, Answer(x)
  PROVE  GateInv'
  <1> USE DEF GateInv
  <1> DEFINE w == x.window
  <1>1. x \in Wire /\ w \in Windows /\ x.by \in People
    BY DEF GateTyped, Wire
  <1>2. UNCHANGED <<owner, honoured>> /\ wire' = wire \ {x} /\ x.answer # "none"
    BY DEF Answer
  <1>3. wire' \subseteq Wire /\ honoured' \subseteq Tokens /\ Given'
    BY <1>2 DEF GateTyped, Given
  <1>4. strayed' \subseteq Windows /\ strayed \subseteq strayed'
    BY <1>1 DEF Answer, GateTyped
  <1>5. CASE x.answer = "401"
    <2>1. handleUnauthorized(w)
      BY <1>5 DEF Answer
    <2>2. CASE strayed' = strayed /\ window[w].apiToken # NoToken
      <3>1. window' = [window EXCEPT ![w] = [session |-> NoSession, apiToken |-> NoToken]]
            /\ stored' = [stored EXCEPT !.token = NoToken]
        BY <2>1, <2>2 DEF handleUnauthorized
      <3> QED
        BY <3>1, <2>2, <1>1, <1>2, <1>3, GateForgets
    <2>3. CASE strayed' = strayed /\ window[w].apiToken = NoToken
      <3>1. window' = window /\ stored' = stored
        BY <2>1, <2>3, <1>1 DEF handleUnauthorized, GateTyped
      <3>2. GateTyped'
        BY <3>1, <1>2, <1>3, <1>4 DEF GateTyped
      <3> QED
        BY <3>1, <3>2, <2>3, <1>2, <1>3, GateStays
    <2>4. CASE strayed' # strayed
      <3>1. strayed' = strayed \cup {w}
        BY <2>4 DEF Answer
      <3>2. /\ window' = [window EXCEPT ![w] = IF @.apiToken = NoToken THEN @
                                               ELSE [session |-> NoSession, apiToken |-> NoToken]]
            /\ stored' = IF window[w].apiToken = NoToken THEN stored ELSE [stored EXCEPT !.token = NoToken]
        BY <2>1 DEF handleUnauthorized
      <3>3. GateTyped'
        BY <3>1, <3>2, <1>1, <1>2, <1>3 DEF GateTyped, NoSession, Sessions
      <3>4. \A v \in Windows : v # w => TokenOf(v)' = TokenOf(v) /\ window'[v] = window[v]
        BY <3>2 DEF TokenOf, GateTyped
      <3>5. window'[w] = IF window[w].apiToken = NoToken THEN window[w] ELSE [session |-> NoSession, apiToken |-> NoToken]
        BY <3>2, <1>1 DEF GateTyped
      <3>6. TokenOf(w)' = NoToken /\ window'[w].apiToken = NoToken /\ ~SignedIn(w)'
        BY <3>5, <1>1 DEF TokenOf, NoSession, Carried, SignedIn
      <3>7. Carried'
        BY <3>1, <3>4, <3>6, <1>2 DEF Carried, SignedIn
      <3>8. Distinct'
        BY <3>4, <3>6 DEF Distinct
      <3>9. KeptIsFirst'
        BY <3>1, <3>2, <3>4, <3>5, <1>1, <1>2 DEF KeptIsFirst, GateTyped, Sessions, TokenOf
      <3> QED
        BY <3>3, <3>7, <3>8, <3>9, <1>3
    <2> QED
      BY <2>2, <2>3, <2>4
  <1>6. CASE x.answer # "401" /\ x.kind = "rename" /\ SignedIn(w)
    <2>1. /\ window' = [window EXCEPT ![w].session.name = x.by]
          /\ Store(w, [window[w].session EXCEPT !.name = x.by])
          /\ strayed' = IF window[w].session.user # x.by THEN strayed \cup {w} ELSE strayed
      BY <1>6, <1>2 DEF Answer, renameLocal
    <2>2. window[w] \in [session : Sessions, apiToken : Tokens \cup {NoToken}]
      BY <1>1 DEF GateTyped
    <2>3. /\ window'[w].session = [window[w].session EXCEPT !.name = x.by]
          /\ window'[w].apiToken = window[w].apiToken
          /\ \A v \in Windows : v # w => window'[v] = window[v]
      BY <2>1, <2>2, <1>1 DEF GateTyped
    <2>4. /\ window'[w].session.token = window[w].session.token /\ window'[w].session.user = window[w].session.user
          /\ window'[w].session.name = x.by
      BY <2>2, <2>3 DEF Sessions
    <2>5. [window[w].session EXCEPT !.name = x.by] \in Sessions
      BY <2>2, <1>1 DEF Sessions
    <2>6. GateTyped'
      BY <2>1, <2>2, <2>5, <1>1, <1>2, <1>3, <1>4 DEF GateTyped, Store
    <2>7. \A v \in Windows : TokenOf(v)' = TokenOf(v) /\ SignedIn(v)' = SignedIn(v)
      BY <2>3, <2>4 DEF TokenOf, SignedIn
    <2>8. Carried'
      <3> SUFFICES ASSUME NEW v \in Windows
                   PROVE  /\ window'[v].apiToken = TokenOf(v)'
                          /\ SignedIn(v)' <=> TokenOf(v)' # NoToken
                          /\ SignedIn(v)' => owner'[TokenOf(v)'] = window'[v].session.user
                          /\ v \notin strayed' => window'[v].session.name = window'[v].session.user
        BY DEF Carried, TokenOf
      <3>1. CASE v = w
        BY <3>1, <2>1, <2>3, <2>4, <2>7, <1>2, <1>4 DEF Carried
      <3>2. CASE v # w
        BY <3>2, <2>3, <2>7, <1>2, <1>4 DEF Carried
      <3> QED
        BY <3>1, <3>2
    <2>9. Distinct'
      BY <2>7 DEF Distinct
    <2>10. KeptIsFirst'
      <3>1. CASE w \in FreshWindows
        BY <3>1, <2>1, <2>7, <1>2, <1>4 DEF KeptIsFirst, Store
      <3>2. CASE w \notin FreshWindows
        <4>1. stored' = [window[w].session EXCEPT !.name = x.by]
          BY <3>2, <2>1 DEF Store
        <4>2. stored'.token = TokenOf(w) /\ stored'.user = window[w].session.user /\ stored'.name = x.by
          BY <4>1, <2>2 DEF Sessions, TokenOf
        <4>3. \A v \in Windows \ FreshWindows : v = w
          BY <3>2, <1>1, FreshAssumption
        <4>4. stored'.user # NoOne /\ owner'[stored'.token] = stored'.user
          BY <4>2, <1>1, <1>2, <1>6 DEF Carried, SignedIn
        <4>5. w \notin strayed' => x.by = window[w].session.user
          BY <2>1
        <4> QED
          BY <4>2, <4>3, <4>4, <4>5, <2>7 DEF KeptIsFirst
      <3> QED
        BY <3>1, <3>2
    <2> QED
      BY <2>6, <2>8, <2>9, <2>10, <1>3
  <1>7. CASE x.answer # "401" /\ ~(x.kind = "rename" /\ SignedIn(w))
    <2>1. window' = window /\ stored' = stored
      BY <1>7 DEF Answer, renameLocal
    <2>2. GateTyped'
      BY <2>1, <1>2, <1>3, <1>4 DEF GateTyped
    <2>3. Carried' /\ Distinct' /\ KeptIsFirst'
      BY <2>1, <1>2, <1>4 DEF Carried, Distinct, KeptIsFirst, TokenOf, SignedIn
    <2> QED
      BY <2>2, <2>3, <1>3
  <1> QED
    BY <1>5, <1>6, <1>7

LEMMA GateSteps == GateInv /\ [GateNext]_GateVars => GateInv'
  <1> SUFFICES ASSUME GateInv, [GateNext]_GateVars PROVE GateInv'
    OBVIOUS
  <1>1. CASE Forgets
    <2>1. UNCHANGED <<window, stored, owner, wire, strayed>> /\ honoured' \subseteq honoured
      BY <1>1 DEF Forgets
    <2>2. GateTyped' /\ Given'
      BY <2>1 DEF GateInv, GateTyped, Given
    <2> QED
      BY <2>1, <2>2, GateStays
  <1>2. ASSUME NEW w \in Windows, wipe(w) PROVE GateInv'
    <2>1. UNCHANGED <<window, owner, wire, strayed>> /\ honoured' = {} /\ stored' = NoSession
      BY <1>2 DEF wipe
    <2>2. GateTyped' /\ Given'
      BY <2>1 DEF GateInv, GateTyped, Given, NoSession, Sessions
    <2> QED
      BY <2>1, <2>2, GateStays
  <1>3. ASSUME NEW w \in Windows, NEW kind \in {"page", "rename"}, request(w, kind) PROVE GateInv'
    <2>1. UNCHANGED <<window, stored, owner, honoured, strayed>> /\ Sends(w, kind)
      BY <1>3 DEF request
    <2>2. wire' \subseteq Wire /\ Given'
      BY <2>1, GateAsks
    <2>3. GateTyped'
      BY <2>1, <2>2 DEF GateInv, GateTyped
    <2> QED
      BY <2>1, <2>2, <2>3, GateStays
  <1>4. CASE UNCHANGED GateVars
    BY <1>4 DEF GateVars, GateInv, GateTyped, Carried, Distinct, KeptIsFirst, Given, TokenOf, SignedIn
  <1> QED
    BY <1>1, <1>2, <1>3, <1>4, GateEnters, GateSignsOut, GateReloads, GateAnswered, GateHears DEF GateNext

LEMMA GateShows == GateInv => OwnScreen /\ RestoresOwn
  <1> SUFFICES ASSUME GateInv PROVE OwnScreen /\ RestoresOwn
    OBVIOUS
  <1>1. OwnScreen
    BY DEF GateInv, Carried, OwnScreen, TokenOf
  <1>2. PICK one \in Windows : FreshWindows = Windows \ {one}
    BY FreshAssumption
  <1>3. RestoresOwn
    BY <1>2 DEF GateInv, KeptIsFirst, Distinct, RestoresOwn, TokenOf
  <1> QED
    BY <1>1, <1>3

(* Only an answer that was refused for another token takes a session.      *)
KeepsSession ==
  window' # window =>
    \A w \in Windows :
      LET mine == window[w].session.token IN
      SignedIn(w) /\ window'[w].session.token # mine /\ mine \in honoured' =>
        \/ signOut(w) \/ Reload(w)
        \/ \E x \in wire \ wire' : x.window = w /\ x.answer = "401" /\ x.token # mine

LEMMA GateKeeps == GateInv /\ [GateNext]_GateVars => [KeepsSession]_GateVars
  <1> SUFFICES ASSUME GateInv, GateNext, window' # window, NEW w \in Windows,
                      SignedIn(w), TokenOf(w)' # TokenOf(w), TokenOf(w) \in honoured',
                      ~signOut(w), ~Reload(w)
               PROVE  \E x \in wire \ wire' : x.window = w /\ x.answer = "401" /\ x.token # TokenOf(w)
    BY DEF KeepsSession, TokenOf
  <1> USE DEF GateInv
  <1>1. ASSUME NEW v \in Windows, window' = [window EXCEPT ![v] = window'[v]] PROVE v = w
    <2>1. window[v] # window'[v] => v = w \/ window'[w] = window[w]
      BY <1>1 DEF GateTyped
    <2> QED
      BY <2>1, <1>1 DEF TokenOf, GateTyped
  <1>2. ASSUME NEW v \in Windows, NEW p \in People, enter(v, p) PROVE FALSE
    <2>1. window' = [window EXCEPT ![v] = window'[v]] /\ ~SignedIn(v)
      BY <1>2 DEF enter, GateTyped
    <2> QED
      BY <2>1, <1>1
  <1>3. ASSUME NEW v \in Windows, signOut(v) \/ Reload(v) PROVE FALSE
    <2>1. window' = [window EXCEPT ![v] = window'[v]]
      BY <1>3 DEF signOut, Reload, GateTyped
    <2> QED
      BY <2>1, <1>1, <1>3
  <1>4. PICK x \in wire : Answer(x)
    BY <1>2, <1>3 DEF GateNext, Forgets, wipe, request, HostAnswers
  <1>5. x.window \in Windows /\ x \in wire \ wire' /\ UNCHANGED honoured
    BY <1>4 DEF Answer, GateTyped, Wire
  <1>6. CASE x.answer = "401"
    <2>1. handleUnauthorized(x.window)
      BY <1>4, <1>6 DEF Answer
    <2>2. window' = [window EXCEPT ![x.window] = window'[x.window]]
      BY <2>1, <1>5 DEF handleUnauthorized, GateTyped
    <2>3. x.window = w
      BY <2>2, <1>1, <1>5
    <2>4. x.token # TokenOf(w)
      BY <1>5, <1>6 DEF Given
    <2> QED
      BY <2>3, <2>4, <1>5, <1>6
  <1>7. CASE x.answer # "401"
    <2>1. renameLocal(x.window, x.by)
      BY <1>4, <1>7 DEF Answer, renameLocal
    <2>2. window' = [window EXCEPT ![x.window].session.name = x.by]
      BY <2>1 DEF renameLocal
    <2>3. TokenOf(w)' = TokenOf(w)
      BY <2>2, <1>5 DEF TokenOf, GateTyped, Sessions
    <2> QED
      BY <2>3
  <1> QED
    BY <1>6, <1>7

-----------------------------------------------------------------------------
(* Proofs: refresh.                                                        *)

LEMMA RefreshStarts == RefreshInit => RefreshInv
  <1> SUFFICES ASSUME RefreshInit PROVE RefreshInv
    OBVIOUS
  <1>1. loads = {[n |-> 1, answer |-> -3]}
    BY DEF RefreshInit, Load, Unanswered
  <1>2. RefreshTyped
    <2>1. \A x \in loads : x = [n |-> 1, answer |-> -3]
      BY <1>1
    <2>2. headPoll = [kind |-> "asked", answer |-> -3]
      BY DEF RefreshInit, Unanswered
    <2>3. headPoll \in [kind : {"none", "asked"}, answer : {Unanswered, Failed} \cup Nat]
      BY <2>2 DEF Unanswered
    <2>4. loads \subseteq [n : Int, answer : Int]
      BY <2>1
    <2>5. /\ \A x \in loads : x.n <= asked /\ x.answer \in {Unanswered, Failed} \cup Nat
          /\ \A x, y \in loads : x.n = y.n => x = y
      BY <2>1 DEF RefreshInit, Unanswered
    <2> QED
      BY <2>3, <2>4, <2>5 DEF RefreshInit, RefreshTyped
  <1>3. NotAhead /\ NewestNotOlder /\ NewestCatchesUp
    BY <1>1 DEF RefreshInit, NotAhead, NewestNotOlder, NewestCatchesUp, Blank, Unanswered
  <1> QED
    BY <1>2, <1>3 DEF RefreshInv

(* A new load is the newest, and unanswered.                               *)
LEMMA Bumped ==
  ASSUME RefreshInv, Bump,
         UNCHANGED <<loader, ledgerSeq, shown, loadError, lastShown>>, headPoll' \in {headPoll, NoPoll},
         \/ UNCHANGED <<seenSeq, overtaken>>
         \/ seenSeq' \in Nat /\ seenSeq' <= ledgerSeq /\ overtaken' = FALSE
  PROVE  RefreshInv'
  <1> USE DEF RefreshInv
  <1>1. /\ asked' = asked + 1 /\ asked \in Nat
        /\ loads' = loads \cup {[n |-> asked + 1, answer |-> -3]}
        /\ loadsCrossed' = (loads # {})
    BY DEF Bump, Load, Unanswered, RefreshTyped
  <1>crossed. loadsCrossed' \in BOOLEAN /\ (~loadsCrossed' => loads = {})
    BY <1>1
  <1>2. \A x \in loads : x.n <= asked /\ x \in [n : Int, answer : Int]
    BY DEF RefreshTyped
  <1>new. \A x \in loads' : x \in loads \/ x = [n |-> asked + 1, answer |-> -3]
    BY <1>1
  <1>3. RefreshTyped'
    <2>1. loads' \subseteq [n : Int, answer : Int]
      BY <1>1, <1>2
    <2>2. \A x \in loads' : x.n <= asked' /\ x.answer \in {Unanswered, Failed} \cup Nat
      BY <1>1, <1>2, <1>new DEF RefreshTyped, Unanswered
    <2>3. \A x, y \in loads' : x.n = y.n => x = y
      BY <1>1, <1>2, <1>new DEF RefreshTyped
    <2>4. headPoll' \in [kind : {"none", "asked"}, answer : {Unanswered, Failed} \cup Nat]
      BY DEF RefreshTyped, NoPoll
    <2>5. seenSeq' \in Nat \cup {Blank} /\ asked' \in Nat
      BY <1>1 DEF RefreshTyped
    <2>6. overtaken' \in BOOLEAN
      BY Zenon DEF RefreshTyped
    <2> QED
      BY <2>1, <2>2, <2>3, <2>4, <2>5, <2>6, <1>crossed DEF RefreshTyped
  <1>4. NotAhead'
    BY <1>1, <1>2 DEF NotAhead, RefreshTyped, NoPoll, Unanswered
  <1>5. NewestNotOlder'
    BY <1>1, <1>2, <1>new, <1>crossed DEF NewestNotOlder
  <1>6. NewestCatchesUp'
    <2>1. \A x \in loads' : x.n = asked' => x.answer = -3
      BY <1>1, <1>2, <1>new
    <2>2. [n |-> asked + 1, answer |-> -3] \in loads' /\ [n |-> asked + 1, answer |-> -3].n = asked'
      BY <1>1
    <2> QED
      BY <2>1, <2>2 DEF NewestCatchesUp
  <1> QED
    BY <1>3, <1>4, <1>5, <1>6

LEMMA RefreshServed ==
  ASSUME RefreshInv, NEW x \in loads, HostServes(x)
  PROVE  RefreshInv'
  <1> USE DEF RefreshInv
  <1>1. PICK answer \in {ledgerSeq, Failed} : loads' = (loads \ {x}) \cup {[x EXCEPT !.answer = answer]}
    BY DEF HostServes
  <1>2. UNCHANGED <<loader, ledgerSeq, asked, shown, loadError, lastShown, seenSeq, headPoll, loadsCrossed, overtaken>>
    BY DEF HostServes
  <1> DEFINE y == [x EXCEPT !.answer = answer]
  <1>3. y \in [n : Int, answer : Int] /\ y.n = x.n /\ y.answer = answer /\ answer \in {-2} \cup Nat /\ answer <= ledgerSeq
    BY DEF RefreshTyped, Failed
  <1>4. \A z \in loads' : z \in loads \/ z = y
    BY <1>1
  <1>5. RefreshTyped'
    BY <1>1, <1>2, <1>3 DEF RefreshTyped, Failed, Unanswered, Blank
  <1>6. NotAhead'
    BY <1>2, <1>3, <1>4 DEF NotAhead
  <1>7. NewestNotOlder'
    BY <1>2, <1>3, <1>4 DEF NewestNotOlder, NotAhead, RefreshTyped, Failed
  <1>8. NewestCatchesUp'
    BY <1>1, <1>2, <1>3, <1>4 DEF NewestCatchesUp, NotAhead, RefreshTyped, Failed
  <1> QED
    BY <1>5, <1>6, <1>7, <1>8

LEMMA RefreshLands ==
  ASSUME RefreshInv, NEW x \in loads, Lands(x)
  PROVE  RefreshInv'
  <1> USE DEF RefreshInv
  <1>1. loads' = loads \ {x} /\ x.answer # Unanswered
        /\ UNCHANGED <<loader, ledgerSeq, asked, seenSeq, headPoll, loadsCrossed, overtaken>>
    BY DEF Lands
  <1>2. x \in [n : Int, answer : Int] /\ x.answer \in {-2} \cup Nat /\ x.answer <= ledgerSeq
        /\ \A y \in loads' : y \in loads /\ y.n # x.n
    BY <1>1 DEF RefreshTyped, NotAhead, Unanswered, Failed
  <1>3. CASE ~Taken(x.n)
    <2>1. UNCHANGED <<shown, loadError, lastShown>> /\ loader # "page" /\ x.n # asked
      BY <1>3 DEF Lands, Taken
    <2>2. RefreshTyped' /\ NotAhead' /\ NewestNotOlder'
      BY <2>1, <1>1, <1>2 DEF RefreshTyped, NotAhead, NewestNotOlder
    <2>3. NewestCatchesUp'
      BY <2>1, <1>1, <1>2 DEF NewestCatchesUp
    <2> QED
      BY <2>2, <2>3
  <1>4. CASE Taken(x.n) /\ x.answer = Failed
    <2>1. shown' \in {shown, Blank} /\ loadError' = TRUE /\ lastShown' = lastShown
      BY <1>4 DEF Lands
    <2>2. RefreshTyped' /\ NotAhead' /\ NewestNotOlder'
      BY <2>1, <1>1, <1>2 DEF RefreshTyped, NotAhead, NewestNotOlder
    <2>3. NewestCatchesUp'
      BY <2>1, <1>1, <1>2 DEF NewestCatchesUp
    <2> QED
      BY <2>2, <2>3
  <1>5. CASE Taken(x.n) /\ x.answer # Failed
    <2>1. shown' = x.answer /\ lastShown' = x.answer /\ loadError' = FALSE /\ x.answer \in Nat
      BY <1>5, <1>2 DEF Lands, Failed
    <2>2. RefreshTyped' /\ NotAhead'
      BY <2>1, <1>1, <1>2 DEF RefreshTyped, NotAhead
    <2>3. loader # "page" => x.n = asked
      BY <1>5 DEF Taken
    <2>4. NewestNotOlder'
      BY <2>3, <1>1, <1>2 DEF NewestNotOlder
    <2>5. NewestCatchesUp'
      BY <2>1, <2>3, <1>1, <1>2 DEF NewestCatchesUp
    <2> QED
      BY <2>2, <2>4, <2>5
  <1> QED
    BY <1>3, <1>4, <1>5

LEMMA HeadLanded ==
  ASSUME RefreshInv, HeadLands
  PROVE  RefreshInv'
  <1> USE DEF RefreshInv
  <1> DEFINE seq == headPoll.answer
  <1>1. /\ seq \in {-2} \cup Nat /\ seq <= ledgerSeq
        /\ headPoll' = NoPoll
        /\ UNCHANGED <<loader, ledgerSeq, shown, loadError, lastShown>>
    BY DEF HeadLands, RefreshTyped, NotAhead, Failed, Unanswered
  <1>2. NoPoll \in [kind : {"none", "asked"}, answer : {Unanswered, Failed} \cup Nat] /\ NoPoll.answer = -3
    BY DEF NoPoll, Unanswered
  <1>3. CASE seq = Failed \/ seq = seenSeq
    <2>1. UNCHANGED <<seenSeq, asked, loads, loadsCrossed, overtaken>>
      BY <1>3 DEF HeadLands
    <2> QED
      BY <2>1, <1>1, <1>2 DEF RefreshTyped, NotAhead, NewestNotOlder, NewestCatchesUp
  <1>4. CASE ~(seq = Failed \/ seq = seenSeq) /\ seenSeq = Blank
    <2>1. /\ UNCHANGED <<asked, loads, loadsCrossed>> /\ seenSeq' = seq /\ seq \in Nat
          /\ overtaken' = (NewestAnswer # Unanswered /\ NewestAnswer < seq)
      BY <1>1, <1>4 DEF HeadLands, Failed
    <2>2. RefreshTyped' /\ NotAhead' /\ NewestNotOlder'
      BY <2>1, <1>1, <1>2 DEF RefreshTyped, NotAhead, NewestNotOlder
    <2>3. ASSUME NEW x \in loads, x.n = asked PROVE NewestAnswer = x.answer
      <3>1. {y \in loads : y.n = asked} = {x}
        BY <2>3 DEF RefreshTyped
      <3> QED
        BY <3>1 DEF NewestAnswer
    <2>4. (\A x \in loads : x.n # asked) => NewestAnswer = shown
      BY DEF NewestAnswer
    <2>5. NewestCatchesUp'
      <3> SUFFICES ASSUME ~overtaken'
                   PROVE  /\ \A x \in loads : x.n = asked /\ x.answer \in Nat => x.answer >= seq
                          /\ (\A x \in loads : x.n # asked) => shown >= seq
        BY <2>1, <1>1 DEF NewestCatchesUp
      <3>0. NewestAnswer = Unanswered \/ ~(NewestAnswer < seq)
        BY <2>1
      <3>1. ASSUME NEW x \in loads, x.n = asked, x.answer \in Nat PROVE x.answer >= seq
        BY <3>0, <3>1, <2>1, <2>3 DEF Unanswered
      <3>2. ASSUME \A x \in loads : x.n # asked PROVE shown >= seq
        BY <3>0, <3>2, <2>1, <2>4 DEF Unanswered, RefreshTyped, Blank
      <3> QED
        BY <3>1, <3>2
    <2> QED
      BY <2>2, <2>5
  <1>5. CASE ~(seq = Failed \/ seq = seenSeq) /\ seenSeq # Blank
    <2>1. Bump /\ seenSeq' = seq /\ overtaken' = FALSE /\ seq \in Nat
      BY <1>1, <1>5 DEF HeadLands, Failed
    <2> QED
      BY <2>1, <1>1, Bumped
  <1> QED
    BY <1>3, <1>4, <1>5

LEMMA RefreshSteps == RefreshInv /\ [RefreshNext]_RefreshVars => RefreshInv'
  <1> SUFFICES ASSUME RefreshInv, [RefreshNext]_RefreshVars PROVE RefreshInv'
    OBVIOUS
  <1> USE DEF RefreshInv
  <1>1. CASE LedgerMoves
    BY <1>1 DEF LedgerMoves, RefreshTyped, NotAhead, NewestNotOlder, NewestCatchesUp, Blank, Failed, Unanswered
  <1>2. CASE refresh
    BY <1>2, Bumped DEF refresh
  <1>3. CASE pollHead
    BY <1>3 DEF pollHead, RefreshTyped, NotAhead, NewestNotOlder, NewestCatchesUp, Unanswered
  <1>4. CASE HeadServed
    <2>1. PICK answer \in {ledgerSeq, Failed} : headPoll' = [headPoll EXCEPT !.answer = answer]
      BY <1>4 DEF HeadServed
    <2>2. headPoll' \in [kind : {"none", "asked"}, answer : {Unanswered, Failed} \cup Nat] /\ headPoll'.answer <= ledgerSeq
      BY <2>1 DEF RefreshTyped, Failed
    <2> QED
      BY <1>4, <2>2 DEF HeadServed, RefreshTyped, NotAhead, NewestNotOlder, NewestCatchesUp
  <1>5. CASE UNCHANGED RefreshVars
    BY <1>5 DEF RefreshVars, RefreshTyped, NotAhead, NewestNotOlder, NewestCatchesUp
  <1> QED
    BY <1>1, <1>2, <1>3, <1>4, <1>5, HeadLanded, RefreshServed, RefreshLands DEF RefreshNext

LEMMA RefreshCatchesUp == RefreshInv => CaughtUp
  BY DEF RefreshInv, NewestCatchesUp, RefreshTyped, CaughtUp

(* What is shown goes back only where a page's loads cross.                *)
GoesOn == lastShown' # lastShown => lastShown' > lastShown \/ (loader = "page" /\ loadsCrossed)

LEMMA RefreshGoesOn == RefreshInv /\ [RefreshNext]_RefreshVars => [GoesOn]_RefreshVars
  <1> SUFFICES ASSUME RefreshInv, RefreshNext, lastShown' # lastShown PROVE GoesOn
    BY DEF GoesOn, RefreshVars
  <1>1. PICK x \in loads : Lands(x)
    BY DEF RefreshNext, LedgerMoves, refresh, pollHead, HeadServed, HeadLands, HostServes
  <1>2. Taken(x.n) /\ lastShown' = x.answer /\ x.answer \in Nat
    BY <1>1 DEF Lands, RefreshInv, RefreshTyped
  <1>3. lastShown \in Nat /\ (loader # "page" \/ ~loadsCrossed => x.n = asked)
    BY <1>2 DEF Taken, RefreshInv, RefreshTyped, NewestNotOlder
  <1> QED
    BY <1>2, <1>3 DEF GoesOn, RefreshInv, NewestNotOlder

-----------------------------------------------------------------------------
(* Proofs: the tray.                                                       *)

LEMMA TrayStarts == TrayInit => TrayInv
  BY DEF TrayInit, TrayInv, Idle, TitleTrue, SaidIsStarted

LEMMA TraySteps == TrayInv /\ [TrayNext]_TrayVars => TrayInv'
  <1> SUFFICES ASSUME TrayInv, [TrayNext]_TrayVars PROVE TrayInv'
    OBVIOUS
  <1> USE DEF TrayInv
  <1>1. ASSUME Switch, UNCHANGED <<runningIds, started, said>>, moved' = TRUE PROVE TrayInv'
    BY <1>1 DEF Switch, TitleTrue, SaidIsStarted
  <1>2. ASSUME NEW u \in Household, Uses(u) \/ SignsOut(u) PROVE TrayInv'
    BY <1>1, <1>2 DEF Uses, SignsOut
  <1>3. CASE Toggle
    BY <1>3 DEF Toggle, Switch, TitleTrue, SaidIsStarted, activeUser
  <1>4. CASE tray_signed_in
    BY <1>4 DEF tray_signed_in, Polls, TitleTrue, SaidIsStarted, activeUser
  <1>5. CASE set_enabled
    BY <1>5 DEF set_enabled, Polls, Idle, TitleTrue, SaidIsStarted, activeUser
  <1>6. CASE tray_networth_title
    BY <1>6 DEF tray_networth_title, Polls, PolledTitle, TitleTrue, SaidIsStarted, activeUser
  <1>7. CASE set_title
    BY <1>7 DEF set_title, Polls, Idle, PolledTitle, TitleTrue, SaidIsStarted, activeUser
  <1>8. ASSUME UNCHANGED <<recent, poller, showNw, shownTitle, moved, said>>,
               started \subseteq started', runningIds' \subseteq runningIds PROVE TrayInv'
    BY <1>8 DEF PolledTitle, TitleTrue, SaidIsStarted, activeUser
  <1>9. CASE RefreshAssets \/ RefreshEnds \/ TrayNightlyEnds \/ SecondPasses \/ UNCHANGED TrayVars
    BY <1>8, <1>9 DEF RefreshAssets, RefreshEnds, TrayNightlyEnds, SecondPasses, TrayVars
  <1>10. ASSUME NEW u \in Household, PostNightly(u) PROVE TrayInv'
    <2>1. UNCHANGED <<recent, poller, showNw, shownTitle, moved>> /\ said' = said \cup {Asked(u, second)}
      BY <1>10 DEF PostNightly
    <2>2. CASE second \in runningIds
      <3>1. UNCHANGED <<runningIds, started>> /\ \E y \in started : y.second = second
        BY <1>10, <2>2 DEF PostNightly, runId
      <3> QED
        BY <2>1, <3>1 DEF Asked, PolledTitle, TitleTrue, SaidIsStarted, activeUser
    <2>3. CASE second \notin runningIds
      <3>1. runningIds' = runningIds \cup {second} /\ started' = started \cup {Asked(u, second)}
        BY <1>10, <2>3 DEF PostNightly, runId
      <3>2. Asked(u, second) \in started' /\ Asked(u, second).second = second /\ started \subseteq started'
        BY <3>1 DEF Asked
      <3>3. \A id \in runningIds' : \E y \in started' : y.second = id
        BY <3>1, <3>2
      <3>4. SaidIsStarted'
        BY <2>1, <3>2 DEF SaidIsStarted
      <3> QED
        BY <2>1, <3>3, <3>4 DEF PolledTitle, TitleTrue, activeUser
    <2> QED
      BY <2>2, <2>3
  <1> QED
    BY <1>2, <1>3, <1>4, <1>5, <1>6, <1>7, <1>9, <1>10 DEF TrayNext

-----------------------------------------------------------------------------
(* Proofs: the shell and the listener.                                     *)

LEMMA ShellStarts == ShellInit => ShellInv
  BY DEF ShellInit, ShellInv, ShellTyped, HostAlive, QuitStops

LEMMA ShellSteps == ShellInv /\ [ShellNext]_ShellVars => ShellInv'
  <1> SUFFICES ASSUME ShellInv, [ShellNext]_ShellVars PROVE ShellInv'
    OBVIOUS
  <1> USE DEF ShellInv, ShellTyped, HostAlive, QuitStops
  <1>1. CASE UNCHANGED ShellVars
    BY <1>1 DEF ShellVars
  <1>2. ASSUME NEW x \in Shells, Launch(x) PROVE ShellInv'
    BY <1>2 DEF Launch, Starts
  <1>3. ASSUME NEW x \in Shells, serve(x) \/ HostCrashes(x) \/ ParentGone(x) \/ Stops(x) PROVE ShellInv'
    BY <1>3 DEF serve, HostCrashes, ParentGone, Stops, Becomes, Mishap
  <1>4. ASSUME NEW x \in Shells,
               \/ SplashFinds(x) \/ wait_for_health(x) \/ HealthTells(x)
               \/ CloseMain(x) \/ open_main(x) \/ ExtraWindow(x)
        PROVE  ShellInv'
    <2>1. UNCHANGED <<phase, host, child, after>>
      BY <1>4 DEF SplashFinds, wait_for_health, HealthTells, CloseMain, open_main, ExtraWindow, Unmoved
    <2> QED
      BY <2>1
  <1>5. ASSUME NEW x \in Shells, KillSwitch(x) PROVE ShellInv'
    BY <1>5 DEF KillSwitch, kill_host, Left, Running
  <1>6. ASSUME NEW x \in Shells, QuitApp(x) PROVE ShellInv'
    BY <1>6 DEF QuitApp, Left, Running
  <1>7. ASSUME NEW x \in Shells, ExitRuns(x) PROVE ShellInv'
    BY <1>7 DEF ExitRuns, kill_host, Left
  <1>8. ASSUME NEW x \in Shells, ShellKilled(x) PROVE ShellInv'
    BY <1>8 DEF ShellKilled, Mishap
  <1>9. ASSUME NEW x \in Shells, NEW y \in Shells, Relaunch(x, y) PROVE ShellInv'
    BY <1>9 DEF Relaunch, Starts, Running
  <1> QED
    BY <1>1, <1>2, <1>3, <1>4, <1>5, <1>6, <1>7, <1>8, <1>9 DEF ShellNext

LEMMA ShellKeepsApart == ShellInv => QuitStops /\ HostsApart
  BY DEF ShellInv, ShellTyped, HostAlive, QuitStops, HostsApart

LEMMA ServeStarts == ServeInit => ServeInv
  BY DEF ServeInit, ServeInv, ServeKept, InsideTheVolume, BoundAsSet, NoApp

(* Who closes an App in the middle of something is crossed.                *)
LEMMA ServeCloses ==
  ASSUME ServeKept, NEW u \in Members, Close(u)
  PROVE  /\ crossed \subseteq crossed'
         /\ \A x \in incoming \cup working : x.user = u => AppOf(x) \in crossed'
  <1>1. PICK open : open = [user |-> u, app |-> apps[u]]
    OBVIOUS
  <1>2. crossed' = IF open \in working \/ (\E x \in incoming : x.user = u /\ x.app = open.app)
                   THEN crossed \cup {open} ELSE crossed
    BY <1>1 DEF Close
  <1>3. ASSUME NEW x \in incoming \cup working, x.user = u, AppOf(x) \notin crossed PROVE AppOf(x) \in crossed'
    <2>1. AtWork(x)
      BY <1>3 DEF ServeKept
    <2>2. apps[u] = x.app
      BY <1>3, <2>1 DEF AtWork
    <2>3. AppOf(x) = open
      BY <1>1, <1>3, <2>2 DEF AppOf
    <2>4. CASE x \in incoming
      BY <1>1, <1>2, <1>3, <2>2, <2>3, <2>4
    <2>5. CASE x \in working
      <3>1. x = open
        BY <2>3, <2>5 DEF ServeKept
      <3> QED
        BY <1>2, <2>3, <2>5, <3>1
    <2> QED
      BY <1>3, <2>4, <2>5
  <1> QED
    BY <1>2, <1>3

(* What is written beside a volume is written by who was crossed.          *)
LEMMA ServeWrites ==
  ASSUME ServeKept, NEW x, AtWork(x)
  PROVE  Written(x) \subseteq crossed
  BY DEF Written, AtWork, AppOf, ServeKept, InsideTheVolume

(* What an App of another user, or one crossed before, is at is not        *)
(* touched by who signs in or out.                                         *)
LEMMA ServeLeavesOthers ==
  ASSUME NEW u \in Members, NEW x, AtWork(x), crossed \subseteq crossed',
         x.user # u => apps'[x.user] = apps[x.user] /\ (x.user \in mounted => x.user \in mounted'),
         x.user = u => \/ AppOf(x) \in crossed'
                       \/ apps[u] = x.app => apps'[u] = x.app /\ (u \in mounted => u \in mounted')
  PROVE  AtWork(x)'
  BY DEF AtWork, AppOf

(* An App is closed, and its volume detached or not.                       *)
LEMMA ServeClosed ==
  ASSUME ServeKept, NEW u \in Members, Close(u), apps' = [apps EXCEPT ![u] = NoApp],
         mounted' \in {mounted, mounted \ {u}}, UNCHANGED <<incoming, working, outside>>,
         serveTurns' \in Nat, sessionsOf' \in [Members -> Int],
         \A v \in Members : sessionsOf'[v] > 0 => serveTurns' > 0
  PROVE  ServeKept'
  <1>1. apps' \in [Members -> Nat] /\ apps'[u] = NoApp /\ \A v \in Members \ {u} : apps'[v] = apps[v]
    BY DEF ServeKept, NoApp
  <1>2. ASSUME NEW x \in incoming \cup working PROVE AtWork(x)'
    <2>1. AtWork(x) /\ x.user \in Members
      BY <1>2 DEF ServeKept, AtWork
    <2>2. x.user # u => apps'[x.user] = apps[x.user] /\ (x.user \in mounted => x.user \in mounted')
      BY <1>1, <2>1
    <2> QED
      BY <1>2, <2>1, <2>2, ServeCloses, ServeLeavesOthers
  <1>3. InsideTheVolume'
    BY <1>1, ServeCloses DEF ServeKept, InsideTheVolume
  <1>4. (\A w \in working : AtWork(w) /\ w = AppOf(w))'
    BY <1>2 DEF ServeKept, AppOf
  <1> QED
    BY <1>1, <1>2, <1>3, <1>4 DEF ServeKept

LEMMA ServeWorks == ServeKept /\ [ServeNext]_ServeVars => ServeKept'
  <1> SUFFICES ASSUME ServeKept, [ServeNext]_ServeVars PROVE ServeKept'
    OBVIOUS
  <1>0. Turn => serveTurns' \in Nat /\ serveTurns' > 0
    BY DEF Turn, ServeKept
  <1>1. CASE UNCHANGED ServeVars
    BY <1>1 DEF ServeVars, ServeKept, InsideTheVolume, AtWork, AppOf
  <1>2. ASSUME NEW u \in Members, login(u) PROVE ServeKept'
    <2>1. PICK app : /\ app = IF apps[u] = NoApp THEN serveTurns' ELSE apps[u]
                     /\ apps' = [apps EXCEPT ![u] = app]
                     /\ working' \in {working, working \cup {[user |-> u, app |-> app]}}
      BY <1>2 DEF login, Resumes
    <2>2. /\ mounted' = mounted \cup {u} /\ incoming' = incoming /\ crossed' = crossed /\ outside' = outside
          /\ serveTurns' \in Nat /\ serveTurns' > 0 /\ sessionsOf' = [sessionsOf EXCEPT ![u] = @ + 1]
      BY <1>0, <1>2 DEF login
    <2>3. app \in Nat /\ app # NoApp /\ apps' \in [Members -> Nat] /\ apps'[u] = app
      BY <2>1, <2>2 DEF ServeKept, NoApp
    <2>4. \A x : AtWork(x) => AtWork(x)'
      <3> SUFFICES ASSUME NEW x, AtWork(x) PROVE AtWork(x)'
        OBVIOUS
      <3>1. x.app # NoApp
        BY DEF AtWork
      <3>2. x.user # u => apps'[x.user] = apps[x.user]
        BY <2>1 DEF AtWork, ServeKept
      <3>3. apps[u] = x.app => apps'[u] = x.app
        BY <2>1, <2>3, <3>1
      <3> QED
        BY <2>2, <3>2, <3>3, ServeLeavesOthers
    <2>5. \A w \in working' : AtWork(w)' /\ w = AppOf(w)
      <3> SUFFICES ASSUME NEW w \in working', w \notin working PROVE AtWork(w)' /\ w = AppOf(w)
        BY <2>4 DEF ServeKept
      <3>1. w = [user |-> u, app |-> app]
        BY <2>1
      <3>2. w.user = u /\ w.app = app
        BY <3>1
      <3> QED
        BY <2>2, <2>3, <3>1, <3>2 DEF AtWork, AppOf
    <2>6. InsideTheVolume'
      BY <2>1, <2>2 DEF InsideTheVolume, ServeKept
    <2>7. /\ sessionsOf' \in [Members -> Int]
          /\ \A v \in Members : sessionsOf'[v] > 0 => serveTurns' > 0
      BY <2>2 DEF ServeKept
    <2>8. (\A w \in working : AtWork(w) /\ w = AppOf(w))'
      BY <2>5 DEF AppOf
    <2> QED
      BY <2>2, <2>3, <2>4, <2>6, <2>7, <2>8 DEF ServeKept
  <1>3. ASSUME NEW u \in Members, logout(u) PROVE ServeKept'
    <2>1. /\ serveTurns' \in Nat /\ serveTurns' > 0 /\ sessionsOf' = [sessionsOf EXCEPT ![u] = @ - 1]
          /\ incoming' = incoming /\ working' = working /\ outside' = outside
      BY <1>0, <1>3 DEF logout
    <2>2. /\ sessionsOf' \in [Members -> Int]
          /\ \A v \in Members : sessionsOf'[v] > 0 => serveTurns' > 0
      BY <2>1 DEF ServeKept
    <2>3. CASE apps' = apps /\ mounted' = mounted /\ crossed' = crossed
      BY <2>1, <2>2, <2>3 DEF ServeKept, InsideTheVolume, AtWork, AppOf
    <2>4. CASE Close(u) /\ apps' = [apps EXCEPT ![u] = NoApp] /\ mounted' \in {mounted, mounted \ {u}}
      BY <2>1, <2>2, <2>4, ServeClosed
    <2> QED
      BY <1>3, <2>3, <2>4 DEF logout
  <1>4. ASSUME NEW u \in Members, changePassword(u) PROVE ServeKept'
    <2>1. /\ serveTurns' \in Nat /\ serveTurns' > 0 /\ sessionsOf' = sessionsOf /\ Close(u)
          /\ incoming' = incoming /\ outside' = outside /\ u \in mounted
      BY <1>0, <1>4 DEF changePassword
    <2>2. /\ sessionsOf' \in [Members -> Int]
          /\ \A v \in Members : sessionsOf'[v] > 0 => serveTurns' > 0
      BY <2>1 DEF ServeKept
    <2>3. CASE apps' = [apps EXCEPT ![u] = NoApp] /\ mounted' \in {mounted, mounted \ {u}} /\ working' = working
      BY <2>1, <2>2, <2>3, ServeClosed
    <2>4. CASE apps' = [apps EXCEPT ![u] = serveTurns'] /\ mounted' = mounted /\ Resumes(u, serveTurns')
      <3>1. PICK open : open = [user |-> u, app |-> serveTurns']
        OBVIOUS
      <3>2. open.user = u /\ open.app = serveTurns' /\ working' \subseteq working \cup {open}
        BY <2>4, <3>1 DEF Resumes
      <3>3. apps' \in [Members -> Nat] /\ apps'[u] = serveTurns'
        BY <2>1, <2>4 DEF ServeKept
      <3>4. \A x \in incoming \cup working : AtWork(x)'
        <4> SUFFICES ASSUME NEW x \in incoming \cup working PROVE AtWork(x)'
          OBVIOUS
        <4>1. AtWork(x)
          BY DEF ServeKept
        <4>2. x.user # u => apps'[x.user] = apps[x.user]
          BY <2>4, <4>1 DEF AtWork, ServeKept
        <4> QED
          BY <2>1, <2>4, <4>1, <4>2, ServeCloses, ServeLeavesOthers
      <3>5. AtWork(open)' /\ open = AppOf(open)
        BY <2>1, <2>4, <3>1, <3>2, <3>3 DEF AtWork, AppOf, NoApp
      <3>6. (\A w \in working : AtWork(w) /\ w = AppOf(w))'
        BY <3>2, <3>4, <3>5 DEF ServeKept, AppOf
      <3>7. InsideTheVolume'
        BY <2>1, <2>4, ServeCloses DEF InsideTheVolume, ServeKept
      <3> QED
        BY <2>1, <2>2, <3>3, <3>4, <3>6, <3>7 DEF ServeKept
    <2> QED
      BY <1>4, <2>3, <2>4 DEF changePassword
  <1>5. ASSUME NEW u \in Members, NEW kind \in {"ledger", "file", "run"}, Arrive(u, kind) PROVE ServeKept'
    <2>1. PICK app : /\ app = IF apps[u] = NoApp THEN serveTurns ELSE apps[u]
                     /\ apps' = [apps EXCEPT ![u] = app]
                     /\ incoming' = incoming \cup {[user |-> u, app |-> app, kind |-> kind]}
      BY <1>5 DEF Arrive
    <2>2. /\ u \in mounted /\ mounted' = mounted /\ working' = working /\ crossed' = crossed
          /\ outside' = outside /\ serveTurns' = serveTurns /\ sessionsOf' = sessionsOf /\ sessionsOf[u] > 0
      BY <1>5 DEF Arrive, appFor
    <2>3. app \in Nat /\ app # NoApp /\ apps' \in [Members -> Nat] /\ apps'[u] = app
      BY <2>1, <2>2 DEF ServeKept, NoApp
    <2>4. \A x : AtWork(x) => AtWork(x)'
      <3> SUFFICES ASSUME NEW x, AtWork(x) PROVE AtWork(x)'
        OBVIOUS
      <3>1. x.app # NoApp
        BY DEF AtWork
      <3>2. x.user # u => apps'[x.user] = apps[x.user]
        BY <2>1 DEF AtWork, ServeKept
      <3>3. apps[u] = x.app => apps'[u] = x.app
        BY <2>1, <2>3, <3>1
      <3> QED
        BY <2>2, <3>2, <3>3, ServeLeavesOthers
    <2>5. \A x \in incoming' : AtWork(x)'
      <3> SUFFICES ASSUME NEW x \in incoming', x \notin incoming PROVE AtWork(x)'
        BY <2>4 DEF ServeKept
      <3>1. x.user = u /\ x.app = app
        BY <2>1
      <3> QED
        BY <2>2, <2>3, <3>1 DEF AtWork, AppOf
    <2>6. InsideTheVolume'
      BY <2>1, <2>2 DEF InsideTheVolume, ServeKept
    <2>7. (\A w \in working : AtWork(w) /\ w = AppOf(w))'
      BY <2>2, <2>4 DEF ServeKept, AppOf
    <2> QED
      BY <2>2, <2>3, <2>5, <2>6, <2>7 DEF ServeKept
  <1>6. ASSUME NEW x \in incoming, Handle(x) PROVE ServeKept'
    <2>1. PICK open : open = AppOf(x)
      OBVIOUS
    <2>2. AtWork(x) /\ open.user = x.user /\ open.app = x.app
      BY <2>1 DEF ServeKept, AppOf
    <2>3. AtWork(open) /\ open = AppOf(open)
      BY <2>1, <2>2 DEF AtWork, AppOf
    <2>4. /\ incoming' \subseteq incoming /\ outside' \subseteq outside \cup Written(x)
          /\ working' \subseteq working \cup {open}
          /\ UNCHANGED <<sessionsOf, apps, mounted, crossed, serveTurns>>
      BY <1>6, <2>1 DEF Handle, AppOf
    <2>5. outside' \subseteq crossed
      BY <2>2, <2>4, ServeWrites DEF ServeKept, InsideTheVolume
    <2>6. \A w \in working' : AtWork(w) /\ w = AppOf(w)
      BY <2>3, <2>4 DEF ServeKept
    <2> QED
      BY <2>4, <2>5, <2>6 DEF ServeKept, InsideTheVolume, AtWork, AppOf
  <1>7. ASSUME NEW w \in working, Work(w) PROVE ServeKept'
    <2>1. /\ working' \subseteq working /\ outside' = Written(w) /\ incoming' = incoming
          /\ UNCHANGED <<sessionsOf, apps, mounted, crossed, serveTurns>>
      BY <1>7 DEF Work
    <2>2. outside' \subseteq crossed
      BY <2>1, ServeWrites DEF ServeKept
    <2> QED
      BY <2>1, <2>2 DEF ServeKept, InsideTheVolume, AtWork, AppOf
  <1>8. ASSUME NEW on \in BOOLEAN, setLanMode(on) PROVE ServeKept'
    <2>1. serveTurns' \in Nat /\ serveTurns' > 0
      BY <1>0, <1>8 DEF setLanMode
    <2> QED
      BY <1>8, <2>1 DEF setLanMode, ServeKept, InsideTheVolume, AtWork, AppOf
  <1>9. ASSUME NEW r \in rebinds, RebindStops(r) \/ RebindStarts(r) PROVE ServeKept'
    BY <1>9 DEF RebindStops, RebindStarts, Served, ServeKept, InsideTheVolume, AtWork, AppOf
  <1> QED
    BY <1>1, <1>2, <1>3, <1>4, <1>5, <1>6, <1>7, <1>8, <1>9 DEF ServeNext

LEMMA ServeBinds == BoundAsSet /\ [ServeNext]_ServeVars => BoundAsSet'
  <1> SUFFICES ASSUME BoundAsSet, [ServeNext]_ServeVars PROVE BoundAsSet'
    OBVIOUS
  <1>1. CASE UNCHANGED <<lanEnabled, listener, rebinds, hostUp>>
    BY <1>1 DEF BoundAsSet
  <1>2. ASSUME NEW on \in BOOLEAN, setLanMode(on) PROVE BoundAsSet'
    BY <1>2 DEF setLanMode, Rebinds, BoundAsSet
  <1>3. ASSUME NEW r \in rebinds, RebindStops(r) PROVE BoundAsSet'
    BY <1>3 DEF RebindStops, Served, BoundAsSet
  <1>4. ASSUME NEW r \in rebinds, RebindStarts(r) PROVE BoundAsSet'
    BY <1>4 DEF RebindStarts, Served, BoundAsSet
  <1> QED
    BY <1>1, <1>2, <1>3, <1>4
    DEF ServeNext, ServeVars, Doors, login, logout, changePassword, Arrive, Handle, Work

LEMMA ServeSteps == ServeInv /\ [ServeNext]_ServeVars => ServeInv'
  BY ServeWorks, ServeBinds DEF ServeInv

-----------------------------------------------------------------------------
(* Proofs: forms.                                                          *)

LEMMA FormsStarts == FormsInit => FormsInv
  <1> SUFFICES ASSUME FormsInit PROVE FormsInv
    OBVIOUS
  <1>1. \A r \in requests : r = [n |-> 1, kind |-> "load", sent |-> {}, got |-> {}, answer |-> "none"]
    BY DEF FormsInit
  <1>2. requests \subseteq Requests
    BY <1>1 DEF Requests
  <1>3. draft.holds = {} /\ draft \in [open : BOOLEAN, holds : SUBSET Edits]
    BY DEF FormsInit, Holding, Closed
  <1>4. FormsTyped
    BY <1>2, <1>3 DEF FormsInit, FormsTyped
  <1>5. OneSave /\ WasHad /\ CleanWhenAsked /\ SavesAll
    BY <1>1, <1>3 DEF FormsInit, OneSave, WasHad, CleanWhenAsked, SavesAll
  <1> QED
    BY <1>4, <1>5 DEF FormsInv

(* What is asked for is a request of its own.                              *)
LEMMA Asks ==
  ASSUME FormsInv, NEW kind \in {"load", "reset", "save", "extract"}, NEW sent \in SUBSET Edits,
         Ask(kind, sent)
  PROVE  LET r == [n |-> made + 1, kind |-> kind, sent |-> sent, got |-> {}, answer |-> "none"] IN
         /\ made' = made + 1 /\ made' \in Nat
         /\ requests' = requests \cup {r} /\ requests' \subseteq Requests
         /\ \A q \in requests : q.n <= made
  BY DEF FormsInv, FormsTyped, OneSave, Ask, Requests

LEMMA FormsTypes ==
  ASSUME FormsInv, UNCHANGED <<form, saved, saving, requests, made, waived, stale, had>>,
         draft' \in [open : BOOLEAN, holds : SUBSET Edits], draft'.open <=> draft.open,
         typed' \subseteq Edits, draft.holds \subseteq draft'.holds,
         dirty' = TRUE \/ UNCHANGED dirty, ~dirty' \/ ~draft'.open => draft'.holds = draft.holds
  PROVE  FormsInv'
  <1> USE DEF FormsInv
  <1>1. FormsTyped' /\ OneSave' /\ WasHad'
    BY DEF FormsTyped, OneSave, WasHad
  <1>2. CleanWhenAsked'
    BY DEF CleanWhenAsked
  <1>3. SavesAll'
    BY DEF SavesAll
  <1> QED
    BY <1>1, <1>2, <1>3

(* A load, a reset or an extraction is asked for.                          *)
LEMMA FormsAsks ==
  ASSUME FormsInv, NEW kind \in {"load", "reset", "extract"}, NEW sent \in SUBSET Edits, Ask(kind, sent),
         UNCHANGED <<form, draft, saved, saving, typed, stale, had>>, dirty' \in BOOLEAN, waived \subseteq waived',
         form = "profile" /\ ~dirty' => draft.holds \subseteq had \cup waived',
         form # "providers" /\ kind \in {"load", "reset"} => sent \subseteq had \cup waived'
  PROVE  FormsInv'
  <1> USE DEF FormsInv
  <1> DEFINE r == [n |-> made + 1, kind |-> kind, sent |-> sent, got |-> {}, answer |-> "none"]
  <1>1. /\ made' = made + 1 /\ made' \in Nat /\ made \in Nat
        /\ requests' = requests \cup {r} /\ requests' \subseteq Requests
        /\ \A q \in requests : q.n <= made /\ q.n \in Nat
    BY Asks DEF FormsTyped, Requests
  <1>2. FormsTyped'
    BY <1>1 DEF FormsTyped
  <1>3. OneSave'
    <2>1. \A q \in requests' : q \in requests \/ (q.kind # "save" /\ q.n = made + 1)
      BY <1>1
    <2>2. \A q \in requests' : q.n <= made' /\ (q.kind = "save" => saving')
      BY <2>1, <1>1 DEF OneSave
    <2>3. \A q, z \in requests' : q.kind = "save" /\ z.kind = "save" => q = z
      BY <2>1 DEF OneSave
    <2>4. ASSUME NEW q \in requests', NEW z \in requests', q.n = z.n PROVE q = z
      <3>1. r.n = made + 1
        OBVIOUS
      <3>2. (q \in requests \/ q = r) /\ (z \in requests \/ z = r)
        BY <1>1
      <3> HIDE DEF r
      <3> QED
        BY <2>4, <3>1, <3>2, <1>1 DEF OneSave
    <2> QED
      BY <2>2, <2>3, <2>4 DEF OneSave
  <1>4. WasHad'
    BY <1>1 DEF WasHad
  <1>5. CleanWhenAsked'
    BY <1>1 DEF CleanWhenAsked
  <1>6. SavesAll'
    BY <1>1 DEF SavesAll
  <1> QED
    BY <1>2, <1>3, <1>4, <1>5, <1>6

LEMMA FormsSaves ==
  ASSUME FormsInv, save
  PROVE  FormsInv'
  <1> USE DEF FormsInv
  <1> DEFINE r == [n |-> made + 1, kind |-> "save", sent |-> draft.holds, got |-> {}, answer |-> "none"]
  <1>1. draft.open /\ ~saving /\ saving' = TRUE /\ Ask("save", draft.holds)
        /\ UNCHANGED <<form, draft, saved, dirty, typed, waived, stale, had>>
    BY DEF save, Sent
  <1>2. /\ made' = made + 1 /\ made' \in Nat /\ made \in Nat
        /\ requests' = requests \cup {r} /\ requests' \subseteq Requests
        /\ \A q \in requests : q.n <= made /\ q.n \in Nat /\ q.kind # "save"
    BY <1>1, Asks DEF FormsTyped, OneSave, Requests
  <1>3. FormsTyped'
    BY <1>1, <1>2 DEF FormsTyped
  <1>4. OneSave'
    <2>1. r.n = made + 1 /\ \A q \in requests' : q \in requests \/ q = r
      BY <1>2
    <2>2. r.n \in Nat
      BY <1>2
    <2> HIDE DEF r
    <2> QED
      BY <1>1, <1>2, <2>1, <2>2 DEF OneSave
  <1>5. WasHad' /\ CleanWhenAsked'
    BY <1>1, <1>2 DEF WasHad, CleanWhenAsked
  <1>6. SavesAll'
    BY <1>1, <1>2 DEF SavesAll
  <1> QED
    BY <1>3, <1>4, <1>5, <1>6

(* The editor of a plan or a key is opened or left, while nothing saves.   *)
LEMMA FormsOpens ==
  ASSUME FormsInv, Cancel \/ Edit
  PROVE  FormsInv'
  <1> USE DEF FormsInv
  <1>1. /\ UNCHANGED <<form, saved, dirty, saving, requests, made, typed, waived, stale, had>>
        /\ form \in {"plan", "key"}
        /\ \/ draft' = Closed
           \/ form = "plan" /\ draft' = Holding(saved)
           \/ form = "key" /\ draft' = Holding({})
    BY DEF Cancel, Edit
  <1>2. /\ draft' \in [open : BOOLEAN, holds : SUBSET Edits]
        /\ ~draft'.open => draft'.holds = {}
        /\ draft'.open /\ form # "key" => draft'.holds = saved
    <2>1. CASE draft' = Closed
      BY <2>1 DEF Closed
    <2>2. CASE form = "plan" /\ draft' = Holding(saved)
      BY <2>2 DEF Holding, FormsTyped
    <2>3. CASE form = "key" /\ draft' = Holding({})
      BY <2>3 DEF Holding
    <2> QED
      BY <2>1, <2>2, <2>3, <1>1
  <1>3. FormsTyped' /\ OneSave' /\ WasHad' /\ CleanWhenAsked'
    BY <1>1, <1>2 DEF FormsTyped, OneSave, WasHad, CleanWhenAsked
  <1>4. SavesAll'
    BY <1>1, <1>2 DEF SavesAll
  <1> QED
    BY <1>3, <1>4

(* The host answers; a save is the only request that changes what it has.  *)
LEMMA FormsServed ==
  ASSUME FormsInv, NEW r \in requests, ServeForm(r)
  PROVE  FormsInv'
  <1> USE DEF FormsInv
  <1>1. r \in Requests /\ r.answer = "none" /\ UNCHANGED <<form, draft, dirty, saving, made, typed, waived, stale>>
        /\ had' = had \cup saved'
    BY DEF ServeForm, FormsTyped
  <1>2. PICK q \in Requests :
          /\ requests' = (requests \ {r}) \cup {q}
          /\ q.n = r.n /\ q.kind = r.kind /\ q.sent = r.sent
          /\ \/ /\ q.answer = "ok" /\ saved' = Kept(r)
                /\ r.kind # "extract" => q.got = Kept(r)
             \/ q.answer = "refused" /\ q.got = r.got /\ saved' = saved
    <2>1. CASE saved' = Kept(r) /\ \E found \in IF r.kind = "extract" THEN SUBSET (Extracted \ typed) ELSE {Kept(r)} :
                    requests' = (requests \ {r}) \cup {[r EXCEPT !.answer = "ok", !.got = found]}
      <3>1. PICK found \in IF r.kind = "extract" THEN SUBSET (Extracted \ typed) ELSE {Kept(r)} :
               requests' = (requests \ {r}) \cup {[r EXCEPT !.answer = "ok", !.got = found]}
        BY <2>1
      <3>2. found \subseteq Edits /\ (r.kind # "extract" => found = Kept(r))
        BY <1>1, ExtractedAssumption DEF Kept, FormsTyped, Requests
      <3> DEFINE q == [r EXCEPT !.answer = "ok", !.got = found]
      <3>3. /\ q \in Requests /\ q.n = r.n /\ q.kind = r.kind /\ q.sent = r.sent
            /\ q.answer = "ok" /\ q.got = found
        BY <1>1, <3>2 DEF Requests
      <3> QED
        BY <2>1, <3>1, <3>2, <3>3
    <2>2. CASE requests' = (requests \ {r}) \cup {[r EXCEPT !.answer = "refused"]} /\ saved' = saved
      <3> DEFINE q == [r EXCEPT !.answer = "refused"]
      <3>1. /\ q \in Requests /\ q.n = r.n /\ q.kind = r.kind /\ q.sent = r.sent
            /\ q.answer = "refused" /\ q.got = r.got
        BY <1>1 DEF Requests
      <3> QED
        BY <2>2, <3>1
    <2> QED
      BY <2>1, <2>2 DEF ServeForm
  <1>3. Kept(r) \subseteq Edits /\ saved' \subseteq Edits
    BY <1>1, <1>2 DEF Kept, FormsTyped, Requests
  <1>4. FormsTyped'
    BY <1>1, <1>2, <1>3 DEF FormsTyped
  <1>5. OneSave'
    BY <1>1, <1>2 DEF OneSave
  <1>6. WasHad'
    BY <1>1, <1>2 DEF WasHad, Kept
  <1>7. CleanWhenAsked'
    BY <1>1, <1>2 DEF CleanWhenAsked
  <1>8. SavesAll'
    <2>1. CASE r.kind = "save" /\ q.answer = "ok"
      <3>1. saved' = (IF form = "key" THEN saved \cup r.sent ELSE r.sent) /\ q.got = saved'
        BY <2>1, <1>2 DEF Kept
      <3>2. \A z \in requests' : z.kind = "save" => z = q
        BY <2>1, <1>2 DEF OneSave
      <3>3. \A z \in requests' : z.kind = "save" /\ z.answer = "ok" =>
              IF form = "key" THEN z.sent \subseteq saved' ELSE z.sent = saved' /\ z.got = saved'
        BY <1>2, <3>1, <3>2
      <3>4. q \in requests' /\ q.kind = "save"
        BY <1>2, <2>1
      <3> QED
        BY <1>1, <2>1, <3>2, <3>3, <3>4 DEF SavesAll
    <2>2. CASE ~(r.kind = "save" /\ q.answer = "ok")
      <3>1. saved' = saved
        BY <2>2, <1>2 DEF Kept
      <3>2. \A z \in requests' : z \in requests \/ (z = q /\ ~(z.kind = "save" /\ z.answer \in {"none", "ok"}))
        BY <1>2, <2>2
      <3>3. (\A z \in requests' : ~(z.kind = "save" /\ z.answer = "ok")) =>
              \A z \in requests : ~(z.kind = "save" /\ z.answer = "ok")
        BY <1>1, <1>2
      <3> QED
        BY <1>1, <3>1, <3>2, <3>3 DEF SavesAll
    <2> QED
      BY <2>1, <2>2
  <1> QED
    BY <1>4, <1>5, <1>6, <1>7, <1>8

(* A load's answer fills the form; the form knows if it was stale.         *)
LEMMA FormsLoaded ==
  ASSUME FormsInv, NEW r \in requests, LoadLands(r)
  PROVE  FormsInv'
  <1> USE DEF FormsInv
  <1>1. /\ r \in Requests /\ r.kind \in {"load", "reset"} /\ r.answer # "none"
        /\ requests' = requests \ {r}
        /\ UNCHANGED <<form, saved, dirty, saving, made, typed, waived, had>>
    BY DEF LoadLands, FormsTyped
  <1>2. /\ draft' \in [open : BOOLEAN, holds : SUBSET Edits]
        /\ ~draft'.open => draft'.holds = {}
        /\ draft'.holds \subseteq had
        /\ draft'.open => r.answer = "ok" /\ draft'.holds = r.got
    BY <1>1 DEF LoadLands, Holding, Closed, Requests, WasHad
  <1>3. stale' \in BOOLEAN /\ (~stale' => ~(r.answer = "ok" /\ r.got # saved) /\ ~(saving /\ stale))
    BY Zenon DEF LoadLands
  <1>4. FormsTyped' /\ OneSave' /\ WasHad' /\ CleanWhenAsked'
    BY <1>1, <1>2, <1>3 DEF FormsTyped, OneSave, WasHad, CleanWhenAsked
  <1>5. SavesAll'
    <2>1. \A q \in requests' : q \in requests /\ (q.kind = "save" => saving)
      BY <1>1 DEF OneSave
    <2> QED
      BY <1>1, <1>2, <1>3, <2>1 DEF SavesAll
  <1> QED
    BY <1>4, <1>5

LEMMA FormsSaved ==
  ASSUME FormsInv, NEW r \in requests, SaveLands(r)
  PROVE  FormsInv'
  <1> USE DEF FormsInv
  <1>1. /\ r \in Requests /\ r.kind = "save" /\ r.answer # "none" /\ saving' = FALSE
        /\ requests' = requests \ {r}
        /\ UNCHANGED <<form, saved, made, typed, waived, had>>
    BY DEF SaveLands, FormsTyped
  <1>2. \A q \in requests' : q \in requests /\ q.kind # "save"
    BY <1>1 DEF OneSave
  <1>3. CASE r.answer = "ok"
    <2>1. /\ dirty' = FALSE /\ stale' = FALSE
          /\ draft' = IF form \in {"profile", "providers"} THEN Holding(r.got) ELSE Closed
      BY <1>3 DEF SaveLands
    <2>2. /\ draft' \in [open : BOOLEAN, holds : SUBSET Edits]
          /\ ~draft'.open => draft'.holds = {}
          /\ draft'.holds \subseteq had
          /\ draft'.open => form \in {"profile", "providers"} /\ draft'.holds = r.got /\ r.got = saved
      BY <2>1, <1>1, <1>3 DEF Holding, Closed, Requests, WasHad, SavesAll
    <2>3. FormsTyped' /\ OneSave' /\ WasHad' /\ CleanWhenAsked'
      BY <2>1, <2>2, <1>1, <1>2 DEF FormsTyped, OneSave, WasHad, CleanWhenAsked
    <2>4. SavesAll'
      BY <2>1, <2>2, <1>1, <1>2 DEF SavesAll
    <2> QED
      BY <2>3, <2>4
  <1>4. CASE r.answer # "ok"
    <2>1. UNCHANGED <<draft, dirty, stale>>
      BY <1>4 DEF SaveLands
    <2>2. FormsTyped' /\ OneSave' /\ WasHad' /\ CleanWhenAsked'
      BY <2>1, <1>1, <1>2 DEF FormsTyped, OneSave, WasHad, CleanWhenAsked
    <2>3. \A q \in requests : ~(q.kind = "save" /\ q.answer = "ok")
      BY <1>1, <1>4 DEF OneSave
    <2>4. SavesAll'
      BY <2>1, <2>3, <1>1, <1>2 DEF SavesAll
    <2> QED
      BY <2>2, <2>4
  <1> QED
    BY <1>3, <1>4

LEMMA FormsExtracted ==
  ASSUME FormsInv, NEW r \in requests, ExtractLands(r)
  PROVE  FormsInv'
  <1> USE DEF FormsInv
  <1>1. /\ r \in Requests /\ r.kind = "extract" /\ requests' = requests \ {r}
        /\ UNCHANGED <<form, saved, saving, made, waived, stale, had>>
    BY DEF ExtractLands, FormsTyped
  <1>2. /\ draft' \in [open : BOOLEAN, holds : SUBSET Edits]
        /\ ~draft'.open => draft'.holds = {}
        /\ draft'.open <=> draft.open
        /\ draft.holds \subseteq draft'.holds
        /\ typed' \subseteq Edits
        /\ dirty' = TRUE \/ (dirty' = dirty /\ draft' = draft)
    <2>1. CASE r.answer # "ok"
      BY <2>1, <1>1 DEF ExtractLands, FormsTyped
    <2>2. CASE r.answer = "ok" /\ draft.open
      <3>1. dirty' = TRUE /\ typed' = typed \cup r.got /\ draft' = [open |-> TRUE, holds |-> draft.holds \cup r.got]
        BY <2>2 DEF ExtractLands, Holding
      <3>2. draft'.open /\ draft'.holds = draft.holds \cup r.got
        BY <3>1
      <3> QED
        BY <2>2, <3>1, <3>2, <1>1 DEF FormsTyped, Requests
    <2>3. CASE r.answer = "ok" /\ ~draft.open
      <3>1. dirty' = TRUE /\ typed' = typed \cup r.got /\ draft' = draft
        BY <2>3 DEF ExtractLands
      <3> QED
        BY <3>1, <1>1 DEF FormsTyped, Requests
    <2> QED
      BY <2>1, <2>2, <2>3
  <1>3. FormsTyped' /\ OneSave' /\ WasHad'
    BY <1>1, <1>2 DEF FormsTyped, OneSave, WasHad
  <1>4. CleanWhenAsked'
    BY <1>1, <1>2 DEF CleanWhenAsked
  <1>5. SavesAll'
    BY <1>1, <1>2 DEF SavesAll
  <1> QED
    BY <1>3, <1>4, <1>5

LEMMA FormsSteps == FormsInv /\ [FormsNext]_FormsVars => FormsInv'
  <1> SUFFICES ASSUME FormsInv, [FormsNext]_FormsVars PROVE FormsInv'
    OBVIOUS
  <1>1. CASE UNCHANGED FormsVars
    BY <1>1 DEF FormsVars, FormsInv, FormsTyped, OneSave, WasHad, CleanWhenAsked, SavesAll
  <1>2. ASSUME NEW e \in Edits, setD(e) PROVE FormsInv'
    <2>1. /\ draft.open /\ draft' = [open |-> TRUE, holds |-> draft.holds \cup {e}]
          /\ draft \in [open : BOOLEAN, holds : SUBSET Edits]
      BY <1>2 DEF setD, Enabled, Holding, FormsInv, FormsTyped
    <2>2. draft'.open /\ draft'.holds = draft.holds \cup {e} /\ draft' \in [open : BOOLEAN, holds : SUBSET Edits]
      BY <2>1
    <2> QED
      BY <1>2, <2>1, <2>2, FormsTypes DEF setD, FormsInv, FormsTyped
  <1>3. CASE tick
    BY <1>3, FormsAsks DEF tick, Reloads, FormsInv, FormsTyped, CleanWhenAsked
  <1>4. CASE ResetForm
    BY <1>4, FormsAsks DEF ResetForm
  <1>5. CASE extract
    BY <1>5, FormsAsks DEF extract, FormsInv, FormsTyped, CleanWhenAsked
  <1> QED
    BY <1>1, <1>2, <1>3, <1>4, <1>5, FormsSaves, FormsOpens, FormsServed, FormsLoaded, FormsSaved,
       FormsExtracted DEF FormsNext

(* What is on screen stays until the host has had it, or goes for one of   *)
(* the reasons a user expects.                                             *)
KeepsEdits ==
  draft' # draft =>
    \/ draft.holds \subseteq draft'.holds \cup had'
    \/ form = "providers"
    \/ Cancel
    \/ \E r \in requests \ requests' :
         draft.holds \cap r.sent \subseteq draft'.holds \cup had' \cup waived

KeepsSaved == saved' # saved => saved \subseteq saved' \/ stale

LEMMA FormsKeepSaved == FormsInv /\ [FormsNext]_FormsVars => [KeepsSaved]_FormsVars
  <1> SUFFICES ASSUME FormsInv, FormsNext, saved' # saved, ~stale PROVE saved \subseteq saved'
    BY DEF KeepsSaved
  <1>1. PICK r \in requests : ServeForm(r)
    BY DEF FormsNext, setD, tick, ResetForm, Cancel, Edit, save, extract, LoadLands, SaveLands, ExtractLands
  <1>2. saved' = Kept(r) /\ r.kind = "save" /\ r.answer = "none"
    BY <1>1 DEF ServeForm, Kept
  <1> QED
    BY <1>2 DEF Kept, FormsInv, SavesAll

LEMMA FormsKeepEdits ==
  FormsInv /\ [FormsNext]_FormsVars => [KeepsEdits]_FormsVars
  <1> SUFFICES ASSUME FormsInv, FormsNext, draft' # draft, form # "providers", ~Cancel
               PROVE  \/ draft.holds \subseteq draft'.holds \cup had'
                      \/ \E r \in requests \ requests' :
                           draft.holds \cap r.sent \subseteq draft'.holds \cup had' \cup waived
    BY DEF KeepsEdits
  <1> USE DEF FormsInv
  <1>1. ASSUME NEW e \in Edits, setD(e) PROVE draft.holds \subseteq draft'.holds
    BY <1>1 DEF setD, Holding
  <1>2. CASE Edit
    BY <1>2 DEF Edit, FormsTyped
  <1>3. ASSUME NEW r \in requests, ExtractLands(r) PROVE draft.holds \subseteq draft'.holds
    BY <1>3 DEF ExtractLands, Holding
  <1>4. ASSUME NEW r \in requests, LoadLands(r)
        PROVE  \E q \in requests \ requests' :
                 draft.holds \cap q.sent \subseteq draft'.holds \cup had' \cup waived
    <2>1. r \in requests \ requests' /\ had' = had /\ r.kind \in {"load", "reset"}
      BY <1>4 DEF LoadLands
    <2>2. r.sent \subseteq had \cup waived
      BY <2>1 DEF CleanWhenAsked
    <2> QED
      BY <2>1, <2>2
  <1>5. ASSUME NEW r \in requests, SaveLands(r)
        PROVE  \E q \in requests \ requests' :
                 draft.holds \cap q.sent \subseteq draft'.holds \cup had' \cup waived
    <2>1. r \in requests \ requests' /\ had' = had /\ r.kind = "save" /\ r.answer = "ok"
      BY <1>5 DEF SaveLands
    <2>2. r.sent \subseteq had
      BY <2>1 DEF WasHad
    <2> QED
      BY <2>1, <2>2
  <1> QED
    BY <1>1, <1>2, <1>3, <1>4, <1>5
       DEF FormsNext, tick, ResetForm, save, extract, ServeForm

-----------------------------------------------------------------------------
(* The desk: the parts together.                                           *)

ScreensInv ==
  /\ part = "gate" => GateInv
  /\ part = "refresh" => RefreshInv
  /\ part = "tray" => TrayInv
  /\ part = "shell" => ShellInv
  /\ part = "serve" => ServeInv
  /\ part = "forms" => FormsInv

LEMMA ScreensStart == DeskInit => ScreensInv
  BY GateStarts, RefreshStarts, TrayStarts, ShellStarts, ServeStarts, FormsStarts DEF DeskInit, ScreensInv

(* A step moves the part this behavior is about and no other.              *)
LEMMA DeskMoves ==
  ASSUME [DeskNext]_DeskVars
  PROVE  /\ part' = part
         /\ part = "gate" => [GateNext]_GateVars
         /\ part # "gate" => UNCHANGED GateVars
         /\ part = "refresh" => [RefreshNext]_RefreshVars
         /\ part # "refresh" => UNCHANGED RefreshVars
         /\ part = "forms" => [FormsNext]_FormsVars
         /\ part # "forms" => UNCHANGED FormsVars
         /\ part = "tray" => [TrayNext]_TrayVars
         /\ part = "shell" => [ShellNext]_ShellVars
         /\ part = "serve" => [ServeNext]_ServeVars
  <1>1. CASE UNCHANGED DeskVars
    BY <1>1 DEF DeskVars
  <1>2. CASE DeskNext
    <2>1. Others
      BY <1>2 DEF DeskNext
    <2> QED
      BY <1>2, <2>1 DEF DeskNext, Others, Elsewhere
  <1> QED
    BY <1>1, <1>2

LEMMA ScreensStep == ScreensInv /\ [DeskNext]_DeskVars => ScreensInv'
  <1> SUFFICES ASSUME ScreensInv, [DeskNext]_DeskVars PROVE ScreensInv'
    OBVIOUS
  <1> QED
    BY DeskMoves, GateSteps, RefreshSteps, TraySteps, ShellSteps, ServeSteps, FormsSteps DEF ScreensInv

(* A window shows the session it was given and none that was left, the     *)
(* first window alone is restored, the newest answer catches up with the   *)
(* ledger, and the tray tells what it knows: however answers, sign-outs,   *)
(* reloads and polls interleave, for any people, windows and bounds.       *)
THEOREM ScreensAreTrue == DeskSpec => []ScreensTrue
  <1>1. ScreensInv => ScreensTrue
    BY GateShows, RefreshCatchesUp DEF ScreensInv, ScreensTrue, TrayInv
  <1> QED
    BY <1>1, ScreensStart, ScreensStep, PTL DEF DeskSpec

(* No quit leaves a host behind, a relaunch never makes two; an open App   *)
(* is open on an attached volume, and what is written beside one is        *)
(* written by an App that was closed in the middle of a request or a run;  *)
(* and the listener ends up bound as was last asked.                       *)
THEOREM ProcessesStayApart == DeskSpec => []ProcessesApart
  <1>1. ScreensInv => ProcessesApart
    BY ShellKeepsApart DEF ScreensInv, ProcessesApart, ServeInv, ServeKept
  <1> QED
    BY <1>1, ScreensStart, ScreensStep, PTL DEF DeskSpec

(* A session, the newest answer, what was typed and what was saved are not *)
(* lost by a window in any step but those their users expect.              *)
THEOREM ScreensAreKept == DeskSpec => ScreensKeep
  <1>1. ScreensInv /\ [DeskNext]_DeskVars => [KeepsSession]_GateVars
    BY DeskMoves, GateKeeps DEF ScreensInv
  <1>2. ScreensInv /\ [DeskNext]_DeskVars => [GoesOn]_RefreshVars
    BY DeskMoves, RefreshGoesOn DEF ScreensInv
  <1>3. ScreensInv /\ [DeskNext]_DeskVars => [KeepsEdits]_FormsVars
    BY DeskMoves, FormsKeepEdits DEF ScreensInv
  <1>4. ScreensInv /\ [DeskNext]_DeskVars => [KeepsSaved]_FormsVars
    BY DeskMoves, FormsKeepSaved DEF ScreensInv
  <1>5. DeskSpec => KeptUnlessStale
    BY <1>1, ScreensStart, ScreensStep, PTL DEF DeskSpec, KeptUnlessStale, KeepsSession
  <1>6. DeskSpec => NeverBackwards
    BY <1>2, ScreensStart, ScreensStep, PTL DEF DeskSpec, NeverBackwards, GoesOn
  <1>7. DeskSpec => EditsKept
    BY <1>3, ScreensStart, ScreensStep, PTL DEF DeskSpec, EditsKept, KeepsEdits
  <1>8. DeskSpec => SavedStays
    BY <1>4, ScreensStart, ScreensStep, PTL DEF DeskSpec, SavedStays, KeepsSaved
  <1> QED
    BY <1>5, <1>6, <1>7, <1>8 DEF ScreensKeep

-----------------------------------------------------------------------------
(* The nightly's own proposals.                                            *)

WakeRecords == [day : Nat, picture : Pictures \cup {NoPicture}]

AutoTyped ==
  /\ picture \in Pictures \cup {NoPicture} /\ today \in Nat \ {0}
  /\ state \in WakeRecords /\ lastWake \in WakeRecords
  /\ nightly \in [Nightlies -> [at : {"off", "running", "reading", "over"}, prev : WakeRecords, day : Nat]]
  /\ proposal \in [Proposals -> {"none", "going", "queued", "over"}]
  /\ readAcross \in BOOLEAN

(* While no nightly has woken across another's reading, the file and what  *)
(* was read of it tell the last wake.                                      *)
KnowsLastWake ==
  /\ \A n \in Nightlies : nightly[n].at = "reading" => nightly[n].day > 0
  /\ lastWake.picture # NoPicture => lastWake.day > 0
  /\ ~readAcross =>
       /\ state = lastWake
       /\ \A n \in Nightlies : nightly[n].at = "reading" => nightly[n].prev = lastWake

AutoInv == AutoTyped /\ KnowsLastWake

-----------------------------------------------------------------------------
(* Chat.                                                                   *)

RunRecords == [phase : {"none", "turn", "recorded", "parked", "ended"}, agent : Agents \cup {Nobody},
               message : Messages \cup {Nobody}, channel : Nat, engine : Engines \cup {Nobody},
               driven : BOOLEAN, log : {"none", "running", "parked", "ended"}]

SendRecords == [at : {"unsent", "looking", "found", "retired", "polling", "waiting", "answered", "refused"},
                run : Runs \cup {Nobody}]

ChatTyped ==
  /\ run \in [Runs -> RunRecords]
  /\ sending \in [Messages -> SendRecords]
  /\ DOMAIN turns = Messages
  /\ engine \in Engines /\ DOMAIN engines = Messages
  /\ chatInbox \subseteq [message : Messages, run : Runs, channel : Nat]

(* Who is in the air has the engine of the day among those of its time,    *)
(* and a run that is polled was built for one of these.                    *)
EnginesKnown ==
  \A m \in Messages :
    /\ InTheAir(m) => engine \in engines[m]
    /\ sending[m].at = "polling" => sending[m].run \in Runs /\ run[sending[m].run].engine \in engines[m]

EngineInv == ChatTyped /\ EnginesKnown

(* Who is live: this process drives it, or the log shows no end.           *)
Live(r, a) == run[r].agent = a /\ (run[r].driven \/ run[r].log \in {"running", "parked"})

(* What a run is at, its log and what it is driven by go together; a run   *)
(* that is not driven and has no end is to be resumed.                     *)
RunTells(r) ==
  /\ run[r].phase = "none" => run[r] = NoRun
  /\ run[r].phase = "parked" => run[r].log = "parked" /\ run[r].message = Nobody
  /\ run[r].driven => run[r].phase \in {"turn", "recorded", "parked"}
  /\ run[r].log \in {"running", "parked"} =>
       run[r].phase \in {"turn", "recorded", "parked"} /\ (~run[r].driven => r \in resuming)
  /\ r \in resuming => ~run[r].driven /\ run[r].log \in {"running", "parked"}
  /\ run[r].phase \in {"turn", "recorded"} => run[r].message \in Messages
  /\ run[r].phase = "recorded" => turns[run[r].message] # Nobody
  /\ run[r].phase \in {"turn", "recorded"} /\ run[r].channel > 0 =>
       [message |-> run[r].message, run |-> r, channel |-> run[r].channel] \in chatInbox

RunsTell == collector \in BOOLEAN /\ \A r \in Runs : RunTells(r)

(* A message is delivered once, by its sender, to a run of its agent, on a *)
(* channel the run has opened.                                             *)
InboxTells ==
  /\ \A x \in chatInbox :
       /\ run[x.run].log # "none" /\ 0 < x.channel /\ x.channel <= run[x.run].channel
       /\ run[x.run].agent = AgentOf[x.message]
       /\ sending[x.message].at \notin {"unsent", "looking", "found", "retired", "polling"}
  /\ \A x, y \in chatInbox : x.message = y.message => x = y
  /\ \A m \in Messages :
       sending[m].at \in {"found", "polling", "waiting"} /\ sending[m].run # Nobody =>
         run[sending[m].run].phase # "none" /\ run[sending[m].run].agent = AgentOf[m]

(* A run whose log shows all that it is on, and whose open channel, if it  *)
(* has one, is empty.                                                      *)
Settled(r) ==
  /\ run[r].driven => run[r].log \in {"running", "parked"}
  /\ run[r].log = "parked" => \A x \in chatInbox : x.run = r => x.channel # run[r].channel

(* An agent whose senders have not overlapped: one of them is in the air   *)
(* at most, and no resumption; until it has delivered, the agent's runs    *)
(* are settled; it has found the agent's one live run, or retired it.      *)
OneSender ==
  \A m \in Messages :
    AgentOf[m] \notin raced /\ InTheAir(m) =>
      /\ resuming = {}
      /\ \A n \in Messages : AgentOf[n] = AgentOf[m] /\ InTheAir(n) => n = m
      /\ sending[m].at # "waiting" => \A r \in Runs : run[r].agent = AgentOf[m] => Settled(r)
      /\ sending[m].at = "retired" => \A r \in Runs : ~Live(r, AgentOf[m])
      /\ sending[m].at = "found" => \A r \in Runs : Live(r, AgentOf[m]) => r = sending[m].run

OneLive == \A a \in Agents \ raced : \A q, r \in Runs : Live(q, a) /\ Live(r, a) => q = r

OnePerChannel ==
  \A x, y \in chatInbox :
    AgentOf[x.message] \notin raced /\ x.run = y.run /\ x.channel = y.channel => x = y

StandingInv == EngineInv /\ RunsTell /\ InboxTells /\ OneSender /\ OneLive /\ OnePerChannel /\ NotStranded

-----------------------------------------------------------------------------
(* Timers.                                                                 *)

TimersTyped ==
  /\ fireAt \in [Timers -> Nat]
  /\ leg \in [Timers -> [kind : Legs, left : Nat]]
  /\ nextOverdueSlot \in Nat /\ clock \in Nat /\ gap \in 0 .. OVERDUE_STAGGER_MS /\ jumps \in Nat
  /\ wentBack \subseteq Timers

(* A last leg does not end before the deadline, and an overdue timer is    *)
(* overdue, unless the clock went back.                                    *)
Timely ==
  \A t \in Timers \ wentBack :
    /\ leg[t].kind = "last" => clock + leg[t].left >= fireAt[t]
    /\ leg[t].kind = "slot" => clock >= fireAt[t]

EarlyInv == TimersTyped /\ Timely

(* The timers that may have taken a slot.                                  *)
Slotted == {t \in Timers : leg[t].kind \in {"slot", "fired", "cancelled"}}
Slots == OVERDUE_STAGGER_MS * Cardinality(Slotted)

(* While the clock keeps time: no chunk ends after its deadline; the slots *)
(* given out are a stagger apart, the next one comes a stagger after them  *)
(* and after the last firing.                                              *)
Spaced ==
  /\ \A t \in Timers : leg[t].kind = "chunk" => clock + leg[t].left < fireAt[t]
  /\ \A t \in Timers : leg[t].kind = "slot" =>
       /\ clock + leg[t].left + OVERDUE_STAGGER_MS <= nextOverdueSlot
       /\ leg[t].left + gap >= OVERDUE_STAGGER_MS
  /\ \A t, u \in Timers : t # u /\ leg[t].kind = "slot" /\ leg[u].kind = "slot" =>
       leg[t].left >= leg[u].left + OVERDUE_STAGGER_MS \/ leg[u].left >= leg[t].left + OVERDUE_STAGGER_MS
  /\ gap < OVERDUE_STAGGER_MS => nextOverdueSlot + gap >= clock + OVERDUE_STAGGER_MS

(* The next slot reaches no further than those given out, but for the      *)
(* set-backs.                                                              *)
SlotsInReach == nextOverdueSlot <= clock + Slots + jumps

SpacedInv == EarlyInv /\ SlotsInReach /\ (jumps = 0 => Spaced)

(* How late a timer is, and how late it may still become: a late second is *)
(* one of the clock's, too, and only set-backs take it away again.         *)
MaxSlots == OVERDUE_STAGGER_MS * (Cardinality(Timers) - 1)

Awaited ==
  \A t \in Timers :
    /\ late[t] > 0 => clock + jumps >= due[t] + late[t]
    /\ leg[t].kind \in {"chunk", "last"} => due[t] = fireAt[t] /\ late[t] + leg[t].left <= CHUNK_MS + jumps
    /\ leg[t].kind = "chunk" => late[t] + nextOverdueSlot <= clock + Slots + CHUNK_MS + jumps
    /\ leg[t].kind = "slot" => late[t] + leg[t].left <= MaxSlots + CHUNK_MS + jumps

(* While the clock keeps time, only a slot is late.                        *)
OnTime ==
  \A t \in Timers :
    /\ leg[t].kind \in {"chunk", "last"} => late[t] = 0 /\ clock + leg[t].left <= fireAt[t]
    /\ leg[t].kind = "chunk" => clock + leg[t].left < fireAt[t]
    /\ leg[t].kind = "slot" => late[t] + leg[t].left <= MaxSlots

LateTyped == due \in [Timers -> Nat] /\ late \in [Timers -> Nat]

WaitInv == EarlyInv /\ SlotsInReach /\ LateTyped /\ Awaited /\ (jumps = 0 => OnTime)
-----------------------------------------------------------------------------
(* Subscriptions.                                                          *)

SubRecords == [listed : BOOLEAN, buffer : Seq(Nat), closed : BOOLEAN, error : BOOLEAN, waiter : BOOLEAN]

SubsTyped ==
  /\ logged \in Nat
  /\ sub \in [Subscribers -> SubRecords]
  /\ got \in [Subscribers -> Seq(Nat)]
  /\ first \in [Subscribers -> Nat]
  /\ told \in [Subscribers -> {"nothing", "threw", "aborted"}]

(* A sequence that counts on from k.                                       *)
Counts(seq, k) == seq \in Seq(Nat) /\ \A i \in 1 .. Len(seq) : seq[i] = k + i - 1

(* What was given is the log from the wanted event on, what is buffered    *)
(* goes on from there, and with an open subscriber nothing is missing.     *)
InOrder(u) ==
  /\ Counts(got[u], first[u]) /\ Counts(sub[u].buffer, first[u] + Len(got[u]))
  /\ first[u] = 0 => got[u] = <<>> /\ sub[u].buffer = <<>> /\ ~sub[u].listed /\ told[u] = "nothing"
  /\ told[u] # "nothing" => ~sub[u].listed
  /\ sub[u].error => sub[u].closed
  /\ sub[u].waiter => sub[u].buffer = <<>> /\ ~sub[u].closed /\ ~sub[u].error
  /\ first[u] # 0 /\ told[u] = "nothing" =>
       /\ sub[u].listed
       /\ sub[u].closed => sub[u].error
       /\ ~sub[u].error => Len(got[u]) + Len(sub[u].buffer) = logged + 1 - first[u]

SubsInv == SubsTyped /\ \A u \in Subscribers : InOrder(u)

-----------------------------------------------------------------------------
(* Proofs: the nightly's own proposals.                                    *)

LEMMA AutoStarts == AutoInit => AutoInv
  <1> SUFFICES ASSUME AutoInit PROVE AutoInv
    OBVIOUS
  <1>1. Never \in WakeRecords /\ Never.picture = NoPicture
    BY DEF Never, WakeRecords
  <1>2. \A n \in Nightlies : nightly[n].at = "off"
    BY DEF AutoInit, NotYet
  <1>3. AutoTyped
    <2>1. NotYet \in [at : {"off", "running", "reading", "over"}, prev : WakeRecords, day : Nat]
      BY <1>1 DEF NotYet
    <2>2. nightly \in [Nightlies -> [at : {"off", "running", "reading", "over"}, prev : WakeRecords, day : Nat]]
      BY <2>1 DEF AutoInit
    <2>3. state \in WakeRecords /\ lastWake \in WakeRecords
      BY <1>1 DEF AutoInit
    <2>4. proposal \in [Proposals -> {"none", "going", "queued", "over"}]
      BY DEF AutoInit
    <2>5. picture = NoPicture /\ today = 1 /\ readAcross = FALSE
      BY Zenon DEF AutoInit
    <2>6. picture \in Pictures \cup {NoPicture} /\ today \in Nat \ {0}
      BY <2>5
    <2>7. readAcross \in BOOLEAN
      BY <2>5, Zenon
    <2> QED
      BY <2>2, <2>3, <2>4, <2>6, <2>7, Zenon DEF AutoTyped
  <1>4. KnowsLastWake
    BY <1>1, <1>2 DEF AutoInit, KnowsLastWake
  <1> QED
    BY <1>3, <1>4 DEF AutoInv

LEMMA NeverTyped == Never \in WakeRecords /\ Never.day = 0
  BY DEF Never, WakeRecords

(* What is remembered after a nightly that did not wake is what it read.   *)
LEMMA Remembers ==
  ASSUME NEW prev \in WakeRecords, NEW wake \in WakeRecords, Remember(prev, wake)
  PROVE  /\ wake.day > 0 => state' = wake
         /\ wake = Never => state' = prev
         /\ state' \in WakeRecords
  BY NeverTyped DEF Remember

LEMMA AutoSteps == AutoInv /\ [AutoNext]_AutoVars => AutoInv'
  <1> SUFFICES ASSUME AutoInv, [AutoNext]_AutoVars PROVE AutoInv'
    OBVIOUS
  <1> USE DEF AutoInv
  <1>1. CASE UNCHANGED AutoVars
    BY <1>1 DEF AutoVars, AutoTyped, KnowsLastWake
  <1>2. CASE WorldMoves
    BY <1>2 DEF WorldMoves, AutoTyped, KnowsLastWake
  <1>3. ASSUME NEW p \in Proposals, Advance(p) \/ startProposalRun(p) \/ ResumeProposal(p) PROVE AutoInv'
    <2>1. UNCHANGED <<picture, today, state, nightly, lastWake, readAcross>>
      BY <1>3 DEF Advance, startProposalRun, ResumeProposal, World
    <2>2. proposal' \in [Proposals -> {"none", "going", "queued", "over"}]
      BY <1>3 DEF Advance, startProposalRun, ResumeProposal, Drive, AutoTyped
    <2> QED
      BY <2>1, <2>2 DEF AutoTyped, KnowsLastWake
  <1>4. ASSUME NEW n \in Nightlies, runNightlyOnce(n) PROVE AutoInv'
    BY <1>4 DEF runNightlyOnce, World, AutoTyped, KnowsLastWake
  <1>5. ASSUME NEW n \in Nightlies, NightlyEnds(n) PROVE AutoInv'
    <2>1. UNCHANGED <<picture, today, proposal, lastWake, readAcross>> /\ state' = state
      BY <1>5 DEF NightlyEnds, World, Remember
    <2>2. \/ nightly' = [nightly EXCEPT ![n] = [at |-> "reading", prev |-> state, day |-> today]]
          \/ nightly' = [nightly EXCEPT ![n].at = "over"]
      BY <1>5 DEF NightlyEnds
    <2>3. AutoTyped'
      BY <2>1, <2>2 DEF AutoTyped
    <2>4. \A m \in Nightlies : nightly'[m].at = "reading" =>
            \/ nightly'[m] = nightly[m]
            \/ nightly'[m].prev = state /\ nightly'[m].day = today
      BY <2>2 DEF AutoTyped
    <2> QED
      BY <2>1, <2>3, <2>4 DEF AutoTyped, KnowsLastWake
  <1>6. ASSUME NEW n \in Nightlies, Decide(n) PROVE AutoInv'
    <2> DEFINE wake == [day |-> nightly[n].day, picture |-> picture]
    <2>1. /\ nightly[n].at = "reading" /\ nightly' = [nightly EXCEPT ![n].at = "over"]
          /\ UNCHANGED <<picture, today>>
      BY <1>6 DEF Decide, World
    <2>2. wake \in WakeRecords /\ wake.day = nightly[n].day /\ wake.picture = picture /\ nightly[n].prev \in WakeRecords
      BY DEF AutoTyped, WakeRecords
    <2>3. nightly[n].day > 0
      BY <2>1 DEF KnowsLastWake
    <2>4. nightly' \in [Nightlies -> [at : {"off", "running", "reading", "over"}, prev : WakeRecords, day : Nat]]
          /\ \A m \in Nightlies : nightly'[m].at = "reading" => m # n /\ nightly'[m] = nightly[m]
      BY <2>1 DEF AutoTyped
    <2>5. CASE Remember(nightly[n].prev, Never) /\ UNCHANGED <<proposal, standing, wakes, lastWake, readAcross>>
      <3>1. state' = nightly[n].prev
        BY <2>5 DEF Remember
      <3> QED
        BY <3>1, <2>1, <2>2, <2>4, <2>5 DEF AutoTyped, KnowsLastWake
    <2>6. CASE /\ picture # NoPicture /\ Remember(nightly[n].prev, wake)
               /\ \E p \in Proposals : Drive(p) /\ wakes' = wakes \cup {p}
               /\ lastWake' = wake
               /\ readAcross' = (readAcross \/ \E other \in Nightlies \ {n} : nightly[other].at = "reading")
      <3>1. state' = wake /\ lastWake' = wake
        BY <2>6, <2>2, <2>3, Remembers
      <3>2. proposal' \in [Proposals -> {"none", "going", "queued", "over"}]
        BY <2>6 DEF Drive, AutoTyped
      <3>3. /\ readAcross' \in BOOLEAN
            /\ ~readAcross' => \A other \in Nightlies \ {n} : nightly[other].at # "reading"
        BY <2>6
      <3> QED
        BY <3>1, <3>2, <3>3, <2>1, <2>2, <2>3, <2>4 DEF AutoTyped, KnowsLastWake
    <2> QED
      BY <1>6, <2>5, <2>6 DEF Decide
  <1>7. ASSUME Die PROVE /\ nightly' \in [Nightlies -> [at : {"off", "running", "reading", "over"}, prev : WakeRecords, day : Nat]]
                         /\ \A m \in Nightlies : nightly'[m].at # "reading"
                         /\ UNCHANGED <<picture, today, proposal, readAcross>>
    BY <1>7 DEF Die, World, AutoTyped
  <1>8. CASE CrashAuto
    BY <1>7, <1>8 DEF CrashAuto, AutoTyped, KnowsLastWake
  <1>9. ASSUME NEW n \in Nightlies, DieWaking(n) PROVE AutoInv'
    <2> DEFINE wake == [day |-> nightly[n].day, picture |-> picture]
    <2>1. /\ nightly[n].at = "reading" /\ picture # NoPicture /\ lastWake' = wake
          /\ Remember(nightly[n].prev, wake) /\ Die
      BY <1>9 DEF DieWaking
    <2>2. wake \in WakeRecords /\ wake.day = nightly[n].day /\ nightly[n].prev \in WakeRecords /\ wake.day > 0
      BY <2>1 DEF AutoTyped, KnowsLastWake, WakeRecords
    <2>3. state' = wake
      BY <2>1, <2>2, Remembers
    <2> QED
      BY <1>7, <2>1, <2>2, <2>3 DEF AutoTyped, KnowsLastWake
  <1> QED
    BY <1>1, <1>2, <1>3, <1>4, <1>5, <1>6, <1>8, <1>9 DEF AutoNext

(* A wake is a decision of one nightly that found nobody busy and a        *)
(* picture unlike that of the wake it knew.                                *)
LEMMA Wakes1 ==
  ASSUME AutoInv, AutoNext, wakes' # wakes
  PROVE  \E n \in Nightlies :
           /\ nightly[n].at = "reading" /\ ~Busy /\ picture # NoPicture
           /\ ~Unchanged(nightly[n].prev, nightly[n].day)
           /\ lastWake' = [day |-> nightly[n].day, picture |-> picture]
  <1>1. PICK n \in Nightlies : Decide(n)
    BY DEF AutoNext, WorldMoves, CrashAuto, runNightlyOnce, NightlyEnds, DieWaking, startProposalRun,
           Advance, ResumeProposal
  <1> QED
    BY <1>1 DEF Decide

(* No wake on top of an unsettled proposal that is driven or queued.       *)
NotOnTop ==
  wakes' # wakes =>
    \A p \in Proposals :
      \/ proposal[p] \in {"none", "over"}
      \/ proposal[p] = "going" /\ p \notin standing

LEMMA NoneOnTop == AutoInv /\ [AutoNext]_AutoVars => [NotOnTop]_AutoVars
  BY Wakes1 DEF NotOnTop, Busy, AutoInv, AutoTyped

(* No second wake for the same picture before it is re-armed.              *)
NotTwice ==
  wakes' # wakes /\ ~readAcross /\ lastWake'.picture = lastWake.picture =>
    lastWake'.day >= lastWake.day + REARM

LEMMA NoneTwice == AutoInv /\ [AutoNext]_AutoVars => [NotTwice]_AutoVars
  <1> SUFFICES ASSUME AutoInv, AutoNext, wakes' # wakes, ~readAcross, lastWake'.picture = lastWake.picture
               PROVE  lastWake'.day >= lastWake.day + REARM
    BY DEF NotTwice
  <1>1. PICK n \in Nightlies :
           /\ nightly[n].at = "reading" /\ ~Busy /\ picture # NoPicture
           /\ ~Unchanged(nightly[n].prev, nightly[n].day)
           /\ lastWake' = [day |-> nightly[n].day, picture |-> picture]
    BY Wakes1
  <1>2. nightly[n].prev = lastWake /\ lastWake.picture = picture /\ lastWake.day > 0
    BY <1>1 DEF AutoInv, KnowsLastWake
  <1>3. lastWake.day \in Nat /\ nightly[n].day \in Nat /\ REARM \in Nat
    BY RearmAssumption DEF AutoInv, AutoTyped, WakeRecords
  <1> QED
    BY <1>1, <1>2, <1>3 DEF Unchanged

-----------------------------------------------------------------------------
(* Proofs: chat.                                                           *)

LEMMA NobodyElse == Nobody \notin Messages /\ Nobody \notin Runs /\ Nobody \notin Engines
  BY NobodyAssumption

LEMMA EnginesStart == ChatInit => EngineInv
  <1> SUFFICES ASSUME ChatInit PROVE EngineInv
    OBVIOUS
  <1>1. NoRun \in RunRecords
    BY DEF NoRun, RunRecords
  <1>2. run \in [Runs -> RunRecords]
    BY <1>1 DEF ChatInit
  <1>3. /\ sending = [m \in Messages |-> [at |-> "unsent", run |-> Nobody]]
        /\ DOMAIN turns = Messages /\ DOMAIN engines = Messages
    BY DEF ChatInit, Unsent
  <1>4. sending \in [Messages -> SendRecords]
    BY <1>3 DEF SendRecords
  <1>5. engine \in Engines /\ chatInbox = {}
    BY EnginesAssumption DEF ChatInit
  <1>6. ChatTyped
    BY <1>2, <1>3, <1>4, <1>5 DEF ChatTyped
  <1>7. EnginesKnown
    BY <1>3 DEF EnginesKnown, InTheAir
  <1> QED
    BY <1>6, <1>7 DEF EngineInv

(* The engine of the day is kept; nobody begins to poll but a run built    *)
(* for it, and no run gets another.                                        *)
LEMMA EnginesStay ==
  ASSUME EngineInv, ChatTyped', UNCHANGED <<engine, engines>>,
         \A m \in Messages : InTheAir(m)' => InTheAir(m),
         \A m \in Messages : sending'[m].at = "polling" =>
           sending'[m] = sending[m] \/ (sending'[m].run \in Runs /\ run[sending'[m].run].engine = engine),
         \A r \in Runs : run'[r].engine \in {run[r].engine, engine}
  PROVE  EngineInv'
  <1>1. ASSUME NEW m \in Messages, sending'[m].at = "polling"
        PROVE  sending'[m].run \in Runs /\ run'[sending'[m].run].engine \in engines'[m]
    <2>1. engine \in engines[m]
      BY <1>1 DEF EngineInv, EnginesKnown, InTheAir
    <2> QED
      BY <2>1, <1>1 DEF EngineInv, EnginesKnown
  <1> QED
    BY <1>1 DEF EngineInv, EnginesKnown

(* A sender takes one step; the runs are as they were.                     *)
LEMMA SenderSteps ==
  ASSUME EngineInv, NEW m \in Messages,
         NEW at \in {"looking", "found", "retired", "polling", "waiting", "answered", "refused"},
         NEW r \in Runs \cup {Nobody},
         Step(m, at, r)
  PROVE  /\ sending' \in [Messages -> SendRecords]
         /\ sending'[m] = [at |-> at, run |-> r]
         /\ \A n \in Messages : n # m => sending'[n] = sending[n]
  BY DEF EngineInv, ChatTyped, Step, SendRecords

LEMMA RunStays ==
  ASSUME EngineInv, NEW m \in Messages, InTheAir(m),
         NEW at \in {"found", "retired", "polling", "waiting", "answered", "refused"},
         NEW r \in Runs \cup {Nobody},
         Step(m, at, r), at = "polling" => r \in Runs /\ run[r].engine = engine,
         UNCHANGED <<run, engine, engines, turns>>,
         chatInbox' \subseteq [message : Messages, run : Runs, channel : Nat]
  PROVE  EngineInv'
  <1>1. /\ sending' \in [Messages -> SendRecords]
        /\ sending'[m] = [at |-> at, run |-> r]
        /\ \A n \in Messages : n # m => sending'[n] = sending[n]
    BY SenderSteps
  <1>2. ChatTyped'
    BY <1>1 DEF EngineInv, ChatTyped
  <1>3. \A n \in Messages : InTheAir(n)' => InTheAir(n)
    BY <1>1 DEF InTheAir
  <1>4. \A n \in Messages : sending'[n].at = "polling" =>
           sending'[n] = sending[n] \/ (sending'[n].run \in Runs /\ run[sending'[n].run].engine = engine)
    BY <1>1
  <1>5. \A x \in Runs : run'[x].engine \in {run[x].engine, engine}
    OBVIOUS
  <1> QED
    BY <1>2, <1>3, <1>4, <1>5, EnginesStay

(* A run takes one step; the senders are as they were.                     *)
LEMMA RunSteps ==
  ASSUME EngineInv, UNCHANGED <<sending, engine, engines, chatInbox>>, DOMAIN turns' = DOMAIN turns,
         run' \in [Runs -> RunRecords],
         \A r \in Runs : run'[r].engine \in {run[r].engine, engine}
  PROVE  EngineInv'
  <1>1. ChatTyped' /\ \A m \in Messages : InTheAir(m)' => InTheAir(m)
    BY DEF EngineInv, ChatTyped, InTheAir
  <1>2. \A m \in Messages : sending'[m].at = "polling" => sending'[m] = sending[m]
    OBVIOUS
  <1> QED
    BY <1>1, <1>2, EnginesStay

(* A run starts, or what a run is on changes.                              *)
LEMMA EnginesStep == EngineInv /\ [ChatNext]_ChatVars => EngineInv'
  <1> SUFFICES ASSUME EngineInv, [ChatNext]_ChatVars PROVE EngineInv'
    OBVIOUS
  <1>0. ChatTyped /\ EnginesKnown
    BY DEF EngineInv
  <1>1. CASE UNCHANGED ChatVars
    BY <1>0, <1>1 DEF ChatVars, EngineInv, ChatTyped, EnginesKnown, InTheAir
  <1>2. ASSUME NEW m \in Messages PROVE sending[m].run \in Runs \cup {Nobody}
    BY <1>0 DEF ChatTyped, SendRecords
  <1>3. ASSUME NEW m \in Messages, sendChat(m) PROVE EngineInv'
    <2>1. /\ Step(m, "looking", Nobody)
          /\ engines' = [engines EXCEPT ![m] = {engine}]
          /\ UNCHANGED <<run, chatInbox, engine, turns>>
      BY <1>3 DEF sendChat
    <2>2. /\ sending' \in [Messages -> SendRecords]
          /\ sending'[m] = [at |-> "looking", run |-> Nobody]
          /\ \A n \in Messages : n # m => sending'[n] = sending[n]
      BY <2>1, SenderSteps
    <2>3. /\ DOMAIN engines' = Messages
          /\ engines'[m] = {engine} /\ \A n \in Messages : n # m => engines'[n] = engines[n]
      BY <2>1, <1>0 DEF ChatTyped
    <2>4. ChatTyped'
      BY <1>0, <2>1, <2>2, <2>3 DEF ChatTyped
    <2>5. EnginesKnown'
      BY <1>0, <2>1, <2>2, <2>3 DEF EnginesKnown, InTheAir
    <2> QED
      BY <2>4, <2>5 DEF EngineInv
  <1>4. ASSUME NEW m \in Messages, activeChatRun(m) PROVE EngineInv'
    <2>1. PICK r \in Runs \cup {Nobody} : Step(m, "found", r)
      BY <1>4 DEF activeChatRun
    <2>2. /\ InTheAir(m)
          /\ UNCHANGED <<run, engine, engines, turns, chatInbox>>
          /\ chatInbox' \subseteq [message : Messages, run : Runs, channel : Nat]
      BY <1>0, <1>4 DEF activeChatRun, InTheAir, ChatTyped
    <2> QED
      BY <2>1, <2>2, RunStays
  <1>5. ASSUME NEW m \in Messages, Join(m) PROVE EngineInv'
    <2>1. /\ Step(m, "polling", sending[m].run) /\ InTheAir(m)
          /\ sending[m].run # Nobody /\ run[sending[m].run].engine = engine
          /\ UNCHANGED <<run, engine, engines, turns, chatInbox>>
          /\ chatInbox' \subseteq [message : Messages, run : Runs, channel : Nat]
      BY <1>0, <1>5 DEF Join, Fits, InTheAir, ChatTyped
    <2> QED
      BY <2>1, <1>2, RunStays
  <1>6. ASSUME NEW m \in Messages, Retire(m) PROVE EngineInv'
    <2>1. /\ Step(m, "retired", Nobody) /\ InTheAir(m)
          /\ sending[m].run # Nobody
          /\ UNCHANGED <<engine, engines, turns, chatInbox>>
      BY <1>6 DEF Retire, InTheAir
    <2>2. /\ run' \in [Runs -> RunRecords]
          /\ \A r \in Runs : run'[r].engine = run[r].engine
      BY <1>0, <1>2, <1>6, <2>1 DEF Retire, ChatTyped, RunRecords
    <2>3. /\ sending' \in [Messages -> SendRecords]
          /\ sending'[m] = [at |-> "retired", run |-> Nobody]
          /\ \A n \in Messages : n # m => sending'[n] = sending[n]
      BY <2>1, SenderSteps
    <2>4. ChatTyped'
      BY <1>0, <2>1, <2>2, <2>3 DEF ChatTyped
    <2>5. /\ \A n \in Messages : InTheAir(n)' => InTheAir(n)
          /\ \A n \in Messages : sending'[n].at = "polling" => sending'[n] = sending[n]
      BY <2>1, <2>3 DEF InTheAir
    <2> QED
      BY <2>1, <2>2, <2>4, <2>5, EnginesStay
  <1>7. ASSUME NEW m \in Messages, Start(m) PROVE EngineInv'
    <2>1. PICK r \in Runs :
            /\ run' = [run EXCEPT ![r] = [NoRun EXCEPT !.phase = "turn", !.agent = AgentOf[m],
                                            !.message = m, !.engine = engine, !.driven = TRUE]]
            /\ Step(m, "waiting", r)
      BY <1>7 DEF Start
    <2>2. InTheAir(m) /\ UNCHANGED <<engine, engines, turns, chatInbox>>
      BY <1>7 DEF Start, InTheAir
    <2> DEFINE fresh == [NoRun EXCEPT !.phase = "turn", !.agent = AgentOf[m], !.message = m,
                                      !.engine = engine, !.driven = TRUE]
    <2>3. fresh \in RunRecords /\ fresh.engine = engine
      BY <1>0 DEF NoRun, RunRecords, Agents, ChatTyped
    <2>4. run' = [run EXCEPT ![r] = fresh]
      BY <2>1
    <2> HIDE DEF fresh
    <2>5. run' \in [Runs -> RunRecords] /\ \A x \in Runs : run'[x].engine \in {run[x].engine, engine}
      BY <1>0, <2>3, <2>4 DEF ChatTyped
    <2>6. /\ sending' \in [Messages -> SendRecords]
          /\ sending'[m] = [at |-> "waiting", run |-> r]
          /\ \A n \in Messages : n # m => sending'[n] = sending[n]
      BY <2>1, SenderSteps
    <2>7. ChatTyped'
      BY <1>0, <2>2, <2>5, <2>6 DEF ChatTyped
    <2>8. /\ \A n \in Messages : InTheAir(n)' => InTheAir(n)
          /\ \A n \in Messages : sending'[n].at = "polling" => sending'[n] = sending[n]
      BY <2>2, <2>6 DEF InTheAir
    <2> QED
      BY <2>2, <2>5, <2>7, <2>8, EnginesStay
  <1>8. ASSUME NEW m \in Messages, Deliver(m) PROVE EngineInv'
    <2> DEFINE r == sending[m].run
    <2>1. /\ Step(m, "waiting", r) /\ InTheAir(m) /\ sending[m].at = "polling"
          /\ UNCHANGED <<run, engine, engines, turns>>
          /\ chatInbox' = chatInbox \cup {[message |-> m, run |-> r, channel |-> OpenChannel(r)]}
      BY <1>8 DEF Deliver, InTheAir
    <2>2. r \in Runs
      BY <1>0, <2>1 DEF EnginesKnown
    <2>3. OpenChannel(r) \in Nat
      BY <1>0, <2>2 DEF OpenChannel, ChatTyped, RunRecords
    <2>4. chatInbox' \subseteq [message : Messages, run : Runs, channel : Nat]
      BY <1>0, <2>1, <2>2, <2>3 DEF ChatTyped
    <2> QED
      BY <2>1, <2>2, <2>4, RunStays
  <1>9. ASSUME NEW m \in Messages, waitForTurn(m) \/ TimesOut(m) PROVE EngineInv'
    <2>1. PICK at \in {"answered", "refused"} : Step(m, at, sending[m].run)
      BY <1>9 DEF waitForTurn, TimesOut
    <2>2. /\ InTheAir(m)
          /\ UNCHANGED <<run, engine, engines, turns, chatInbox>>
          /\ chatInbox' \subseteq [message : Messages, run : Runs, channel : Nat]
      BY <1>0, <1>9 DEF waitForTurn, TimesOut, InTheAir, ChatTyped
    <2> QED
      BY <2>1, <2>2, <1>2, RunStays
  <1>10. ASSUME NEW r \in Runs, Consume(r) PROVE EngineInv'
    <2>1. PICK x \in chatInbox : run' = [run EXCEPT ![r].phase = "turn", ![r].message = x.message]
      BY <1>10 DEF Consume
    <2>2. x.message \in Messages
      BY <1>0 DEF ChatTyped
    <2> DEFINE begun == [run[r] EXCEPT !.phase = "turn", !.message = x.message]
    <2>a. run' = [run EXCEPT ![r] = begun] /\ run \in [Runs -> RunRecords]
      BY <1>0, <2>1 DEF ChatTyped
    <2>b. begun \in RunRecords /\ begun.engine = run[r].engine
      BY <2>a, <2>2 DEF RunRecords
    <2>3. run' \in [Runs -> RunRecords] /\ \A q \in Runs : run'[q].engine = run[q].engine
      <3> HIDE DEF begun
      <3> QED
        BY <2>a, <2>b
    <2>4. UNCHANGED <<sending, engine, engines, chatInbox, turns>>
      BY <1>10 DEF Consume
    <2> QED
      BY <2>3, <2>4, RunSteps
  <1>11. ASSUME NEW r \in Runs, FlushChat(r) \/ Parks(r) \/ TurnFails(r) PROVE EngineInv'
    <2>1. run' \in [Runs -> RunRecords] /\ \A q \in Runs : run'[q].engine = run[q].engine
      BY <1>0, <1>11 DEF FlushChat, Parks, TurnFails, ChatTyped, RunRecords
    <2>2. UNCHANGED <<sending, engine, engines, chatInbox, turns>>
      BY <1>11 DEF FlushChat, Parks, TurnFails
    <2> QED
      BY <2>1, <2>2, RunSteps
  <1>12. ASSUME NEW r \in Runs, ToolCall(r) PROVE EngineInv'
    BY <1>0, <1>12, RunSteps DEF ToolCall, ChatTyped
  <1>13. ASSUME NEW r \in Runs, TurnEnds(r) PROVE EngineInv'
    <2>1. run' \in [Runs -> RunRecords] /\ \A q \in Runs : run'[q].engine = run[q].engine
      BY <1>0, <1>13 DEF TurnEnds, ChatTyped, RunRecords
    <2>2. UNCHANGED <<sending, engine, engines, chatInbox>> /\ DOMAIN turns' = DOMAIN turns
      BY <1>13 DEF TurnEnds, EmitTurn
    <2> QED
      BY <2>1, <2>2, RunSteps
  <1>14. ASSUME NEW r \in Runs, ResumeChat(r) PROVE EngineInv'
    <2> DEFINE taken == [run[r] EXCEPT !.phase = "parked", !.message = Nobody, !.engine = engine, !.driven = TRUE]
               failed == [run[r] EXCEPT !.phase = "ended", !.log = "ended"]
    <2>a. /\ run' = [run EXCEPT ![r] = taken] \/ run' = [run EXCEPT ![r] = failed]
          /\ run \in [Runs -> RunRecords] /\ engine \in Engines
      BY <1>0, <1>14 DEF ResumeChat, ChatTyped
    <2>d. run[r] \in RunRecords /\ engine \in Engines
      BY <2>a
    <2>b. taken \in RunRecords /\ taken.engine = engine
      <3> DEFINE half == [run[r] EXCEPT !.phase = "parked", !.message = Nobody]
      <3>1. half \in RunRecords
        BY <2>d DEF RunRecords
      <3>2. taken = [half EXCEPT !.engine = engine, !.driven = TRUE]
        OBVIOUS
      <3> HIDE DEF half, taken
      <3> QED
        BY <3>1, <3>2, <2>d DEF RunRecords
    <2>c. failed \in RunRecords /\ failed.engine = run[r].engine
      BY <2>a DEF RunRecords
    <2>1. run' \in [Runs -> RunRecords] /\ \A q \in Runs : run'[q].engine \in {run[q].engine, engine}
      <3> HIDE DEF taken, failed
      <3> QED
        BY <2>a, <2>b, <2>c
    <2>2. UNCHANGED <<sending, engine, engines, chatInbox, turns>>
      BY <1>14 DEF ResumeChat
    <2> QED
      BY <2>1, <2>2, RunSteps
  <1>15. CASE SwitchEngine
    <2>1. /\ engine' \in Engines
          /\ DOMAIN engines' = Messages
          /\ \A m \in Messages : InTheAir(m) => engines'[m] = engines[m] \cup {engine'}
          /\ UNCHANGED <<run, chatInbox, sending, turns>>
      BY <1>15 DEF SwitchEngine
    <2>2. ChatTyped'
      BY <1>0, <2>1 DEF ChatTyped
    <2>3. EnginesKnown'
      BY <1>0, <2>1 DEF EnginesKnown, InTheAir
    <2> QED
      BY <2>2, <2>3 DEF EngineInv
  <1>16. CASE CrashChat
    <2>1. run' = [r \in Runs |->
               IF run[r].log = "none" /\ run[r].phase # "none" THEN [NoRun EXCEPT !.phase = "ended"]
               ELSE [run[r] EXCEPT !.driven = FALSE, !.engine = Nobody]]
      BY <1>16 DEF CrashChat
    <2>2. [NoRun EXCEPT !.phase = "ended"] \in RunRecords
      BY DEF NoRun, RunRecords
    <2>3. \A r \in Runs : [run[r] EXCEPT !.driven = FALSE, !.engine = Nobody] \in RunRecords
      BY <1>0 DEF ChatTyped, RunRecords
    <2>4. run' \in [Runs -> RunRecords]
      BY <2>1, <2>2, <2>3
    <2>5. /\ sending' \in [Messages -> SendRecords]
          /\ \A m \in Messages : ~InTheAir(m)'
      <3>1. sending' = [m \in Messages |-> IF InTheAir(m) THEN [sending[m] EXCEPT !.at = "refused"] ELSE sending[m]]
        BY <1>16 DEF CrashChat
      <3>2. \A m \in Messages : sending'[m] \in SendRecords
        BY <3>1, <1>0 DEF ChatTyped, SendRecords
      <3>3. ASSUME NEW m \in Messages PROVE ~InTheAir(m)'
        BY <3>1, <1>0 DEF ChatTyped, SendRecords, InTheAir
      <3> QED
        BY <3>1, <3>2, <3>3
    <2>6. UNCHANGED <<chatInbox, engine, engines, turns>>
      BY <1>16 DEF CrashChat
    <2>7. ChatTyped'
      BY <1>0, <2>4, <2>5, <2>6 DEF ChatTyped
    <2>8. EnginesKnown'
      BY <2>5 DEF EnginesKnown, InTheAir
    <2> QED
      BY <2>7, <2>8 DEF EngineInv
  <1> QED
    BY <1>1, <1>3, <1>4, <1>5, <1>6, <1>7, <1>8, <1>9, <1>10, <1>11, <1>12, <1>13, <1>14, <1>15, <1>16 DEF ChatNext

(* A message is delivered to a run of an engine of its time.               *)
OnItsEngine ==
  \A m \in Messages :
    sending[m].at = "polling" /\ sending'[m].at = "waiting" =>
      run[sending[m].run].engine \in engines[m]

LEMMA OnTheEngine == EngineInv /\ [ChatNext]_ChatVars => [OnItsEngine]_ChatVars
  BY DEF EngineInv, EnginesKnown, OnItsEngine

(* A turn in the outbox stays.                                             *)
Stands == \A m \in Messages : turns[m] # Nobody => turns'[m] = turns[m]

LEMMA TurnsStand == EngineInv /\ [ChatNext]_ChatVars => [Stands]_ChatVars
  <1> SUFFICES ASSUME EngineInv, ChatNext PROVE Stands
    OBVIOUS
  <1>1. \/ UNCHANGED turns
        \/ \E r \in Runs : TurnEnds(r)
    BY DEF ChatNext, sendChat, activeChatRun, Join, Retire, Start, Deliver, waitForTurn, TimesOut,
           Consume, FlushChat, ToolCall, Parks, TurnFails, ResumeChat, SwitchEngine, CrashChat
  <1>2. CASE UNCHANGED turns
    BY <1>2 DEF Stands
  <1>3. ASSUME NEW r \in Runs, TurnEnds(r) PROVE Stands
    <2>1. EmitTurn(run[r].message, collector)
      BY <1>3 DEF TurnEnds
    <2>2. DOMAIN turns = Messages
      BY DEF EngineInv, ChatTyped
    <2> QED
      BY <2>1, <2>2 DEF EmitTurn, Stands
  <1> QED
    BY <1>1, <1>2, <1>3
-----------------------------------------------------------------------------
(* Proofs: timers.                                                         *)

LEMMA TimesTyped ==
  /\ Clamp \in Nat /\ CHUNK_MS \in Nat \ {0} /\ CHUNK_MS <= Clamp
  /\ OVERDUE_STAGGER_MS \in Nat \ {0}
  /\ Deadlines \subseteq Nat
  BY ChunkAssumption, StaggerAssumption, TimesAssumption

(* What a timer waits for when it is armed: an overdue one waits for its   *)
(* slot at most, a near one for its deadline, a far one for a chunk.       *)
LEMMA Legged ==
  ASSUME TimersTyped, NEW t \in Timers
  PROVE  /\ NextLeg(t) \in [kind : Legs, left : Nat]
         /\ remaining(t) <= 0 =>
              /\ NextLeg(t).kind = "slot" /\ clock >= fireAt[t]
              /\ NextLeg(t).left <= Slot - clock
              /\ Slot - clock <= Clamp => NextLeg(t).left = Slot - clock
         /\ remaining(t) > 0 =>
              \/ NextLeg(t) = [kind |-> "last", left |-> fireAt[t] - clock] /\ fireAt[t] - clock <= CHUNK_MS
              \/ NextLeg(t) = [kind |-> "chunk", left |-> CHUNK_MS] /\ clock + CHUNK_MS < fireAt[t]
         /\ Slot \in Nat /\ Slot >= clock /\ Slot >= nextOverdueSlot /\ Slot \in {clock, nextOverdueSlot}
         /\ remaining(t) \in Int
         /\ remaining(t) <= 0 \/ remaining(t) > 0
  <1>1. fireAt[t] \in Nat /\ clock \in Nat /\ nextOverdueSlot \in Nat /\ remaining(t) = fireAt[t] - clock
    BY DEF TimersTyped, remaining
  <1>2. Slot \in Nat /\ Slot >= clock /\ Slot >= nextOverdueSlot /\ Slot \in {clock, nextOverdueSlot}
    BY <1>1 DEF Slot, Later
  <1>3. CASE remaining(t) <= 0
    <2>1. NextLeg(t) = [kind |-> "slot", left |-> setTimeout(Slot - clock)]
      BY <1>3 DEF NextLeg
    <2>2. setTimeout(Slot - clock) \in {0, Slot - clock} /\ (Slot - clock <= Clamp => setTimeout(Slot - clock) = Slot - clock)
      BY <1>1, <1>2, TimesTyped DEF setTimeout
    <2> QED
      BY <1>1, <1>2, <1>3, <2>1, <2>2 DEF Legs
  <1>4. CASE remaining(t) > 0 /\ remaining(t) <= CHUNK_MS
    <2>1. setTimeout(remaining(t)) = fireAt[t] - clock
      BY <1>1, <1>4, TimesTyped DEF setTimeout
    <2>2. ~(remaining(t) <= 0)
      BY <1>1, <1>4
    <2>3. NextLeg(t) = [kind |-> "last", left |-> fireAt[t] - clock]
      BY <1>4, <2>1, <2>2 DEF NextLeg
    <2> QED
      BY <1>1, <1>2, <1>4, <2>3 DEF Legs
  <1>5. CASE remaining(t) > 0 /\ ~(remaining(t) <= CHUNK_MS)
    <2>1. setTimeout(CHUNK_MS) = CHUNK_MS
      BY TimesTyped DEF setTimeout
    <2>2. ~(remaining(t) <= 0)
      BY <1>1, <1>5
    <2>3. NextLeg(t) = [kind |-> "chunk", left |-> CHUNK_MS]
      BY <1>5, <2>1, <2>2 DEF NextLeg
    <2> QED
      BY <1>1, <1>2, <1>5, <2>3, TimesTyped DEF Legs
  <1> QED
    BY <1>1, <1>3, <1>4, <1>5

(* Where the actions leave a timer's leg and its like.                     *)
LEMMA Rearmed ==
  ASSUME TimersTyped, NEW t \in Timers, arm(t)
  PROVE  /\ leg' \in [Timers -> [kind : Legs, left : Nat]]
         /\ leg'[t] = NextLeg(t) /\ \A u \in Timers : u # t => leg'[u] = leg[u]
         /\ nextOverdueSlot' \in Nat /\ nextOverdueSlot' >= nextOverdueSlot
         /\ remaining(t) <= 0 => nextOverdueSlot' = Slot + OVERDUE_STAGGER_MS
         /\ remaining(t) > 0 => nextOverdueSlot' = nextOverdueSlot
         /\ wentBack' \subseteq Timers
         /\ \A u \in Timers \ wentBack' : u # t => u \notin wentBack
  <1>1. leg' = [leg EXCEPT ![t] = NextLeg(t)] /\ leg \in [Timers -> [kind : Legs, left : Nat]]
    BY DEF arm, TimersTyped
  <1>2. NextLeg(t) \in [kind : Legs, left : Nat] /\ remaining(t) \in Int /\ Slot \in Nat /\ Slot >= nextOverdueSlot
    BY Legged
  <1>3. nextOverdueSlot' = IF remaining(t) <= 0 THEN Slot + OVERDUE_STAGGER_MS ELSE nextOverdueSlot
    BY DEF arm, TakeSlot
  <1>4. nextOverdueSlot \in Nat /\ wentBack \subseteq Timers /\ wentBack' = wentBack \ {t}
    BY DEF TimersTyped, arm
  <1> QED
    BY <1>1, <1>2, <1>3, <1>4, TimesTyped

LEMMA Ended ==
  ASSUME TimersTyped, NEW t \in Timers, NEW kind \in {"fired", "cancelled"},
         leg' = [leg EXCEPT ![t] = NoLeg(kind)]
  PROVE  /\ leg' \in [Timers -> [kind : Legs, left : Nat]]
         /\ leg'[t].kind = kind /\ \A u \in Timers : u # t => leg'[u] = leg[u]
  BY DEF TimersTyped, NoLeg, Legs

LEMMA Ticked ==
  ASSUME TimersTyped, Tick
  PROVE  /\ leg' \in [Timers -> [kind : Legs, left : Nat]]
         /\ \A t \in Timers : leg'[t].kind = leg[t].kind
         /\ \A t \in Armed : leg[t].left > 0 /\ leg'[t].left = leg[t].left - 1
         /\ \A t \in Timers : leg[t].kind \in {"chunk", "slot", "last"} => t \in Armed
         /\ clock' = clock + 1
         /\ gap' = IF gap < OVERDUE_STAGGER_MS THEN gap + 1 ELSE gap
         /\ UNCHANGED <<fireAt, nextOverdueSlot, due, wentBack, jumps>>
  <1>1. leg' = [t \in Timers |-> IF t \in Armed THEN [leg[t] EXCEPT !.left = @ - 1] ELSE leg[t]]
    BY DEF Tick
  <1>2. \A t \in Armed : leg[t].left > 0
    BY DEF Tick
  <1>3. \A t \in Timers : leg[t] \in [kind : Legs, left : Nat]
    BY DEF TimersTyped
  <1>4. ASSUME NEW t \in Timers
        PROVE  /\ leg'[t] \in [kind : Legs, left : Nat]
               /\ leg'[t].kind = leg[t].kind
               /\ t \in Armed => leg'[t].left = leg[t].left - 1
    <2>1. CASE t \in Armed
      <3>1. leg'[t] = [leg[t] EXCEPT !.left = @ - 1] /\ leg[t].left > 0
        BY <1>1, <1>2, <2>1
      <3> QED
        BY <1>3, <3>1
    <2>2. CASE t \notin Armed
      BY <1>1, <1>3, <2>2
    <2> QED
      BY <2>1, <2>2
  <1>5. Armed \subseteq Timers /\ \A t \in Timers : leg[t].kind \in {"chunk", "slot", "last"} => t \in Armed
    BY DEF Armed
  <1> QED
    BY <1>1, <1>2, <1>4, <1>5 DEF Tick

LEMMA Idled ==
  ASSUME TimersTyped, Restart
  PROVE  /\ leg' \in [Timers -> [kind : Legs, left : Nat]]
         /\ \A t \in Timers : leg'[t].kind \in {"idle", "fired", "cancelled"}
  <1>1. leg' = [t \in Timers |-> IF t \in Armed THEN NoLeg("idle") ELSE leg[t]]
    BY DEF Restart
  <1>2. ASSUME NEW t \in Timers
        PROVE  leg'[t] \in [kind : Legs, left : Nat] /\ leg'[t].kind \in {"idle", "fired", "cancelled"}
    <2>1. CASE t \in Armed
      BY <1>1, <2>1 DEF NoLeg, Legs
    <2>2. CASE t \notin Armed
      BY <1>1, <2>2 DEF Armed, TimersTyped, Legs
    <2> QED
      BY <2>1, <2>2
  <1> QED
    BY <1>1, <1>2
LEMMA EarlyStarts == TimersInit => EarlyInv
  <1> SUFFICES ASSUME TimersInit PROVE EarlyInv
    OBVIOUS
  <1>1. fireAt \in [Timers -> Nat]
    BY TimesTyped DEF TimersInit
  <1>2. NoLeg("idle") \in [kind : Legs, left : Nat] /\ NoLeg("idle").kind = "idle"
    BY DEF NoLeg, Legs
  <1>3. leg \in [Timers -> [kind : Legs, left : Nat]] /\ \A t \in Timers : leg[t].kind = "idle"
    BY <1>2 DEF TimersInit
  <1>4. nextOverdueSlot = 0 /\ clock = 0 /\ gap = OVERDUE_STAGGER_MS /\ wentBack = {} /\ jumps = 0
    BY DEF TimersInit
  <1>5. TimersTyped
    BY <1>1, <1>3, <1>4, TimesTyped DEF TimersTyped
  <1> QED
    BY <1>3, <1>5 DEF EarlyInv, Timely

LEMMA EarlyStep == EarlyInv /\ [TimersNext]_TimersVars => EarlyInv'
  <1> SUFFICES ASSUME EarlyInv, [TimersNext]_TimersVars PROVE EarlyInv'
    OBVIOUS
  <1>0. TimersTyped /\ Timely
    BY DEF EarlyInv
  <1>1. CASE UNCHANGED TimersVars
    BY <1>0, <1>1 DEF TimersVars, EarlyInv, TimersTyped, Timely
  <1>2. ASSUME NEW t \in Timers, scheduleIn(t) \/ ChunkWakes(t) PROVE EarlyInv'
    <2>1. arm(t) /\ UNCHANGED <<fireAt, clock, gap, jumps>>
      BY <1>2 DEF scheduleIn, ChunkWakes
    <2>2. TimersTyped'
      BY <1>0, <2>1, Rearmed DEF TimersTyped
    <2>3. ASSUME NEW u \in Timers \ wentBack'
          PROVE  /\ leg'[u].kind = "last" => clock + leg'[u].left >= fireAt[u]
                 /\ leg'[u].kind = "slot" => clock >= fireAt[u]
      <3>1. CASE u = t
        BY <1>0, <2>1, <3>1, Rearmed, Legged DEF TimersTyped
      <3>2. CASE u # t
        BY <1>0, <2>1, <3>2, Rearmed DEF Timely
      <3> QED
        BY <3>1, <3>2
    <2> QED
      BY <2>1, <2>2, <2>3 DEF EarlyInv, Timely
  <1>3. ASSUME NEW t \in Timers, Fires(t) \/ CancelTimer(t) PROVE EarlyInv'
    <2>1. PICK kind \in {"fired", "cancelled"} : leg' = [leg EXCEPT ![t] = NoLeg(kind)]
      BY <1>3 DEF Fires, CancelTimer
    <2>2. /\ UNCHANGED <<fireAt, nextOverdueSlot, clock, wentBack, jumps>>
          /\ gap' \in {0, gap}
      BY <1>3 DEF Fires, CancelTimer
    <2>3. /\ leg' \in [Timers -> [kind : Legs, left : Nat]]
          /\ leg'[t].kind = kind /\ \A u \in Timers : u # t => leg'[u] = leg[u]
      BY <1>0, <2>1, Ended
    <2>4. TimersTyped'
      BY <1>0, <2>2, <2>3, TimesTyped DEF TimersTyped
    <2> QED
      BY <1>0, <2>2, <2>3, <2>4 DEF EarlyInv, Timely
  <1>4. CASE Tick
    <2>1. /\ leg' \in [Timers -> [kind : Legs, left : Nat]]
          /\ \A t \in Timers : leg'[t].kind = leg[t].kind
          /\ \A t \in Timers : leg[t].kind \in {"chunk", "slot", "last"} => leg'[t].left = leg[t].left - 1
          /\ clock' = clock + 1
          /\ gap' = IF gap < OVERDUE_STAGGER_MS THEN gap + 1 ELSE gap
          /\ UNCHANGED <<fireAt, nextOverdueSlot, wentBack, jumps>>
      BY <1>0, <1>4, Ticked
    <2>2. TimersTyped'
      BY <1>0, <2>1, TimesTyped DEF TimersTyped
    <2>3. Timely'
      BY <1>0, <2>1, <2>2 DEF TimersTyped, Timely
    <2> QED
      BY <2>2, <2>3 DEF EarlyInv
  <1>5. CASE Sleep
    <2>1. /\ \E n \in {1, CHUNK_MS} : clock' = clock + n
          /\ jumps' = jumps + 1
          /\ UNCHANGED <<fireAt, leg, nextOverdueSlot, gap, wentBack>>
      BY <1>5 DEF Sleep, Jump
    <2>2. clock' \in Nat /\ clock' > clock
      BY <1>0, <2>1, TimesTyped DEF TimersTyped
    <2>3. TimersTyped'
      BY <1>0, <2>1, <2>2 DEF TimersTyped
    <2>4. Timely'
      BY <1>0, <2>1, <2>2 DEF TimersTyped, Timely
    <2> QED
      BY <2>3, <2>4 DEF EarlyInv
  <1>6. CASE SetBack
    <2>1. /\ clock > 0 /\ clock' = clock - 1 /\ jumps' = jumps + 1 /\ wentBack' = Armed
          /\ UNCHANGED <<fireAt, leg, nextOverdueSlot, gap>>
      BY <1>6 DEF SetBack, Jump
    <2>2. TimersTyped'
      BY <1>0, <2>1 DEF TimersTyped, Armed
    <2>3. Timely'
      BY <2>1 DEF Timely, Armed
    <2> QED
      BY <2>2, <2>3 DEF EarlyInv
  <1>7. CASE Restart
    <2>1. /\ leg' \in [Timers -> [kind : Legs, left : Nat]]
          /\ \A t \in Timers : leg'[t].kind \in {"idle", "fired", "cancelled"}
      BY <1>0, <1>7, Idled
    <2>2. /\ nextOverdueSlot' = 0 /\ gap' = OVERDUE_STAGGER_MS /\ wentBack' = {} /\ jumps' = jumps + 1
          /\ UNCHANGED <<fireAt, clock>>
      BY <1>7 DEF Restart, Jump
    <2>3. TimersTyped'
      BY <1>0, <2>1, <2>2, TimesTyped DEF TimersTyped
    <2> QED
      BY <2>1, <2>3 DEF EarlyInv, Timely
  <1> QED
    BY <1>1, <1>2, <1>3, <1>4, <1>5, <1>6, <1>7 DEF TimersNext

(* A timer that fires has come to the end of its last leg.                 *)
InTime ==
  \A t \in Timers :
    leg[t].kind # "fired" /\ leg'[t].kind = "fired" => clock >= fireAt[t] \/ t \in wentBack

LEMMA OnlyFires ==
  ASSUME EarlyInv, TimersNext, NEW t \in Timers, leg[t].kind # "fired", leg'[t].kind = "fired"
  PROVE  Fires(t)
  <1>0. TimersTyped
    BY DEF EarlyInv
  <1>1. ASSUME NEW u \in Timers, scheduleIn(u) \/ ChunkWakes(u) PROVE FALSE
    <2>1. arm(u)
      BY <1>1 DEF scheduleIn, ChunkWakes
    <2>2. leg'[u] = NextLeg(u) /\ \A w \in Timers : w # u => leg'[w] = leg[w]
      BY <1>0, <2>1, Rearmed
    <2>3. NextLeg(u).kind # "fired"
      BY <1>0, Legged
    <2> QED
      BY <2>2, <2>3
  <1>2. ASSUME NEW u \in Timers, CancelTimer(u) PROVE FALSE
    <2>1. leg' = [leg EXCEPT ![u] = NoLeg("cancelled")]
      BY <1>2 DEF CancelTimer
    <2>2. leg'[u].kind = "cancelled" /\ \A w \in Timers : w # u => leg'[w] = leg[w]
      BY <1>0, <2>1, Ended
    <2> QED
      BY <2>2
  <1>3. ASSUME NEW u \in Timers, Fires(u) PROVE u = t
    <2>1. leg' = [leg EXCEPT ![u] = NoLeg("fired")]
      BY <1>3 DEF Fires
    <2>2. \A w \in Timers : w # u => leg'[w] = leg[w]
      BY <1>0, <2>1, Ended
    <2> QED
      BY <2>2
  <1>4. ~Tick
    BY <1>0, Ticked
  <1>5. ~Sleep /\ ~SetBack
    BY DEF Sleep, SetBack
  <1>6. ASSUME Restart PROVE FALSE
    BY <1>6 DEF Restart, NoLeg
  <1> QED
    BY <1>1, <1>2, <1>3, <1>4, <1>5, <1>6 DEF TimersNext

LEMMA FiresInTime == EarlyInv /\ [TimersNext]_TimersVars => [InTime]_TimersVars
  <1> SUFFICES ASSUME EarlyInv, TimersNext, NEW t \in Timers, leg[t].kind # "fired", leg'[t].kind = "fired",
                      t \notin wentBack
               PROVE  clock >= fireAt[t]
    BY DEF InTime
  <1>1. (leg[t].kind = "last" \/ leg[t].kind = "slot") /\ leg[t].left = 0
    BY OnlyFires DEF Fires, Elapsed
  <1> QED
    BY <1>1 DEF EarlyInv, Timely, TimersTyped
(* The slots of some timers.                                               *)
LEMMA SlotCounts ==
  ASSUME IsFiniteSet(Timers), NEW some \in SUBSET Timers
  PROVE  /\ OVERDUE_STAGGER_MS * Cardinality(some) \in Nat
         /\ \A fewer \in SUBSET some :
              OVERDUE_STAGGER_MS * Cardinality(fewer) <= OVERDUE_STAGGER_MS * Cardinality(some)
         /\ \A t \in Timers \ some :
              /\ OVERDUE_STAGGER_MS * Cardinality(some \cup {t})
                   = OVERDUE_STAGGER_MS * Cardinality(some) + OVERDUE_STAGGER_MS
              /\ OVERDUE_STAGGER_MS * Cardinality(some) <= MaxSlots
  <1>1. IsFiniteSet(some) /\ Cardinality(some) \in Nat /\ Cardinality(Timers) \in Nat
    BY FS_Subset, FS_CardinalityType
  <1>2. OVERDUE_STAGGER_MS \in Nat
    BY TimesTyped
  <1>3. OVERDUE_STAGGER_MS * Cardinality(some) \in Nat
    BY <1>1, <1>2
  <1>4. ASSUME NEW a \in Nat, NEW b \in Nat, a <= b PROVE OVERDUE_STAGGER_MS * a <= OVERDUE_STAGGER_MS * b
    BY <1>2, <1>4
  <1>5. ASSUME NEW fewer \in SUBSET some
        PROVE  OVERDUE_STAGGER_MS * Cardinality(fewer) <= OVERDUE_STAGGER_MS * Cardinality(some)
    <2>1. IsFiniteSet(fewer) /\ Cardinality(fewer) <= Cardinality(some)
      BY <1>1, FS_Subset
    <2>2. Cardinality(fewer) \in Nat
      BY <2>1, FS_CardinalityType
    <2> QED
      BY <1>1, <1>4, <2>1, <2>2
  <1>6. ASSUME NEW t \in Timers \ some
        PROVE  /\ OVERDUE_STAGGER_MS * Cardinality(some \cup {t})
                    = OVERDUE_STAGGER_MS * Cardinality(some) + OVERDUE_STAGGER_MS
               /\ OVERDUE_STAGGER_MS * Cardinality(some) <= MaxSlots
    <2>1. Cardinality(some \cup {t}) = Cardinality(some) + 1
      BY <1>1, FS_AddElement
    <2>2. Cardinality(some \cup {t}) <= Cardinality(Timers)
      BY FS_Subset
    <2>3. OVERDUE_STAGGER_MS * (Cardinality(some) + 1) = OVERDUE_STAGGER_MS * Cardinality(some) + OVERDUE_STAGGER_MS
      BY <1>1, <1>2
    <2>4. Cardinality(Timers) - 1 \in Nat /\ Cardinality(some) <= Cardinality(Timers) - 1
      BY <1>1, <2>1, <2>2
    <2>5. OVERDUE_STAGGER_MS * Cardinality(some) <= OVERDUE_STAGGER_MS * (Cardinality(Timers) - 1)
      BY <1>1, <1>4, <2>4
    <2> QED
      BY <2>1, <2>3, <2>5 DEF MaxSlots
  <1> QED
    BY <1>3, <1>5, <1>6

(* The slots grow by one when an overdue timer is armed and never shrink   *)
(* before a restart.                                                       *)
LEMMA SlotsGrow ==
  ASSUME IsFiniteSet(Timers), TimersTyped
  PROVE  /\ Slots \in Nat
         /\ \A t \in Timers : leg[t].kind \notin {"slot", "fired", "cancelled"} => Slots <= MaxSlots
         /\ Slotted \subseteq Slotted' => Slots' >= Slots /\ Slots' \in Nat
         /\ Slots' \in Nat
         /\ \A t \in Timers \ Slotted : Slotted' = Slotted \cup {t} => Slots' = Slots + OVERDUE_STAGGER_MS
  <1>1. Slotted \in SUBSET Timers /\ Slotted' \in SUBSET Timers
    BY DEF Slotted
  <1>2. Slots \in Nat /\ Slots' \in Nat
    BY <1>1, SlotCounts DEF Slots
  <1>3. Slotted \subseteq Slotted' => Slots' >= Slots
    BY <1>1, <1>2, SlotCounts DEF Slots
  <1>4. \A t \in Timers \ Slotted : Slotted' = Slotted \cup {t} => Slots' = Slots + OVERDUE_STAGGER_MS
    BY <1>1, SlotCounts DEF Slots
  <1>5. \A t \in Timers : leg[t].kind \notin {"slot", "fired", "cancelled"} => Slots <= MaxSlots
    BY <1>1, SlotCounts DEF Slots, Slotted
  <1> QED
    BY <1>2, <1>3, <1>4, <1>5

(* What arming does to the slots.                                          *)
LEMMA SlotsArmed ==
  ASSUME IsFiniteSet(Timers), TimersTyped, NEW t \in Timers, arm(t), leg[t].kind \in {"idle", "chunk"}
  PROVE  /\ Slots \in Nat /\ Slots' \in Nat /\ Slots <= MaxSlots
         /\ remaining(t) <= 0 => Slots' = Slots + OVERDUE_STAGGER_MS
         /\ remaining(t) > 0 => Slots' = Slots
  <1>1. leg'[t] = NextLeg(t) /\ \A u \in Timers : u # t => leg'[u] = leg[u]
    BY Rearmed
  <1>2. CASE remaining(t) <= 0
    <2>1. leg'[t].kind = "slot"
      BY <1>1, <1>2, Legged
    <2>2. Slotted' = Slotted \cup {t} /\ t \in Timers \ Slotted
      BY <1>1, <2>1 DEF Slotted
    <2> QED
      BY <1>2, <2>2, SlotsGrow, Legged
  <1>3. CASE remaining(t) > 0
    <2>1. leg'[t].kind \in {"last", "chunk"}
      BY <1>1, <1>3, Legged
    <2>2. Slotted' = Slotted
      BY <1>1, <2>1 DEF Slotted
    <2>3. Slots' = Slots
      BY <2>2 DEF Slots
    <2> QED
      BY <1>3, <2>3, SlotsGrow, Legged
  <1> QED
    BY <1>2, <1>3, Legged

LEMMA SlotsStart == IsFiniteSet(Timers) /\ TimersInit => SlotsInReach
  <1> SUFFICES ASSUME IsFiniteSet(Timers), TimersInit PROVE SlotsInReach
    OBVIOUS
  <1>1. Slots \in Nat
    BY EarlyStarts, SlotsGrow DEF EarlyInv
  <1> QED
    BY <1>1 DEF TimersInit, SlotsInReach

LEMMA SlotsStep ==
  ASSUME IsFiniteSet(Timers), EarlyInv, SlotsInReach, [TimersNext]_TimersVars
  PROVE  SlotsInReach'
  <1>0. TimersTyped
    BY DEF EarlyInv
  <1>1. /\ nextOverdueSlot \in Nat /\ clock \in Nat /\ jumps \in Nat /\ OVERDUE_STAGGER_MS \in Nat
        /\ Slots \in Nat /\ Slots' \in Nat
    BY <1>0, SlotsGrow, TimesTyped DEF TimersTyped
  <1>a. nextOverdueSlot <= clock + Slots + jumps
    BY DEF SlotsInReach
  <1>2. CASE UNCHANGED TimersVars
    BY <1>2, <1>1 DEF SlotsInReach, TimersVars, Slots, Slotted
  <1>3. ASSUME NEW t \in Timers, scheduleIn(t) \/ ChunkWakes(t) PROVE SlotsInReach'
    <2>1. arm(t) /\ UNCHANGED <<fireAt, clock, gap, jumps>> /\ leg[t].kind \in {"idle", "chunk"}
      BY <1>3 DEF scheduleIn, ChunkWakes, Elapsed
    <2>2. CASE remaining(t) <= 0
      <3>1. nextOverdueSlot' = Slot + OVERDUE_STAGGER_MS /\ Slots' = Slots + OVERDUE_STAGGER_MS
        BY <1>0, <2>1, <2>2, Rearmed, SlotsArmed
      <3> QED
        BY <1>0, <1>1, <2>1, <3>1, Legged DEF SlotsInReach
    <2>3. CASE remaining(t) > 0
      <3>1. nextOverdueSlot' = nextOverdueSlot /\ Slots' = Slots
        BY <1>0, <2>1, <2>3, Rearmed, SlotsArmed
      <3> QED
        BY <1>1, <2>1, <3>1 DEF SlotsInReach
    <2> QED
      BY <1>0, <2>2, <2>3, Legged
  <1>4. ASSUME NEW t \in Timers, Fires(t) \/ CancelTimer(t) PROVE SlotsInReach'
    <2>1. PICK kind \in {"fired", "cancelled"} : leg' = [leg EXCEPT ![t] = NoLeg(kind)]
      BY <1>4 DEF Fires, CancelTimer
    <2>2. leg'[t].kind = kind /\ \A u \in Timers : u # t => leg'[u] = leg[u]
      BY <1>0, <2>1, Ended
    <2>3. UNCHANGED <<nextOverdueSlot, clock, jumps>>
      BY <1>4 DEF Fires, CancelTimer
    <2>4. Slotted \subseteq Slotted'
      BY <2>2 DEF Slotted
    <2>5. Slots' >= Slots
      BY <1>0, <2>4, SlotsGrow
    <2>6. \A k \in Nat : k >= Slots => nextOverdueSlot <= clock + k + jumps
      BY <1>1, <1>a
    <2>7. nextOverdueSlot <= clock + Slots' + jumps
      BY <1>1, <2>5, <2>6
    <2> QED
      BY <2>3, <2>7 DEF SlotsInReach
  <1>5. CASE Tick
    <2>1. Slotted' = Slotted /\ clock' = clock + 1 /\ UNCHANGED <<nextOverdueSlot, jumps>>
      BY <1>0, <1>5, Ticked DEF Slotted
    <2>2. Slots' = Slots
      BY <2>1 DEF Slots
    <2> QED
      BY <1>1, <1>a, <2>1, <2>2 DEF SlotsInReach
  <1>6. CASE Sleep
    <2>1. /\ \E n \in {1, CHUNK_MS} : clock' = clock + n
          /\ jumps' = jumps + 1 /\ UNCHANGED nextOverdueSlot /\ Slotted' = Slotted
      BY <1>6 DEF Sleep, Jump, Slotted
    <2>2. Slots' = Slots /\ clock' \in Nat /\ clock' >= clock
      BY <1>1, <2>1, TimesTyped DEF Slots
    <2> QED
      BY <1>1, <1>a, <2>1, <2>2 DEF SlotsInReach
  <1>7. CASE SetBack
    <2>1. /\ clock > 0 /\ clock' = clock - 1 /\ jumps' = jumps + 1
          /\ UNCHANGED nextOverdueSlot /\ Slotted' = Slotted
      BY <1>7 DEF SetBack, Jump, Slotted
    <2>2. Slots' = Slots
      BY <2>1 DEF Slots
    <2> QED
      BY <1>1, <1>a, <2>1, <2>2 DEF SlotsInReach
  <1>8. CASE Restart
    <2>1. nextOverdueSlot' = 0 /\ clock' = clock /\ jumps' = jumps + 1
      BY <1>8 DEF Restart, Jump
    <2>2. \A k \in Nat : 0 <= clock + k + (jumps + 1)
      BY <1>1
    <2>3. 0 <= clock + Slots' + (jumps + 1)
      BY <1>1, <2>2
    <2> QED
      BY <2>1, <2>3 DEF SlotsInReach
  <1> QED
    BY <1>2, <1>3, <1>4, <1>5, <1>6, <1>7, <1>8 DEF TimersNext
LEMMA SpacedStarts == IsFiniteSet(Timers) /\ TimersInit => SpacedInv
  <1> SUFFICES ASSUME IsFiniteSet(Timers), TimersInit PROVE SpacedInv
    OBVIOUS
  <1>1. EarlyInv /\ SlotsInReach
    BY EarlyStarts, SlotsStart
  <1>2. (\A t \in Timers : leg[t].kind = "idle") /\ gap = OVERDUE_STAGGER_MS
    BY DEF TimersInit, NoLeg
  <1>3. Spaced
    BY <1>2, TimesTyped DEF Spaced
  <1> QED
    BY <1>1, <1>3 DEF SpacedInv

(* An overdue timer gets a slot of its own: a scheduled one the next; one  *)
(* in the middle of its chunks is not overdue.                             *)
LEMMA SpacedArms ==
  ASSUME IsFiniteSet(Timers), MaxSlots <= Clamp, EarlyInv, SlotsInReach, Spaced, jumps = 0,
         NEW t \in Timers, arm(t), leg[t].kind = "idle" \/ Elapsed(t, "chunk"), UNCHANGED <<fireAt, clock, gap>>
  PROVE  Spaced'
  <1>0. /\ TimersTyped /\ \A u \in Timers : leg[u].left \in Nat /\ fireAt[u] \in Nat
        /\ nextOverdueSlot \in Nat /\ clock \in Nat /\ gap \in 0 .. OVERDUE_STAGGER_MS /\ OVERDUE_STAGGER_MS \in Nat
    BY TimesTyped DEF EarlyInv, TimersTyped
  <1>1. leg'[t] = NextLeg(t) /\ \A u \in Timers : u # t => leg'[u] = leg[u]
    BY <1>0, Rearmed
  <1>2. leg[t].kind \in {"idle", "chunk"}
    BY DEF Elapsed
  <1>3. CASE remaining(t) > 0
    <2>1. nextOverdueSlot' = nextOverdueSlot
      BY <1>0, <1>3, Rearmed
    <2>2. leg'[t].kind # "slot" /\ (leg'[t].kind = "chunk" => clock + leg'[t].left < fireAt[t])
      BY <1>0, <1>1, <1>3, Legged
    <2> QED
      BY <1>1, <2>1, <2>2 DEF Spaced
  <1>4. CASE remaining(t) <= 0
    <2>1. leg[t].kind = "idle"
      <3>1. ASSUME leg[t].kind = "chunk" PROVE FALSE
        <4>1. leg[t].left = 0 /\ clock + leg[t].left < fireAt[t]
          BY <3>1 DEF Elapsed, Spaced
        <4> QED
          BY <1>0, <1>4, <4>1 DEF remaining
      <3> QED
        BY <3>1, <1>2
    <2>2. nextOverdueSlot' = Slot + OVERDUE_STAGGER_MS
      BY <1>0, <1>4, Rearmed
    <2>3. Slot \in Nat /\ Slot >= clock /\ Slot >= nextOverdueSlot /\ Slot \in {clock, nextOverdueSlot}
      BY <1>0, Legged
    <2>4. Slots \in Nat /\ Slots <= MaxSlots
      BY <1>0, <1>2, SlotsArmed
    <2>5. Slot - clock <= Slots
      BY <1>0, <2>3, <2>4 DEF SlotsInReach
    <2>6. Slot - clock <= Clamp
      <3>1. MaxSlots \in Int
        BY <1>0, FS_CardinalityType DEF MaxSlots
      <3> QED
        BY <1>0, <2>3, <2>4, <2>5, <3>1, TimesTyped
    <2>7. leg'[t].kind = "slot" /\ leg'[t].left = Slot - clock
      BY <1>0, <1>1, <1>4, <2>6, Legged
    <2>8. gap < OVERDUE_STAGGER_MS => Slot + gap >= clock + OVERDUE_STAGGER_MS
      BY <1>0, <2>3 DEF Spaced
    <2>9. \A u \in Timers : u # t /\ leg[u].kind = "slot" => leg'[t].left >= leg[u].left + OVERDUE_STAGGER_MS
      BY <1>0, <2>3, <2>7 DEF Spaced
    <2>10. \A u \in Timers : u # t /\ leg[u].kind = "slot" =>
             clock + leg[u].left + OVERDUE_STAGGER_MS <= nextOverdueSlot'
      BY <1>0, <2>2, <2>3 DEF Spaced
    <2>11. \A u \in Timers : leg'[u].kind = "chunk" => u # t
      BY <2>7
    <2>12. leg'[t].left + gap >= OVERDUE_STAGGER_MS
      BY <1>0, <2>3, <2>7, <2>8
    <2>13. clock + leg'[t].left + OVERDUE_STAGGER_MS <= nextOverdueSlot'
      BY <1>0, <2>2, <2>3, <2>7
    <2>14. gap < OVERDUE_STAGGER_MS => nextOverdueSlot' + gap >= clock + OVERDUE_STAGGER_MS
      BY <1>0, <2>2, <2>3, <2>8
    <2>15. \A u \in Timers : leg'[u].kind = "slot" => leg'[u].left + gap >= OVERDUE_STAGGER_MS
      BY <1>1, <2>12 DEF Spaced
    <2>16. \A u \in Timers : leg'[u].kind = "slot" => clock + leg'[u].left + OVERDUE_STAGGER_MS <= nextOverdueSlot'
      BY <1>1, <2>10, <2>13
    <2>17. \A u, w \in Timers : u # w /\ leg'[u].kind = "slot" /\ leg'[w].kind = "slot" =>
       leg'[u].left >= leg'[w].left + OVERDUE_STAGGER_MS \/ leg'[w].left >= leg'[u].left + OVERDUE_STAGGER_MS
      BY <1>1, <2>9 DEF Spaced
    <2>18. \A u \in Timers : leg'[u].kind = "chunk" => clock + leg'[u].left < fireAt[u]
      BY <1>1, <2>11 DEF Spaced
    <2> QED
      BY <2>14, <2>15, <2>16, <2>17, <2>18 DEF Spaced
  <1> QED
    BY <1>0, <1>3, <1>4, Legged

LEMMA SpacedStep ==
  ASSUME IsFiniteSet(Timers), MaxSlots <= Clamp, SpacedInv, [TimersNext]_TimersVars
  PROVE  SpacedInv'
  <1>0. /\ EarlyInv /\ SlotsInReach /\ TimersTyped
        /\ \A u \in Timers : leg[u].left \in Nat /\ fireAt[u] \in Nat
        /\ nextOverdueSlot \in Nat /\ clock \in Nat /\ gap \in 0 .. OVERDUE_STAGGER_MS
        /\ OVERDUE_STAGGER_MS \in Nat \ {0} /\ jumps \in Nat
    BY TimesTyped DEF SpacedInv, EarlyInv, TimersTyped
  <1>1. EarlyInv' /\ SlotsInReach'
    BY <1>0, EarlyStep, SlotsStep
  <1> SUFFICES ASSUME jumps' = 0 PROVE Spaced'
    BY <1>1 DEF SpacedInv
  <1>2. jumps = 0 \/ Sleep \/ SetBack \/ Restart
    BY DEF TimersNext, TimersVars, scheduleIn, ChunkWakes, Fires, CancelTimer, Tick
  <1>3. ~Sleep /\ ~SetBack /\ ~Restart
    BY <1>0 DEF Sleep, SetBack, Restart, Jump
  <1>4. Spaced /\ jumps = 0
    BY <1>2, <1>3 DEF SpacedInv
  <1>5. CASE UNCHANGED TimersVars
    BY <1>4, <1>5 DEF TimersVars, Spaced
  <1>6. ASSUME NEW t \in Timers, scheduleIn(t) \/ ChunkWakes(t) PROVE Spaced'
    <2>1. /\ leg[t].kind = "idle" \/ Elapsed(t, "chunk")
          /\ UNCHANGED <<fireAt, clock, gap>>
      BY <1>6 DEF scheduleIn, ChunkWakes
    <2>2. arm(t)
      BY <1>6 DEF scheduleIn, ChunkWakes
    <2> QED
      BY <1>0, <1>4, <2>1, <2>2, SpacedArms
  <1>7. ASSUME NEW t \in Timers, Fires(t) PROVE Spaced'
    <2>1. /\ leg' = [leg EXCEPT ![t] = NoLeg("fired")]
          /\ gap' = IF leg[t].kind = "slot" THEN 0 ELSE gap
          /\ leg[t].left = 0
          /\ UNCHANGED <<fireAt, nextOverdueSlot, clock>>
      BY <1>7 DEF Fires, Elapsed
    <2>2. leg'[t].kind = "fired" /\ \A u \in Timers : u # t => leg'[u] = leg[u]
      BY <1>0, <2>1, Ended
    <2>3. CASE leg[t].kind = "slot"
      <3>1. \A u \in Timers : u # t /\ leg[u].kind = "slot" => leg[u].left >= OVERDUE_STAGGER_MS
        BY <1>0, <1>4, <2>1, <2>3 DEF Spaced
      <3>2. clock + OVERDUE_STAGGER_MS <= nextOverdueSlot
        BY <1>0, <1>4, <2>1, <2>3 DEF Spaced
      <3>3. gap' = 0
        BY <2>1, <2>3
      <3> QED
        BY <1>0, <1>4, <2>1, <2>2, <3>1, <3>2, <3>3 DEF Spaced
    <2>4. CASE leg[t].kind # "slot"
      <3>1. gap' = gap
        BY <2>1, <2>4
      <3> QED
        BY <1>4, <2>1, <2>2, <3>1 DEF Spaced
    <2> QED
      BY <2>3, <2>4
  <1>8. ASSUME NEW t \in Timers, CancelTimer(t) PROVE Spaced'
    <2>1. leg' = [leg EXCEPT ![t] = NoLeg("cancelled")] /\ UNCHANGED <<fireAt, nextOverdueSlot, clock, gap>>
      BY <1>8 DEF CancelTimer
    <2>2. leg'[t].kind = "cancelled" /\ \A u \in Timers : u # t => leg'[u] = leg[u]
      BY <1>0, <2>1, Ended
    <2> QED
      BY <1>4, <2>1, <2>2 DEF Spaced
  <1>9. CASE Tick
    <2>1. /\ \A t \in Timers : leg'[t].kind = leg[t].kind
          /\ \A t \in Timers : leg[t].kind \in {"chunk", "slot"} => leg[t].left > 0 /\ leg'[t].left = leg[t].left - 1
          /\ clock' = clock + 1
          /\ gap' = IF gap < OVERDUE_STAGGER_MS THEN gap + 1 ELSE gap
          /\ UNCHANGED <<fireAt, nextOverdueSlot>>
      BY <1>0, <1>9, Ticked
    <2>2. gap' \in Nat /\ gap' <= OVERDUE_STAGGER_MS /\ (gap' = gap + 1 \/ (gap = OVERDUE_STAGGER_MS /\ gap' = gap))
      <3>1. CASE gap < OVERDUE_STAGGER_MS
        BY <1>0, <2>1, <3>1
      <3>2. CASE gap = OVERDUE_STAGGER_MS
        BY <1>0, <2>1, <3>2
      <3> QED
        BY <1>0, <3>1, <3>2
    <2>3. \A t \in Timers : leg[t].kind = "chunk" => clock' + leg'[t].left < fireAt[t]
      BY <1>0, <1>4, <2>1 DEF Spaced
    <2>4. \A t \in Timers : leg[t].kind = "slot" =>
            /\ clock' + leg'[t].left + OVERDUE_STAGGER_MS <= nextOverdueSlot
            /\ leg'[t].left + gap' >= OVERDUE_STAGGER_MS
      BY <1>0, <1>4, <2>1, <2>2 DEF Spaced
    <2>5. \A t, u \in Timers : t # u /\ leg[t].kind = "slot" /\ leg[u].kind = "slot" =>
       leg'[t].left >= leg'[u].left + OVERDUE_STAGGER_MS \/ leg'[u].left >= leg'[t].left + OVERDUE_STAGGER_MS
      BY <1>0, <1>4, <2>1 DEF Spaced
    <2>6. gap' < OVERDUE_STAGGER_MS => nextOverdueSlot + gap' >= clock' + OVERDUE_STAGGER_MS
      BY <1>0, <1>4, <2>1, <2>2 DEF Spaced
    <2> QED
      BY <2>1, <2>3, <2>4, <2>5, <2>6 DEF Spaced
  <1> QED
    BY <1>3, <1>5, <1>6, <1>7, <1>8, <1>9 DEF TimersNext

(* While the clock keeps time, overdue timers fire a stagger apart.        *)
OneByOne ==
  jumps = 0 =>
    \A t \in Timers : leg[t].kind = "slot" /\ leg'[t].kind = "fired" => gap = OVERDUE_STAGGER_MS

LEMMA FireOneByOne == SpacedInv /\ [TimersNext]_TimersVars => [OneByOne]_TimersVars
  <1> SUFFICES ASSUME SpacedInv, TimersNext, jumps = 0, NEW t \in Timers,
                      leg[t].kind = "slot", leg'[t].kind = "fired"
               PROVE  gap = OVERDUE_STAGGER_MS
    BY DEF OneByOne
  <1>1. EarlyInv /\ Spaced
    BY DEF SpacedInv
  <1>2. leg[t].left = 0
    BY <1>1, OnlyFires DEF Fires, Elapsed
  <1> QED
    BY <1>1, <1>2, TimesTyped DEF Spaced, EarlyInv, TimersTyped
LEMMA WaitStarts == IsFiniteSet(Timers) /\ TimersInit => WaitInv
  <1> SUFFICES ASSUME IsFiniteSet(Timers), TimersInit PROVE WaitInv
    OBVIOUS
  <1>1. EarlyInv /\ SlotsInReach
    BY EarlyStarts, SlotsStart
  <1>2. \A t \in Timers : leg[t].kind = "idle" /\ late[t] = 0
    BY DEF TimersInit, NoLeg
  <1>3. LateTyped
    BY DEF TimersInit, LateTyped
  <1>4. Awaited /\ OnTime
    BY <1>2 DEF Awaited, OnTime
  <1> QED
    BY <1>1, <1>3, <1>4 DEF WaitInv

(* The numbers the bounds are about.                                       *)
LEMMA WaitNumbers ==
  ASSUME IsFiniteSet(Timers), WaitInv
  PROVE  /\ TimersTyped /\ nextOverdueSlot \in Nat /\ clock \in Nat /\ jumps \in Nat
         /\ CHUNK_MS \in Nat \ {0} /\ OVERDUE_STAGGER_MS \in Nat \ {0}
         /\ Slots \in Nat /\ MaxSlots \in Int
         /\ \A t \in Timers : fireAt[t] \in Nat /\ leg[t].left \in Nat /\ due[t] \in Nat /\ late[t] \in Nat
  <1>1. TimersTyped /\ LateTyped
    BY DEF WaitInv, EarlyInv
  <1>2. MaxSlots \in Int
    BY FS_CardinalityType, TimesTyped DEF MaxSlots
  <1> QED
    BY <1>1, <1>2, SlotsGrow, TimesTyped DEF TimersTyped, LateTyped

(* A timer is scheduled: it is not late yet.                               *)
LEMMA WaitSchedules ==
  ASSUME IsFiniteSet(Timers), WaitInv, NEW t \in Timers, scheduleIn(t)
  PROVE  LateTyped' /\ Awaited' /\ (jumps' = 0 => OnTime')
  <1>0. /\ TimersTyped /\ nextOverdueSlot \in Nat /\ clock \in Nat /\ jumps \in Nat
        /\ CHUNK_MS \in Nat \ {0} /\ OVERDUE_STAGGER_MS \in Nat \ {0}
        /\ Slots \in Nat /\ MaxSlots \in Int
        /\ \A u \in Timers : fireAt[u] \in Nat /\ leg[u].left \in Nat /\ due[u] \in Nat /\ late[u] \in Nat
    BY WaitNumbers
  <1>1. /\ arm(t) /\ leg[t].kind = "idle" /\ UNCHANGED <<fireAt, clock, jumps>>
        /\ due' = [due EXCEPT ![t] = Later(fireAt[t], clock)] /\ late' = [late EXCEPT ![t] = 0]
    BY DEF scheduleIn
  <1>2. /\ leg'[t] = NextLeg(t) /\ \A u \in Timers : u # t => leg'[u] = leg[u]
        /\ leg' \in [Timers -> [kind : Legs, left : Nat]]
    BY <1>0, <1>1, Rearmed
  <1>3. /\ due'[t] = Later(fireAt[t], clock) /\ due'[t] \in Nat /\ late'[t] = 0
        /\ \A u \in Timers : u # t => due'[u] = due[u] /\ late'[u] = late[u]
        /\ due' \in [Timers -> Nat] /\ late' \in [Timers -> Nat]
    <2>1. Later(fireAt[t], clock) \in Nat
      BY <1>0 DEF Later
    <2> QED
      BY <1>1, <2>1 DEF WaitInv, LateTyped
  <1>4. Awaited /\ SlotsInReach /\ (jumps = 0 => OnTime)
    BY DEF WaitInv
  <1>5. Slots' \in Nat /\ Slots <= MaxSlots
    BY <1>0, <1>1, SlotsArmed
  <1>6. CASE remaining(t) <= 0
    <2>1. nextOverdueSlot' = Slot + OVERDUE_STAGGER_MS /\ Slots' = Slots + OVERDUE_STAGGER_MS
      BY <1>0, <1>1, <1>6, Rearmed, SlotsArmed
    <2>2. Slot \in Nat /\ Slot >= clock /\ Slot \in {clock, nextOverdueSlot}
      BY <1>0, Legged
    <2>3. leg'[t].kind = "slot" /\ leg'[t].left <= Slot - clock /\ leg'[t].left \in Nat
      BY <1>0, <1>2, <1>6, Legged
    <2>4. leg'[t].left <= MaxSlots + jumps
      BY <1>0, <1>4, <1>5, <2>2, <2>3 DEF SlotsInReach
    <2>5. ASSUME NEW u \in Timers, leg'[u].kind = "chunk"
          PROVE  late'[u] + nextOverdueSlot' <= clock + Slots' + CHUNK_MS + jumps
      <3>1. u # t /\ leg[u].kind = "chunk" /\ late'[u] = late[u]
        BY <1>2, <1>3, <2>3, <2>5
      <3>2. late[u] <= CHUNK_MS + jumps /\ late[u] + nextOverdueSlot <= clock + Slots + CHUNK_MS + jumps
        BY <1>0, <1>4, <3>1 DEF Awaited
      <3>3. late[u] + Slot <= clock + Slots + CHUNK_MS + jumps
        BY <1>0, <2>2, <3>2
      <3> QED
        BY <1>0, <2>1, <2>2, <3>1, <3>3
    <2>6. Awaited'
      BY <1>0, <1>1, <1>2, <1>3, <1>4, <2>3, <2>4, <2>5 DEF Awaited
    <2>7. jumps = 0 => OnTime'
      BY <1>0, <1>1, <1>2, <1>3, <1>4, <2>3, <2>4 DEF OnTime
    <2> QED
      BY <1>1, <1>3, <2>6, <2>7 DEF LateTyped
  <1>7. CASE remaining(t) > 0
    <2>1. nextOverdueSlot' = nextOverdueSlot /\ Slots' = Slots
      BY <1>0, <1>1, <1>7, Rearmed, SlotsArmed
    <2>2. /\ leg'[t].kind \in {"last", "chunk"} /\ leg'[t].left \in Nat /\ leg'[t].left <= CHUNK_MS
          /\ leg'[t].kind = "last" => clock + leg'[t].left = fireAt[t]
          /\ leg'[t].kind = "chunk" => clock + leg'[t].left < fireAt[t]
      BY <1>0, <1>2, <1>7, Legged
    <2>3. due'[t] = fireAt[t]
      BY <1>0, <1>3, <1>7 DEF Later, remaining
    <2>4. nextOverdueSlot <= clock + Slots + CHUNK_MS + jumps
      BY <1>0, <1>4 DEF SlotsInReach
    <2>5. Awaited'
      BY <1>0, <1>1, <1>2, <1>3, <1>4, <2>1, <2>2, <2>3, <2>4 DEF Awaited
    <2>6. jumps = 0 => OnTime'
      BY <1>0, <1>1, <1>2, <1>3, <1>4, <2>2 DEF OnTime
    <2> QED
      BY <1>1, <1>3, <2>5, <2>6 DEF LateTyped
  <1> QED
    BY <1>0, <1>6, <1>7, Legged

(* A chunk ends.  If its timer is not overdue, it was not late, or the     *)
(* clock went back since.                                                  *)
LEMMA WaitRearms ==
  ASSUME IsFiniteSet(Timers), WaitInv, NEW t \in Timers, ChunkWakes(t)
  PROVE  LateTyped' /\ Awaited' /\ (jumps' = 0 => OnTime')
  <1>0. /\ TimersTyped /\ nextOverdueSlot \in Nat /\ clock \in Nat /\ jumps \in Nat
        /\ CHUNK_MS \in Nat \ {0} /\ OVERDUE_STAGGER_MS \in Nat \ {0}
        /\ Slots \in Nat /\ MaxSlots \in Int
        /\ \A u \in Timers : fireAt[u] \in Nat /\ leg[u].left \in Nat /\ due[u] \in Nat /\ late[u] \in Nat
    BY WaitNumbers
  <1>1. /\ arm(t) /\ leg[t].kind = "chunk" /\ leg[t].left = 0
        /\ UNCHANGED <<fireAt, clock, due, late, jumps>>
    BY DEF ChunkWakes, Elapsed
  <1>2. /\ leg'[t] = NextLeg(t) /\ \A u \in Timers : u # t => leg'[u] = leg[u]
        /\ leg' \in [Timers -> [kind : Legs, left : Nat]]
    BY <1>0, <1>1, Rearmed
  <1>3. Awaited /\ SlotsInReach /\ LateTyped /\ (jumps = 0 => OnTime)
    BY DEF WaitInv
  <1>4. Slots' \in Nat /\ Slots <= MaxSlots
    BY <1>0, <1>1, SlotsArmed
  <1>5. /\ due[t] = fireAt[t] /\ late[t] <= CHUNK_MS + jumps
        /\ late[t] > 0 => clock + jumps >= due[t] + late[t]
        /\ late[t] + nextOverdueSlot <= clock + Slots + CHUNK_MS + jumps
        /\ jumps = 0 => late[t] = 0 /\ clock < fireAt[t]
    BY <1>0, <1>1, <1>3 DEF Awaited, OnTime
  <1>6. CASE remaining(t) <= 0
    <2>1. nextOverdueSlot' = Slot + OVERDUE_STAGGER_MS /\ Slots' = Slots + OVERDUE_STAGGER_MS
      BY <1>0, <1>1, <1>6, Rearmed, SlotsArmed
    <2>2. Slot \in Nat /\ Slot >= clock /\ Slot \in {clock, nextOverdueSlot}
      BY <1>0, Legged
    <2>3. leg'[t].kind = "slot" /\ leg'[t].left <= Slot - clock /\ leg'[t].left \in Nat
      BY <1>0, <1>2, <1>6, Legged
    <2>4. late[t] + leg'[t].left <= MaxSlots + CHUNK_MS + jumps
      BY <1>0, <1>4, <1>5, <2>2, <2>3
    <2>5. ASSUME NEW u \in Timers, leg'[u].kind = "chunk"
          PROVE  late[u] + nextOverdueSlot' <= clock + Slots' + CHUNK_MS + jumps
      <3>1. u # t /\ leg[u].kind = "chunk"
        BY <1>2, <2>3, <2>5
      <3>2. late[u] <= CHUNK_MS + jumps /\ late[u] + nextOverdueSlot <= clock + Slots + CHUNK_MS + jumps
        BY <1>0, <1>3, <3>1 DEF Awaited
      <3>3. late[u] + Slot <= clock + Slots + CHUNK_MS + jumps
        BY <1>0, <2>2, <3>2
      <3> QED
        BY <1>0, <2>1, <2>2, <3>1, <3>3
    <2>6. Awaited'
      BY <1>0, <1>1, <1>2, <1>3, <2>3, <2>4, <2>5 DEF Awaited
    <2>7. jumps # 0
      BY <1>0, <1>5, <1>6 DEF remaining
    <2> QED
      BY <1>1, <1>3, <2>6, <2>7 DEF LateTyped
  <1>7. CASE remaining(t) > 0
    <2>1. nextOverdueSlot' = nextOverdueSlot /\ Slots' = Slots
      BY <1>0, <1>1, <1>7, Rearmed, SlotsArmed
    <2>2. /\ leg'[t].kind \in {"last", "chunk"} /\ leg'[t].left \in Nat /\ leg'[t].left <= CHUNK_MS
          /\ leg'[t].kind = "last" => clock + leg'[t].left = fireAt[t]
          /\ leg'[t].kind = "chunk" => clock + leg'[t].left < fireAt[t]
      BY <1>0, <1>2, <1>7, Legged
    <2>3. late[t] <= jumps
      BY <1>0, <1>5, <1>7 DEF remaining
    <2>4. Awaited'
      BY <1>0, <1>1, <1>2, <1>3, <1>5, <2>1, <2>2, <2>3 DEF Awaited
    <2>5. jumps = 0 => OnTime'
      BY <1>0, <1>1, <1>2, <1>3, <1>5, <2>2 DEF OnTime
    <2> QED
      BY <1>1, <1>3, <2>4, <2>5 DEF LateTyped
  <1> QED
    BY <1>0, <1>6, <1>7, Legged

(* A second passes, for the timers that are due a late one.                *)
LEMMA WaitTicks ==
  ASSUME IsFiniteSet(Timers), WaitInv, Tick
  PROVE  LateTyped' /\ Awaited' /\ (jumps' = 0 => OnTime')
  <1>0. /\ TimersTyped /\ nextOverdueSlot \in Nat /\ clock \in Nat /\ jumps \in Nat
        /\ CHUNK_MS \in Nat \ {0} /\ OVERDUE_STAGGER_MS \in Nat \ {0}
        /\ Slots \in Nat /\ MaxSlots \in Int
        /\ \A u \in Timers : fireAt[u] \in Nat /\ leg[u].left \in Nat /\ due[u] \in Nat /\ late[u] \in Nat
    BY WaitNumbers
  <1>1. /\ \A t \in Timers : leg'[t].kind = leg[t].kind
        /\ \A t \in Timers : leg[t].kind \in {"chunk", "slot", "last"} =>
             leg[t].left > 0 /\ leg'[t].left = leg[t].left - 1
        /\ clock' = clock + 1
        /\ UNCHANGED <<fireAt, nextOverdueSlot, due, jumps>>
    BY <1>0, Ticked
  <1>2. /\ late' \in [Timers -> Nat]
        /\ \A t \in Timers : late'[t] = late[t] \/ (late'[t] = late[t] + 1 /\ clock >= due[t])
    BY <1>0 DEF Tick
  <1>3. Awaited /\ LateTyped /\ (jumps = 0 => OnTime)
    BY DEF WaitInv
  <1>4. Slots' = Slots
    BY <1>1 DEF Slots, Slotted
  <1>5. \A t \in Timers : late'[t] > 0 => clock' + jumps >= due[t] + late'[t]
    BY <1>0, <1>1, <1>2, <1>3 DEF Awaited
  <1>6. \A t \in Timers :
          /\ leg[t].kind \in {"chunk", "last"} => due[t] = fireAt[t] /\ late'[t] + leg'[t].left <= CHUNK_MS + jumps
          /\ leg[t].kind = "chunk" => late'[t] + nextOverdueSlot <= clock' + Slots + CHUNK_MS + jumps
          /\ leg[t].kind = "slot" => late'[t] + leg'[t].left <= MaxSlots + CHUNK_MS + jumps
    BY <1>0, <1>1, <1>2, <1>3 DEF Awaited
  <1>7. Awaited'
    BY <1>1, <1>4, <1>5, <1>6 DEF Awaited
  <1>8. ASSUME jumps = 0, NEW t \in Timers
        PROVE  /\ leg[t].kind \in {"chunk", "last"} => late'[t] = 0 /\ clock' + leg'[t].left <= fireAt[t]
               /\ leg[t].kind = "chunk" => clock' + leg'[t].left < fireAt[t]
               /\ leg[t].kind = "slot" => late'[t] + leg'[t].left <= MaxSlots
    <2>1. leg[t].kind \in {"chunk", "last"} => clock < due[t]
      BY <1>0, <1>1, <1>3, <1>8 DEF OnTime, Awaited
    <2> QED
      BY <1>0, <1>1, <1>2, <1>3, <1>8, <2>1 DEF OnTime
  <1>9. jumps = 0 => OnTime'
    BY <1>1, <1>8 DEF OnTime
  <1> QED
    BY <1>1, <1>2, <1>3, <1>7, <1>9 DEF LateTyped
LEMMA WaitStep ==
  ASSUME IsFiniteSet(Timers), WaitInv, [TimersNext]_TimersVars
  PROVE  WaitInv'
  <1>0. /\ TimersTyped /\ nextOverdueSlot \in Nat /\ clock \in Nat /\ jumps \in Nat
        /\ CHUNK_MS \in Nat \ {0} /\ OVERDUE_STAGGER_MS \in Nat \ {0}
        /\ Slots \in Nat /\ MaxSlots \in Int
        /\ \A u \in Timers : fireAt[u] \in Nat /\ leg[u].left \in Nat /\ due[u] \in Nat /\ late[u] \in Nat
    BY WaitNumbers
  <1>a. Awaited /\ SlotsInReach /\ LateTyped /\ (jumps = 0 => OnTime) /\ EarlyInv
    BY DEF WaitInv
  <1>b. EarlyInv' /\ SlotsInReach'
    BY <1>a, EarlyStep, SlotsStep
  <1> SUFFICES LateTyped' /\ Awaited' /\ (jumps' = 0 => OnTime')
    BY <1>b DEF WaitInv
  <1>1. CASE UNCHANGED TimersVars
    BY <1>1, <1>a DEF TimersVars, LateTyped, Awaited, OnTime, Slots, Slotted
  <1>2. ASSUME NEW t \in Timers, scheduleIn(t) PROVE LateTyped' /\ Awaited' /\ (jumps' = 0 => OnTime')
    BY <1>2, WaitSchedules
  <1>3. ASSUME NEW t \in Timers, ChunkWakes(t) PROVE LateTyped' /\ Awaited' /\ (jumps' = 0 => OnTime')
    BY <1>3, WaitRearms
  <1>4. ASSUME NEW t \in Timers, Fires(t) \/ CancelTimer(t) PROVE LateTyped' /\ Awaited' /\ (jumps' = 0 => OnTime')
    <2>1. PICK kind \in {"fired", "cancelled"} : leg' = [leg EXCEPT ![t] = NoLeg(kind)]
      BY <1>4 DEF Fires, CancelTimer
    <2>2. leg'[t].kind = kind /\ \A u \in Timers : u # t => leg'[u] = leg[u]
      BY <1>0, <2>1, Ended
    <2>3. late' = [late EXCEPT ![t] = 0] /\ UNCHANGED <<fireAt, nextOverdueSlot, clock, due, jumps>>
      BY <1>4 DEF Fires, CancelTimer
    <2>4. late' \in [Timers -> Nat] /\ late'[t] = 0 /\ \A u \in Timers : u # t => late'[u] = late[u]
      BY <1>a, <2>3 DEF LateTyped
    <2>5. Slotted \subseteq Slotted'
      BY <2>2 DEF Slotted
    <2>6. Slots' >= Slots /\ Slots' \in Nat
      BY <1>0, <2>5, SlotsGrow
    <2>7. ASSUME NEW u \in Timers, leg[u].kind = "chunk"
          PROVE  late[u] + nextOverdueSlot <= clock + Slots' + CHUNK_MS + jumps
      <3>1. \A k \in Nat : k >= Slots => late[u] + nextOverdueSlot <= clock + k + CHUNK_MS + jumps
        BY <1>0, <1>a, <2>7 DEF Awaited
      <3> QED
        BY <2>6, <3>1
    <2>8. Awaited'
      BY <1>0, <1>a, <2>2, <2>3, <2>4, <2>7 DEF Awaited
    <2>9. jumps = 0 => OnTime'
      BY <1>a, <2>2, <2>3, <2>4 DEF OnTime
    <2> QED
      BY <1>a, <2>3, <2>4, <2>8, <2>9 DEF LateTyped
  <1>5. CASE Tick
    BY <1>5, WaitTicks
  <1>6. CASE Sleep
    <2>1. /\ \E n \in {1, CHUNK_MS} : clock' = clock + n
          /\ jumps' = jumps + 1 /\ UNCHANGED <<fireAt, leg, nextOverdueSlot, due, late>>
      BY <1>6 DEF Sleep, Jump
    <2>2. clock' \in Nat /\ clock' >= clock /\ jumps' \in Nat /\ jumps' >= jumps /\ jumps' # 0
      BY <1>0, <2>1
    <2>3. Slots' = Slots
      BY <2>1 DEF Slots, Slotted
    <2>4. Awaited'
      BY <1>0, <1>a, <2>1, <2>2, <2>3 DEF Awaited
    <2> QED
      BY <1>a, <2>1, <2>2, <2>4 DEF LateTyped
  <1>7. CASE SetBack
    <2>1. /\ clock > 0 /\ clock' = clock - 1 /\ jumps' = jumps + 1
          /\ UNCHANGED <<fireAt, leg, nextOverdueSlot, due, late>>
      BY <1>7 DEF SetBack, Jump
    <2>2. clock' \in Nat /\ jumps' \in Nat /\ jumps' # 0 /\ clock' + jumps' = clock + jumps
      BY <1>0, <2>1
    <2>3. Slots' = Slots
      BY <2>1 DEF Slots, Slotted
    <2>4. Awaited'
      BY <1>0, <1>a, <2>1, <2>2, <2>3 DEF Awaited
    <2> QED
      BY <1>a, <2>1, <2>2, <2>4 DEF LateTyped
  <1>8. CASE Restart
    <2>1. \A t \in Timers : leg'[t].kind \in {"idle", "fired", "cancelled"}
      BY <1>0, <1>8, Idled
    <2>2. jumps' = jumps + 1 /\ UNCHANGED <<fireAt, clock, due, late>>
      BY <1>8 DEF Restart, Jump
    <2>3. Awaited'
      BY <1>0, <1>a, <2>1, <2>2 DEF Awaited
    <2> QED
      BY <1>0, <1>a, <2>2, <2>3 DEF LateTyped
  <1> QED
    BY <1>1, <1>2, <1>3, <1>4, <1>5, <1>6, <1>7, <1>8 DEF TimersNext

(* Nobody waits longer than a chunk and the slots before its own.          *)
LEMMA WaitBounds == IsFiniteSet(Timers) /\ WaitInv => WithinAChunk
  <1> SUFFICES ASSUME IsFiniteSet(Timers), WaitInv, NEW t \in Armed
               PROVE  late[t] <= OVERDUE_STAGGER_MS * (Cardinality(Timers) - 1)
                                   + IF jumps = 0 THEN 0 ELSE CHUNK_MS + jumps
    BY DEF WithinAChunk
  <1>0. /\ jumps \in Nat /\ CHUNK_MS \in Nat \ {0} /\ MaxSlots \in Int
        /\ \A u \in Timers : leg[u].left \in Nat /\ late[u] \in Nat
    BY WaitNumbers
  <1>1. t \in Timers /\ leg[t].kind \in {"chunk", "slot", "last"}
    BY DEF Armed
  <1>2. 0 <= MaxSlots
    <2>1. Cardinality(Timers) \in Nat /\ Cardinality(Timers) # 0
      BY <1>1, FS_CardinalityType, FS_EmptySet
    <2>2. Cardinality(Timers) - 1 \in Nat
      BY <2>1
    <2> QED
      BY <2>2, TimesTyped DEF MaxSlots
  <1>3. CASE jumps = 0
    <2>1. late[t] <= MaxSlots
      BY <1>0, <1>1, <1>2, <1>3 DEF WaitInv, OnTime
    <2> QED
      BY <1>0, <1>1, <1>3, <2>1 DEF MaxSlots
  <1>4. CASE jumps # 0
    <2>1. late[t] <= MaxSlots + (CHUNK_MS + jumps)
      BY <1>0, <1>1, <1>2 DEF WaitInv, Awaited
    <2> QED
      BY <1>4, <2>1 DEF MaxSlots
  <1> QED
    BY <1>3, <1>4
-----------------------------------------------------------------------------
(* Proofs: subscriptions.                                                  *)

LEMMA CountsNothing == ASSUME NEW k \in Nat PROVE Counts(<<>>, k) /\ Len(<<>>) = 0
  BY DEF Counts

LEMMA CountsOn ==
  ASSUME NEW k \in Nat, NEW seq, Counts(seq, k), NEW e, e = k + Len(seq)
  PROVE  /\ Len(seq) \in Nat
         /\ Counts(Append(seq, e), k) /\ Len(Append(seq, e)) = Len(seq) + 1
  <1>1. seq \in Seq(Nat) /\ Len(seq) \in Nat /\ \A i \in 1 .. Len(seq) : seq[i] = k + i - 1
    BY DEF Counts
  <1>2. e \in Nat
    BY <1>1
  <1>3. /\ Append(seq, e) \in Seq(Nat) /\ Len(Append(seq, e)) = Len(seq) + 1
        /\ Append(seq, e)[Len(seq) + 1] = e
        /\ \A i \in 1 .. Len(seq) : Append(seq, e)[i] = seq[i]
    BY <1>1, <1>2
  <1>4. ASSUME NEW i \in 1 .. Len(seq) + 1 PROVE Append(seq, e)[i] = k + i - 1
    BY <1>1, <1>3
  <1> QED
    BY <1>1, <1>3, <1>4 DEF Counts

LEMMA CountsFrom ==
  ASSUME NEW k \in Nat, NEW seq, Counts(seq, k), seq # <<>>
  PROVE  /\ Head(seq) = k /\ Counts(Tail(seq), k + 1)
         /\ Len(seq) \in Nat /\ Len(Tail(seq)) = Len(seq) - 1
  <1>1. seq \in Seq(Nat) /\ Len(seq) \in Nat \ {0} /\ \A i \in 1 .. Len(seq) : seq[i] = k + i - 1
    BY DEF Counts
  <1>2. Head(seq) = seq[1]
    BY <1>1
  <1>3. /\ Tail(seq) \in Seq(Nat) /\ Len(Tail(seq)) = Len(seq) - 1
        /\ \A i \in 1 .. Len(seq) - 1 : Tail(seq)[i] = seq[i + 1]
    BY <1>1
  <1>4. ASSUME NEW i \in 1 .. Len(seq) - 1 PROVE Tail(seq)[i] = (k + 1) + i - 1
    <2>1. i + 1 \in 1 .. Len(seq)
      BY <1>1
    <2>2. seq[i + 1] = k + (i + 1) - 1
      BY <1>1, <2>1
    <2> QED
      BY <1>3, <2>2
  <1> QED
    BY <1>1, <1>2, <1>3, <1>4 DEF Counts
LEMMA SubsStart == SubscriptionsInit => SubsInv
  <1> SUFFICES ASSUME SubscriptionsInit PROVE SubsInv
    OBVIOUS
  <1>1. NoSub \in SubRecords
    BY DEF NoSub, SubRecords
  <1>2. /\ logged = 0 /\ sub = [u \in Subscribers |-> NoSub] /\ got = [u \in Subscribers |-> <<>>]
        /\ first = [u \in Subscribers |-> 0] /\ told = [u \in Subscribers |-> "nothing"]
    BY DEF SubscriptionsInit
  <1>3. SubsTyped
    BY <1>1, <1>2 DEF SubsTyped
  <1>4. ASSUME NEW u \in Subscribers PROVE InOrder(u)
    <2>1. first[u] = 0 /\ told[u] = "nothing" /\ got[u] = <<>> /\ sub[u] = NoSub
      BY <1>2
    <2>2. sub[u].buffer = <<>> /\ ~sub[u].listed /\ ~sub[u].error /\ ~sub[u].waiter
      BY <2>1 DEF NoSub
    <2>3. Counts(got[u], first[u]) /\ Counts(sub[u].buffer, first[u] + Len(got[u]))
      BY <2>1, <2>2, CountsNothing
    <2> QED
      BY <2>1, <2>2, <2>3 DEF InOrder
  <1> QED
    BY <1>3, <1>4 DEF SubsInv

(* The replay of a log.                                                    *)
LEMMA Replays ==
  ASSUME NEW n \in Nat \ {0}, NEW k \in Nat, NEW events, events = [i \in 1 .. k |-> n + i - 1]
  PROVE  /\ Replayed(events) \in SubRecords
         /\ Replayed(events).listed /\ ~Replayed(events).waiter
         /\ Replayed(events).closed => Replayed(events).error
         /\ Replayed(events).error => Replayed(events).closed
         /\ ~Replayed(events).error => Len(Replayed(events).buffer) = k
         /\ Counts(Replayed(events).buffer, n)
  <1>1. events \in Seq(Nat) /\ Len(events) = k
    OBVIOUS
  <1>2. bufferLimit \in Nat /\ \A i \in 1 .. k : events[i] = n + i - 1
    BY LimitAssumption
  <1>3. CASE Len(events) > bufferLimit
    <2> DEFINE head == SubSeq(events, 1, bufferLimit)
    <2>1. head \in Seq(Nat) /\ Len(head) = bufferLimit /\ \A i \in 1 .. bufferLimit : head[i] = events[i]
      BY <1>1, <1>2, <1>3
    <2>2. Replayed(events) = [listed |-> TRUE, buffer |-> head, closed |-> TRUE, error |-> TRUE, waiter |-> FALSE]
      BY <1>3 DEF Replayed, NoSub
    <2> HIDE DEF head
    <2>3. \A i \in 1 .. bufferLimit : i \in 1 .. k
      BY <1>1, <1>2, <1>3
    <2>4. \A i \in 1 .. bufferLimit : head[i] = n + i - 1
      BY <1>2, <2>1, <2>3
    <2>5. Counts(head, n)
      BY <2>1, <2>4 DEF Counts
    <2>6. Replayed(events) \in SubRecords
      <3>1. [listed |-> TRUE, buffer |-> head, closed |-> TRUE, error |-> TRUE, waiter |-> FALSE] \in SubRecords
        BY <2>1, Zenon DEF SubRecords
      <3> QED
        BY <2>2, <3>1
    <2> QED
      BY <2>2, <2>5, <2>6
  <1>4. CASE ~(Len(events) > bufferLimit)
    <2>1. Replayed(events) = [listed |-> TRUE, buffer |-> events, closed |-> FALSE, error |-> FALSE, waiter |-> FALSE]
      BY <1>4 DEF Replayed, NoSub
    <2>2. Counts(events, n)
      BY <1>1, <1>2 DEF Counts
    <2>3. Replayed(events) \in SubRecords
      <3>1. [listed |-> TRUE, buffer |-> events, closed |-> FALSE, error |-> FALSE, waiter |-> FALSE] \in SubRecords
        BY <1>1, Zenon DEF SubRecords
      <3> QED
        BY <2>1, <3>1
    <2> QED
      BY <1>1, <2>1, <2>2, <2>3
  <1> QED
    BY <1>3, <1>4

(* Sums of lengths.                                                        *)
LEMMA Sums ==
  ASSUME NEW k \in Nat, NEW n \in Nat, NEW a \in Nat, NEW b \in Nat
  PROVE  /\ a + b = n + 1 - k => n + 1 = (k + a) + b
         /\ n + 1 = (k + a) + b => a + (b + 1) = (n + 1) + 1 - k /\ (a + 1) + b = (n + 1) + 1 - k
  OBVIOUS

(* An event reaches a listed subscriber.                                   *)
LEMMA Notifies ==
  ASSUME SubsInv, NEW u \in Subscribers, sub[u].listed,
         logged' = logged + 1, sub'[u] = Notified(sub[u], logged'),
         got'[u] = IF sub[u].waiter THEN Append(got[u], logged') ELSE got[u],
         first'[u] = first[u], told'[u] = told[u]
  PROVE  sub'[u] \in SubRecords /\ got'[u] \in Seq(Nat) /\ InOrder(u)'
  <1> DEFINE x == sub[u]
  <1>1. /\ InOrder(u) /\ logged \in Nat /\ first[u] \in Nat /\ bufferLimit \in Nat \ {0}
        /\ x \in SubRecords /\ got[u] \in Seq(Nat)
    BY LimitAssumption DEF SubsInv, SubsTyped
  <1>2. x.buffer \in Seq(Nat) /\ x.closed \in BOOLEAN /\ x.error \in BOOLEAN /\ x.waiter \in BOOLEAN
    BY <1>1 DEF SubRecords
  <1>3. first[u] # 0 /\ told[u] = "nothing"
    BY <1>1 DEF InOrder
  <1>4. /\ Counts(got[u], first[u]) /\ Counts(x.buffer, first[u] + Len(got[u]))
        /\ x.error => x.closed
        /\ x.waiter => x.buffer = <<>> /\ ~x.closed /\ ~x.error
        /\ x.closed => x.error
        /\ ~x.error => Len(got[u]) + Len(x.buffer) = logged + 1 - first[u]
    BY <1>1, <1>3 DEF InOrder
  <1>5. Len(got[u]) \in Nat /\ Len(x.buffer) \in Nat /\ first[u] \in Nat /\ logged \in Nat
    BY <1>1, <1>2
  <1>6. CASE x.closed
    <2>1. sub'[u] = x /\ got'[u] = got[u] /\ x.error
      BY <1>4, <1>6 DEF Notified
    <2>2. ~x.waiter
      BY <1>4, <1>6
    <2> QED
      BY <1>1, <1>3, <1>4, <1>6, <2>1, <2>2 DEF InOrder
  <1>7. CASE ~x.closed /\ Full(x)
    <2>1. sub'[u] = [x EXCEPT !.error = TRUE, !.closed = TRUE, !.waiter = FALSE]
      BY <1>7 DEF Notified, Overrun
    <2>2. ~x.waiter
      BY <1>1, <1>4, <1>7, CountsNothing DEF Full
    <2>3. got'[u] = got[u]
      BY <2>2
    <2>4. /\ sub'[u].buffer = x.buffer /\ sub'[u].listed = x.listed
          /\ sub'[u].error /\ sub'[u].closed /\ ~sub'[u].waiter
      BY <1>1, <2>1 DEF SubRecords
    <2>5. sub'[u] \in SubRecords
      BY <1>1, <2>1 DEF SubRecords
    <2> QED
      BY <1>1, <1>3, <1>4, <2>3, <2>4, <2>5 DEF InOrder
  <1>8. CASE ~x.closed /\ ~Full(x) /\ x.waiter
    <2>1. sub'[u] = [x EXCEPT !.waiter = FALSE] /\ got'[u] = Append(got[u], logged + 1)
      BY <1>8 DEF Notified
    <2>2. /\ sub'[u].buffer = <<>> /\ sub'[u].listed
          /\ ~sub'[u].closed /\ ~sub'[u].waiter /\ ~sub'[u].error
      BY <1>1, <1>4, <1>8, <2>1 DEF SubRecords
    <2>3. sub'[u] \in SubRecords
      BY <1>1, <2>1 DEF SubRecords
    <2>a. Len(got[u]) + Len(x.buffer) = logged + 1 - first[u] /\ Len(x.buffer) = 0
      BY <1>4, <1>8, CountsNothing
    <2>4. logged + 1 = first[u] + Len(got[u]) /\ Len(x.buffer) = 0
      BY <1>1, <1>5, <2>a
    <2>5. Counts(got'[u], first[u]) /\ Len(got'[u]) = Len(got[u]) + 1
      BY <1>1, <1>4, <2>1, <2>4, CountsOn
    <2>6. Counts(<<>>, first[u] + Len(got'[u])) /\ Len(<<>>) = 0
      <3>1. first[u] + Len(got'[u]) \in Nat
        BY <1>1, <1>5, <2>5
      <3> QED
        BY <3>1, CountsNothing
    <2>7. Len(got'[u]) + Len(sub'[u].buffer) = logged' + 1 - first[u]
      <3>1. Len(sub'[u].buffer) = Len(x.buffer) /\ Len(got'[u]) = Len(got[u]) + 1
        BY <2>2, <2>4, <2>5, <2>6
      <3>2. (Len(got[u]) + 1) + Len(x.buffer) = (logged + 1) + 1 - first[u]
        BY <1>5, <2>a, Sums
      <3> QED
        BY <3>1, <3>2
    <2>8. got'[u] \in Seq(Nat)
      BY <2>5 DEF Counts
    <2> QED
      BY <1>3, <2>2, <2>3, <2>5, <2>6, <2>7, <2>8 DEF InOrder
  <1>9. CASE ~x.closed /\ ~Full(x) /\ ~x.waiter
    <2>1. sub'[u] = [x EXCEPT !.buffer = Append(@, logged + 1)] /\ got'[u] = got[u]
      BY <1>9 DEF Notified
    <2>a. Len(got[u]) + Len(x.buffer) = logged + 1 - first[u]
      BY <1>4, <1>9
    <2>b. ~x.error
      BY <1>4, <1>9
    <2> DEFINE given == Len(got[u])
               kept == Len(x.buffer)
    <2>c. given \in Nat /\ kept \in Nat /\ first[u] \in Nat /\ logged \in Nat
      BY <1>5
    <2>d. given + kept = logged + 1 - first[u]
      BY <2>a
    <2>2. logged + 1 = (first[u] + given) + kept
      <3> HIDE DEF given, kept
      <3> QED
        BY <2>c, <2>d
    <2>3. first[u] + Len(got[u]) \in Nat
      BY <1>1, <1>5
    <2>4. /\ Counts(Append(x.buffer, logged + 1), first[u] + Len(got[u]))
          /\ Len(Append(x.buffer, logged + 1)) = Len(x.buffer) + 1
      BY <1>4, <2>2, <2>3, CountsOn
    <2>5. Append(x.buffer, logged + 1) \in Seq(Nat)
      BY <2>4 DEF Counts
    <2> DEFINE more == Append(x.buffer, logged + 1)
    <2>6. sub'[u] = [x EXCEPT !.buffer = more]
      BY <2>1
    <2> HIDE DEF more
    <2>7. /\ sub'[u].buffer = more /\ sub'[u].listed
          /\ ~sub'[u].closed /\ ~sub'[u].waiter /\ ~sub'[u].error
      BY <1>1, <1>9, <2>b, <2>6 DEF SubRecords
    <2>8. sub'[u] \in SubRecords
      BY <1>1, <2>5, <2>6 DEF SubRecords, more
    <2>9. Len(got[u]) + Len(more) = logged' + 1 - first[u]
      <3>1. Len(more) = Len(x.buffer) + 1
        BY <2>4 DEF more
      <3>2. given + (kept + 1) = (logged + 1) + 1 - first[u]
        <4> HIDE DEF given, kept
        <4> QED
          BY <2>c, <2>2
      <3> QED
        BY <3>1, <3>2
    <2>10. Counts(more, first[u] + Len(got[u]))
      BY <2>4 DEF more
    <2> QED
      BY <1>1, <1>3, <1>4, <2>1, <2>7, <2>8, <2>9, <2>10 DEF InOrder
  <1> QED
    BY <1>6, <1>7, <1>8, <1>9
LEMMA SubsStep == SubsInv /\ [SubscriptionsNext]_SubscriptionsVars => SubsInv'
  <1> SUFFICES ASSUME SubsInv, [SubscriptionsNext]_SubscriptionsVars PROVE SubsInv'
    OBVIOUS
  <1>0. /\ SubsTyped /\ \A u \in Subscribers : InOrder(u)
        /\ \A u \in Subscribers : first[u] \in Nat /\ sub[u] \in SubRecords /\ got[u] \in Seq(Nat)
    BY DEF SubsInv, SubsTyped
  <1>1. CASE UNCHANGED SubscriptionsVars
    BY <1>0, <1>1 DEF SubscriptionsVars, SubsInv, SubsTyped, InOrder
  (* One subscriber's records change; the others keep theirs.              *)
  <1>2. ASSUME NEW u \in Subscribers, UNCHANGED logged, SubsTyped', InOrder(u)',
               \A v \in Subscribers : v # u =>
                 sub'[v] = sub[v] /\ got'[v] = got[v] /\ first'[v] = first[v] /\ told'[v] = told[v]
        PROVE  SubsInv'
    BY <1>0, <1>2 DEF SubsInv, InOrder
  <1>3. CASE notify
    <2>1. /\ logged' = logged + 1
          /\ sub' = [u \in Subscribers |-> IF sub[u].listed THEN Notified(sub[u], logged') ELSE sub[u]]
          /\ got' = [u \in Subscribers |->
               IF sub[u].listed /\ sub[u].waiter THEN Append(got[u], logged') ELSE got[u]]
          /\ UNCHANGED <<first, told>>
      BY <1>3 DEF notify
    <2>2. ASSUME NEW u \in Subscribers PROVE sub'[u] \in SubRecords /\ got'[u] \in Seq(Nat) /\ InOrder(u)'
      <3>1. CASE sub[u].listed
        BY <2>1, <3>1, Notifies
      <3>2. CASE ~sub[u].listed
        <4>1. sub'[u] = sub[u] /\ got'[u] = got[u] /\ first'[u] = first[u] /\ told'[u] = told[u]
          BY <2>1, <3>2
        <4> QED
          BY <1>0, <3>2, <4>1 DEF InOrder
      <3> QED
        BY <3>1, <3>2
    <2>3. SubsTyped'
      BY <1>0, <2>1, <2>2 DEF SubsTyped
    <2> QED
      BY <2>2, <2>3 DEF SubsInv
  <1>4. ASSUME NEW u \in Subscribers, NEW n \in 1 .. MaxEvents + 1, subscribe(u, n) PROVE SubsInv'
    <2> DEFINE events == [i \in 1 .. logged + 1 - n |-> n + i - 1]
    <2>1. /\ first[u] = 0 /\ n <= logged + 1 /\ n \in Nat \ {0} /\ logged \in Nat
          /\ first' = [first EXCEPT ![u] = n] /\ sub' = [sub EXCEPT ![u] = Replayed(events)]
          /\ UNCHANGED <<logged, got, told>>
      BY <1>0, <1>4 DEF subscribe, SubsTyped
    <2>2. logged + 1 - n \in Nat
      BY <2>1
    <2>3. /\ Replayed(events) \in SubRecords
          /\ Replayed(events).listed /\ ~Replayed(events).waiter
          /\ Replayed(events).closed => Replayed(events).error
          /\ Replayed(events).error => Replayed(events).closed
          /\ ~Replayed(events).error => Len(Replayed(events).buffer) = logged + 1 - n
          /\ Counts(Replayed(events).buffer, n)
      BY <2>1, <2>2, Replays
    <2> HIDE DEF events
    <2>4. sub'[u] = Replayed(events) /\ first'[u] = n
      BY <1>0, <2>1 DEF SubsTyped
    <2>5. got[u] = <<>> /\ told[u] = "nothing"
      BY <1>0, <2>1 DEF InOrder
    <2>6. Counts(got[u], n) /\ Len(got[u]) = 0 /\ n + Len(got[u]) = n
      BY <2>1, <2>5, CountsNothing
    <2>7. ~sub'[u].error => Len(got[u]) + Len(sub'[u].buffer) = logged + 1 - n
      <3>1. ASSUME ~sub'[u].error PROVE Len(got[u]) + Len(sub'[u].buffer) = logged + 1 - n
        <4>1. Len(sub'[u].buffer) = logged + 1 - n
          BY <2>3, <2>4, <3>1
        <4> QED
          BY <2>2, <2>6, <4>1
      <3> QED
        BY <3>1
    <2>8. InOrder(u)'
      BY <2>1, <2>3, <2>4, <2>5, <2>6, <2>7 DEF InOrder
    <2>9. SubsTyped'
      BY <1>0, <2>1, <2>3 DEF SubsTyped
    <2>10. \A v \in Subscribers : v # u =>
             sub'[v] = sub[v] /\ got'[v] = got[v] /\ first'[v] = first[v] /\ told'[v] = told[v]
      BY <1>0, <2>1 DEF SubsTyped
    <2> QED
      BY <1>2, <2>1, <2>8, <2>9, <2>10
  <1>5. ASSUME NEW x \in SubRecords
        PROVE  /\ closeNow(x) \in SubRecords /\ closeNow(x).closed /\ ~closeNow(x).listed
               /\ ~closeNow(x).waiter /\ ~closeNow(x).error /\ closeNow(x).buffer = x.buffer
    BY DEF closeNow, SubRecords
  <1>6. ASSUME NEW u \in Subscribers, abort(u) PROVE SubsInv'
    <2>1. /\ first[u] # 0
          /\ sub' = [sub EXCEPT ![u] = closeNow(sub[u])] /\ told' = [told EXCEPT ![u] = "aborted"]
          /\ UNCHANGED <<logged, got, first>>
      BY <1>6 DEF abort
    <2>2. sub'[u] = closeNow(sub[u]) /\ told'[u] = "aborted" /\ SubsTyped'
      BY <1>0, <1>5, <2>1 DEF SubsTyped
    <2>a. sub'[u].closed /\ ~sub'[u].listed /\ ~sub'[u].waiter /\ ~sub'[u].error /\ sub'[u].buffer = sub[u].buffer
      BY <1>0, <1>5, <2>2
    <2>b. /\ Counts(got[u], first[u]) /\ Counts(sub[u].buffer, first[u] + Len(got[u]))
          /\ got'[u] = got[u] /\ first'[u] = first[u]
      BY <1>0, <2>1 DEF InOrder
    <2>3. InOrder(u)'
      BY <2>1, <2>2, <2>a, <2>b DEF InOrder
    <2>4. \A v \in Subscribers : v # u =>
             sub'[v] = sub[v] /\ got'[v] = got[v] /\ first'[v] = first[v] /\ told'[v] = told[v]
      BY <1>0, <2>1 DEF SubsTyped
    <2> QED
      BY <1>2, <2>1, <2>2, <2>3, <2>4
  <1>7. ASSUME NEW u \in Subscribers, next(u) PROVE SubsInv'
    <2> DEFINE x == sub[u]
    <2>1. first[u] # 0 /\ ~x.waiter /\ told[u] = "nothing" /\ UNCHANGED <<logged, first>>
      BY <1>7 DEF next
    <2>2. CASE x.error
      <3>1. told' = [told EXCEPT ![u] = "threw"] /\ sub' = [sub EXCEPT ![u] = closeNow(x)] /\ UNCHANGED got
        BY <1>7, <2>2 DEF next
      <3>2. sub'[u] = closeNow(x) /\ told'[u] = "threw" /\ SubsTyped'
        BY <1>0, <1>5, <2>1, <3>1 DEF SubsTyped
      <3>a. sub'[u].closed /\ ~sub'[u].listed /\ ~sub'[u].waiter /\ ~sub'[u].error /\ sub'[u].buffer = sub[u].buffer
        BY <1>0, <1>5, <3>2
      <3>b. /\ Counts(got[u], first[u]) /\ Counts(sub[u].buffer, first[u] + Len(got[u]))
            /\ got'[u] = got[u] /\ first'[u] = first[u]
        BY <1>0, <2>1, <3>1 DEF InOrder
      <3>3. InOrder(u)'
        BY <2>1, <3>2, <3>a, <3>b DEF InOrder
      <3>4. \A v \in Subscribers : v # u =>
               sub'[v] = sub[v] /\ got'[v] = got[v] /\ first'[v] = first[v] /\ told'[v] = told[v]
        BY <1>0, <2>1, <3>1 DEF SubsTyped
      <3> QED
        BY <1>2, <2>1, <3>2, <3>3, <3>4
    <2>3. CASE ~x.error /\ x.buffer # <<>>
      <3>1. /\ got' = [got EXCEPT ![u] = Append(got[u], Head(x.buffer))]
            /\ sub' = [sub EXCEPT ![u] = [x EXCEPT !.buffer = Tail(x.buffer)]]
            /\ UNCHANGED told
        BY <1>7, <2>3 DEF next
      <3> DEFINE given == Len(got[u])
                 kept == Len(x.buffer)
      <3>2. /\ Counts(got[u], first[u]) /\ Counts(x.buffer, first[u] + given)
            /\ x.listed /\ (x.closed => x.error)
        BY <1>0, <2>1 DEF InOrder
      <3>3. given + kept = logged + 1 - first[u]
        BY <1>0, <2>1, <2>3 DEF InOrder
      <3>4. given \in Nat /\ kept \in Nat /\ first[u] \in Nat /\ logged \in Nat
        BY <1>0, <3>2 DEF Counts, SubsTyped
      <3>5. first[u] + given \in Nat
        <4> HIDE DEF given
        <4> QED
          BY <3>4
      <3>6. /\ Head(x.buffer) = first[u] + given /\ Counts(Tail(x.buffer), (first[u] + given) + 1)
            /\ Len(Tail(x.buffer)) = kept - 1
        BY <2>3, <3>2, <3>5, CountsFrom
      <3>7. /\ Counts(Append(got[u], Head(x.buffer)), first[u])
            /\ Len(Append(got[u], Head(x.buffer))) = given + 1
        BY <3>2, <3>4, <3>6, CountsOn
      <3> DEFINE more == Append(got[u], Head(x.buffer))
                 rest == Tail(x.buffer)
      <3>8. more \in Seq(Nat) /\ rest \in Seq(Nat)
        BY <3>6, <3>7 DEF Counts
      <3>9. /\ got' = [got EXCEPT ![u] = more] /\ sub' = [sub EXCEPT ![u] = [x EXCEPT !.buffer = rest]]
            /\ Counts(more, first[u]) /\ Len(more) = given + 1
            /\ Counts(rest, (first[u] + given) + 1) /\ Len(rest) = kept - 1
        BY <3>1, <3>6, <3>7
      <3> HIDE DEF more, rest
      <3>10. /\ sub'[u].buffer = rest /\ sub'[u].listed = x.listed /\ sub'[u].closed = x.closed
             /\ sub'[u].error = x.error /\ sub'[u].waiter = x.waiter
        BY <1>0, <3>9 DEF SubsTyped, SubRecords
      <3>11. [x EXCEPT !.buffer = rest] \in SubRecords
        BY <1>0, <3>8 DEF SubRecords
      <3>12. SubsTyped' /\ got'[u] = more
        BY <1>0, <2>1, <3>1, <3>8, <3>9, <3>11 DEF SubsTyped
      <3>13. first[u] + (given + 1) = (first[u] + given) + 1 /\ (given + 1) + (kept - 1) = logged + 1 - first[u]
        <4> HIDE DEF given, kept
        <4> QED
          BY <3>3, <3>4
      <3>14. Counts(rest, first[u] + Len(more)) /\ Len(more) + Len(rest) = logged + 1 - first[u]
        BY <3>9, <3>13
      <3>15. InOrder(u)'
        BY <2>1, <2>3, <3>1, <3>2, <3>9, <3>10, <3>12, <3>14 DEF InOrder
      <3>16. \A v \in Subscribers : v # u =>
               sub'[v] = sub[v] /\ got'[v] = got[v] /\ first'[v] = first[v] /\ told'[v] = told[v]
        BY <1>0, <2>1, <3>1 DEF SubsTyped
      <3> QED
        BY <1>2, <2>1, <3>12, <3>15, <3>16
    <2>4. CASE ~x.error /\ x.buffer = <<>>
      <3>1. ~x.closed /\ sub' = [sub EXCEPT ![u].waiter = TRUE] /\ UNCHANGED <<got, told>>
        BY <1>7, <2>4 DEF next
      <3>2. /\ sub'[u].buffer = x.buffer /\ sub'[u].listed = x.listed /\ sub'[u].closed = x.closed
            /\ sub'[u].error = x.error /\ sub'[u].waiter
        BY <1>0, <3>1 DEF SubsTyped, SubRecords
      <3>3. SubsTyped'
        <4>1. [x EXCEPT !.waiter = TRUE] \in SubRecords
          BY <1>0 DEF SubRecords
        <4> QED
          BY <1>0, <2>1, <3>1, <4>1 DEF SubsTyped
      <3>4. InOrder(u)'
        BY <1>0, <2>1, <2>4, <3>1, <3>2 DEF InOrder
      <3>5. \A v \in Subscribers : v # u =>
               sub'[v] = sub[v] /\ got'[v] = got[v] /\ first'[v] = first[v] /\ told'[v] = told[v]
        BY <1>0, <2>1, <3>1 DEF SubsTyped
      <3> QED
        BY <1>2, <2>1, <3>3, <3>4, <3>5
    <2> QED
      BY <2>2, <2>3, <2>4
  <1> QED
    BY <1>1, <1>3, <1>4, <1>6, <1>7 DEF SubscriptionsNext

LEMMA NothingLost == SubsInv => LossIsLoud
  <1> SUFFICES ASSUME SubsInv, NEW u \in Subscribers
               PROVE  LET seen == got[u] \o sub[u].buffer IN
                      /\ \A i \in 1 .. Len(seen) : seen[i] = first[u] + i - 1
                      /\ first[u] # 0 /\ told[u] = "nothing" /\ ~sub[u].error =>
                           Len(seen) = logged + 1 - first[u]
    BY DEF LossIsLoud
  <1> DEFINE handed == got[u]
             buffered == sub[u].buffer
             from == first[u]
  <1>1. InOrder(u) /\ from \in Nat
    BY DEF SubsInv, SubsTyped
  <1>2. /\ Counts(handed, from) /\ Counts(buffered, from + Len(handed))
        /\ from # 0 /\ told[u] = "nothing" /\ ~sub[u].error => Len(handed) + Len(buffered) = logged + 1 - from
    BY <1>1 DEF InOrder
  <1> HIDE DEF handed, buffered, from
  <1>3. handed \in Seq(Nat) /\ buffered \in Seq(Nat) /\ Len(handed) \in Nat /\ Len(buffered) \in Nat
    BY <1>2 DEF Counts
  <1>4. Len(handed \o buffered) = Len(handed) + Len(buffered)
    BY <1>3
  <1>5. ASSUME NEW i \in 1 .. Len(handed \o buffered) PROVE (handed \o buffered)[i] = from + i - 1
    <2>1. CASE i <= Len(handed)
      <3>1. (handed \o buffered)[i] = handed[i] /\ i \in 1 .. Len(handed)
        BY <1>3, <1>4, <2>1
      <3> QED
        BY <1>2, <3>1 DEF Counts
    <2>2. CASE i > Len(handed)
      <3>1. (handed \o buffered)[i] = buffered[i - Len(handed)] /\ i - Len(handed) \in 1 .. Len(buffered)
        BY <1>3, <1>4, <2>2
      <3>2. buffered[i - Len(handed)] = (from + Len(handed)) + (i - Len(handed)) - 1
        BY <1>2, <3>1 DEF Counts
      <3>3. (from + Len(handed)) + (i - Len(handed)) - 1 = from + i - 1
        BY <1>1, <1>3
      <3> QED
        BY <3>1, <3>2, <3>3
    <2> QED
      BY <1>3, <2>1, <2>2
  <1> QED
    BY <1>2, <1>4, <1>5 DEF handed, buffered, from
-----------------------------------------------------------------------------
(* Proofs: chat, standing runs and delivered messages.                     *)

LEMMA StandingStart == ChatInit => StandingInv
  <1> SUFFICES ASSUME ChatInit PROVE StandingInv
    OBVIOUS
  <1>1. /\ run = [r \in Runs |-> NoRun] /\ sending = [m \in Messages |-> Unsent]
        /\ chatInbox = {} /\ resuming = {} /\ collector = FALSE
    BY DEF ChatInit
  <1>2. \A r \in Runs : run[r] = NoRun
    BY <1>1
  <1>3. \A m \in Messages : sending[m].at = "unsent"
    BY <1>1 DEF Unsent
  <1>4. RunsTell
    BY <1>1, <1>2 DEF RunsTell, RunTells, NoRun
  <1>5. InboxTells /\ OnePerChannel /\ NotStranded
    BY <1>1, <1>3 DEF InboxTells, OnePerChannel, NotStranded
  <1>6. OneSender
    BY <1>3 DEF OneSender, InTheAir
  <1>7. OneLive
    BY <1>2 DEF OneLive, Live, NoRun
  <1> QED
    BY <1>4, <1>5, <1>6, <1>7, EnginesStart DEF StandingInv

(* The fields of the records.                                              *)
LEMMA ChatFields ==
  ASSUME ChatTyped
  PROVE  /\ \A r \in Runs : /\ run[r] \in RunRecords
                            /\ run[r].channel \in Nat /\ run[r].driven \in BOOLEAN
                            /\ run[r].message \in Messages \cup {Nobody}
                            /\ run[r].phase \in {"none", "turn", "recorded", "parked", "ended"}
                            /\ run[r].log \in {"none", "running", "parked", "ended"}
         /\ \A m \in Messages : sending[m].run \in Runs \cup {Nobody} /\ AgentOf[m] \in Agents
         /\ \A x \in chatInbox : /\ x.message \in Messages /\ x.run \in Runs /\ x.channel \in Nat
                                 /\ x = [message |-> x.message, run |-> x.run, channel |-> x.channel]
                                 /\ AgentOf[x.message] \in Agents
  <1>1. \A r \in Runs : run[r] \in RunRecords
    BY DEF ChatTyped
  <1>2. \A m \in Messages : sending[m] \in SendRecords /\ AgentOf[m] \in Agents
    BY DEF ChatTyped, Agents
  <1>3. \A x \in chatInbox : x \in [message : Messages, run : Runs, channel : Nat]
    BY DEF ChatTyped
  <1>4. \A m \in Messages : sending[m].run \in Runs \cup {Nobody}
    BY <1>2 DEF SendRecords
  <1>5. \A r \in Runs : /\ run[r].channel \in Nat /\ run[r].driven \in BOOLEAN
                        /\ run[r].message \in Messages \cup {Nobody}
                        /\ run[r].phase \in {"none", "turn", "recorded", "parked", "ended"}
                        /\ run[r].log \in {"none", "running", "parked", "ended"}
    BY <1>1 DEF RunRecords
  <1>6. \A x \in chatInbox : /\ x.message \in Messages /\ x.run \in Runs /\ x.channel \in Nat
                             /\ x = [message |-> x.message, run |-> x.run, channel |-> x.channel]
    BY <1>3
  <1> QED
    BY <1>1, <1>2, <1>4, <1>5, <1>6

(* A run takes a step that brings no run to life and unsettles none.       *)
LEMMA RunMoves ==
  ASSUME ChatTyped, InboxTells, OneSender, OneLive, OnePerChannel,
         UNCHANGED <<chatInbox, sending, raced, resuming>>,
         NEW r \in Runs, \A q \in Runs : q # r => run'[q] = run[q],
         run'[r].agent = run[r].agent,
         run[r].phase # "none" => run'[r].phase # "none",
         run[r].log # "none" => run'[r].log # "none",
         run'[r].driven \/ run'[r].log \in {"running", "parked"} =>
           run[r].driven \/ run[r].log \in {"running", "parked"},
         run'[r].channel \in Nat, run[r].channel <= run'[r].channel,
         Settled(r) => Settled(r)'
  PROVE  InboxTells' /\ OneSender' /\ OneLive' /\ OnePerChannel'
  <1>1. \A q \in Runs : run[q].channel \in Nat
    BY ChatFields
  <1>2. \A x \in chatInbox : x.message \in Messages /\ x.run \in Runs /\ x.channel \in Nat
    BY ChatFields
  <1>3. \A q \in Runs : run'[q].agent = run[q].agent
    OBVIOUS
  <1>4. \A q \in Runs, a \in Agents : Live(q, a)' => Live(q, a)
    BY <1>3 DEF Live
  <1>5. \A q \in Runs : Settled(q) => Settled(q)'
    BY DEF Settled
  <1>6. InboxTells'
    <2>1. ASSUME NEW x \in chatInbox
          PROVE  /\ run'[x.run].log # "none" /\ 0 < x.channel /\ x.channel <= run'[x.run].channel
                 /\ run'[x.run].agent = AgentOf[x.message]
                 /\ sending[x.message].at \notin {"unsent", "looking", "found", "retired", "polling"}
      <3>1. /\ run[x.run].log # "none" /\ 0 < x.channel /\ x.channel <= run[x.run].channel
            /\ run[x.run].agent = AgentOf[x.message]
            /\ sending[x.message].at \notin {"unsent", "looking", "found", "retired", "polling"}
        BY DEF InboxTells
      <3>2. CASE x.run = r
        BY <1>1, <1>2, <3>1, <3>2
      <3>3. CASE x.run # r
        BY <1>2, <3>1, <3>3
      <3> QED
        BY <3>2, <3>3
    <2>2. ASSUME NEW m \in Messages, sending[m].at \in {"found", "polling", "waiting"}, sending[m].run # Nobody
          PROVE  run'[sending[m].run].phase # "none" /\ run'[sending[m].run].agent = AgentOf[m]
      <3>1. run[sending[m].run].phase # "none" /\ run[sending[m].run].agent = AgentOf[m]
        BY <2>2 DEF InboxTells
      <3>2. sending[m].run \in Runs
        BY <2>2, ChatFields
      <3> QED
        BY <1>3, <3>1, <3>2
    <2>3. \A x, y \in chatInbox : x.message = y.message => x = y
      BY DEF InboxTells
    <2> QED
      BY <2>1, <2>2, <2>3 DEF InboxTells
  <1>7. OneSender'
    <2>1. ASSUME NEW m \in Messages, AgentOf[m] \notin raced, InTheAir(m)
          PROVE  /\ resuming = {}
                 /\ \A n \in Messages : AgentOf[n] = AgentOf[m] /\ InTheAir(n) => n = m
                 /\ sending[m].at # "waiting" => \A q \in Runs : run'[q].agent = AgentOf[m] => Settled(q)'
                 /\ sending[m].at = "retired" => \A q \in Runs : ~Live(q, AgentOf[m])'
                 /\ sending[m].at = "found" => \A q \in Runs : Live(q, AgentOf[m])' => q = sending[m].run
      <3>1. AgentOf[m] \in Agents
        BY ChatFields
      <3> QED
        BY <1>3, <1>4, <1>5, <2>1, <3>1 DEF OneSender
    <2>2. \A m \in Messages : InTheAir(m)' <=> InTheAir(m)
      BY DEF InTheAir
    <2> QED
      BY <2>1, <2>2 DEF OneSender
  <1>8. OneLive'
    BY <1>4 DEF OneLive
  <1>9. OnePerChannel'
    BY DEF OnePerChannel
  <1> QED
    BY <1>6, <1>7, <1>8, <1>9

(* What a run tells stays true when the run stays as it is.                *)
LEMMA TellsOn ==
  ASSUME NEW r \in Runs, RunTells(r), run'[r] = run[r], r \in resuming' <=> r \in resuming,
         chatInbox \subseteq chatInbox',
         \A m \in Messages : turns[m] # Nobody => turns'[m] # Nobody
  PROVE  RunTells(r)'
  BY DEF RunTells

(* A sender looks, finds, joins or is done; runs and inbox stay.           *)
LEMMA SenderMoves ==
  ASSUME StandingInv, NEW m \in Messages, InTheAir(m),
         NEW at \in {"found", "polling", "answered", "refused"},
         NEW r \in Runs \cup {Nobody}, Step(m, at, r),
         UNCHANGED <<run, chatInbox, turns, resuming, raced, collector>>,
         at \in {"found", "polling"} => sending[m].at \in {"looking", "found"},
         at \in {"found", "polling"} /\ r # Nobody => run[r].phase # "none" /\ run[r].agent = AgentOf[m],
         at = "found" /\ AgentOf[m] \notin raced => \A q \in Runs : Live(q, AgentOf[m]) => q = r
  PROVE  RunsTell' /\ InboxTells' /\ OneSender' /\ OneLive' /\ OnePerChannel' /\ NotStranded'
  <1>1. /\ EngineInv /\ ChatTyped
        /\ RunsTell /\ InboxTells /\ OneSender /\ OneLive /\ OnePerChannel /\ NotStranded
    BY DEF StandingInv, EngineInv
  <1>2. /\ sending'[m] = [at |-> at, run |-> r]
        /\ \A n \in Messages : n # m => sending'[n] = sending[n]
    BY <1>1, SenderSteps
  <1>3. RunsTell'
    BY <1>1, TellsOn DEF RunsTell
  <1>4. InboxTells'
    <2>1. ASSUME NEW x \in chatInbox
          PROVE  sending'[x.message].at \notin {"unsent", "looking", "found", "retired", "polling"}
      <3>1. x.message \in Messages
        BY <1>1, ChatFields
      <3>2. sending[x.message].at \notin {"unsent", "looking", "found", "retired", "polling"}
        BY <1>1 DEF InboxTells
      <3> QED
        BY <1>2, <3>1, <3>2
    <2>2. ASSUME NEW n \in Messages, sending'[n].at \in {"found", "polling", "waiting"}, sending'[n].run # Nobody
          PROVE  run[sending'[n].run].phase # "none" /\ run[sending'[n].run].agent = AgentOf[n]
      <3>1. CASE n = m
        BY <1>2, <2>2, <3>1
      <3>2. CASE n # m
        BY <1>1, <1>2, <2>2, <3>2 DEF InboxTells
      <3> QED
        BY <3>1, <3>2
    <2> QED
      BY <1>1, <2>1, <2>2 DEF InboxTells
  <1>5. OneSender'
    <2>1. \A n \in Messages : InTheAir(n)' => InTheAir(n)
      BY <1>2 DEF InTheAir
    <2>2. ASSUME NEW n \in Messages, AgentOf[n] \notin raced, InTheAir(n)'
          PROVE  /\ resuming = {}
                 /\ \A k \in Messages : AgentOf[k] = AgentOf[n] /\ InTheAir(k)' => k = n
                 /\ sending'[n].at # "waiting" => \A q \in Runs : run[q].agent = AgentOf[n] => Settled(q)
                 /\ sending'[n].at = "retired" => \A q \in Runs : ~Live(q, AgentOf[n])
                 /\ sending'[n].at = "found" => \A q \in Runs : Live(q, AgentOf[n]) => q = sending'[n].run
      <3>1. /\ resuming = {}
            /\ \A k \in Messages : AgentOf[k] = AgentOf[n] /\ InTheAir(k) => k = n
            /\ sending[n].at # "waiting" => \A q \in Runs : run[q].agent = AgentOf[n] => Settled(q)
            /\ sending[n].at = "retired" => \A q \in Runs : ~Live(q, AgentOf[n])
            /\ sending[n].at = "found" => \A q \in Runs : Live(q, AgentOf[n]) => q = sending[n].run
        BY <1>1, <2>1, <2>2 DEF OneSender
      <3>2. CASE n = m
        <4>1. at \in {"found", "polling"}
          BY <1>2, <2>2, <3>2 DEF InTheAir
        <4> QED
          BY <1>2, <2>1, <2>2, <3>1, <3>2, <4>1
      <3>3. CASE n # m
        BY <1>2, <2>1, <3>1, <3>3
      <3> QED
        BY <3>2, <3>3
    <2>3. \A q \in Runs : Settled(q)' <=> Settled(q)
      BY DEF Settled
    <2>4. \A q \in Runs, a \in Agents : Live(q, a)' <=> Live(q, a)
      BY DEF Live
    <2> QED
      BY <2>2, <2>3, <2>4, <1>1, ChatFields DEF OneSender
  <1>6. OneLive' /\ OnePerChannel' /\ NotStranded'
    BY <1>1 DEF OneLive, Live, OnePerChannel, NotStranded
  <1> QED
    BY <1>3, <1>4, <1>5, <1>6

LEMMA StandingSends ==
  ASSUME StandingInv, NEW m \in Messages, sendChat(m)
  PROVE  RunsTell' /\ InboxTells' /\ OneSender' /\ OneLive' /\ OnePerChannel' /\ NotStranded'
  <1>1. /\ EngineInv /\ ChatTyped
        /\ RunsTell /\ InboxTells /\ OneSender /\ OneLive /\ OnePerChannel /\ NotStranded
    BY DEF StandingInv, EngineInv
  <1>2. /\ sending[m].at = "unsent" /\ Step(m, "looking", Nobody)
        /\ UNCHANGED <<run, chatInbox, collector, turns, resuming>>
    BY DEF sendChat
  <1>3. /\ sending'[m] = [at |-> "looking", run |-> Nobody]
        /\ \A n \in Messages : n # m => sending'[n] = sending[n]
    BY <1>1, <1>2, SenderSteps
  <1>4. /\ raced \subseteq raced'
        /\ AgentOf[m] \notin raced' =>
             /\ resuming = {}
             /\ \A n \in Messages : AgentOf[n] = AgentOf[m] => ~InTheAir(n)
             /\ \A r \in Runs : run[r].agent = AgentOf[m] => ~Behind(r)
    BY DEF sendChat, Of
  <1>5. RunsTell'
    BY <1>1, <1>2, TellsOn DEF RunsTell
  <1>6. InboxTells'
    <2>1. ASSUME NEW x \in chatInbox
          PROVE  sending'[x.message].at \notin {"unsent", "looking", "found", "retired", "polling"}
      <3>1. x.message \in Messages
        BY <1>1, ChatFields
      <3>2. sending[x.message].at \notin {"unsent", "looking", "found", "retired", "polling"}
        BY <1>1 DEF InboxTells
      <3> QED
        BY <1>2, <1>3, <3>1, <3>2
    <2>2. ASSUME NEW n \in Messages, sending'[n].at \in {"found", "polling", "waiting"}, sending'[n].run # Nobody
          PROVE  run[sending'[n].run].phase # "none" /\ run[sending'[n].run].agent = AgentOf[n]
      BY <1>1, <1>3, <2>2 DEF InboxTells
    <2> QED
      BY <1>1, <1>2, <2>1, <2>2 DEF InboxTells
  <1>7. OneSender'
    <2>1. \A q \in Runs : Settled(q)' <=> Settled(q)
      BY <1>2 DEF Settled
    <2>2. \A q \in Runs, a \in Agents : Live(q, a)' <=> Live(q, a)
      BY <1>2 DEF Live
    <2>3. ASSUME AgentOf[m] \notin raced', NEW q \in Runs, run[q].agent = AgentOf[m] PROVE Settled(q)
      <3>1. ~Behind(q) /\ RunTells(q)
        BY <1>1, <1>4, <2>3 DEF RunsTell
      <3> QED
        BY <3>1 DEF Behind, Settled, RunTells
    <2>4. ASSUME NEW n \in Messages, AgentOf[n] \notin raced', InTheAir(n)'
          PROVE  /\ resuming = {}
                 /\ \A k \in Messages : AgentOf[k] = AgentOf[n] /\ InTheAir(k)' => k = n
                 /\ sending'[n].at # "waiting" => \A q \in Runs : run[q].agent = AgentOf[n] => Settled(q)
                 /\ sending'[n].at = "retired" => \A q \in Runs : ~Live(q, AgentOf[n])
                 /\ sending'[n].at = "found" => \A q \in Runs : Live(q, AgentOf[n]) => q = sending'[n].run
      <3>1. CASE n = m
        <4>1. \A k \in Messages : AgentOf[k] = AgentOf[n] /\ InTheAir(k)' => k = n
          BY <1>3, <1>4, <2>4, <3>1 DEF InTheAir
        <4> QED
          BY <1>3, <1>4, <2>3, <2>4, <3>1, <4>1
      <3>2. CASE n # m
        <4>1. InTheAir(n) /\ AgentOf[n] \notin raced
          BY <1>3, <1>4, <2>4, <3>2 DEF InTheAir
        <4>2. AgentOf[n] # AgentOf[m]
          BY <1>4, <2>4, <4>1
        <4>3. \A k \in Messages : AgentOf[k] = AgentOf[n] /\ InTheAir(k)' => InTheAir(k)
          BY <1>3, <4>2 DEF InTheAir
        <4> QED
          BY <1>1, <1>3, <3>2, <4>1, <4>3 DEF OneSender
      <3> QED
        BY <3>1, <3>2
    <2> QED
      BY <1>1, <1>2, <2>1, <2>2, <2>4, ChatFields DEF OneSender
  <1>8. OneLive' /\ OnePerChannel' /\ NotStranded'
    BY <1>1, <1>2, <1>4 DEF OneLive, Live, OnePerChannel, NotStranded
  <1> QED
    BY <1>5, <1>6, <1>7, <1>8

(* The run a sender retires was its agent's only live one.                 *)
LEMMA StandingRetires ==
  ASSUME StandingInv, NEW m \in Messages, Retire(m)
  PROVE  RunsTell' /\ InboxTells' /\ OneSender' /\ OneLive' /\ OnePerChannel' /\ NotStranded'
  <1>1. /\ EngineInv /\ ChatTyped
        /\ RunsTell /\ InboxTells /\ OneSender /\ OneLive /\ OnePerChannel /\ NotStranded
    BY DEF StandingInv, EngineInv
  <1>0. PICK r \in Runs : r = sending[m].run
    BY <1>1, ChatFields DEF Retire
  <1>2. /\ sending[m].at = "found" /\ InTheAir(m)
        /\ Step(m, "retired", Nobody)
        /\ UNCHANGED <<chatInbox, collector, turns, resuming, raced>>
    BY DEF Retire, InTheAir
  <1>3. /\ sending'[m] = [at |-> "retired", run |-> Nobody]
        /\ \A n \in Messages : n # m => sending'[n] = sending[n]
    BY <1>1, <1>2, SenderSteps
  <1>4. /\ run' = IF run[r].driven
                  THEN [run EXCEPT ![r].phase = "ended", ![r].log = "ended", ![r].driven = FALSE]
                  ELSE run
        /\ run \in [Runs -> RunRecords]
    BY <1>0, <1>1 DEF Retire, ChatTyped
  <1>5. /\ \A q \in Runs : q # r => run'[q] = run[q]
        /\ \/ run'[r] = run[r] /\ ~run[r].driven
           \/ run[r].driven /\ run'[r] = [run[r] EXCEPT !.phase = "ended", !.log = "ended", !.driven = FALSE]
    BY <1>4
  <1>6. /\ run[r] \in RunRecords /\ RunTells(r)
        /\ run[r].phase # "none" /\ run[r].agent = AgentOf[m]
    <2>1. r # Nobody
      BY NobodyElse
    <2> QED
      BY <2>1, <1>0, <1>1, <1>2, ChatFields DEF RunsTell, InboxTells
  <1>7. /\ run'[r].agent = run[r].agent /\ run'[r].message = run[r].message
        /\ run'[r].channel = run[r].channel /\ run'[r].phase # "none"
        /\ run'[r].log # "none" \/ run'[r].log = run[r].log
        /\ ~run'[r].driven
        /\ run'[r] = run[r] \/ run'[r].log = "ended"
    BY <1>5, <1>6 DEF RunRecords
  <1>8. RunTells(r)'
    BY <1>2, <1>5, <1>6, <1>7 DEF RunTells, RunRecords
  <1>9. RunsTell'
    BY <1>1, <1>2, <1>5, <1>8, TellsOn DEF RunsTell
  <1>10. /\ \A q \in Runs : run'[q].agent = run[q].agent
         /\ \A q \in Runs : run'[q].channel = run[q].channel /\ run'[q].message = run[q].message
         /\ \A q \in Runs, a \in Agents : Live(q, a)' => Live(q, a)
         /\ \A q \in Runs : Settled(q) => Settled(q)'
    BY <1>2, <1>5, <1>7 DEF Live, Settled
  <1>11. InboxTells'
    <2>1. ASSUME NEW x \in chatInbox
          PROVE  /\ run'[x.run].log # "none" /\ 0 < x.channel /\ x.channel <= run'[x.run].channel
                 /\ run'[x.run].agent = AgentOf[x.message]
                 /\ sending'[x.message].at \notin {"unsent", "looking", "found", "retired", "polling"}
      <3>1. x.message \in Messages /\ x.run \in Runs
        BY <1>1, ChatFields
      <3>2. /\ run[x.run].log # "none" /\ 0 < x.channel /\ x.channel <= run[x.run].channel
            /\ run[x.run].agent = AgentOf[x.message]
            /\ sending[x.message].at \notin {"unsent", "looking", "found", "retired", "polling"}
        BY <1>1 DEF InboxTells
      <3>3. run'[x.run].log # "none"
        BY <1>5, <1>7, <3>1, <3>2
      <3>4. x.message # m
        BY <1>2, <3>2
      <3> QED
        BY <1>3, <1>10, <3>1, <3>2, <3>3, <3>4
    <2>2. ASSUME NEW n \in Messages, sending'[n].at \in {"found", "polling", "waiting"}, sending'[n].run # Nobody
          PROVE  run'[sending'[n].run].phase # "none" /\ run'[sending'[n].run].agent = AgentOf[n]
      <3>1. n # m /\ sending'[n] = sending[n]
        BY <1>3, <2>2
      <3>2. /\ run[sending[n].run].phase # "none" /\ run[sending[n].run].agent = AgentOf[n]
            /\ sending[n].run \in Runs
        BY <1>1, <2>2, <3>1, ChatFields DEF InboxTells
      <3> QED
        BY <1>5, <1>7, <3>1, <3>2
    <2> QED
      BY <1>1, <1>2, <2>1, <2>2 DEF InboxTells
  <1>12. OneSender'
    <2>1. \A n \in Messages : InTheAir(n)' => InTheAir(n)
      BY <1>2, <1>3 DEF InTheAir
    <2>2. ASSUME NEW n \in Messages, AgentOf[n] \notin raced, InTheAir(n)'
          PROVE  /\ resuming = {}
                 /\ \A k \in Messages : AgentOf[k] = AgentOf[n] /\ InTheAir(k)' => k = n
                 /\ sending'[n].at # "waiting" => \A q \in Runs : run[q].agent = AgentOf[n] => Settled(q)
                 /\ sending'[n].at = "retired" => \A q \in Runs : ~Live(q, AgentOf[n])'
                 /\ sending'[n].at = "found" => \A q \in Runs : Live(q, AgentOf[n]) => q = sending'[n].run
      <3>1. /\ resuming = {}
            /\ \A k \in Messages : AgentOf[k] = AgentOf[n] /\ InTheAir(k) => k = n
            /\ sending[n].at # "waiting" => \A q \in Runs : run[q].agent = AgentOf[n] => Settled(q)
            /\ sending[n].at = "retired" => \A q \in Runs : ~Live(q, AgentOf[n])
            /\ sending[n].at = "found" => \A q \in Runs : Live(q, AgentOf[n]) => q = sending[n].run
            /\ AgentOf[n] \in Agents
        BY <1>1, <2>1, <2>2, ChatFields DEF OneSender
      <3>2. CASE n = m
        <4>1. ~Live(r, AgentOf[n])'
          <5>1. run'[r].log \notin {"running", "parked"}
            BY <1>5, <1>6, <1>7, <3>1 DEF RunTells
          <5> QED
            BY <1>7, <5>1 DEF Live
        <4>2. \A q \in Runs : ~Live(q, AgentOf[n])'
          BY <1>0, <1>2, <1>10, <3>1, <3>2, <4>1
        <4> QED
          BY <1>2, <1>3, <2>1, <3>1, <3>2, <4>2
      <3>3. CASE n # m
        BY <1>3, <1>10, <2>1, <3>1, <3>3
      <3> QED
        BY <3>2, <3>3
    <2> QED
      BY <1>1, <1>2, <1>10, <2>2, ChatFields DEF OneSender
  <1>13. OneLive' /\ OnePerChannel' /\ NotStranded'
    <2>1. OneLive' /\ OnePerChannel'
      BY <1>1, <1>2, <1>10 DEF OneLive, OnePerChannel
    <2>2. NotStranded'
      BY <1>1, <1>2, <1>10, ChatFields DEF NotStranded
    <2> QED
      BY <2>1, <2>2
  <1> QED
    BY <1>9, <1>11, <1>12, <1>13

(* A run starts when its agent has no live one.                            *)
LEMMA StandingStarts ==
  ASSUME StandingInv, NEW m \in Messages, Start(m)
  PROVE  RunsTell' /\ InboxTells' /\ OneSender' /\ OneLive' /\ OnePerChannel' /\ NotStranded'
  <1>1. /\ EngineInv /\ ChatTyped
        /\ RunsTell /\ InboxTells /\ OneSender /\ OneLive /\ OnePerChannel /\ NotStranded
    BY DEF StandingInv, EngineInv
  <1>2. /\ sending[m].at = "retired" \/ (sending[m].at = "found" /\ sending[m].run = Nobody)
        /\ collector' = FALSE
        /\ UNCHANGED <<chatInbox, turns, resuming, raced>>
    BY DEF Start
  <1>3. PICK r \in Runs :
          /\ run[r].phase = "none"
          /\ run' = [run EXCEPT ![r] = [NoRun EXCEPT !.phase = "turn", !.agent = AgentOf[m],
                                          !.message = m, !.engine = engine, !.driven = TRUE]]
          /\ Step(m, "waiting", r)
    BY DEF Start
  <1>4. /\ sending'[m] = [at |-> "waiting", run |-> r]
        /\ \A n \in Messages : n # m => sending'[n] = sending[n]
    BY <1>1, <1>3, SenderSteps
  <1>5. \A q \in Runs : q # r => run'[q] = run[q]
    BY <1>1, <1>3 DEF ChatTyped
  <1>6. /\ run'[r].phase = "turn" /\ run'[r].agent = AgentOf[m] /\ run'[r].message = m
        /\ run'[r].driven /\ run'[r].log = "none" /\ run'[r].channel = 0
    BY <1>1, <1>3 DEF ChatTyped, NoRun
  <1>7. run[r] = NoRun /\ r \notin resuming /\ InTheAir(m) /\ AgentOf[m] \in Agents
    <2>1. RunTells(r)
      BY <1>1 DEF RunsTell
    <2>2. run[r] = NoRun
      BY <2>1, <1>3 DEF RunTells
    <2>3. r \notin resuming
      BY <2>1, <2>2 DEF RunTells, NoRun
    <2> QED
      BY <2>2, <2>3, <1>1, <1>2, ChatFields DEF InTheAir
  <1>8. RunTells(r)'
    BY <1>2, <1>6, <1>7 DEF RunTells
  <1>9. RunsTell'
    BY <1>1, <1>2, <1>5, <1>8, TellsOn DEF RunsTell
  <1>10. \A x \in chatInbox : x.run # r /\ x.run \in Runs /\ run'[x.run] = run[x.run]
    <2>1. \A x \in chatInbox : x.run # r /\ x.run \in Runs
      BY <1>1, <1>7, ChatFields DEF InboxTells, NoRun
    <2> QED
      BY <2>1, <1>5
  <1>11. InboxTells'
    <2>1. ASSUME NEW x \in chatInbox
          PROVE  sending'[x.message].at \notin {"unsent", "looking", "found", "retired", "polling"}
      <3>1. x.message \in Messages
        BY <1>1, ChatFields
      <3>2. sending[x.message].at \notin {"unsent", "looking", "found", "retired", "polling"}
        BY <1>1 DEF InboxTells
      <3> QED
        BY <1>4, <3>1, <3>2
    <2>2. ASSUME NEW n \in Messages, sending'[n].at \in {"found", "polling", "waiting"}, sending'[n].run # Nobody
          PROVE  run'[sending'[n].run].phase # "none" /\ run'[sending'[n].run].agent = AgentOf[n]
      <3>1. CASE n = m
        BY <1>4, <1>6, <3>1
      <3>2. CASE n # m
        <4>1. /\ run[sending[n].run].phase # "none" /\ run[sending[n].run].agent = AgentOf[n]
              /\ sending[n].run \in Runs
          BY <1>1, <1>4, <2>2, <3>2, ChatFields DEF InboxTells
        <4> QED
          BY <1>3, <1>4, <1>5, <3>2, <4>1
      <3> QED
        BY <3>1, <3>2
    <2> QED
      BY <1>1, <1>2, <1>10, <2>1, <2>2 DEF InboxTells
  <1>12. \A q \in Runs, a \in Agents : (q # r \/ a # AgentOf[m]) /\ Live(q, a)' => Live(q, a) /\ q # r
    BY <1>5, <1>6 DEF Live
  <1>13. OneLive'
    <2>1. ASSUME AgentOf[m] \notin raced, NEW q \in Runs PROVE ~Live(q, AgentOf[m])
      BY <1>1, <1>2, <1>7, <2>1, NobodyElse DEF OneSender
    <2>2. ASSUME NEW a \in Agents \ raced, NEW p \in Runs, NEW q \in Runs, Live(p, a)', Live(q, a)'
          PROVE  p = q
      BY <1>1, <1>12, <2>1, <2>2 DEF OneLive
    <2> QED
      BY <1>2, <2>2 DEF OneLive
  <1>14. OneSender'
    <2>1. \A n \in Messages : InTheAir(n)' => InTheAir(n)
      BY <1>4, <1>7 DEF InTheAir
    <2>2. \A q \in Runs : q # r => (Settled(q)' <=> Settled(q))
      BY <1>2, <1>5 DEF Settled
    <2>3. ASSUME NEW n \in Messages, AgentOf[n] \notin raced, InTheAir(n)'
          PROVE  /\ resuming = {}
                 /\ \A k \in Messages : AgentOf[k] = AgentOf[n] /\ InTheAir(k)' => k = n
                 /\ sending'[n].at # "waiting" => \A q \in Runs : run'[q].agent = AgentOf[n] => Settled(q)'
                 /\ sending'[n].at = "retired" => \A q \in Runs : ~Live(q, AgentOf[n])'
                 /\ sending'[n].at = "found" => \A q \in Runs : Live(q, AgentOf[n])' => q = sending'[n].run
      <3>1. /\ resuming = {}
            /\ \A k \in Messages : AgentOf[k] = AgentOf[n] /\ InTheAir(k) => k = n
            /\ sending[n].at # "waiting" => \A q \in Runs : run[q].agent = AgentOf[n] => Settled(q)
            /\ sending[n].at = "retired" => \A q \in Runs : ~Live(q, AgentOf[n])
            /\ sending[n].at = "found" => \A q \in Runs : Live(q, AgentOf[n]) => q = sending[n].run
            /\ AgentOf[n] \in Agents
        BY <1>1, <2>1, <2>3, ChatFields DEF OneSender
      <3>2. CASE n = m
        BY <1>4, <2>1, <3>1, <3>2
      <3>3. CASE n # m
        <4>1. AgentOf[n] # AgentOf[m]
          BY <1>7, <3>1, <3>3
        <4>2. \A q \in Runs : run'[q].agent = AgentOf[n] => q # r /\ run[q].agent = AgentOf[n]
          BY <1>5, <1>6, <4>1
        <4>3. \A q \in Runs : Live(q, AgentOf[n])' => Live(q, AgentOf[n])
          BY <1>12, <3>1, <4>1
        <4> QED
          BY <1>4, <2>1, <2>2, <3>1, <3>3, <4>2, <4>3
      <3> QED
        BY <3>2, <3>3
    <2> QED
      BY <1>2, <2>3 DEF OneSender
  <1>15. OnePerChannel' /\ NotStranded'
    BY <1>1, <1>2, <1>10 DEF OnePerChannel, NotStranded
  <1> QED
    BY <1>9, <1>11, <1>13, <1>14, <1>15

(* A message is delivered on the open channel of a settled run.            *)
LEMMA StandingDelivers ==
  ASSUME StandingInv, NEW m \in Messages, Deliver(m)
  PROVE  RunsTell' /\ InboxTells' /\ OneSender' /\ OneLive' /\ OnePerChannel' /\ NotStranded'
  <1>1. /\ EngineInv /\ ChatTyped
        /\ RunsTell /\ InboxTells /\ OneSender /\ OneLive /\ OnePerChannel /\ NotStranded
    BY DEF StandingInv, EngineInv
  <1>2. /\ sending[m].at = "polling" /\ InTheAir(m)
        /\ UNCHANGED <<run, turns, collector, resuming, raced>>
    BY DEF Deliver, InTheAir
  <1>3. PICK r \in Runs :
          /\ r = sending[m].run /\ OpenChannel(r) > 0 /\ Step(m, "waiting", r)
          /\ chatInbox' = chatInbox \cup {[message |-> m, run |-> r, channel |-> OpenChannel(r)]}
    BY <1>1, <1>2 DEF Deliver, EngineInv, EnginesKnown
  <1>4. PICK c \in Nat : /\ c = run[r].channel /\ c > 0 /\ run[r].log = "parked"
                         /\ chatInbox' = chatInbox \cup {[message |-> m, run |-> r, channel |-> c]}
    BY <1>1, <1>3, ChatFields DEF OpenChannel
  <1> DEFINE new == [message |-> m, run |-> r, channel |-> c]
  <1>5. new.message = m /\ new.run = r /\ new.channel = c /\ chatInbox' = chatInbox \cup {new}
    BY <1>4
  <1> HIDE DEF new
  <1>6. /\ sending'[m] = [at |-> "waiting", run |-> r]
        /\ \A n \in Messages : n # m => sending'[n] = sending[n]
    BY <1>1, <1>3, SenderSteps
  <1>7. run[r].phase # "none" /\ run[r].agent = AgentOf[m]
    BY <1>1, <1>2, <1>3, NobodyElse DEF InboxTells
  <1>8. RunsTell'
    BY <1>1, <1>2, <1>5, TellsOn DEF RunsTell
  <1>9. \A x \in chatInbox : x.message \in Messages /\ x.message # m
    BY <1>1, <1>2, ChatFields DEF InboxTells
  <1>10. InboxTells'
    <2>1. ASSUME NEW x \in chatInbox'
          PROVE  /\ run[x.run].log # "none" /\ 0 < x.channel /\ x.channel <= run[x.run].channel
                 /\ run[x.run].agent = AgentOf[x.message]
                 /\ sending'[x.message].at \notin {"unsent", "looking", "found", "retired", "polling"}
      <3>1. CASE x = new
        BY <1>4, <1>5, <1>6, <1>7, <3>1
      <3>2. CASE x \in chatInbox
        BY <1>1, <1>6, <1>9, <3>2 DEF InboxTells
      <3> QED
        BY <1>5, <3>1, <3>2
    <2>2. ASSUME NEW n \in Messages, sending'[n].at \in {"found", "polling", "waiting"}, sending'[n].run # Nobody
          PROVE  run[sending'[n].run].phase # "none" /\ run[sending'[n].run].agent = AgentOf[n]
      <3>1. CASE n = m
        BY <1>6, <1>7, <3>1
      <3>2. CASE n # m
        BY <1>1, <1>6, <2>2, <3>2 DEF InboxTells
      <3> QED
        BY <3>1, <3>2
    <2>3. \A x, y \in chatInbox' : x.message = y.message => x = y
      BY <1>1, <1>5, <1>9 DEF InboxTells
    <2> QED
      BY <1>2, <2>1, <2>2, <2>3 DEF InboxTells
  <1>11. OneSender'
    <2>1. \A n \in Messages : InTheAir(n)' => InTheAir(n)
      BY <1>2, <1>6 DEF InTheAir
    <2>2. \A q \in Runs : q # r => (Settled(q)' <=> Settled(q))
      BY <1>2, <1>5 DEF Settled
    <2>3. \A q \in Runs, a \in Agents : Live(q, a)' <=> Live(q, a)
      BY <1>2 DEF Live
    <2>4. ASSUME NEW n \in Messages, AgentOf[n] \notin raced, InTheAir(n)'
          PROVE  /\ resuming = {}
                 /\ \A k \in Messages : AgentOf[k] = AgentOf[n] /\ InTheAir(k)' => k = n
                 /\ sending'[n].at # "waiting" => \A q \in Runs : run[q].agent = AgentOf[n] => Settled(q)'
                 /\ sending'[n].at = "retired" => \A q \in Runs : ~Live(q, AgentOf[n])'
                 /\ sending'[n].at = "found" => \A q \in Runs : Live(q, AgentOf[n])' => q = sending'[n].run
      <3>1. /\ resuming = {}
            /\ \A k \in Messages : AgentOf[k] = AgentOf[n] /\ InTheAir(k) => k = n
            /\ sending[n].at # "waiting" => \A q \in Runs : run[q].agent = AgentOf[n] => Settled(q)
            /\ sending[n].at = "retired" => \A q \in Runs : ~Live(q, AgentOf[n])
            /\ sending[n].at = "found" => \A q \in Runs : Live(q, AgentOf[n]) => q = sending[n].run
            /\ AgentOf[n] \in Agents
        BY <1>1, <2>1, <2>4, ChatFields DEF OneSender
      <3>2. CASE n = m
        BY <1>6, <2>1, <3>1, <3>2
      <3>3. CASE n # m
        <4>1. \A q \in Runs : run[q].agent = AgentOf[n] => q # r
          BY <1>2, <1>7, <3>1, <3>3
        <4> QED
          BY <1>6, <2>1, <2>2, <2>3, <3>1, <3>3, <4>1
      <3> QED
        BY <3>2, <3>3
    <2> QED
      BY <1>2, <2>4 DEF OneSender
  <1>12. OneLive'
    BY <1>1, <1>2 DEF OneLive, Live
  <1>13. OnePerChannel'
    <2>1. ASSUME AgentOf[m] \notin raced, NEW x \in chatInbox, x.run = r PROVE x.channel # c
      <3>1. Settled(r)
        BY <1>1, <1>2, <1>7, <2>1 DEF OneSender
      <3> QED
        BY <1>4, <2>1, <3>1 DEF Settled
    <2>2. \A x \in chatInbox : x.run = r => AgentOf[x.message] = AgentOf[m]
      BY <1>1, <1>7 DEF InboxTells
    <2>3. ASSUME NEW x \in chatInbox', NEW y \in chatInbox',
                 AgentOf[x.message] \notin raced, x.run = y.run, x.channel = y.channel
          PROVE  x = y
      <3>1. CASE x = new
        BY <1>5, <2>1, <2>3, <3>1
      <3>2. CASE y = new
        BY <1>5, <2>1, <2>2, <2>3, <3>2
      <3>3. CASE x \in chatInbox /\ y \in chatInbox
        BY <1>1, <2>3, <3>3 DEF OnePerChannel
      <3> QED
        BY <1>5, <3>1, <3>2, <3>3
    <2> QED
      BY <1>2, <2>3 DEF OnePerChannel
  <1>14. NotStranded'
    <2>1. \A x \in chatInbox :
             AgentOf[x.message] \in raced \/ turns[x.message] # Nobody
               \/ x.channel >= run[x.run].channel \/ run[x.run].message = x.message
      BY <1>1 DEF NotStranded
    <2>2. new.channel >= run[new.run].channel
      BY <1>4, <1>5
    <2> QED
      BY <1>2, <1>5, <2>1, <2>2 DEF NotStranded
  <1> QED
    BY <1>8, <1>10, <1>11, <1>12, <1>13, <1>14

(* A death leaves nobody in the air and nothing driven.                    *)
LEMMA StandingDies ==
  ASSUME StandingInv, CrashChat
  PROVE  RunsTell' /\ InboxTells' /\ OneSender' /\ OneLive' /\ OnePerChannel' /\ NotStranded'
  <1>1. /\ EngineInv /\ ChatTyped
        /\ RunsTell /\ InboxTells /\ OneSender /\ OneLive /\ OnePerChannel /\ NotStranded
    BY DEF StandingInv, EngineInv
  <1>2. /\ collector' = FALSE /\ resuming' = {r \in Runs : run[r].log \in {"running", "parked"}}
        /\ UNCHANGED <<chatInbox, turns, raced>>
    BY DEF CrashChat
  <1>3. run' = [r \in Runs |->
                  IF run[r].log = "none" /\ run[r].phase # "none" THEN [NoRun EXCEPT !.phase = "ended"]
                  ELSE [run[r] EXCEPT !.driven = FALSE, !.engine = Nobody]]
    BY DEF CrashChat
  <1>4. /\ \A m \in Messages : ~InTheAir(m)'
        /\ \A m \in Messages : InTheAir(m) => sending'[m].at = "refused"
        /\ \A m \in Messages : ~InTheAir(m) => sending'[m] = sending[m]
    <2>1. sending' = [m \in Messages |-> IF InTheAir(m) THEN [sending[m] EXCEPT !.at = "refused"] ELSE sending[m]]
      BY DEF CrashChat
    <2>2. ASSUME NEW m \in Messages PROVE ~InTheAir(m)'
      BY <1>1, <2>1 DEF ChatTyped, SendRecords, InTheAir
    <2>3. ASSUME NEW m \in Messages, InTheAir(m) PROVE sending'[m].at = "refused"
      BY <1>1, <2>1, <2>3 DEF ChatTyped, SendRecords
    <2> QED
      BY <2>1, <2>2, <2>3
  <1>5. ASSUME NEW r \in Runs
        PROVE  \/ run[r].log = "none" /\ run[r].phase # "none" /\ run'[r] = [NoRun EXCEPT !.phase = "ended"]
               \/ /\ run[r].log # "none" \/ run[r].phase = "none"
                  /\ run'[r] = [run[r] EXCEPT !.driven = FALSE, !.engine = Nobody]
    BY <1>3
  <1>6. ASSUME NEW r \in Runs
        PROVE  /\ ~run'[r].driven
               /\ run'[r].log = run[r].log
               /\ run[r].log # "none" => /\ run'[r].phase = run[r].phase /\ run'[r].agent = run[r].agent
                                         /\ run'[r].message = run[r].message
                                         /\ run'[r].channel = run[r].channel
    <2>1. run[r] \in RunRecords
      BY <1>1, ChatFields
    <2>2. NoRun \in RunRecords /\ NoRun.log = "none" /\ NoRun.driven = FALSE
      BY DEF NoRun, RunRecords
    <2> QED
      BY <1>5, <2>1, <2>2 DEF RunRecords
  <1>7. RunsTell'
    <2>1. ASSUME NEW r \in Runs PROVE RunTells(r)'
      <3>0. RunTells(r) /\ run[r] \in RunRecords
        BY <1>1, ChatFields DEF RunsTell
      <3>1. CASE run[r].log = "none" /\ run[r].phase # "none"
        <4>1. run'[r].phase = "ended" /\ r \notin resuming'
          BY <1>2, <1>5, <3>1 DEF NoRun
        <4> QED
          BY <1>6, <3>1, <4>1 DEF RunTells
      <3>2. CASE run[r].phase = "none"
        <4>1. run[r] = NoRun
          BY <3>0, <3>2 DEF RunTells
        <4>a. [NoRun EXCEPT !.driven = FALSE, !.engine = Nobody] = NoRun
          <5>1. NoRun = [f \in DOMAIN NoRun |-> NoRun[f]] /\ NoRun.driven = FALSE /\ NoRun.engine = Nobody
            BY DEF NoRun
          <5> QED
            BY <5>1
        <4>b. run'[r] = [run[r] EXCEPT !.driven = FALSE, !.engine = Nobody]
          BY <1>5, <3>2
        <4>2. run'[r] = NoRun
          BY <4>1, <4>a, <4>b, Zenon
        <4>3. r \notin resuming'
          BY <1>2, <4>1 DEF NoRun
        <4> QED
          BY <4>2, <4>3 DEF RunTells, NoRun
      <3>3. CASE run[r].log # "none" /\ run[r].phase # "none"
        <4>1. r \in resuming' <=> run[r].log \in {"running", "parked"}
          BY <1>2
        <4> QED
          BY <1>2, <1>6, <3>0, <3>3, <4>1 DEF RunTells
      <3> QED
        BY <3>1, <3>2, <3>3
    <2> QED
      BY <1>2, <2>1 DEF RunsTell
  <1>8. \A x \in chatInbox : /\ x.message \in Messages /\ x.run \in Runs /\ run[x.run].log # "none"
                             /\ ~(sending[x.message].at \in {"unsent", "looking", "found", "retired", "polling"})
    BY <1>1, ChatFields DEF InboxTells
  <1>9. InboxTells'
    <2>1. ASSUME NEW x \in chatInbox
          PROVE  /\ run'[x.run].log # "none" /\ 0 < x.channel /\ x.channel <= run'[x.run].channel
                 /\ run'[x.run].agent = AgentOf[x.message]
                 /\ sending'[x.message].at \notin {"unsent", "looking", "found", "retired", "polling"}
      <3>1. sending'[x.message].at \notin {"unsent", "looking", "found", "retired", "polling"}
        <4>1. CASE InTheAir(x.message)
          BY <1>4, <1>8, <4>1
        <4>2. CASE ~InTheAir(x.message)
          BY <1>4, <1>8, <4>2
        <4> QED
          BY <4>1, <4>2
      <3> QED
        BY <1>1, <1>6, <1>8, <3>1 DEF InboxTells
    <2>2. \A n \in Messages : sending'[n].at \notin {"found", "polling", "waiting"}
      BY <1>4 DEF InTheAir
    <2> QED
      BY <1>1, <1>2, <2>1, <2>2 DEF InboxTells
  <1>10. OneSender'
    BY <1>4 DEF OneSender
  <1>11. OneLive'
    <2>1. \A q \in Runs, a \in Agents : Live(q, a)' => Live(q, a)
      BY <1>6 DEF Live
    <2> QED
      BY <1>1, <1>2, <2>1 DEF OneLive
  <1>12. OnePerChannel' /\ NotStranded'
    BY <1>1, <1>2, <1>6, <1>8 DEF OnePerChannel, NotStranded
  <1> QED
    BY <1>7, <1>9, <1>10, <1>11, <1>12

(* While a run is to be resumed every sender in the air has raced.         *)
LEMMA StandingResumes ==
  ASSUME StandingInv, NEW r \in Runs, ResumeChat(r)
  PROVE  RunsTell' /\ InboxTells' /\ OneSender' /\ OneLive' /\ OnePerChannel' /\ NotStranded'
  <1>1. /\ EngineInv /\ ChatTyped
        /\ RunsTell /\ InboxTells /\ OneSender /\ OneLive /\ OnePerChannel /\ NotStranded
    BY DEF StandingInv, EngineInv
  <1>2. /\ r \in resuming /\ resuming' = resuming \ {r}
        /\ UNCHANGED <<chatInbox, sending, turns, collector, raced>>
    BY DEF ResumeChat
  <1>3. /\ RunTells(r) /\ run[r] \in RunRecords /\ ~run[r].driven
        /\ run[r].log \in {"running", "parked"} /\ run[r].phase \in {"turn", "recorded", "parked"}
    BY <1>1, <1>2, ChatFields DEF RunsTell, RunTells
  <1>4. \A q \in Runs : q # r => run'[q] = run[q]
    BY <1>1 DEF ResumeChat, ChatTyped
  <1>5. /\ run'[r].agent = run[r].agent /\ run'[r].channel = run[r].channel
        /\ \/ /\ run[r].log = "parked" /\ run'[r].log = "parked" /\ run'[r].phase = "parked"
              /\ run'[r].message = Nobody /\ run'[r].driven
           \/ /\ run[r].log = "running" /\ run'[r].log = "ended" /\ run'[r].phase = "ended"
              /\ run'[r].message = run[r].message /\ run'[r].driven = run[r].driven
    <2>1. run \in [Runs -> RunRecords]
      BY <1>1 DEF ChatTyped
    <2>2. CASE run[r].log = "parked"
      <3>1. run'[r] = [run[r] EXCEPT !.phase = "parked", !.message = Nobody, !.engine = engine, !.driven = TRUE]
        BY <2>1, <2>2 DEF ResumeChat
      <3> QED
        BY <1>3, <2>2, <3>1 DEF RunRecords
    <2>3. CASE run[r].log = "running"
      <3>1. run'[r] = [run[r] EXCEPT !.phase = "ended", !.log = "ended"]
        BY <2>1, <2>3 DEF ResumeChat
      <3> QED
        BY <1>3, <2>3, <3>1 DEF RunRecords
    <2> QED
      BY <1>3, <2>2, <2>3
  <1>6. RunsTell'
    <2>1. RunTells(r)'
      BY <1>2, <1>3, <1>5 DEF RunTells
    <2>2. ASSUME NEW q \in Runs, q # r PROVE RunTells(q)'
      BY <1>1, <1>2, <1>4, <2>2, TellsOn DEF RunsTell
    <2> QED
      BY <1>1, <1>2, <2>1, <2>2 DEF RunsTell
  <1>7. InboxTells'
    <2>1. \A q \in Runs : /\ run'[q].agent = run[q].agent /\ run'[q].channel = run[q].channel
                          /\ run[q].log # "none" => run'[q].log # "none"
                          /\ run[q].phase # "none" => run'[q].phase # "none"
      BY <1>4, <1>5
    <2> QED
      BY <1>1, <1>2, <2>1, ChatFields DEF InboxTells
  <1>8. OneSender'
    <2>1. \A m \in Messages : AgentOf[m] \notin raced => ~InTheAir(m)
      BY <1>1, <1>2 DEF OneSender
    <2> QED
      BY <1>2, <2>1 DEF OneSender, InTheAir
  <1>9. OneLive' /\ OnePerChannel'
    <2>1. \A q \in Runs, a \in Agents : Live(q, a)' => Live(q, a)
      BY <1>3, <1>4, <1>5 DEF Live
    <2> QED
      BY <1>1, <1>2, <2>1 DEF OneLive, OnePerChannel
  <1>10. NotStranded'
    <2>1. ASSUME NEW x \in chatInbox
          PROVE  \/ AgentOf[x.message] \in raced \/ turns[x.message] # Nobody
                 \/ x.channel >= run'[x.run].channel \/ run'[x.run].message = x.message
      <3>1. \/ AgentOf[x.message] \in raced \/ turns[x.message] # Nobody
            \/ x.channel >= run[x.run].channel \/ run[x.run].message = x.message
        BY <1>1 DEF NotStranded
      <3>2. x.run \in Runs /\ x.message \in Messages /\ x.channel \in Nat
        BY <1>1, ChatFields
      <3>3. CASE x.run # r
        BY <1>4, <3>1, <3>2, <3>3
      <3>4. CASE x.run = r /\ run[r].message = x.message
        <4>1. run[r].phase \in {"turn", "recorded"}
          BY <1>3, <3>2, <3>4, NobodyElse DEF RunTells
        <4>2. 0 < x.channel /\ x.channel <= run[r].channel /\ run[r].channel \in Nat
          BY <1>1, <3>4, ChatFields DEF InboxTells
        <4>3. run[r].channel > 0
          BY <3>2, <4>2
        <4>4. PICK y \in chatInbox : y = [message |-> run[r].message, run |-> r, channel |-> run[r].channel]
          BY <1>3, <4>1, <4>3 DEF RunTells
        <4>5. y.message = x.message /\ y.channel = run[r].channel
          BY <3>4, <4>4
        <4>6. x = y
          BY <1>1, <4>5 DEF InboxTells
        <4>7. x.channel = run'[r].channel
          BY <1>5, <4>5, <4>6
        <4> QED
          BY <3>2, <3>4, <4>7
      <3>5. CASE x.run = r /\ run[r].message # x.message
        BY <1>5, <3>1, <3>5
      <3> QED
        BY <3>3, <3>4, <3>5
    <2> QED
      BY <1>2, <2>1 DEF NotStranded
  <1> QED
    BY <1>6, <1>7, <1>8, <1>9, <1>10

(* A run takes a message, writes its log, calls a tool, or fails.          *)
LEMMA StandingRuns ==
  ASSUME StandingInv, NEW r \in Runs, Consume(r) \/ FlushChat(r) \/ ToolCall(r) \/ TurnFails(r)
  PROVE  RunsTell' /\ InboxTells' /\ OneSender' /\ OneLive' /\ OnePerChannel' /\ NotStranded'
  <1>1. /\ EngineInv /\ ChatTyped
        /\ RunsTell /\ InboxTells /\ OneSender /\ OneLive /\ OnePerChannel /\ NotStranded
    BY DEF StandingInv, EngineInv
  <1>2. UNCHANGED <<chatInbox, sending, turns, resuming, raced>> /\ collector' \in BOOLEAN
    BY <1>1 DEF Consume, FlushChat, ToolCall, TurnFails, RunsTell
  <1>3. run \in [Runs -> RunRecords] /\ run[r] \in RunRecords /\ RunTells(r)
    BY <1>1, ChatFields DEF ChatTyped, RunsTell
  <1>4. /\ \A q \in Runs : q # r => run'[q] = run[q]
        /\ run[r].driven /\ run[r].phase \in {"turn", "recorded", "parked"}
        /\ run'[r].phase # "none" /\ run'[r].agent = run[r].agent /\ run'[r].channel = run[r].channel
        /\ run[r].log # "none" => run'[r].log # "none"
    <2>1. CASE Consume(r)
      <3>1. PICK x \in chatInbox : run' = [run EXCEPT ![r].phase = "turn", ![r].message = x.message]
        BY <2>1 DEF Consume
      <3> QED
        BY <1>3, <2>1, <3>1 DEF Consume, RunRecords
    <2>2. CASE FlushChat(r)
      BY <1>3, <2>2 DEF FlushChat, RunRecords
    <2>3. CASE ToolCall(r)
      BY <2>3 DEF ToolCall
    <2>4. CASE TurnFails(r)
      BY <1>3, <2>4 DEF TurnFails, RunRecords
    <2> QED
      BY <2>1, <2>2, <2>3, <2>4
  <1>5. RunTells(r)' /\ (Settled(r) => Settled(r)')
    <2>1. CASE Consume(r)
      <3>1. PICK x \in chatInbox : /\ x.run = r /\ x.channel = run[r].channel /\ run[r].phase = "parked"
                                   /\ run' = [run EXCEPT ![r].phase = "turn", ![r].message = x.message]
        BY <2>1 DEF Consume
      <3>2. x.message \in Messages /\ x = [message |-> x.message, run |-> r, channel |-> run[r].channel]
        BY <1>1, <3>1, ChatFields
      <3>3. /\ run'[r].phase = "turn" /\ run'[r].message = x.message /\ run'[r].driven = run[r].driven
            /\ run'[r].log = run[r].log /\ run'[r].channel = run[r].channel
        BY <1>3, <3>1 DEF RunRecords
      <3> QED
        BY <1>2, <1>3, <1>4, <3>1, <3>2, <3>3 DEF RunTells, Settled
    <2>2. CASE FlushChat(r)
      <3>1. /\ run'[r].log = "running" /\ run[r].phase \in {"turn", "recorded"}
            /\ run'[r].phase = run[r].phase /\ run'[r].message = run[r].message
            /\ run'[r].driven = run[r].driven /\ run'[r].channel = run[r].channel
        BY <1>3, <2>2 DEF FlushChat, RunRecords
      <3> QED
        BY <1>2, <1>3, <1>4, <3>1 DEF RunTells, Settled
    <2>3. CASE ToolCall(r)
      <3>1. UNCHANGED <<run, chatInbox, turns, resuming>>
        BY <2>3 DEF ToolCall
      <3> QED
        BY <1>3, <3>1 DEF RunTells, Settled
    <2>4. CASE TurnFails(r)
      <3>1. run'[r].log = "ended" /\ run'[r].phase = "ended" /\ ~run'[r].driven
        BY <1>3, <2>4 DEF TurnFails, RunRecords
      <3>2. r \notin resuming
        BY <1>3, <1>4 DEF RunTells
      <3> QED
        BY <1>2, <3>1, <3>2 DEF RunTells, Settled
    <2> QED
      BY <2>1, <2>2, <2>3, <2>4
  <1>6. RunsTell'
    <2>1. ASSUME NEW q \in Runs, q # r PROVE RunTells(q)'
      BY <1>1, <1>2, <1>4, <2>1, TellsOn DEF RunsTell
    <2> QED
      BY <1>2, <1>5, <2>1 DEF RunsTell
  <1>7. InboxTells' /\ OneSender' /\ OneLive' /\ OnePerChannel'
    <2>1. run[r].channel \in Nat /\ run'[r].channel \in Nat /\ run[r].channel <= run'[r].channel
      BY <1>1, <1>4, ChatFields
    <2> QED
      BY <1>1, <1>2, <1>4, <1>5, <2>1, RunMoves
  <1>8. NotStranded'
    <2>1. run[r].message = Nobody \/ run'[r].message = run[r].message
      <3>1. CASE Consume(r)
        BY <1>3, <3>1 DEF Consume, RunTells
      <3>2. CASE FlushChat(r) \/ ToolCall(r) \/ TurnFails(r)
        BY <1>3, <3>2 DEF FlushChat, ToolCall, TurnFails, RunRecords
      <3> QED
        BY <3>1, <3>2
    <2>2. \A x \in chatInbox : /\ run[x.run].message = x.message => run'[x.run].message = x.message
                               /\ run'[x.run].channel = run[x.run].channel
      BY <1>1, <1>4, <2>1, ChatFields, NobodyElse
    <2> QED
      BY <1>1, <1>2, <2>2 DEF NotStranded
  <1> QED
    BY <1>6, <1>7, <1>8

(* A turn that ends is in the outbox.                                      *)
LEMMA StandingEnds ==
  ASSUME StandingInv, NEW r \in Runs, TurnEnds(r)
  PROVE  RunsTell' /\ InboxTells' /\ OneSender' /\ OneLive' /\ OnePerChannel' /\ NotStranded'
  <1>1. /\ EngineInv /\ ChatTyped
        /\ RunsTell /\ InboxTells /\ OneSender /\ OneLive /\ OnePerChannel /\ NotStranded
    BY DEF StandingInv, EngineInv
  <1>2. /\ UNCHANGED <<chatInbox, sending, collector, resuming, raced>>
        /\ run[r].phase = "turn" /\ run[r].driven
    BY DEF TurnEnds
  <1>3. run \in [Runs -> RunRecords] /\ run[r] \in RunRecords /\ RunTells(r) /\ run[r].message \in Messages
    BY <1>1, <1>2, ChatFields DEF ChatTyped, RunsTell, RunTells
  <1>4. collector # Nobody /\ DOMAIN turns = Messages
    BY <1>1, NobodyAssumption DEF RunsTell, ChatTyped
  <1>5. /\ \A m \in Messages : turns[m] # Nobody => turns'[m] # Nobody
        /\ turns'[run[r].message] # Nobody
    BY <1>3, <1>4 DEF TurnEnds, EmitTurn
  <1>6. /\ \A q \in Runs : q # r => run'[q] = run[q]
        /\ run'[r].phase = "recorded" /\ run'[r].agent = run[r].agent /\ run'[r].message = run[r].message
        /\ run'[r].channel = run[r].channel /\ run'[r].log = run[r].log /\ run'[r].driven = run[r].driven
    BY <1>3 DEF TurnEnds, RunRecords
  <1>7. RunsTell'
    <2>1. RunTells(r)'
      BY <1>2, <1>3, <1>5, <1>6 DEF RunTells
    <2>2. ASSUME NEW q \in Runs, q # r PROVE RunTells(q)'
      BY <1>1, <1>2, <1>5, <1>6, <2>2, TellsOn DEF RunsTell
    <2> QED
      BY <1>1, <1>2, <2>1, <2>2 DEF RunsTell
  <1>8. InboxTells' /\ OneSender' /\ OneLive' /\ OnePerChannel'
    <2>1. run[r].channel \in Nat /\ run'[r].channel \in Nat /\ run[r].channel <= run'[r].channel
      BY <1>1, <1>6, ChatFields
    <2>2. Settled(r) => Settled(r)'
      BY <1>2, <1>6 DEF Settled
    <2> QED
      BY <1>1, <1>2, <1>6, <2>1, <2>2, RunMoves
  <1>9. NotStranded'
    <2>1. \A x \in chatInbox : /\ run'[x.run].message = run[x.run].message
                               /\ run'[x.run].channel = run[x.run].channel
                               /\ turns[x.message] # Nobody => turns'[x.message] # Nobody
      BY <1>1, <1>5, <1>6, ChatFields
    <2> QED
      BY <1>1, <1>2, <2>1 DEF NotStranded
  <1> QED
    BY <1>7, <1>8, <1>9

(* A run that moves to its next channel leaves no message of a one-sender  *)
(* agent unanswered: the one on the channel it leaves is the one it took.  *)
LEMMA StandingParks ==
  ASSUME StandingInv, NEW r \in Runs, Parks(r)
  PROVE  RunsTell' /\ InboxTells' /\ OneSender' /\ OneLive' /\ OnePerChannel' /\ NotStranded'
  <1>1. /\ EngineInv /\ ChatTyped
        /\ RunsTell /\ InboxTells /\ OneSender /\ OneLive /\ OnePerChannel /\ NotStranded
    BY DEF StandingInv, EngineInv
  <1>2. /\ UNCHANGED <<chatInbox, sending, turns, collector, resuming, raced>>
        /\ run[r].phase = "recorded" /\ run[r].driven
    BY DEF Parks
  <1>3. /\ run \in [Runs -> RunRecords] /\ run[r] \in RunRecords /\ RunTells(r)
        /\ run[r].message \in Messages /\ turns[run[r].message] # Nobody /\ run[r].channel \in Nat
    BY <1>1, <1>2, ChatFields DEF ChatTyped, RunsTell, RunTells
  <1>4. /\ \A q \in Runs : q # r => run'[q] = run[q]
        /\ run'[r].phase = "parked" /\ run'[r].agent = run[r].agent /\ run'[r].message = Nobody
        /\ run'[r].channel = run[r].channel + 1 /\ run'[r].log = "parked" /\ run'[r].driven = run[r].driven
    BY <1>3 DEF Parks, RunRecords
  <1>5. \A x \in chatInbox : x.run = r => x.channel \in Nat /\ 0 < x.channel /\ x.channel <= run[r].channel
    BY <1>1, ChatFields DEF InboxTells
  <1>6. RunsTell'
    <2>1. RunTells(r)'
      <3>1. r \notin resuming
        BY <1>2, <1>3 DEF RunTells
      <3> QED
        BY <1>2, <1>4, <3>1 DEF RunTells
    <2>2. ASSUME NEW q \in Runs, q # r PROVE RunTells(q)'
      BY <1>1, <1>2, <1>4, <2>2, TellsOn DEF RunsTell
    <2> QED
      BY <1>1, <1>2, <2>1, <2>2 DEF RunsTell
  <1>7. InboxTells' /\ OneSender' /\ OneLive' /\ OnePerChannel'
    <2>1. run'[r].channel \in Nat /\ run[r].channel <= run'[r].channel
      BY <1>3, <1>4
    <2>2. \A x \in chatInbox : x.run = r => x.channel # run'[r].channel
      BY <1>3, <1>4, <1>5
    <2>3. Settled(r)'
      BY <1>2, <1>4, <2>2 DEF Settled
    <2> QED
      BY <1>1, <1>2, <1>4, <2>1, <2>3, RunMoves
  <1>8. NotStranded'
    <2>1. ASSUME NEW x \in chatInbox
          PROVE  \/ AgentOf[x.message] \in raced \/ turns[x.message] # Nobody
                 \/ x.channel >= run'[x.run].channel \/ run'[x.run].message = x.message
      <3>1. \/ AgentOf[x.message] \in raced \/ turns[x.message] # Nobody
            \/ x.channel >= run[x.run].channel \/ run[x.run].message = x.message
        BY <1>1 DEF NotStranded
      <3>2. x.run \in Runs
        BY <1>1, ChatFields
      <3>3. CASE x.run # r
        BY <1>4, <3>1, <3>2, <3>3
      <3>4. CASE x.run = r /\ run[r].message = x.message
        BY <1>3, <3>4
      <3>5. CASE x.run = r /\ x.channel >= run[r].channel /\ AgentOf[x.message] \notin raced
        <4>1. x.channel = run[r].channel /\ run[r].channel > 0
          BY <1>3, <1>5, <3>5
        <4>2. PICK y \in chatInbox : y = [message |-> run[r].message, run |-> r, channel |-> run[r].channel]
          BY <1>2, <1>3, <4>1 DEF RunTells
        <4>3. y.message = run[r].message /\ y.run = r /\ y.channel = run[r].channel
          BY <4>2
        <4>4. x = y
          BY <1>1, <3>5, <4>1, <4>3 DEF OnePerChannel
        <4> QED
          BY <1>3, <4>3, <4>4
      <3> QED
        BY <3>1, <3>3, <3>4, <3>5
    <2> QED
      BY <1>2, <2>1 DEF NotStranded
  <1> QED
    BY <1>6, <1>7, <1>8

LEMMA StandingStep == StandingInv /\ [ChatNext]_ChatVars => StandingInv'
  <1> SUFFICES ASSUME StandingInv, [ChatNext]_ChatVars PROVE StandingInv'
    OBVIOUS
  <1>0. /\ EngineInv /\ ChatTyped
        /\ RunsTell /\ InboxTells /\ OneSender /\ OneLive /\ OnePerChannel /\ NotStranded
    BY DEF StandingInv, EngineInv
  <1> DEFINE Parts == RunsTell' /\ InboxTells' /\ OneSender' /\ OneLive' /\ OnePerChannel' /\ NotStranded'
  <1>1. EngineInv'
    BY <1>0, EnginesStep
  <1>2. ASSUME UNCHANGED <<run, chatInbox, sending, collector, turns, resuming, raced>> PROVE Parts
    <2>1. RunsTell'
      BY <1>0, <1>2 DEF RunsTell, RunTells
    <2>2. InboxTells' /\ OneSender'
      BY <1>0, <1>2 DEF InboxTells, OneSender, InTheAir, Settled, Live
    <2>3. OneLive' /\ OnePerChannel' /\ NotStranded'
      BY <1>0, <1>2 DEF OneLive, Live, OnePerChannel, NotStranded
    <2> QED
      BY <2>1, <2>2, <2>3
  <1>3. ASSUME UNCHANGED ChatVars \/ SwitchEngine PROVE Parts
    BY <1>2, <1>3 DEF ChatVars, SwitchEngine
  <1>4. ASSUME NEW m \in Messages, sendChat(m) PROVE Parts
    BY <1>4, StandingSends
  <1>5. ASSUME NEW m \in Messages, activeChatRun(m) PROVE Parts
    <2> DEFINE open == {r \in Runs : run[r].agent = AgentOf[m] /\ run[r].log \in {"running", "parked"}}
    <2>1. /\ sending[m].at = "looking" /\ InTheAir(m)
          /\ UNCHANGED <<run, chatInbox, turns, resuming, raced, collector>>
      BY <1>5 DEF activeChatRun, InTheAir
    <2>2. \A q \in open : run[q].phase # "none" /\ run[q].agent = AgentOf[m]
      BY <1>0 DEF RunsTell, RunTells
    <2>3. ASSUME AgentOf[m] \notin raced, NEW q \in Runs, Live(q, AgentOf[m]) PROVE q \in open
      <3>1. Settled(q)
        BY <1>0, <2>1, <2>3 DEF OneSender, Live
      <3> QED
        BY <2>3, <3>1 DEF Live, Settled
    <2>4. \A q \in open : Live(q, AgentOf[m])
      BY DEF Live
    <2>5. PICK r \in Runs \cup {Nobody} :
            Step(m, "found", r) /\ IF open = {} THEN r = Nobody ELSE r \in open
      BY <1>5 DEF activeChatRun
    <2>6. r # Nobody => run[r].phase # "none" /\ run[r].agent = AgentOf[m]
      BY <2>2, <2>5
    <2>7. ASSUME AgentOf[m] \notin raced, NEW q \in Runs, Live(q, AgentOf[m]) PROVE q = r
      <3>1. q \in open
        BY <2>3, <2>7
      <3>2. r \in Runs /\ Live(r, AgentOf[m]) /\ AgentOf[m] \in Agents
        BY <1>0, <2>4, <2>5, <3>1, ChatFields
      <3> QED
        BY <1>0, <2>7, <3>2 DEF OneLive
    <2> HIDE DEF open
    <2> QED
      BY <2>1, <2>5, <2>6, <2>7, SenderMoves
  <1>6. ASSUME NEW m \in Messages, Join(m) PROVE Parts
    <2>1. /\ sending[m].at = "found" /\ InTheAir(m) /\ sending[m].run \in Runs \cup {Nobody}
          /\ sending[m].run # Nobody /\ Step(m, "polling", sending[m].run)
          /\ UNCHANGED <<run, chatInbox, turns, resuming, raced, collector>>
      BY <1>0, <1>6, ChatFields DEF Join, Fits, InTheAir
    <2>2. run[sending[m].run].phase # "none" /\ run[sending[m].run].agent = AgentOf[m]
      BY <1>0, <2>1 DEF InboxTells
    <2> QED
      BY <2>1, <2>2, SenderMoves
  <1>7. ASSUME NEW m \in Messages, Retire(m) PROVE Parts
    BY <1>7, StandingRetires
  <1>8. ASSUME NEW m \in Messages, Start(m) PROVE Parts
    BY <1>8, StandingStarts
  <1>9. ASSUME NEW m \in Messages, Deliver(m) PROVE Parts
    BY <1>9, StandingDelivers
  <1>10. ASSUME NEW m \in Messages, waitForTurn(m) \/ TimesOut(m) PROVE Parts
    <2>1. PICK at \in {"answered", "refused"} : Step(m, at, sending[m].run)
      BY <1>10 DEF waitForTurn, TimesOut
    <2>2. /\ InTheAir(m) /\ sending[m].run \in Runs \cup {Nobody}
          /\ UNCHANGED <<run, chatInbox, turns, resuming, raced, collector>>
      BY <1>0, <1>10, ChatFields DEF waitForTurn, TimesOut, InTheAir
    <2> QED
      BY <2>1, <2>2, SenderMoves
  <1>11. ASSUME NEW r \in Runs, Consume(r) \/ FlushChat(r) \/ ToolCall(r) \/ TurnFails(r) PROVE Parts
    BY <1>11, StandingRuns
  <1>12. ASSUME NEW r \in Runs, TurnEnds(r) PROVE Parts
    BY <1>12, StandingEnds
  <1>13. ASSUME NEW r \in Runs, Parks(r) PROVE Parts
    BY <1>13, StandingParks
  <1>14. ASSUME NEW r \in Runs, ResumeChat(r) PROVE Parts
    BY <1>14, StandingResumes
  <1>15. ASSUME CrashChat PROVE Parts
    BY <1>15, StandingDies
  <1>16. Parts
    <2> HIDE DEF Parts
    <2> QED
      BY <1>3, <1>4, <1>5, <1>6, <1>7, <1>8, <1>9, <1>10, <1>11, <1>12, <1>13, <1>14, <1>15 DEF ChatNext
  <1> QED
    BY <1>1, <1>16 DEF StandingInv

(* One live run at most is what OneStandingRun counts.                     *)
LEMMA StandsAlone == OneLive => OneStandingRun
  <1> SUFFICES ASSUME OneLive, NEW a \in Agents \ raced
               PROVE  Cardinality({r \in Runs : run[r].agent = a
                                     /\ (run[r].driven \/ run[r].log \in {"running", "parked"})}) <= 1
    BY DEF OneStandingRun
  <1> DEFINE live == {r \in Runs : run[r].agent = a /\ (run[r].driven \/ run[r].log \in {"running", "parked"})}
  <1>1. \A q, r \in live : q = r
    BY DEF OneLive, Live
  <1>2. CASE live = {}
    BY <1>2, FS_EmptySet
  <1>3. CASE live # {}
    <2>1. PICK r \in live : TRUE
      BY <1>3
    <2>2. live = {r}
      BY <1>1, <2>1
    <2>3. Cardinality({r}) = 1
      BY FS_Singleton
    <2> HIDE DEF live
    <2>4. Cardinality(live) <= 1
      BY <2>2, <2>3
    <2> QED
      BY <2>4 DEF live
  <1> QED
    BY <1>2, <1>3

-----------------------------------------------------------------------------
(* The desk: the parts together.                                           *)

(* A step moves the part this behavior is about and no other.              *)
LEMMA PartMoves ==
  ASSUME [DeskNext]_DeskVars
  PROVE  /\ part' = part
         /\ part = "auto" => [AutoNext]_AutoVars
         /\ part # "auto" => UNCHANGED AutoVars
         /\ part = "chat" => [ChatNext]_ChatVars
         /\ part # "chat" => UNCHANGED ChatVars
         /\ part = "timers" => [TimersNext]_TimersVars
         /\ part # "timers" => UNCHANGED TimersVars
         /\ part = "subscriptions" => [SubscriptionsNext]_SubscriptionsVars
  <1>1. CASE UNCHANGED DeskVars
    BY <1>1 DEF DeskVars
  <1>2. CASE DeskNext
    <2>1. Others
      BY <1>2 DEF DeskNext
    <2> QED
      BY <1>2, <2>1 DEF DeskNext, Others, Elsewhere
  <1> QED
    BY <1>1, <1>2

AgentsInv == (part = "auto" => AutoInv) /\ (part = "chat" => EngineInv)

LEMMA AgentsStart == DeskInit => AgentsInv
  BY AutoStarts, EnginesStart DEF DeskInit, AgentsInv

LEMMA AgentsStep == AgentsInv /\ [DeskNext]_DeskVars => AgentsInv'
  <1> SUFFICES ASSUME AgentsInv, [DeskNext]_DeskVars PROVE AgentsInv'
    OBVIOUS
  <1> QED
    BY PartMoves, AutoSteps, EnginesStep DEF AgentsInv

(* A message goes to a run of an engine that was configured while it was   *)
(* being sent, a recorded turn stands, and a nightly wakes no agent on top *)
(* of an open proposal or twice a week for one picture: for any messages,  *)
(* runs, engines, nightlies and deaths.                                    *)
THEOREM AgentsActRight == DeskSpec => AgentsAct
  <1>1. AgentsInv /\ [DeskNext]_DeskVars => [OnItsEngine]_ChatVars
    BY PartMoves, OnTheEngine DEF AgentsInv
  <1>2. AgentsInv /\ [DeskNext]_DeskVars => [Stands]_ChatVars
    BY PartMoves, TurnsStand DEF AgentsInv
  <1>3. AgentsInv /\ [DeskNext]_DeskVars => [NotOnTop]_AutoVars
    BY PartMoves, NoneOnTop DEF AgentsInv
  <1>4. AgentsInv /\ [DeskNext]_DeskVars => [NotTwice]_AutoVars
    BY PartMoves, NoneTwice DEF AgentsInv
  <1>5. DeskSpec => EngineOfTheDay
    BY <1>1, AgentsStart, AgentsStep, PTL DEF DeskSpec, EngineOfTheDay, OnItsEngine
  <1>6. DeskSpec => TurnStands
    BY <1>2, AgentsStart, AgentsStep, PTL DEF DeskSpec, TurnStands, Stands
  <1>7. DeskSpec => NeverOnTop
    BY <1>3, AgentsStart, AgentsStep, PTL DEF DeskSpec, NeverOnTop, NotOnTop
  <1>8. DeskSpec => NotTwiceAWeek
    BY <1>4, AgentsStart, AgentsStep, PTL DEF DeskSpec, NotTwiceAWeek, NotTwice
  <1> QED
    BY <1>5, <1>6, <1>7, <1>8 DEF AgentsAct

KeepInv == part = "timers" => SpacedInv

(* A timer is never early but where the clock went back in its last leg,   *)
(* and while it keeps time overdue ones fire a stagger apart: for any      *)
(* finite set of timers whose slots setTimeout can wait for (a slot that   *)
(* is further off fires at once).                                          *)
THEOREM TimersAreKept ==
  ASSUME IsFiniteSet(Timers), OVERDUE_STAGGER_MS * (Cardinality(Timers) - 1) <= Clamp
  PROVE  DeskSpec => TimersKeepTime
  <1>1. MaxSlots <= Clamp
    BY DEF MaxSlots
  <1>2. DeskInit => KeepInv
    BY SpacedStarts DEF DeskInit, KeepInv
  <1>3. KeepInv /\ [DeskNext]_DeskVars => KeepInv'
    BY <1>1, PartMoves, SpacedStep DEF KeepInv
  <1>4. KeepInv /\ [DeskNext]_DeskVars => [InTime]_TimersVars
    BY PartMoves, FiresInTime DEF KeepInv, SpacedInv
  <1>5. KeepInv /\ [DeskNext]_DeskVars => [OneByOne]_TimersVars
    BY PartMoves, FireOneByOne DEF KeepInv
  <1>6. DeskSpec => NeverEarly
    BY <1>2, <1>3, <1>4, PTL DEF DeskSpec, NeverEarly, InTime
  <1>7. DeskSpec => OneAtATime
    BY <1>2, <1>3, <1>5, PTL DEF DeskSpec, OneAtATime, OneByOne
  <1> QED
    BY <1>6, <1>7 DEF TimersKeepTime

StrandsInv ==
  /\ part = "timers" => WaitInv
  /\ part = "subscriptions" => SubsInv
  /\ part = "chat" => StandingInv

(* An armed timer is late by no more than the slots before its own and a   *)
(* chunk, a subscriber that lost an event is told, and an agent whose      *)
(* senders wait for one another has one standing run, which leaves no      *)
(* message behind: for any finite set of timers, and any subscribers,      *)
(* messages and runs.                                                      *)
THEOREM NobodyIsStranded ==
  ASSUME IsFiniteSet(Timers)
  PROVE  DeskSpec => []NobodyStranded
  <1>1. DeskInit => StrandsInv
    BY WaitStarts, SubsStart, StandingStart DEF DeskInit, StrandsInv
  <1>2. StrandsInv /\ [DeskNext]_DeskVars => StrandsInv'
    BY PartMoves, WaitStep, SubsStep, StandingStep DEF StrandsInv
  <1>3. StrandsInv => NobodyStranded
    BY WaitBounds, NothingLost, StandsAlone DEF StrandsInv, NobodyStranded, StandingInv
  <1> QED
    BY <1>1, <1>2, <1>3, PTL DEF DeskSpec

-----------------------------------------------------------------------------
(* Credentials.                                                            *)

BareItems == [of : SecretValues, piece : Nat] \cup [pieces : 2 .. MaxPieces] \cup {NoValue}

CallRecords == [kind : {"none", "get", "set", "tail", "sweep"}, target : Targets \cup {NoValue},
                value : SecretValues \cup {NoValue}, at : Nat, got : Seq(BareItems), sweep : SUBSET Targets]

SecretsTyped ==
  /\ held \in [Targets -> [0 .. MaxPieces -> BareItems]]
  /\ blobsParse \in BOOLEAN
  /\ secretCache \in [Targets -> SecretValues \cup {NoValue, Torn, Unread}]
  /\ call \in CallRecords
  /\ call.kind \in {"get", "set", "tail"} => call.target \in Targets
  /\ call.kind = "set" => call.value \in SecretValues
  /\ mayHold \in [Targets -> SUBSET (SecretValues \cup {NoValue})]
  /\ torn \subseteq Targets
  /\ callUpsets \in Nat

(* A target that was not torn reads as what it may hold.                   *)
FreshTrue == \A t \in Targets \ torn : FreshRead(t) \in mayHold[t]

(* Only a blob file fails to parse, and then all of it is torn.            *)
FileTorn == ~blobsParse => platform = "file" /\ torn = Targets

(* Pieces are the Credential Manager's alone.                              *)
OneItem ==
  platform # "manager" =>
    \A t \in Targets : ~IsSentinel(held[t][0]) /\ \A i \in 1 .. MaxPieces : held[t][i] = NoValue

(* What is remembered is what a fresh read gives, but for a value whose    *)
(* storing is not over; the keychain remembers nothing.                    *)
Remembered ==
  /\ \A t \in Targets \ torn :
       (call.kind = "tail" /\ call.value # NoValue /\ call.target = t)
         \/ secretCache[t] \in {Unread, FreshRead(t)}
  /\ platform = "keychain" => \A t \in Targets : secretCache[t] = Unread

PieceOf(v, i) == [of |-> v, piece |-> i]
BareOf(v) == IF Pieces[v] > 0 THEN [pieces |-> Pieces[v]] ELSE [of |-> v, piece |-> 0]

(* A read has the pieces that came before.                                 *)
Reading ==
  call.kind = "get" =>
    /\ call.got = [i \in 1 .. call.at - 1 |-> held[call.target][i]]
    /\ call.at > 0 =>
         /\ IsSentinel(held[call.target][0]) /\ blobsParse /\ call.at <= held[call.target][0].pieces
         /\ \A i \in 1 .. call.at - 1 : held[call.target][i] # NoValue

(* A write has written the pieces that come before.                        *)
Writing ==
  call.kind = "set" =>
    /\ platform # "manager" => call.at = 0
    /\ call.at <= Pieces[call.value]
    /\ platform = "manager" =>
         \A i \in 1 .. Pieces[call.value] :
           call.at = 0 \/ i < call.at => held[call.target][i] = PieceOf(call.value, i)

(* The tail of an older value is not part of the one that stands.          *)
Sweeping ==
  call.kind = "tail" =>
    /\ platform = "manager"
    /\ call.value # NoValue =>
         /\ held[call.target][0] = BareOf(call.value) /\ Pieces[call.value] < call.at
         /\ \A i \in 1 .. Pieces[call.value] : held[call.target][i] = PieceOf(call.value, i)
         /\ mayHold[call.target] = {call.value} /\ call.target \notin torn
    /\ call.value = NoValue =>
         /\ call.at > 0 /\ NoValue \in mayHold[call.target] /\ secretCache[call.target] = Unread

Filled(t, i) == held[t][i] # NoValue

(* From some piece on there is no gap.                                     *)
NoGap(t, from) ==
  \A i, j \in 1 .. MaxPieces : from <= i /\ i < j /\ Filled(t, j) => Filled(t, i)

Counted(t) ==
  \A i \in 1 .. MaxPieces : Filled(t, i) <=> IsSentinel(held[t][0]) /\ i <= held[t][0].pieces

(* While no call failed: pieces are those the sentinel counts; a write and *)
(* a tail under way leave no gap.                                          *)
Tidy ==
  callUpsets = 0 =>
    /\ \A t \in Targets : call.kind \notin {"set", "tail"} \/ call.target # t => Counted(t)
    /\ call.kind = "set" => NoGap(call.target, 1)
    /\ call.kind = "tail" =>
         /\ NoGap(call.target, call.at)
         /\ call.value = NoValue => held[call.target][0] = NoValue
         /\ \A i \in 1 .. MaxPieces :
              i < call.at /\ (call.value # NoValue => Pieces[call.value] < i) => ~Filled(call.target, i)

SecretsInv ==
  SecretsTyped /\ FreshTrue /\ FileTorn /\ OneItem /\ Remembered /\ Reading /\ Writing /\ Sweeping /\ Tidy

-----------------------------------------------------------------------------
(* Proofs: credentials.                                                    *)

LEMMA Longest ==
  /\ MaxPieces \in Nat
  /\ \A v \in SecretValues : Pieces[v] \in Nat /\ Pieces[v] # 1 /\ Pieces[v] <= MaxPieces
  <1> DEFINE Counts0 == {Pieces[v] : v \in SecretValues}
  <1>1. \E n \in Counts0 : \A v \in SecretValues : Pieces[v] <= n
    BY LongestAssumption
  <1>2. MaxPieces \in Counts0 /\ \A v \in SecretValues : Pieces[v] <= MaxPieces
    BY <1>1 DEF MaxPieces
  <1>3. \A v \in SecretValues : Pieces[v] \in Nat /\ Pieces[v] # 1
    BY PiecesAssumption
  <1> QED
    BY <1>2, <1>3

LEMMA Items ==
  /\ ~IsSentinel(NoValue)
  /\ \A x \in BareItems : IsSentinel(x) => x.pieces \in 2 .. MaxPieces
  /\ \A x \in BareItems : x # NoValue /\ ~IsSentinel(x) => x.of \in SecretValues
  /\ \A v \in SecretValues, i \in Nat :
       /\ PieceOf(v, i) \in BareItems /\ PieceOf(v, i) # NoValue /\ ~IsSentinel(PieceOf(v, i))
       /\ PieceOf(v, i).of = v /\ PieceOf(v, i).piece = i
  <1>1. ~IsSentinel(NoValue)
    BY DEF IsSentinel
  <1>2. ASSUME NEW x \in [of : SecretValues, piece : Nat]
        PROVE  ~IsSentinel(x) /\ x.of \in SecretValues /\ x # NoValue
    <2>1. DOMAIN x = {"of", "piece"} /\ x # NoValue /\ x.of \in SecretValues
      BY SentinelsAssumption
    <2> QED
      BY <2>1 DEF IsSentinel
  <1>3. ASSUME NEW v \in SecretValues, NEW i \in Nat
        PROVE  /\ PieceOf(v, i) \in BareItems /\ PieceOf(v, i) # NoValue /\ ~IsSentinel(PieceOf(v, i))
               /\ PieceOf(v, i).of = v /\ PieceOf(v, i).piece = i
    <2>1. PieceOf(v, i) \in [of : SecretValues, piece : Nat]
      BY DEF PieceOf
    <2>2. PieceOf(v, i) \in BareItems
      BY <2>1 DEF BareItems
    <2>3. PieceOf(v, i).of = v /\ PieceOf(v, i).piece = i
      BY DEF PieceOf
    <2> QED
      BY <1>2, <2>1, <2>2, <2>3
  <1>4. ASSUME NEW x \in BareItems
        PROVE  /\ IsSentinel(x) => x.pieces \in 2 .. MaxPieces
               /\ x # NoValue /\ ~IsSentinel(x) => x.of \in SecretValues
    <2>1. CASE x \in [of : SecretValues, piece : Nat]
      BY <1>2, <2>1
    <2>2. CASE x \in [pieces : 2 .. MaxPieces]
      <3>1. DOMAIN x = {"pieces"} /\ x.pieces \in 2 .. MaxPieces /\ x # NoValue
        BY <2>2, SentinelsAssumption, Longest
      <3> QED
        BY <3>1 DEF IsSentinel
    <2>3. CASE x = NoValue
      BY <1>1, <2>3
    <2> QED
      BY <2>1, <2>2, <2>3 DEF BareItems
  <1> QED
    BY <1>1, <1>3, <1>4

LEMMA Bares ==
  ASSUME NEW v \in SecretValues
  PROVE  /\ BareOf(v) \in BareItems /\ BareOf(v) # NoValue
         /\ IsSentinel(BareOf(v)) <=> Pieces[v] > 0
         /\ Pieces[v] > 0 => BareOf(v).pieces = Pieces[v]
         /\ Pieces[v] = 0 => BareOf(v).of = v
  <1>1. Pieces[v] \in Nat /\ Pieces[v] # 1 /\ Pieces[v] <= MaxPieces
    BY Longest
  <1>2. CASE Pieces[v] > 0
    <2>1. BareOf(v) = [pieces |-> Pieces[v]] /\ Pieces[v] \in 2 .. MaxPieces
      BY <1>1, <1>2, Longest DEF BareOf
    <2>2. BareOf(v) \in [pieces : 2 .. MaxPieces] /\ BareOf(v) \in [pieces : Nat]
      BY <2>1
    <2>3. BareOf(v) # NoValue
      BY <2>2, SentinelsAssumption
    <2>4. "pieces" \in DOMAIN BareOf(v) /\ BareOf(v).pieces = Pieces[v]
      BY <2>1
    <2> QED
      BY <1>2, <2>2, <2>3, <2>4 DEF BareItems, IsSentinel
  <1>3. CASE Pieces[v] = 0
    <2>1. BareOf(v) = PieceOf(v, 0)
      BY <1>3 DEF BareOf, PieceOf
    <2> QED
      BY <1>3, <2>1, Items
  <1> QED
    BY <1>1, <1>2, <1>3

(* All the pieces of a value decode to it.                                 *)
LEMMA WholeIs ==
  ASSUME NEW v \in SecretValues, Pieces[v] > 0, NEW gathered,
         Len(gathered) = Pieces[v], \A i \in 1 .. Pieces[v] : gathered[i] = PieceOf(v, i)
  PROVE  WholeOf(gathered) = v
  <1> DEFINE is(w) == Len(gathered) = Pieces[w] /\ \A i \in 1 .. Len(gathered) : gathered[i] = [of |-> w, piece |-> i]
  <1>1. is(v)
    BY DEF PieceOf
  <1>2. ASSUME NEW w \in SecretValues, is(w) PROVE w = v
    <2>1. 1 \in 1 .. Pieces[v]
      BY Longest
    <2>2. gathered[1] = PieceOf(v, 1) /\ gathered[1] = PieceOf(w, 1)
      BY <1>2, <2>1 DEF PieceOf
    <2> QED
      BY <2>2, Items
  <1>3. WholeOf(gathered) = IF \E w \in SecretValues : is(w) THEN CHOOSE w \in SecretValues : is(w) ELSE Torn
    BY DEF WholeOf
  <1> HIDE DEF is
  <1> QED
    BY <1>1, <1>2, <1>3

LEMMA WholeType == ASSUME NEW gathered PROVE WholeOf(gathered) \in SecretValues \cup {Torn}
  <1> DEFINE is(w) == Len(gathered) = Pieces[w] /\ \A i \in 1 .. Len(gathered) : gathered[i] = [of |-> w, piece |-> i]
  <1>1. WholeOf(gathered) = IF \E w \in SecretValues : is(w) THEN CHOOSE w \in SecretValues : is(w) ELSE Torn
    BY DEF WholeOf
  <1> HIDE DEF is
  <1> QED
    BY <1>1

LEMMA FreshType ==
  ASSUME SecretsTyped, NEW t \in Targets
  PROVE  FreshRead(t) \in SecretValues \cup {NoValue, Torn}
  <1>1. held[t][0] \in BareItems
    BY Longest DEF SecretsTyped
  <1> QED
    BY <1>1, Items, WholeType DEF FreshRead

(* A stored value reads as itself.                                         *)
LEMMA FreshStored ==
  ASSUME NEW v \in SecretValues, NEW t \in Targets, blobsParse, held[t][0] = BareOf(v),
         \A i \in 1 .. Pieces[v] : held[t][i] = PieceOf(v, i)
  PROVE  FreshRead(t) = v
  <1>1. /\ BareOf(v) # NoValue
        /\ IsSentinel(BareOf(v)) <=> Pieces[v] > 0
        /\ Pieces[v] > 0 => BareOf(v).pieces = Pieces[v]
        /\ Pieces[v] = 0 => BareOf(v).of = v
        /\ Pieces[v] \in Nat
    BY Bares, Longest
  <1>2. CASE Pieces[v] = 0
    BY <1>1, <1>2 DEF FreshRead
  <1>3. CASE Pieces[v] > 0
    <2> DEFINE gathered == [i \in 1 .. Pieces[v] |-> held[t][i]]
    <2>1. \A i \in 1 .. Pieces[v] : gathered[i] = PieceOf(v, i) /\ held[t][i] # NoValue
      BY <1>1, Items
    <2>2. Len(gathered) = Pieces[v]
      BY <1>1
    <2>3. FreshRead(t) = WholeOf(gathered)
      BY <1>1, <1>3, <2>1 DEF FreshRead
    <2> HIDE DEF gathered
    <2> QED
      BY <1>3, <2>1, <2>2, <2>3, WholeIs
  <1> QED
    BY <1>1, <1>2, <1>3

(* And once it is written.                                                 *)
LEMMA FreshWritten ==
  ASSUME NEW v \in SecretValues, NEW t \in Targets, blobsParse', held'[t][0] = BareOf(v),
         \A i \in 1 .. Pieces[v] : held'[t][i] = PieceOf(v, i)
  PROVE  FreshRead(t)' = v
  <1>1. /\ BareOf(v) # NoValue
        /\ IsSentinel(BareOf(v)) <=> Pieces[v] > 0
        /\ Pieces[v] > 0 => BareOf(v).pieces = Pieces[v]
        /\ Pieces[v] = 0 => BareOf(v).of = v
        /\ Pieces[v] \in Nat
    BY Bares, Longest
  <1>2. CASE Pieces[v] = 0
    BY <1>1, <1>2 DEF FreshRead
  <1>3. CASE Pieces[v] > 0
    <2> DEFINE gathered == [i \in 1 .. Pieces[v] |-> held'[t][i]]
    <2>1. \A i \in 1 .. Pieces[v] : gathered[i] = PieceOf(v, i) /\ held'[t][i] # NoValue
      BY <1>1, Items
    <2>2. Len(gathered) = Pieces[v]
      BY <1>1
    <2>3. FreshRead(t)' = WholeOf(gathered)
      BY <1>1, <1>3, <2>1 DEF FreshRead
    <2> HIDE DEF gathered
    <2> QED
      BY <1>3, <2>1, <2>2, <2>3, WholeIs
  <1> QED
    BY <1>1, <1>2, <1>3

(* What is read depends on the item and the pieces it counts.              *)
LEMMA FreshSame ==
  ASSUME NEW t \in Targets, blobsParse' = blobsParse, held'[t][0] = held[t][0],
         IsSentinel(held[t][0]) => \A i \in 1 .. held[t][0].pieces : held'[t][i] = held[t][i]
  PROVE  FreshRead(t)' = FreshRead(t)
  <1>1. CASE IsSentinel(held[t][0])
    <2>1. [i \in 1 .. held[t][0].pieces |-> held'[t][i]] = [i \in 1 .. held[t][0].pieces |-> held[t][i]]
      BY <1>1
    <2>2. (\E i \in 1 .. held[t][0].pieces : held'[t][i] = NoValue)
            <=> \E i \in 1 .. held[t][0].pieces : held[t][i] = NoValue
      BY <1>1
    <2> QED
      BY <1>1, <2>1, <2>2 DEF FreshRead
  <1>2. CASE ~IsSentinel(held[t][0])
    BY <1>2 DEF FreshRead
  <1> QED
    BY <1>1, <1>2

LEMMA SecretsStart == SecretsInit => SecretsInv
  <1> SUFFICES ASSUME SecretsInit PROVE SecretsInv
    OBVIOUS
  <1>1. PICK was \in [Targets -> SecretValues \cup {NoValue}] :
          /\ held = [t \in Targets |-> StoreOf(was[t], platform)]
          /\ mayHold = [t \in Targets |-> {was[t]}]
    BY DEF SecretsInit
  <1>2. /\ blobsParse = TRUE /\ secretCache = [t \in Targets |-> Unread]
        /\ call = NoCall /\ torn = {} /\ callUpsets = 0
    BY DEF SecretsInit
  <1>3. ASSUME NEW t \in Targets, was[t] = NoValue
        PROVE  \A i \in 0 .. MaxPieces : held[t][i] = NoValue
    BY <1>1, <1>3 DEF StoreOf
  <1>4. ASSUME NEW t \in Targets, was[t] # NoValue, platform # "manager"
        PROVE  /\ held[t][0] = PieceOf(was[t], 0) /\ \A i \in 1 .. MaxPieces : held[t][i] = NoValue
               /\ was[t] \in SecretValues
    BY <1>1, <1>4, Longest DEF StoreOf, PieceOf
  <1>5. ASSUME NEW t \in Targets, was[t] # NoValue, platform = "manager"
        PROVE  /\ held[t][0] = BareOf(was[t]) /\ was[t] \in SecretValues
               /\ \A i \in 1 .. Pieces[was[t]] : held[t][i] = PieceOf(was[t], i)
               /\ \A i \in 1 .. MaxPieces : Pieces[was[t]] < i => held[t][i] = NoValue
    BY <1>1, <1>5, Longest DEF StoreOf, PieceOf, BareOf
  <1>6. held \in [Targets -> [0 .. MaxPieces -> BareItems]]
    <2>1. ASSUME NEW t \in Targets, NEW i \in 0 .. MaxPieces PROVE held[t][i] \in BareItems
      <3>1. CASE was[t] = NoValue
        BY <1>3, <3>1 DEF BareItems
      <3>2. CASE was[t] # NoValue /\ platform # "manager"
        BY <1>4, <3>2, Items, Longest DEF BareItems
      <3>3. CASE was[t] # NoValue /\ platform = "manager"
        <4>1. CASE i = 0
          BY <1>5, <3>3, <4>1, Bares
        <4>2. CASE i \in 1 .. Pieces[was[t]]
          BY <1>5, <3>3, <4>2, Items, Longest
        <4>3. CASE i > 0 /\ Pieces[was[t]] < i
          BY <1>5, <3>3, <4>3 DEF BareItems
        <4> QED
          BY <1>5, <3>3, <4>1, <4>2, <4>3, Longest
      <3> QED
        BY <3>1, <3>2, <3>3
    <2>2. ASSUME NEW t \in Targets PROVE held[t] \in [0 .. MaxPieces -> BareItems]
      <3>1. held[t] = [i \in 0 .. MaxPieces |-> held[t][i]]
        BY <1>1 DEF StoreOf
      <3> QED
        BY <2>1, <3>1
    <2> QED
      BY <1>1, <2>2
  <1>7. SecretsTyped
    <2>1. NoCall \in CallRecords /\ NoCall.kind = "none"
      BY DEF NoCall, CallRecords
    <2> QED
      BY <1>1, <1>2, <1>6, <2>1 DEF SecretsTyped
  <1>8. \A t \in Targets : FreshRead(t) = was[t]
    <2>1. ASSUME NEW t \in Targets PROVE FreshRead(t) = was[t]
      <3>1. CASE was[t] = NoValue
        BY <1>3, <3>1, Longest DEF FreshRead
      <3>2. CASE was[t] # NoValue /\ platform # "manager"
        BY <1>2, <1>4, <3>2, Items DEF FreshRead
      <3>3. CASE was[t] # NoValue /\ platform = "manager"
        BY <1>2, <1>5, <3>3, FreshStored
      <3> QED
        BY <3>1, <3>2, <3>3
    <2> QED
      BY <2>1
  <1>9. FreshTrue /\ FileTorn /\ Remembered
    BY <1>1, <1>2, <1>8 DEF FreshTrue, FileTorn, Remembered
  <1>10. OneItem
    BY <1>3, <1>4, Items, Longest DEF OneItem
  <1>11. Reading /\ Writing /\ Sweeping
    BY <1>2 DEF Reading, Writing, Sweeping, NoCall
  <1>12. Tidy
    <2>1. ASSUME NEW t \in Targets PROVE Counted(t)
      <3>1. CASE was[t] = NoValue
        BY <1>3, <3>1, Items, Longest DEF Counted, Filled
      <3>2. CASE was[t] # NoValue /\ platform # "manager"
        BY <1>4, <3>2, Items DEF Counted, Filled
      <3>3. CASE was[t] # NoValue /\ platform = "manager"
        <4>1. \A i \in 1 .. Pieces[was[t]] : Filled(t, i)
          BY <1>5, <3>3, Items, Longest DEF Filled
        <4>2. \A i \in 1 .. MaxPieces : Pieces[was[t]] < i => ~Filled(t, i)
          BY <1>5, <3>3 DEF Filled
        <4>3. Pieces[was[t]] \in Nat /\ (IsSentinel(held[t][0]) <=> Pieces[was[t]] > 0)
              /\ (Pieces[was[t]] > 0 => held[t][0].pieces = Pieces[was[t]])
          BY <1>5, <3>3, Bares, Longest
        <4> QED
          BY <4>1, <4>2, <4>3 DEF Counted
      <3> QED
        BY <3>1, <3>2, <3>3
    <2>2. call.kind = "none"
      BY <1>2 DEF NoCall
    <2> QED
      BY <2>1, <2>2 DEF Tidy
  <1> QED
    BY <1>7, <1>9, <1>10, <1>11, <1>12 DEF SecretsInv

(* A call that is none, or the next of a sweep, has nothing under way.     *)
LEMMA Idles ==
  ASSUME call'.kind \in {"none", "sweep"}
  PROVE  Reading' /\ Writing' /\ Sweeping'
  BY DEF Reading, Writing, Sweeping

(* Calls: their kinds and what they carry.                                 *)
GetCall(t) == [NoCall EXCEPT !.kind = "get", !.target = t]
SetCall(t, v, at) == [NoCall EXCEPT !.kind = "set", !.target = t, !.value = v, !.at = at]
OverCall(rest) == [NoCall EXCEPT !.kind = IF rest = {} THEN "none" ELSE "sweep", !.sweep = rest]
TailCall(t, rest) == [NoCall EXCEPT !.kind = "tail", !.target = t, !.at = 1, !.sweep = rest]

LEMMA Calls ==
  /\ NoCall \in CallRecords /\ NoCall.kind = "none" /\ NoCall.at = 0 /\ NoCall.got = <<>>
  /\ \A t \in Targets :
       /\ GetCall(t) \in CallRecords /\ GetCall(t).kind = "get" /\ GetCall(t).target = t
       /\ GetCall(t).at = 0 /\ GetCall(t).got = <<>>
  /\ \A t \in Targets, v \in SecretValues, at \in Nat :
       /\ SetCall(t, v, at) \in CallRecords /\ SetCall(t, v, at).kind = "set"
       /\ SetCall(t, v, at).target = t /\ SetCall(t, v, at).value = v /\ SetCall(t, v, at).at = at
  /\ \A rest \in SUBSET Targets :
       OverCall(rest) \in CallRecords /\ OverCall(rest).kind \in {"none", "sweep"}
  /\ \A t \in Targets, rest \in SUBSET Targets :
       /\ TailCall(t, rest) \in CallRecords /\ TailCall(t, rest).kind = "tail"
       /\ TailCall(t, rest).target = t /\ TailCall(t, rest).at = 1
       /\ TailCall(t, rest).value = NoValue /\ TailCall(t, rest).sweep = rest
  <1>1. NoCall \in CallRecords /\ NoCall.kind = "none" /\ NoCall.at = 0 /\ NoCall.got = <<>>
    BY DEF NoCall, CallRecords
  <1>2. ASSUME NEW c \in CallRecords, NEW kind \in {"none", "get", "set", "tail", "sweep"}
        PROVE  LET d == [c EXCEPT !.kind = kind] IN
               /\ d \in CallRecords /\ d.kind = kind /\ d.target = c.target /\ d.value = c.value
               /\ d.at = c.at /\ d.got = c.got /\ d.sweep = c.sweep
    BY DEF CallRecords
  <1>3. ASSUME NEW c \in CallRecords, NEW t \in Targets
        PROVE  LET d == [c EXCEPT !.target = t] IN
               /\ d \in CallRecords /\ d.kind = c.kind /\ d.target = t /\ d.value = c.value
               /\ d.at = c.at /\ d.got = c.got /\ d.sweep = c.sweep
    BY DEF CallRecords
  <1>4. ASSUME NEW c \in CallRecords, NEW v \in SecretValues
        PROVE  LET d == [c EXCEPT !.value = v] IN
               /\ d \in CallRecords /\ d.kind = c.kind /\ d.target = c.target /\ d.value = v
               /\ d.at = c.at /\ d.got = c.got /\ d.sweep = c.sweep
    BY DEF CallRecords
  <1>5. ASSUME NEW c \in CallRecords, NEW at \in Nat
        PROVE  LET d == [c EXCEPT !.at = at] IN
               /\ d \in CallRecords /\ d.kind = c.kind /\ d.target = c.target /\ d.value = c.value
               /\ d.at = at /\ d.got = c.got /\ d.sweep = c.sweep
    BY DEF CallRecords
  <1>6. ASSUME NEW c \in CallRecords, NEW rest \in SUBSET Targets
        PROVE  LET d == [c EXCEPT !.sweep = rest] IN
               /\ d \in CallRecords /\ d.kind = c.kind /\ d.target = c.target /\ d.value = c.value
               /\ d.at = c.at /\ d.got = c.got /\ d.sweep = rest
    BY DEF CallRecords
  <1>7. NoCall.value = NoValue
    BY DEF NoCall
  <1>8. ASSUME NEW t \in Targets
        PROVE  /\ GetCall(t) \in CallRecords /\ GetCall(t).kind = "get" /\ GetCall(t).target = t
               /\ GetCall(t).at = 0 /\ GetCall(t).got = <<>>
    <2> DEFINE c1 == [NoCall EXCEPT !.kind = "get"]
    <2>1. GetCall(t) = [c1 EXCEPT !.target = t]
      BY DEF GetCall
    <2>2. c1 \in CallRecords /\ c1.kind = "get" /\ c1.at = 0 /\ c1.got = <<>>
      BY <1>1, <1>2
    <2> HIDE DEF c1
    <2> QED
      BY <1>3, <2>1, <2>2
  <1>9. ASSUME NEW t \in Targets, NEW v \in SecretValues, NEW at \in Nat
        PROVE  /\ SetCall(t, v, at) \in CallRecords /\ SetCall(t, v, at).kind = "set"
               /\ SetCall(t, v, at).target = t /\ SetCall(t, v, at).value = v /\ SetCall(t, v, at).at = at
    <2> DEFINE c1 == [NoCall EXCEPT !.kind = "set"]
               c2 == [c1 EXCEPT !.target = t]
               c3 == [c2 EXCEPT !.value = v]
    <2>1. SetCall(t, v, at) = [c3 EXCEPT !.at = at]
      BY DEF SetCall
    <2>2. c1 \in CallRecords /\ c1.kind = "set"
      BY <1>1, <1>2
    <2> HIDE DEF c1
    <2>3. c2 \in CallRecords /\ c2.kind = "set" /\ c2.target = t
      BY <1>3, <2>2
    <2> HIDE DEF c2
    <2>4. c3 \in CallRecords /\ c3.kind = "set" /\ c3.target = t /\ c3.value = v
      BY <1>4, <2>3
    <2> HIDE DEF c3
    <2> QED
      BY <1>5, <2>1, <2>4
  <1>10. ASSUME NEW rest \in SUBSET Targets
        PROVE  OverCall(rest) \in CallRecords /\ OverCall(rest).kind \in {"none", "sweep"}
    <2>1. CASE rest = {}
      <3> DEFINE c1 == [NoCall EXCEPT !.kind = "none"]
      <3>1. OverCall(rest) = [c1 EXCEPT !.sweep = rest]
        BY <2>1 DEF OverCall
      <3>2. c1 \in CallRecords /\ c1.kind = "none"
        BY <1>1, <1>2
      <3> HIDE DEF c1
      <3> QED
        BY <1>6, <3>1, <3>2
    <2>2. CASE rest # {}
      <3> DEFINE c1 == [NoCall EXCEPT !.kind = "sweep"]
      <3>1. OverCall(rest) = [c1 EXCEPT !.sweep = rest]
        BY <2>2 DEF OverCall
      <3>2. c1 \in CallRecords /\ c1.kind = "sweep"
        BY <1>1, <1>2
      <3> HIDE DEF c1
      <3> QED
        BY <1>6, <3>1, <3>2
    <2> QED
      BY <2>1, <2>2
  <1>11. ASSUME NEW t \in Targets, NEW rest \in SUBSET Targets
        PROVE  /\ TailCall(t, rest) \in CallRecords /\ TailCall(t, rest).kind = "tail"
               /\ TailCall(t, rest).target = t /\ TailCall(t, rest).at = 1
               /\ TailCall(t, rest).value = NoValue /\ TailCall(t, rest).sweep = rest
    <2> DEFINE c1 == [NoCall EXCEPT !.kind = "tail"]
               c2 == [c1 EXCEPT !.target = t]
               c3 == [c2 EXCEPT !.at = 1]
    <2>1. TailCall(t, rest) = [c3 EXCEPT !.sweep = rest]
      BY DEF TailCall
    <2>2. c1 \in CallRecords /\ c1.kind = "tail" /\ c1.value = NoValue
      BY <1>1, <1>2, <1>7
    <2> HIDE DEF c1
    <2>3. c2 \in CallRecords /\ c2.kind = "tail" /\ c2.target = t /\ c2.value = NoValue
      BY <1>3, <2>2
    <2> HIDE DEF c2
    <2>4. c3 \in CallRecords /\ c3.kind = "tail" /\ c3.target = t /\ c3.at = 1 /\ c3.value = NoValue
      BY <1>5, <2>3
    <2> HIDE DEF c3
    <2> QED
      BY <1>6, <2>1, <2>4
  <1> QED
    BY <1>1, <1>8, <1>9, <1>10, <1>11

(* The fields of a call.                                                   *)
LEMMA CallFields ==
  ASSUME SecretsTyped
  PROVE  /\ call.kind \in {"none", "get", "set", "tail", "sweep"} /\ call.at \in Nat
         /\ call.value \in SecretValues \cup {NoValue} /\ call.got \in Seq(BareItems)
         /\ call.sweep \in SUBSET Targets
  BY DEF SecretsTyped, CallRecords

(* The store is as it was, and no write or tail is under way or ends.      *)
LEMMA StoreKept ==
  ASSUME SecretsInv, UNCHANGED <<held, blobsParse, mayHold, torn, platform>>,
         call.kind \in {"none", "get", "sweep"}, call' \in CallRecords,
         call'.kind \in {"get", "set"} => call'.target \in Targets,
         call'.kind = "set" => call'.value \in SecretValues,
         call'.kind # "tail",
         secretCache' \in [Targets -> SecretValues \cup {NoValue, Torn, Unread}],
         \A t \in Targets : secretCache'[t] = secretCache[t] \/ secretCache'[t] = FreshRead(t),
         platform = "keychain" => secretCache' = secretCache,
         callUpsets' \in Nat, callUpsets <= callUpsets'
  PROVE  SecretsTyped' /\ FreshTrue' /\ FileTorn' /\ OneItem' /\ Remembered' /\ Tidy'
  <1>1. SecretsTyped /\ FreshTrue /\ FileTorn /\ OneItem /\ Remembered /\ Tidy
    BY DEF SecretsInv
  <1>2. SecretsTyped'
    BY <1>1 DEF SecretsTyped
  <1>3. \A t \in Targets : FreshRead(t)' = FreshRead(t)
    BY FreshSame
  <1>4. FreshTrue' /\ FileTorn' /\ OneItem'
    BY <1>1, <1>3 DEF FreshTrue, FileTorn, OneItem
  <1>5. Remembered'
    BY <1>1, <1>3 DEF Remembered
  <1>6. Tidy'
    <2>1. ASSUME callUpsets' = 0 PROVE \A t \in Targets : Counted(t)
      BY <1>1, <2>1 DEF Tidy, SecretsTyped
    <2>2. callUpsets' = 0 /\ call'.kind = "set" => NoGap(call'.target, 1)
      <3> SUFFICES ASSUME callUpsets' = 0, call'.kind = "set", NEW i \in 1 .. MaxPieces, NEW j \in 1 .. MaxPieces,
                          i < j, Filled(call'.target, j)
                   PROVE  Filled(call'.target, i)
        BY DEF NoGap
      <3>1. Counted(call'.target) /\ held[call'.target][0] \in BareItems
        BY <1>1, <2>1, Longest DEF SecretsTyped
      <3>2. IsSentinel(held[call'.target][0]) => held[call'.target][0].pieces \in Nat
        BY <3>1, Items, Longest
      <3> QED
        BY <3>1, <3>2, Longest DEF Counted
    <2> QED
      BY <2>1, <2>2 DEF Tidy, Counted, NoGap, Filled
  <1> QED
    BY <1>2, <1>4, <1>5, <1>6

LEMMA GetStep == ASSUME SecretsInv, NEW t \in Targets, GetSecret(t) PROVE SecretsInv'
  <1>0. /\ UNCHANGED <<held, blobsParse, mayHold, torn, platform, secretCache, callUpsets>>
        /\ call.kind = "none" /\ SecretsTyped
    BY DEF GetSecret, BetweenCalls, NoUpset, SamePlatform, SecretsInv
  <1>1. call' = NoCall \/ call' = GetCall(t)
    BY DEF GetSecret, ReadsAs, GetCall
  <1>2. /\ call' \in CallRecords
        /\ call'.kind \in {"none", "get"} /\ call'.at = 0
        /\ call'.kind = "get" => call'.target = t /\ call'.got = <<>>
    BY <1>1, Calls
  <1>3. SecretsTyped' /\ FreshTrue' /\ FileTorn' /\ OneItem' /\ Remembered' /\ Tidy'
    BY <1>0, <1>2, StoreKept DEF SecretsTyped
  <1>4. Reading' /\ Writing' /\ Sweeping'
    BY <1>2 DEF Reading, Writing, Sweeping
  <1> QED
    BY <1>3, <1>4 DEF SecretsInv

LEMMA ReadFailsStep == ASSUME SecretsInv, ReadFails PROVE SecretsInv'
  <1>1. /\ UNCHANGED <<held, blobsParse, mayHold, torn, platform, secretCache>>
        /\ call.kind = "get" /\ SecretsTyped
        /\ call' = NoCall /\ callUpsets' = callUpsets + 1
    BY DEF ReadFails, ReadsAs, Cached, CallUpset, SamePlatform, SecretsInv
  <1>2. call' \in CallRecords /\ call'.kind = "none"
    BY <1>1, Calls
  <1>3. callUpsets \in Nat /\ callUpsets' \in Nat /\ callUpsets <= callUpsets'
    BY <1>1 DEF SecretsTyped
  <1>4. secretCache \in [Targets -> SecretValues \cup {NoValue, Torn, Unread}]
    BY <1>1 DEF SecretsTyped
  <1>5. SecretsTyped' /\ FreshTrue' /\ FileTorn' /\ OneItem' /\ Remembered' /\ Tidy'
    BY <1>1, <1>2, <1>3, <1>4, StoreKept
  <1>6. Reading' /\ Writing' /\ Sweeping'
    BY <1>2, Idles
  <1> QED
    BY <1>5, <1>6 DEF SecretsInv

LEMMA ReadBareStep == ASSUME SecretsInv, ReadBare PROVE SecretsInv'
  <1>0. SecretsTyped /\ Reading
    BY DEF SecretsInv
  <1>1. /\ UNCHANGED <<held, blobsParse, mayHold, torn, platform, callUpsets>>
        /\ call.kind = "get" /\ call.at = 0
    BY DEF ReadBare, NoUpset, SamePlatform
  <1>2. PICK t \in Targets : t = call.target
    BY <1>0, <1>1 DEF SecretsTyped
  <1>3. held[t][0] \in BareItems
    BY <1>0, Longest DEF SecretsTyped
  <1>4. CASE blobsParse /\ IsSentinel(held[t][0])
    <2>1. call' = [call EXCEPT !.at = 1] /\ UNCHANGED secretCache
      BY <1>2, <1>4 DEF ReadBare
    <2>2. /\ call' \in CallRecords /\ call'.kind = "get" /\ call'.target = t /\ call'.at = 1
          /\ call'.got = call.got
      BY <1>0, <1>1, <1>2, <2>1 DEF SecretsTyped, CallRecords
    <2>3. SecretsTyped' /\ FreshTrue' /\ FileTorn' /\ OneItem' /\ Remembered' /\ Tidy'
      BY <1>0, <1>1, <2>1, <2>2, StoreKept DEF SecretsTyped
    <2>4. held[t][0].pieces \in Nat /\ 1 <= held[t][0].pieces
      BY <1>3, <1>4, Items, Longest
    <2>5. call'.got = [i \in 1 .. 0 |-> held[t][i]]
      BY <1>0, <1>1, <2>2 DEF Reading
    <2>6. Reading'
      BY <1>1, <1>4, <2>2, <2>4, <2>5 DEF Reading
    <2>7. Writing' /\ Sweeping'
      BY <2>2 DEF Writing, Sweeping
    <2> QED
      BY <2>3, <2>6, <2>7 DEF SecretsInv
  <1>5. CASE ~(blobsParse /\ IsSentinel(held[t][0]))
    <2>1. /\ call' = NoCall
          /\ secretCache' = IF platform = "keychain" THEN secretCache
                            ELSE [secretCache EXCEPT ![t] = FreshRead(t)]
      BY <1>2, <1>5 DEF ReadBare, ReadsAs, Cached
    <2>2. FreshRead(t) \in SecretValues \cup {NoValue, Torn}
      BY <1>0, FreshType
    <2>3. /\ secretCache' \in [Targets -> SecretValues \cup {NoValue, Torn, Unread}]
          /\ \A u \in Targets : secretCache'[u] = secretCache[u] \/ secretCache'[u] = FreshRead(u)
          /\ platform = "keychain" => secretCache' = secretCache
      BY <1>0, <2>1, <2>2 DEF SecretsTyped
    <2>4. call' \in CallRecords /\ call'.kind = "none"
      BY <2>1, Calls
    <2>5. callUpsets \in Nat /\ callUpsets' \in Nat /\ callUpsets <= callUpsets'
      BY <1>0, <1>1 DEF SecretsTyped
    <2>6. SecretsTyped' /\ FreshTrue' /\ FileTorn' /\ OneItem' /\ Remembered' /\ Tidy'
      BY <1>1, <2>3, <2>4, <2>5, StoreKept
    <2>7. Reading' /\ Writing' /\ Sweeping'
      BY <2>4, Idles
    <2> QED
      BY <2>6, <2>7 DEF SecretsInv
  <1> QED
    BY <1>4, <1>5

(* A chain that is read to its end is what a fresh read gives, and so is   *)
(* one with a piece missing.                                               *)
LEMMA ChainRead ==
  ASSUME SecretsInv, NEW t \in Targets, t = call.target, call.kind = "get", call.at > 0
  PROVE  LET gathered == Append(call.got, held[t][call.at]) IN
         /\ held[t][0].pieces \in 2 .. MaxPieces /\ call.at \in 1 .. held[t][0].pieces
         /\ held[t][call.at] = NoValue => FreshRead(t) = NoValue
         /\ held[t][call.at] # NoValue =>
              /\ gathered = [i \in 1 .. call.at |-> held[t][i]]
              /\ gathered \in Seq(BareItems)
              /\ \A i \in 1 .. call.at : held[t][i] # NoValue
         /\ held[t][call.at] # NoValue /\ call.at >= held[t][0].pieces => FreshRead(t) = WholeOf(gathered)
         /\ platform = "manager"
  <1> DEFINE gathered == Append(call.got, held[t][call.at])
             n == held[t][0].pieces
             at == call.at
  <1>1. /\ SecretsTyped /\ IsSentinel(held[t][0]) /\ blobsParse /\ at <= n /\ at > 0
        /\ call.got = [i \in 1 .. at - 1 |-> held[t][i]]
        /\ \A i \in 1 .. at - 1 : held[t][i] # NoValue
        /\ OneItem
    BY DEF SecretsInv, Reading
  <1>2. held[t][0] \in BareItems /\ at \in Nat /\ call.got \in Seq(BareItems)
        /\ \A i \in 0 .. MaxPieces : held[t][i] \in BareItems
    <2>1. at \in Nat /\ call.got \in Seq(BareItems)
      BY <1>1, CallFields
    <2>2. \A i \in 0 .. MaxPieces : held[t][i] \in BareItems
      BY <1>1 DEF SecretsTyped
    <2> QED
      BY <2>1, <2>2, Longest
  <1>3. n \in 2 .. MaxPieces /\ held[t][0] # NoValue
    BY <1>1, <1>2, Items
  <1>4. at \in 1 .. n /\ at \in 0 .. MaxPieces
    BY <1>1, <1>2, <1>3, Longest
  <1>5. held[t][at] = NoValue => FreshRead(t) = NoValue
    BY <1>1, <1>3, <1>4 DEF FreshRead
  <1>6. Len(call.got) = at - 1
    BY <1>1, <1>2
  <1>7. gathered = [i \in 1 .. at |-> held[t][i]] /\ gathered \in Seq(BareItems)
    <2> DEFINE all == [i \in 1 .. at |-> held[t][i]]
    <2>1. held[t][at] \in BareItems
      BY <1>2, <1>4
    <2>2. gathered \in Seq(BareItems) /\ Len(gathered) = at
      BY <1>2, <1>6, <2>1
    <2>3. \A i \in 1 .. at : gathered[i] = held[t][i]
      BY <1>1, <1>2, <1>6
    <2>4. all \in Seq(BareItems) /\ Len(all) = at
      BY <1>2, <1>3, <1>4, Longest
    <2>5. \A i \in 1 .. at : gathered[i] = all[i]
      BY <2>3
    <2> HIDE DEF gathered, all
    <2>6. gathered = all
      BY <2>2, <2>4, <2>5
    <2> QED
      BY <2>2, <2>6 DEF all
  <1>8. held[t][at] # NoValue => \A i \in 1 .. at : held[t][i] # NoValue
    BY <1>1, <1>2
  <1>9. ASSUME held[t][at] # NoValue, at >= n PROVE FreshRead(t) = WholeOf(gathered)
    <2>1. at = n
      BY <1>2, <1>3, <1>4, <1>9, Longest
    <2>2. FreshRead(t) = WholeOf([i \in 1 .. n |-> held[t][i]])
      BY <1>1, <1>3, <1>8, <1>9, <2>1 DEF FreshRead
    <2> QED
      BY <1>7, <2>1, <2>2
  <1>10. platform = "manager"
    BY <1>1 DEF OneItem
  <1> QED
    BY <1>3, <1>4, <1>5, <1>7, <1>8, <1>9, <1>10

LEMMA ReadPieceStep == ASSUME SecretsInv, ReadPiece PROVE SecretsInv'
  <1>0. SecretsTyped /\ Reading
    BY DEF SecretsInv
  <1>1. /\ UNCHANGED <<held, blobsParse, mayHold, torn, platform, callUpsets>>
        /\ call.kind = "get" /\ call.at > 0
    BY DEF ReadPiece, NoUpset, SamePlatform
  <1>2. PICK t \in Targets : t = call.target
    BY <1>0, <1>1 DEF SecretsTyped
  <1> DEFINE gathered == Append(call.got, held[t][call.at])
             n == held[t][0].pieces
  <1>3. /\ n \in 2 .. MaxPieces /\ call.at \in 1 .. n /\ platform = "manager"
        /\ held[t][call.at] # NoValue =>
             /\ gathered = [i \in 1 .. call.at |-> held[t][i]]
             /\ gathered \in Seq(BareItems)
             /\ \A i \in 1 .. call.at : held[t][i] # NoValue
        /\ held[t][call.at] # NoValue /\ call.at >= n => FreshRead(t) = WholeOf(gathered)
    BY <1>1, <1>2, ChainRead
  <1>4. CASE held[t][call.at] # NoValue /\ call.at < n
    <2>1. call' = [call EXCEPT !.at = call.at + 1, !.got = gathered] /\ UNCHANGED secretCache
      BY <1>2, <1>4 DEF ReadPiece
    <2>2. call \in CallRecords /\ call.at \in Nat
      BY <1>0 DEF SecretsTyped, CallRecords
    <2> HIDE DEF gathered
    <2>3. /\ call' \in CallRecords /\ call'.kind = "get" /\ call'.target = t /\ call'.at = call.at + 1
          /\ call'.got = gathered
      <3> DEFINE half == [call EXCEPT !.at = call.at + 1]
      <3>1. half \in CallRecords /\ half.kind = call.kind /\ half.target = call.target /\ half.at = call.at + 1
        BY <2>2 DEF CallRecords
      <3>2. call' = [half EXCEPT !.got = gathered]
        BY <2>1, <2>2 DEF CallRecords
      <3>3. gathered \in Seq(BareItems)
        BY <1>3, <1>4
      <3> HIDE DEF half
      <3> QED
        BY <1>1, <1>2, <3>1, <3>2, <3>3 DEF CallRecords
    <2>4. SecretsTyped' /\ FreshTrue' /\ FileTorn' /\ OneItem' /\ Remembered' /\ Tidy'
      BY <1>0, <1>1, <2>1, <2>3, StoreKept DEF SecretsTyped
    <2>5. Reading'
      <3>1. IsSentinel(held[t][0]) /\ blobsParse
        BY <1>0, <1>1, <1>2 DEF Reading
      <3>2. call'.at - 1 = call.at
        BY <2>2, <2>3
      <3> QED
        BY <1>1, <1>3, <1>4, <2>2, <2>3, <3>1, <3>2 DEF Reading
    <2>6. Writing' /\ Sweeping'
      BY <2>3 DEF Writing, Sweeping
    <2> QED
      BY <2>4, <2>5, <2>6 DEF SecretsInv
  <1>5. CASE ~(held[t][call.at] # NoValue /\ call.at < n)
    <2>1. /\ call' = NoCall
          /\ IF held[t][call.at] = NoValue THEN secretCache' = secretCache
             ELSE secretCache' = [secretCache EXCEPT ![t] = WholeOf(gathered)]
      BY <1>2, <1>5 DEF ReadPiece, ReadsAs
    <2>2. held[t][call.at] # NoValue => call.at >= n
      BY <1>3, <1>5
    <2>3. secretCache' = secretCache \/ secretCache' = [secretCache EXCEPT ![t] = FreshRead(t)]
      BY <1>3, <2>1, <2>2
    <2>4. FreshRead(t) \in SecretValues \cup {NoValue, Torn}
      BY <1>0, FreshType
    <2>5. /\ secretCache' \in [Targets -> SecretValues \cup {NoValue, Torn, Unread}]
          /\ \A u \in Targets : secretCache'[u] = secretCache[u] \/ secretCache'[u] = FreshRead(u)
      BY <1>0, <2>3, <2>4 DEF SecretsTyped
    <2>6. platform # "keychain"
      BY <1>3
    <2>7. call' \in CallRecords /\ call'.kind = "none"
      BY <2>1, Calls
    <2>8. callUpsets \in Nat /\ callUpsets' \in Nat /\ callUpsets <= callUpsets'
      BY <1>0, <1>1 DEF SecretsTyped
    <2>9. SecretsTyped' /\ FreshTrue' /\ FileTorn' /\ OneItem' /\ Remembered' /\ Tidy'
      BY <1>1, <2>5, <2>6, <2>7, <2>8, StoreKept
    <2>10. Reading' /\ Writing' /\ Sweeping'
      BY <2>7, Idles
    <2> QED
      BY <2>9, <2>10 DEF SecretsInv
  <1> QED
    BY <1>4, <1>5

LEMMA SetStep ==
  ASSUME SecretsInv, NEW t \in Targets, NEW v \in SecretValues, SetSecret(t, v)
  PROVE  SecretsInv'
  <1>0. SecretsTyped /\ Pieces[v] \in Nat
    BY Longest DEF SecretsInv
  <1>1. /\ UNCHANGED <<held, blobsParse, mayHold, torn, platform, secretCache, callUpsets>>
        /\ call.kind = "none"
    BY DEF SetSecret, BetweenCalls, NoUpset, SamePlatform
  <1> DEFINE at == IF platform = "manager" THEN FirstWrite(v) ELSE 0
  <1>2. at \in Nat /\ at <= Pieces[v] /\ (platform # "manager" => at = 0)
        /\ (platform = "manager" /\ Pieces[v] > 0 => at = 1)
    BY <1>0 DEF FirstWrite
  <1>3. call' = SetCall(t, v, at)
    BY DEF SetSecret, SetCall
  <1> HIDE DEF at
  <1>4. /\ call' \in CallRecords /\ call'.kind = "set" /\ call'.target = t /\ call'.value = v
        /\ call'.at = at
    BY <1>2, <1>3, Calls
  <1>5. SecretsTyped' /\ FreshTrue' /\ FileTorn' /\ OneItem' /\ Remembered' /\ Tidy'
    BY <1>0, <1>1, <1>4, StoreKept DEF SecretsTyped
  <1>6. Writing'
    BY <1>0, <1>1, <1>2, <1>4 DEF Writing
  <1>7. Reading' /\ Sweeping'
    BY <1>4 DEF Reading, Sweeping
  <1> QED
    BY <1>5, <1>6, <1>7 DEF SecretsInv

(* The listing of a sweep changes nothing but what is to be swept.         *)
LEMMA SweepStep == ASSUME SecretsInv, SweepSecrets PROVE SecretsInv'
  <1>0. SecretsTyped
    BY DEF SecretsInv
  <1>1. /\ UNCHANGED <<held, blobsParse, mayHold, torn, platform, secretCache>>
        /\ call.kind = "none"
    BY DEF SweepSecrets, BetweenCalls, SamePlatform
  <1>2. PICK all \in SUBSET Targets :
          call' = OverCall(all)
    BY DEF SweepSecrets, OverCall
  <1>3. callUpsets' \in Nat /\ callUpsets <= callUpsets'
    BY <1>0 DEF SweepSecrets, CallUpset, NoUpset, SecretsTyped
  <1>4. call' \in CallRecords /\ call'.kind \in {"none", "sweep"}
    BY <1>2, Calls
  <1>5. SecretsTyped' /\ FreshTrue' /\ FileTorn' /\ OneItem' /\ Remembered' /\ Tidy'
    BY <1>0, <1>1, <1>3, <1>4, StoreKept DEF SecretsTyped
  <1> QED
    BY <1>4, <1>5, Idles DEF SecretsInv

(* One item is changed.                                                    *)
LEMMA OneItemChanged ==
  ASSUME NEW H \in [Targets -> [0 .. MaxPieces -> BareItems]], NEW t \in Targets,
         NEW i \in 0 .. MaxPieces, NEW x \in BareItems
  PROVE  LET K == [H EXCEPT ![t][i] = x] IN
         /\ K \in [Targets -> [0 .. MaxPieces -> BareItems]]
         /\ K[t][i] = x
         /\ \A u \in Targets : u # t => K[u] = H[u]
         /\ \A j \in 0 .. MaxPieces : j # i => K[t][j] = H[t][j]
  <1> DEFINE row == [H[t] EXCEPT ![i] = x]
             K == [H EXCEPT ![t] = row]
  <1>1. H[t] \in [0 .. MaxPieces -> BareItems]
    OBVIOUS
  <1>2. /\ row \in [0 .. MaxPieces -> BareItems] /\ row[i] = x
        /\ \A j \in 0 .. MaxPieces : j # i => row[j] = H[t][j]
    BY <1>1
  <1>3. [H EXCEPT ![t][i] = x] = K
    OBVIOUS
  <1> HIDE DEF row
  <1>4. /\ K \in [Targets -> [0 .. MaxPieces -> BareItems]] /\ K[t] = row
        /\ \A u \in Targets : u # t => K[u] = H[u]
    BY <1>2
  <1> HIDE DEF K
  <1> QED
    BY <1>2, <1>3, <1>4

(* Where the pieces are those the sentinel counts there is no gap.         *)
LEMMA CountedNoGap ==
  ASSUME SecretsTyped, NEW t \in Targets, Counted(t)
  PROVE  NoGap(t, 1)
  <1>1. held[t][0] \in BareItems
    BY Longest DEF SecretsTyped
  <1>2. IsSentinel(held[t][0]) => held[t][0].pieces \in Nat
    BY <1>1, Items, Longest
  <1> QED
    BY <1>2, Longest DEF Counted, NoGap

(* A store of single items has no pieces to count.                         *)
LEMMA SinglesTidy ==
  ASSUME platform' # "manager", OneItem', call'.kind \in {"none", "sweep"}
  PROVE  Tidy'
  BY DEF OneItem, Tidy, Counted, Filled

LEMMA WritePieceStep == ASSUME SecretsInv, WritePiece PROVE SecretsInv'
  <1>0. SecretsTyped /\ FreshTrue /\ FileTorn /\ Remembered /\ Writing /\ Tidy
    BY DEF SecretsInv
  <1>1. /\ UNCHANGED <<blobsParse, mayHold, platform, callUpsets, secretCache>>
        /\ call.kind = "set" /\ call.at > 0
    BY DEF WritePiece, NoUpset, SamePlatform
  <1>2. PICK t \in Targets : t = call.target
    BY <1>0, <1>1 DEF SecretsTyped
  <1>3. PICK v \in SecretValues : v = call.value
    BY <1>0, <1>1 DEF SecretsTyped
  <1>4. PICK at \in Nat : at = call.at
    BY <1>0, CallFields
  <1>5. /\ platform = "manager" /\ at \in 1 .. Pieces[v] /\ at \in 1 .. MaxPieces /\ Pieces[v] \in Nat
        /\ \A i \in 1 .. Pieces[v] : i < at => held[t][i] = PieceOf(v, i)
    BY <1>0, <1>1, <1>2, <1>3, <1>4, Longest DEF Writing
  <1>6. /\ held' = [held EXCEPT ![t][at] = PieceOf(v, at)]
        /\ torn' = IF IsSentinel(held[t][0]) THEN torn \cup {t} ELSE torn
        /\ call' = [call EXCEPT !.at = IF at < Pieces[v] THEN at + 1 ELSE 0]
    BY <1>2, <1>3, <1>4 DEF WritePiece, PieceOf
  <1>7. /\ held' \in [Targets -> [0 .. MaxPieces -> BareItems]]
        /\ held'[t][at] = PieceOf(v, at)
        /\ \A u \in Targets : u # t => held'[u] = held[u]
        /\ \A j \in 0 .. MaxPieces : j # at => held'[t][j] = held[t][j]
    <2>1. held \in [Targets -> [0 .. MaxPieces -> BareItems]] /\ at \in 0 .. MaxPieces
          /\ PieceOf(v, at) \in BareItems
      BY <1>0, <1>5, Items, Longest DEF SecretsTyped
    <2> QED
      BY <1>6, <2>1, OneItemChanged
  <1> DEFINE at1 == IF at < Pieces[v] THEN at + 1 ELSE 0
  <1>8. at1 \in Nat /\ at1 <= Pieces[v] /\ (at1 # 0 => at1 = at + 1) /\ (at1 = 0 => at = Pieces[v])
    BY <1>5
  <1> HIDE DEF at1
  <1>9. /\ call' \in CallRecords /\ call'.kind = "set" /\ call'.target = t /\ call'.value = v /\ call'.at = at1
    <2>1. call \in CallRecords /\ call' = [call EXCEPT !.at = at1]
      BY <1>0, <1>6 DEF SecretsTyped, at1
    <2> QED
      BY <1>1, <1>2, <1>3, <1>8, <2>1 DEF CallRecords
  <1>10. SecretsTyped'
    BY <1>0, <1>1, <1>6, <1>7, <1>9 DEF SecretsTyped
  <1>11. \A u \in Targets \ torn' : u \notin torn /\ FreshRead(u)' = FreshRead(u)
    <2> SUFFICES ASSUME NEW u \in Targets \ torn' PROVE u \notin torn /\ FreshRead(u)' = FreshRead(u)
      OBVIOUS
    <2>1. u \notin torn /\ (u = t => ~IsSentinel(held[t][0]))
      BY <1>6
    <2>2. held'[u][0] = held[u][0]
      BY <1>5, <1>7, Longest
    <2>3. IsSentinel(held[u][0]) => held'[u] = held[u]
      BY <1>7, <2>1
    <2> QED
      BY <1>1, <2>1, <2>2, <2>3, FreshSame
  <1>12. FreshTrue' /\ Remembered'
    BY <1>0, <1>1, <1>9, <1>11 DEF FreshTrue, Remembered
  <1>13. FileTorn' /\ OneItem'
    BY <1>0, <1>1, <1>5 DEF FileTorn, OneItem
  <1>14. Reading' /\ Sweeping'
    BY <1>9 DEF Reading, Sweeping
  <1>15. Writing'
    <2>1. ASSUME NEW i \in 1 .. Pieces[v], at1 = 0 \/ i < at1 PROVE held'[t][i] = PieceOf(v, i)
      <3>1. i = at \/ i < at
        BY <1>5, <1>8, <2>1
      <3>2. i \in 0 .. MaxPieces
        BY Longest
      <3> QED
        BY <1>5, <1>7, <3>1, <3>2
    <2> QED
      BY <1>1, <1>5, <1>8, <1>9, <2>1 DEF Writing
  <1>16. Tidy'
    <2> SUFFICES ASSUME callUpsets = 0 PROVE Tidy'
      BY <1>1 DEF Tidy
    <2>1. \A u \in Targets : u # t => Counted(u)'
      BY <1>0, <1>2, <1>7 DEF Tidy, Counted, Filled
    <2>2. NoGap(t, 1)
      BY <1>0, <1>1, <1>2 DEF Tidy
    <2>3. ASSUME NEW i \in 1 .. MaxPieces, NEW j \in 1 .. MaxPieces, i < j, held'[t][j] # NoValue
          PROVE  held'[t][i] # NoValue
      <3>1. \A k \in 1 .. at : held'[t][k] # NoValue
        <4> SUFFICES ASSUME NEW k \in 1 .. at PROVE held'[t][k] # NoValue
          OBVIOUS
        <4>1. k \in 0 .. MaxPieces /\ k \in 1 .. Pieces[v] /\ (k = at \/ k < at)
          BY <1>5, Longest
        <4>2. held'[t][k] = PieceOf(v, k)
          BY <1>5, <1>7, <4>1
        <4> QED
          BY <4>2, Items
      <3>2. CASE i <= at
        BY <3>1, <3>2
      <3>3. CASE i > at
        <4>1. held[t][j] # NoValue /\ held'[t][i] = held[t][i]
          BY <1>5, <1>7, <2>3, <3>3, Longest
        <4> QED
          BY <2>2, <2>3, <4>1, Longest DEF NoGap, Filled
      <3> QED
        BY <1>5, <3>2, <3>3, Longest
    <2> QED
      BY <1>9, <2>1, <2>3 DEF Tidy, NoGap, Filled
  <1> QED
    BY <1>10, <1>12, <1>13, <1>14, <1>15, <1>16 DEF SecretsInv

LEMMA WriteBareStep == ASSUME SecretsInv, WriteBare PROVE SecretsInv'
  <1>0. SecretsTyped /\ FreshTrue /\ FileTorn /\ Remembered /\ Writing /\ Tidy
    BY DEF SecretsInv
  <1>1. /\ UNCHANGED <<blobsParse, platform, callUpsets, secretCache>>
        /\ call.kind = "set" /\ call.at = 0 /\ platform = "manager"
    BY DEF WriteBare, NoUpset, SamePlatform
  <1>2. PICK t \in Targets : t = call.target
    BY <1>0, <1>1 DEF SecretsTyped
  <1>3. PICK v \in SecretValues : v = call.value
    BY <1>0, <1>1 DEF SecretsTyped
  <1>4. /\ held' = [held EXCEPT ![t][0] = BareOf(v)]
        /\ mayHold' = [mayHold EXCEPT ![t] = {v}]
        /\ call' = [call EXCEPT !.kind = "tail", !.at = TailFrom(v)]
        /\ torn' = torn \ {t}
    BY <1>2, <1>3 DEF WriteBare, BareOf
  <1>5. Pieces[v] \in Nat /\ MaxPieces \in Nat /\ Pieces[v] <= MaxPieces /\ v # NoValue
    BY Longest, SentinelsAssumption
  <1>6. blobsParse /\ \A i \in 1 .. Pieces[v] : held[t][i] = PieceOf(v, i)
    BY <1>0, <1>1, <1>2, <1>3 DEF FileTorn, Writing, SecretsTyped
  <1>7. /\ held' \in [Targets -> [0 .. MaxPieces -> BareItems]]
        /\ held'[t][0] = BareOf(v)
        /\ \A u \in Targets : u # t => held'[u] = held[u]
        /\ \A j \in 1 .. MaxPieces : held'[t][j] = held[t][j]
    <2>1. held \in [Targets -> [0 .. MaxPieces -> BareItems]] /\ 0 \in 0 .. MaxPieces
          /\ BareOf(v) \in BareItems
      BY <1>0, <1>5, Bares DEF SecretsTyped
    <2>2. \A j \in 1 .. MaxPieces : j \in 0 .. MaxPieces /\ j # 0
      BY <1>5
    <2> QED
      BY <1>4, <2>1, <2>2, OneItemChanged
  <1>8. /\ call' \in CallRecords /\ call'.kind = "tail" /\ call'.target = t /\ call'.value = v
        /\ call'.at = Pieces[v] + 1
    <2> DEFINE half == [call EXCEPT !.kind = "tail"]
    <2>1. half \in CallRecords /\ half.kind = "tail" /\ half.target = t /\ half.value = v
      BY <1>0, <1>2, <1>3 DEF SecretsTyped, CallRecords
    <2>2. call' = [half EXCEPT !.at = Pieces[v] + 1] /\ Pieces[v] + 1 \in Nat
      BY <1>4, <1>5 DEF TailFrom
    <2> HIDE DEF half
    <2> QED
      BY <2>1, <2>2 DEF CallRecords
  <1>9. mayHold' \in [Targets -> SUBSET (SecretValues \cup {NoValue})] /\ mayHold'[t] = {v}
        /\ \A u \in Targets : u # t => mayHold'[u] = mayHold[u]
    BY <1>0, <1>4 DEF SecretsTyped
  <1>10. SecretsTyped'
    BY <1>0, <1>1, <1>4, <1>7, <1>8, <1>9 DEF SecretsTyped
  <1>11. held'[t][0] = BareOf(v) /\ \A i \in 1 .. Pieces[v] : held'[t][i] = PieceOf(v, i)
    BY <1>5, <1>6, <1>7
  <1>12. FreshRead(t)' = v
    BY <1>1, <1>6, <1>7, <1>11, FreshWritten
  <1>13. \A u \in Targets : u # t => FreshRead(u)' = FreshRead(u)
    BY <1>1, <1>7, FreshSame
  <1>14. FreshTrue'
    BY <1>0, <1>4, <1>9, <1>12, <1>13 DEF FreshTrue
  <1>15. FileTorn' /\ OneItem'
    BY <1>1, <1>6 DEF FileTorn, OneItem
  <1>16. Remembered'
    BY <1>0, <1>1, <1>4, <1>5, <1>8, <1>13 DEF Remembered
  <1>17. Reading' /\ Writing'
    BY <1>8 DEF Reading, Writing
  <1>18. Sweeping'
    BY <1>1, <1>4, <1>5, <1>8, <1>9, <1>11 DEF Sweeping
  <1>19. Tidy'
    <2> SUFFICES ASSUME callUpsets = 0 PROVE Tidy'
      BY <1>1 DEF Tidy
    <2>1. \A u \in Targets : u # t => Counted(u)'
      BY <1>0, <1>2, <1>7 DEF Tidy, Counted, Filled
    <2>2. NoGap(t, 1)
      BY <1>0, <1>1, <1>2 DEF Tidy
    <2>3. NoGap(t, Pieces[v] + 1)'
      BY <1>5, <1>7, <2>2 DEF NoGap, Filled
    <2>4. \A i \in 1 .. MaxPieces : ~(i < Pieces[v] + 1 /\ Pieces[v] < i)
      BY <1>5
    <2> QED
      BY <1>5, <1>8, <2>1, <2>3, <2>4 DEF Tidy, NoGap, Filled
  <1> QED
    BY <1>10, <1>14, <1>15, <1>16, <1>17, <1>18, <1>19 DEF SecretsInv

LEMMA WriteEntryStep == ASSUME SecretsInv, WriteEntry PROVE SecretsInv'
  <1>0. SecretsTyped /\ FreshTrue /\ FileTorn /\ OneItem /\ Remembered /\ 0 \in 0 .. MaxPieces
    BY Longest DEF SecretsInv
  <1>1. /\ UNCHANGED <<platform, callUpsets>> /\ platform # "manager"
        /\ call.kind = "set" /\ blobsParse' = TRUE /\ call' = NoCall
    BY DEF WriteEntry, NoUpset, SamePlatform
  <1>2. PICK t \in Targets : t = call.target
    BY <1>0, <1>1 DEF SecretsTyped
  <1>3. PICK v \in SecretValues : v = call.value
    BY <1>0, <1>1 DEF SecretsTyped
  <1>4. /\ held' = [Entries EXCEPT ![t][0] = PieceOf(v, 0)]
        /\ mayHold' = [mayHold EXCEPT ![t] = {v}]
        /\ torn' = torn \ {t}
        /\ secretCache' = IF platform = "keychain" THEN secretCache ELSE [secretCache EXCEPT ![t] = v]
    BY <1>2, <1>3 DEF WriteEntry, PieceOf, SecretStored, Cached
  <1>5. /\ Entries \in [Targets -> [0 .. MaxPieces -> BareItems]]
        /\ blobsParse => Entries = held
        /\ \A u \in Targets : ~IsSentinel(Entries[u][0]) /\ \A i \in 1 .. MaxPieces : Entries[u][i] = NoValue
    <2>1. CASE blobsParse
      BY <1>0, <1>1, <2>1 DEF Entries, SecretsTyped, OneItem
    <2>2. CASE ~blobsParse
      <3>1. NoValue \in BareItems
        BY DEF BareItems
      <3>2. Entries = [u \in Targets |-> [i \in 0 .. MaxPieces |-> NoValue]]
        BY <2>2 DEF Entries, NothingHeld
      <3> QED
        BY <1>0, <2>2, <3>1, <3>2, Items, Longest
    <2> QED
      BY <2>1, <2>2
  <1>6. /\ held' \in [Targets -> [0 .. MaxPieces -> BareItems]]
        /\ held'[t][0] = PieceOf(v, 0)
        /\ \A u \in Targets : u # t => held'[u] = Entries[u]
        /\ \A j \in 0 .. MaxPieces : j # 0 => held'[t][j] = Entries[t][j]
    <2>1. PieceOf(v, 0) \in BareItems
      BY Items
    <2> QED
      BY <1>0, <1>4, <1>5, <2>1, OneItemChanged
  <1>7. call' \in CallRecords /\ call'.kind = "none"
    BY <1>1, Calls
  <1>8. mayHold' \in [Targets -> SUBSET (SecretValues \cup {NoValue})] /\ mayHold'[t] = {v}
        /\ \A u \in Targets : u # t => mayHold'[u] = mayHold[u]
    BY <1>0, <1>4 DEF SecretsTyped
  <1>9. /\ secretCache' \in [Targets -> SecretValues \cup {NoValue, Torn, Unread}]
        /\ \A u \in Targets : u # t => secretCache'[u] = secretCache[u]
        /\ platform # "keychain" => secretCache'[t] = v
        /\ platform = "keychain" => secretCache' = secretCache
    BY <1>0, <1>4 DEF SecretsTyped
  <1>10. SecretsTyped'
    BY <1>0, <1>1, <1>4, <1>6, <1>7, <1>8, <1>9 DEF SecretsTyped
  <1>11. FreshRead(t)' = v
    <2>1. PieceOf(v, 0) # NoValue /\ ~IsSentinel(PieceOf(v, 0)) /\ PieceOf(v, 0).of = v
      BY Items
    <2> QED
      BY <1>1, <1>6, <2>1 DEF FreshRead
  <1>12. \A u \in Targets \ torn' : u # t => u \notin torn /\ FreshRead(u)' = FreshRead(u)
    <2> SUFFICES ASSUME NEW u \in Targets \ torn', u # t PROVE u \notin torn /\ FreshRead(u)' = FreshRead(u)
      OBVIOUS
    <2>1. u \notin torn
      BY <1>4
    <2>2. blobsParse = TRUE
      BY <1>0, <2>1 DEF FileTorn, SecretsTyped
    <2>3. held'[u] = held[u]
      BY <1>5, <1>6, <2>2
    <2> QED
      BY <1>1, <2>1, <2>2, <2>3, FreshSame
  <1>13. FreshTrue'
    BY <1>0, <1>8, <1>11, <1>12 DEF FreshTrue
  <1>14. FileTorn'
    BY <1>1 DEF FileTorn
  <1>15. OneItem'
    <2>1. ASSUME NEW u \in Targets
          PROVE  ~IsSentinel(held'[u][0]) /\ \A i \in 1 .. MaxPieces : held'[u][i] = NoValue
      <3>1. CASE u = t
        BY <1>5, <1>6, <3>1, Items, Longest
      <3>2. CASE u # t
        BY <1>5, <1>6, <3>2
      <3> QED
        BY <3>1, <3>2
    <2> QED
      BY <2>1 DEF OneItem
  <1>16. Remembered'
    <2>1. \A u \in Targets : ~(call.kind = "tail" /\ call.value # NoValue /\ call.target = u)
      BY <1>1
    <2>2. \A u \in Targets \ torn' : secretCache'[u] \in {Unread, FreshRead(u)'}
      BY <1>0, <1>9, <1>11, <1>12, <2>1 DEF Remembered
    <2> QED
      BY <1>0, <1>1, <1>9, <2>2 DEF Remembered
  <1>17. Reading' /\ Writing' /\ Sweeping'
    BY <1>7, Idles
  <1>18. Tidy'
    BY <1>1, <1>7, <1>15, SinglesTidy
  <1> QED
    BY <1>10, <1>13, <1>14, <1>15, <1>16, <1>17, <1>18 DEF SecretsInv

LEMMA WriteFailsStep == ASSUME SecretsInv, WriteFails PROVE SecretsInv'
  <1>0. SecretsTyped /\ FreshTrue /\ FileTorn /\ OneItem /\ Remembered
    BY DEF SecretsInv
  <1>1. /\ UNCHANGED <<held, blobsParse, secretCache, mayHold, torn, platform>>
        /\ call.kind = "set" /\ call' = NoCall
    BY DEF WriteFails, SamePlatform
  <1>2. callUpsets' \in Nat /\ callUpsets' # 0
    BY <1>0 DEF WriteFails, CallUpset, SecretsTyped
  <1>3. call' \in CallRecords /\ call'.kind = "none"
    BY <1>1, Calls
  <1>4. \A t \in Targets : FreshRead(t)' = FreshRead(t)
    BY <1>1, FreshSame
  <1>5. SecretsTyped'
    BY <1>0, <1>1, <1>2, <1>3 DEF SecretsTyped
  <1>6. FreshTrue' /\ FileTorn' /\ OneItem' /\ Remembered'
    BY <1>0, <1>1, <1>4 DEF FreshTrue, FileTorn, OneItem, Remembered
  <1>7. Tidy'
    BY <1>2 DEF Tidy
  <1> QED
    BY <1>3, <1>5, <1>6, <1>7, Idles DEF SecretsInv

(* A tail is over, at its end or where a delete failed.                    *)
LEMMA TailOver ==
  ASSUME SecretsInv, call.kind = "tail", CallOver,
         IF call.value = NoValue THEN UNCHANGED <<secretCache, mayHold, torn>>
         ELSE SecretStored(call.target, call.value),
         UNCHANGED <<held, blobsParse, platform>>,
         callUpsets' \in Nat,
         callUpsets' = 0 => \A t \in Targets : Counted(t)
  PROVE  SecretsInv'
  <1>0. SecretsTyped /\ FreshTrue /\ FileTorn /\ OneItem /\ Remembered /\ Sweeping
    BY DEF SecretsInv
  <1>1. PICK t \in Targets : t = call.target
    BY <1>0 DEF SecretsTyped
  <1>2. call' = OverCall(call.sweep) /\ call.sweep \in SUBSET Targets
    BY <1>0, CallFields DEF CallOver, OverCall
  <1>3. call' \in CallRecords /\ call'.kind \in {"none", "sweep"}
    BY <1>2, Calls
  <1>4. \A u \in Targets : FreshRead(u)' = FreshRead(u)
    BY FreshSame
  <1>5. /\ mayHold' = mayHold /\ torn' = torn
        /\ secretCache' \in [Targets -> SecretValues \cup {NoValue, Torn, Unread}]
        /\ \A u \in Targets : u # t => secretCache'[u] = secretCache[u]
        /\ call.value = NoValue => secretCache'[t] = secretCache[t]
        /\ call.value # NoValue => secretCache'[t] = FreshRead(t)
        /\ platform = "manager"
    <2>1. CASE call.value = NoValue
      BY <1>0, <1>1, <2>1 DEF SecretsTyped, Sweeping
    <2>2. CASE call.value # NoValue
      <3>1. PICK v \in SecretValues : v = call.value
        BY <1>0, <2>2, CallFields
      <3>2. /\ platform = "manager" /\ held[t][0] = BareOf(v)
            /\ \A i \in 1 .. Pieces[v] : held[t][i] = PieceOf(v, i)
            /\ mayHold[t] = {v} /\ t \notin torn
        BY <1>0, <1>1, <2>2, <3>1 DEF Sweeping
      <3>3. blobsParse
        BY <1>0, <3>2 DEF FileTorn
      <3>4. FreshRead(t) = v
        BY <3>2, <3>3, FreshStored
      <3>5. /\ secretCache' = [secretCache EXCEPT ![t] = v]
            /\ mayHold' = [mayHold EXCEPT ![t] = {v}] /\ torn' = torn \ {t}
        BY <1>1, <2>2, <3>1, <3>2 DEF SecretStored, Cached
      <3>6. mayHold' = mayHold
        BY <1>0, <3>2, <3>5 DEF SecretsTyped
      <3>7. /\ secretCache' \in [Targets -> SecretValues \cup {NoValue, Torn, Unread}]
            /\ \A u \in Targets : u # t => secretCache'[u] = secretCache[u]
            /\ secretCache'[t] = v
        BY <1>0, <3>5 DEF SecretsTyped
      <3> QED
        BY <2>2, <3>2, <3>4, <3>5, <3>6, <3>7
    <2> QED
      BY <2>1, <2>2
  <1>6. SecretsTyped'
    BY <1>0, <1>3, <1>5 DEF SecretsTyped
  <1>7. FreshTrue' /\ FileTorn' /\ OneItem'
    BY <1>0, <1>4, <1>5 DEF FreshTrue, FileTorn, OneItem
  <1>8. Remembered'
    <2>1. \A u \in Targets \ torn' : secretCache'[u] \in {Unread, FreshRead(u)'}
      BY <1>0, <1>1, <1>4, <1>5 DEF Remembered
    <2> QED
      BY <1>5, <2>1 DEF Remembered
  <1>9. Tidy'
    BY <1>3 DEF Tidy, Counted, Filled
  <1> QED
    BY <1>3, <1>6, <1>7, <1>8, <1>9, Idles DEF SecretsInv

LEMMA TailFailsStep == ASSUME SecretsInv, TailFails PROVE SecretsInv'
  <1>1. SecretsTyped
    BY DEF SecretsInv
  <1>2. callUpsets' \in Nat /\ callUpsets' # 0
    BY <1>1 DEF TailFails, CallUpset, SecretsTyped
  <1>3. /\ call.kind = "tail" /\ CallOver /\ UNCHANGED <<held, blobsParse, platform>>
        /\ IF call.value = NoValue THEN UNCHANGED <<secretCache, mayHold, torn>>
           ELSE SecretStored(call.target, call.value)
    BY DEF TailFails, SamePlatform
  <1> QED
    BY <1>2, <1>3, TailOver

LEMMA DeleteTailStep == ASSUME SecretsInv, DeleteTail PROVE SecretsInv'
  <1>0. SecretsTyped /\ FreshTrue /\ FileTorn /\ OneItem /\ Remembered /\ Sweeping /\ Tidy
    BY DEF SecretsInv
  <1>1. /\ UNCHANGED <<blobsParse, platform, callUpsets>>
        /\ call.kind = "tail" /\ platform = "manager"
    BY <1>0 DEF DeleteTail, NoUpset, SamePlatform, Sweeping
  <1>2. PICK t \in Targets : t = call.target
    BY <1>0, <1>1 DEF SecretsTyped
  <1>3. PICK at \in Nat : at = call.at
    BY <1>0, CallFields
  <1>4. MaxPieces \in Nat /\ at > 0 /\ (call.value # NoValue => call.value \in SecretValues /\ Pieces[call.value] < at)
    <2>1. CASE call.value = NoValue
      BY <1>0, <1>1, <1>3, <2>1, Longest DEF Sweeping
    <2>2. CASE call.value # NoValue
      <3>1. PICK v \in SecretValues : v = call.value
        BY <1>0, <2>2, CallFields
      <3>2. Pieces[v] \in Nat /\ Pieces[v] < at /\ MaxPieces \in Nat
        BY <1>0, <1>1, <1>3, <2>2, <3>1, Longest DEF Sweeping
      <3> QED
        BY <2>2, <3>1, <3>2
    <2> QED
      BY <2>1, <2>2
  <1>5. CASE at > MaxPieces \/ held[t][at] = NoValue
    <2>1. /\ CallOver /\ UNCHANGED held
          /\ IF call.value = NoValue THEN UNCHANGED <<secretCache, mayHold, torn>>
             ELSE SecretStored(call.target, call.value)
      BY <1>2, <1>3, <1>5 DEF DeleteTail
    <2>2. callUpsets' \in Nat
      BY <1>0, <1>1 DEF SecretsTyped
    <2>3. ASSUME callUpsets = 0 PROVE \A u \in Targets : Counted(u)
      <3>1. \A u \in Targets : u # t => Counted(u)
        BY <1>0, <1>2, <2>3 DEF Tidy
      <3>2. /\ NoGap(t, at)
            /\ call.value = NoValue => held[t][0] = NoValue
            /\ \A i \in 1 .. MaxPieces :
                 i < at /\ (call.value # NoValue => Pieces[call.value] < i) => ~Filled(t, i)
        BY <1>0, <1>1, <1>2, <1>3, <2>3 DEF Tidy
      <3>3. \A i \in 1 .. MaxPieces : at <= i => ~Filled(t, i)
        <4> SUFFICES ASSUME NEW i \in 1 .. MaxPieces, at <= i, Filled(t, i) PROVE FALSE
          OBVIOUS
        <4>1. at \in 1 .. MaxPieces /\ ~Filled(t, at)
          BY <1>4, <1>5 DEF Filled
        <4>2. at < i
          BY <4>1
        <4> QED
          BY <3>2, <4>1, <4>2 DEF NoGap
      <3>4. Counted(t)
        <4>1. CASE call.value = NoValue
          <5>1. \A i \in 1 .. MaxPieces : ~Filled(t, i)
            BY <3>2, <3>3, <4>1
          <5> QED
            BY <3>2, <4>1, <5>1, Items DEF Counted
        <4>2. CASE call.value # NoValue
          <5>1. PICK v \in SecretValues : v = call.value
            BY <1>4, <4>2
          <5>2. held[t][0] = BareOf(v) /\ Pieces[v] < at /\ \A i \in 1 .. Pieces[v] : held[t][i] = PieceOf(v, i)
            BY <1>0, <1>1, <1>2, <1>3, <4>2, <5>1 DEF Sweeping
          <5>3. /\ Pieces[v] \in Nat /\ Pieces[v] <= MaxPieces
                /\ (IsSentinel(held[t][0]) <=> Pieces[v] > 0)
                /\ (Pieces[v] > 0 => held[t][0].pieces = Pieces[v])
            BY <5>2, Bares, Longest
          <5>4. \A i \in 1 .. Pieces[v] : Filled(t, i)
            BY <5>2, <5>3, Items DEF Filled
          <5>5. \A i \in 1 .. MaxPieces : Pieces[v] < i => ~Filled(t, i)
            BY <3>2, <3>3, <4>2, <5>1
          <5> QED
            BY <1>4, <5>3, <5>4, <5>5 DEF Counted
        <4> QED
          BY <4>1, <4>2
      <3> QED
        BY <3>1, <3>4
    <2> QED
      BY <1>1, <2>1, <2>2, <2>3, TailOver
  <1>6. CASE ~(at > MaxPieces \/ held[t][at] = NoValue)
    <2>1. /\ held' = [held EXCEPT ![t][at] = NoValue]
          /\ call' = [call EXCEPT !.at = at + 1]
          /\ UNCHANGED <<secretCache, mayHold, torn>>
      BY <1>2, <1>3, <1>6 DEF DeleteTail
    <2>2. at \in 1 .. MaxPieces
      BY <1>4, <1>6
    <2>3. /\ held' \in [Targets -> [0 .. MaxPieces -> BareItems]]
          /\ held'[t][at] = NoValue
          /\ \A u \in Targets : u # t => held'[u] = held[u]
          /\ \A j \in 0 .. MaxPieces : j # at => held'[t][j] = held[t][j]
      <3>1. held \in [Targets -> [0 .. MaxPieces -> BareItems]] /\ at \in 0 .. MaxPieces
            /\ NoValue \in BareItems
        BY <1>0, <2>2 DEF SecretsTyped, BareItems
      <3> QED
        BY <2>1, <3>1, OneItemChanged
    <2>4. /\ call' \in CallRecords /\ call'.kind = "tail" /\ call'.target = t /\ call'.value = call.value
          /\ call'.at = at + 1
      <3>1. call \in CallRecords /\ at + 1 \in Nat
        BY <1>0 DEF SecretsTyped
      <3> QED
        BY <1>1, <1>2, <2>1, <3>1 DEF CallRecords
    <2>5. SecretsTyped'
      BY <1>0, <1>1, <2>1, <2>3, <2>4 DEF SecretsTyped
    <2>6. \A u \in Targets : u # t => FreshRead(u)' = FreshRead(u)
      BY <1>1, <2>3, FreshSame
    <2>7. held'[t][0] = held[t][0]
      BY <1>4, <2>2, <2>3
    <2>8. ASSUME call.value # NoValue
          PROVE  /\ held'[t][0] = BareOf(call.value)
                 /\ \A i \in 1 .. Pieces[call.value] : held'[t][i] = PieceOf(call.value, i)
                 /\ mayHold[t] = {call.value} /\ t \notin torn
                 /\ FreshRead(t)' = call.value
      <3>1. PICK v \in SecretValues : v = call.value
        BY <1>4, <2>8
      <3>2. /\ held[t][0] = BareOf(v) /\ Pieces[v] < at
            /\ \A i \in 1 .. Pieces[v] : held[t][i] = PieceOf(v, i)
            /\ mayHold[t] = {v} /\ t \notin torn
        BY <1>0, <1>1, <1>2, <1>3, <2>8, <3>1 DEF Sweeping
      <3>3. \A i \in 1 .. Pieces[v] : held'[t][i] = PieceOf(v, i)
        <4>1. Pieces[v] \in Nat /\ Pieces[v] <= MaxPieces /\ MaxPieces \in Nat
          BY Longest
        <4>2. \A i \in 1 .. Pieces[v] : i \in 0 .. MaxPieces /\ i # at
          BY <3>2, <4>1
        <4> QED
          BY <2>3, <3>2, <4>2
      <3>4. blobsParse'
        BY <1>0, <1>1 DEF FileTorn
      <3>5. FreshRead(t)' = v
        BY <2>7, <3>2, <3>3, <3>4, FreshWritten
      <3> QED
        BY <2>7, <3>1, <3>2, <3>3, <3>5
    <2>9. ASSUME call.value = NoValue
          PROVE  NoValue \in mayHold[t] /\ secretCache[t] = Unread /\ FreshRead(t)' \in {FreshRead(t), NoValue}
      <3>1. NoValue \in mayHold[t] /\ secretCache[t] = Unread
        BY <1>0, <1>1, <1>2, <2>9 DEF Sweeping
      <3>2. CASE IsSentinel(held[t][0]) /\ at <= held[t][0].pieces
        <4>1. at \in 1 .. held[t][0].pieces
          BY <1>4, <3>2
        <4> QED
          BY <1>1, <2>3, <2>7, <3>1, <3>2, <4>1 DEF FreshRead
      <3>3. CASE ~(IsSentinel(held[t][0]) /\ at <= held[t][0].pieces)
        <4>1. IsSentinel(held[t][0]) => held[t][0].pieces \in 2 .. MaxPieces
          BY <1>0, <1>4, Items DEF SecretsTyped
        <4>2. IsSentinel(held[t][0]) => \A i \in 1 .. held[t][0].pieces : held'[t][i] = held[t][i]
          BY <1>4, <2>3, <3>3, <4>1
        <4> QED
          BY <1>1, <2>7, <3>1, <4>2, FreshSame
      <3> QED
        BY <3>1, <3>2, <3>3
    <2>10. FreshTrue'
      <3>1. t \notin torn => FreshRead(t)' \in mayHold[t]
        BY <1>0, <2>8, <2>9 DEF FreshTrue
      <3> QED
        BY <1>0, <2>1, <2>6, <3>1 DEF FreshTrue
    <2>11. FileTorn' /\ OneItem'
      BY <1>0, <1>1, <2>1 DEF FileTorn, OneItem
    <2>12. Remembered'
      <3>1. call.value = NoValue => secretCache[t] = Unread
        BY <2>9
      <3> QED
        BY <1>0, <1>1, <1>2, <2>1, <2>4, <2>6, <3>1 DEF Remembered
    <2>13. Reading' /\ Writing'
      BY <2>4 DEF Reading, Writing
    <2>14. Sweeping'
      <3>1. call.value # NoValue => Pieces[call.value] \in Nat /\ Pieces[call.value] < at + 1
        BY <1>4, Longest
      <3> QED
        BY <1>1, <1>4, <2>1, <2>4, <2>8, <2>9, <3>1 DEF Sweeping
    <2>15. Tidy'
      <3> SUFFICES ASSUME callUpsets = 0 PROVE Tidy'
        BY <1>1 DEF Tidy
      <3>1. \A u \in Targets : u # t => Counted(u)'
        BY <1>0, <1>2, <2>3 DEF Tidy, Counted, Filled
      <3>2. /\ NoGap(t, at)
            /\ call.value = NoValue => held[t][0] = NoValue
            /\ \A i \in 1 .. MaxPieces :
                 i < at /\ (call.value # NoValue => Pieces[call.value] < i) => ~Filled(t, i)
        BY <1>0, <1>1, <1>2, <1>3 DEF Tidy
      <3>3. NoGap(t, at + 1)'
        <4> SUFFICES ASSUME NEW i \in 1 .. MaxPieces, NEW j \in 1 .. MaxPieces, at + 1 <= i, i < j,
                            Filled(t, j)'
                     PROVE  Filled(t, i)'
          BY DEF NoGap
        <4>1. held'[t][i] = held[t][i] /\ held'[t][j] = held[t][j] /\ at <= i
          BY <1>4, <2>3
        <4> QED
          BY <3>2, <4>1 DEF NoGap, Filled
      <3>4. ASSUME NEW i \in 1 .. MaxPieces, i < at + 1, call.value # NoValue => Pieces[call.value] < i
            PROVE  ~Filled(t, i)'
        <4>1. CASE i = at
          BY <2>3, <4>1 DEF Filled
        <4>2. CASE i # at
          <5>1. i < at /\ held'[t][i] = held[t][i]
            BY <1>4, <2>3, <3>4, <4>2
          <5> QED
            BY <3>2, <3>4, <5>1 DEF Filled
        <4> QED
          BY <4>1, <4>2
      <3> QED
        BY <2>4, <2>7, <3>1, <3>2, <3>3, <3>4 DEF Tidy, NoGap, Filled
    <2> QED
      BY <2>5, <2>10, <2>11, <2>12, <2>13, <2>14, <2>15 DEF SecretsInv
  <1> QED
    BY <1>5, <1>6

LEMMA DeleteStep ==
  ASSUME SecretsInv, NEW t \in Targets, NEW rest \in SUBSET Targets,
         call.kind \in {"none", "sweep"}, DeleteSecretOf(t, rest)
  PROVE  SecretsInv'
  <1>0. /\ SecretsTyped /\ FreshTrue /\ FileTorn /\ OneItem /\ Remembered /\ Tidy
        /\ 0 \in 0 .. MaxPieces /\ NoValue \in BareItems
    BY Longest DEF SecretsInv, BareItems
  <1>1. platform' = platform /\ secretCache' = [secretCache EXCEPT ![t] = Unread]
    BY DEF DeleteSecretOf, ForgetSecret, SamePlatform
  <1>2. /\ secretCache' \in [Targets -> SecretValues \cup {NoValue, Torn, Unread}]
        /\ secretCache'[t] = Unread
        /\ \A u \in Targets : u # t => secretCache'[u] = secretCache[u]
    BY <1>0, <1>1 DEF SecretsTyped
  <1>3. callUpsets \in Nat
    BY <1>0 DEF SecretsTyped
  <1>4. ASSUME NEW w \in SUBSET (SecretValues \cup {NoValue})
        PROVE  LET m == [mayHold EXCEPT ![t] = w] IN
               /\ m \in [Targets -> SUBSET (SecretValues \cup {NoValue})] /\ m[t] = w
               /\ \A u \in Targets : u # t => m[u] = mayHold[u]
    BY <1>0 DEF SecretsTyped
  <1>5. mayHold[t] \cup {NoValue} \in SUBSET (SecretValues \cup {NoValue})
    BY <1>0 DEF SecretsTyped
  <1>6. platform = "keychain" => \A u \in Targets : secretCache'[u] = Unread
    BY <1>0, <1>2 DEF Remembered
  <1>7. \A u \in Targets \ torn : secretCache[u] \in {Unread, FreshRead(u)}
    BY <1>0 DEF Remembered
  <1>8. CASE platform = "manager"
    <2>1. call' = TailCall(t, rest) /\ UNCHANGED blobsParse
      BY <1>8 DEF DeleteSecretOf, TailCall
    <2>2. /\ call' \in CallRecords /\ call'.kind = "tail" /\ call'.target = t /\ call'.value = NoValue
          /\ call'.at = 1
      BY <2>1, Calls
    <2>3. CASE held' = [held EXCEPT ![t][0] = NoValue] /\ mayHold' = [mayHold EXCEPT ![t] = {NoValue}]
               /\ torn' = torn \ {t} /\ NoUpset
      <3>1. /\ held' \in [Targets -> [0 .. MaxPieces -> BareItems]]
            /\ held'[t][0] = NoValue
            /\ \A u \in Targets : u # t => held'[u] = held[u]
            /\ \A j \in 0 .. MaxPieces : j # 0 => held'[t][j] = held[t][j]
        <4>1. held \in [Targets -> [0 .. MaxPieces -> BareItems]]
          BY <1>0 DEF SecretsTyped
        <4> QED
          BY <1>0, <2>3, <4>1, OneItemChanged
      <3>2. /\ mayHold' \in [Targets -> SUBSET (SecretValues \cup {NoValue})] /\ mayHold'[t] = {NoValue}
            /\ \A u \in Targets : u # t => mayHold'[u] = mayHold[u]
        BY <1>4, <2>3
      <3>3. SecretsTyped'
        BY <1>0, <1>2, <1>3, <2>1, <2>2, <2>3, <3>1, <3>2 DEF SecretsTyped, NoUpset
      <3>4. FreshRead(t)' = NoValue
        BY <3>1 DEF FreshRead
      <3>5. \A u \in Targets : u # t => FreshRead(u)' = FreshRead(u)
        BY <2>1, <3>1, FreshSame
      <3>6. FreshTrue'
        BY <1>0, <2>3, <3>2, <3>4, <3>5 DEF FreshTrue
      <3>7. FileTorn' /\ OneItem'
        BY <1>0, <1>1, <1>8, <2>1 DEF FileTorn, OneItem
      <3>8. Remembered'
        BY <1>1, <1>2, <1>6, <1>7, <2>3, <3>5 DEF Remembered
      <3>9. Reading' /\ Writing'
        BY <2>2 DEF Reading, Writing
      <3>10. Sweeping'
        BY <1>1, <1>2, <1>8, <2>2, <3>2 DEF Sweeping
      <3>11. Tidy'
        <4> SUFFICES ASSUME callUpsets = 0 PROVE Tidy'
          BY <2>3 DEF Tidy, NoUpset
        <4>1. \A u \in Targets : Counted(u)
          BY <1>0 DEF Tidy
        <4>2. \A u \in Targets : u # t => Counted(u)'
          BY <3>1, <4>1 DEF Counted, Filled
        <4>3. NoGap(t, 1)
          BY <1>0, <4>1, CountedNoGap
        <4>4. NoGap(t, 1)'
          BY <3>1, <4>3, Longest DEF NoGap, Filled
        <4>5. \A i \in 1 .. MaxPieces : ~(i < 1)
          BY Longest
        <4> QED
          BY <2>2, <3>1, <4>2, <4>4, <4>5 DEF Tidy, NoGap, Filled
      <3> QED
        BY <3>3, <3>6, <3>7, <3>8, <3>9, <3>10, <3>11 DEF SecretsInv
    <2>4. CASE CallUpset /\ mayHold' = [mayHold EXCEPT ![t] = mayHold[t] \cup {NoValue}] /\ UNCHANGED <<held, torn>>
      <3>1. /\ mayHold' \in [Targets -> SUBSET (SecretValues \cup {NoValue})]
            /\ mayHold'[t] = mayHold[t] \cup {NoValue}
            /\ \A u \in Targets : u # t => mayHold'[u] = mayHold[u]
        BY <1>4, <1>5, <2>4
      <3>2. callUpsets' \in Nat /\ callUpsets' # 0
        BY <1>3, <2>4 DEF CallUpset
      <3>3. SecretsTyped'
        BY <1>0, <1>2, <2>1, <2>2, <2>4, <3>1, <3>2 DEF SecretsTyped
      <3>4. \A u \in Targets : FreshRead(u)' = FreshRead(u)
        BY <2>1, <2>4, FreshSame
      <3>5. FreshTrue'
        BY <1>0, <2>4, <3>1, <3>4 DEF FreshTrue
      <3>6. FileTorn' /\ OneItem'
        BY <1>0, <1>1, <1>8, <2>1 DEF FileTorn, OneItem
      <3>7. Remembered'
        BY <1>1, <1>2, <1>6, <1>7, <2>4, <3>4 DEF Remembered
      <3>8. Reading' /\ Writing' /\ Tidy'
        BY <2>2, <3>2 DEF Reading, Writing, Tidy
      <3>9. Sweeping'
        BY <1>1, <1>2, <1>8, <2>2, <3>1 DEF Sweeping
      <3> QED
        BY <3>3, <3>5, <3>6, <3>7, <3>8, <3>9 DEF SecretsInv
    <2> QED
      BY <1>8, <2>3, <2>4 DEF DeleteSecretOf
  <1>9. CASE platform # "manager"
    <2>1. call' = OverCall(rest) /\ torn' = torn
      BY <1>9 DEF DeleteSecretOf, OverCall
    <2>2. call' \in CallRecords /\ call'.kind \in {"none", "sweep"}
      BY <2>1, Calls
    <2>3. CASE held' = [Entries EXCEPT ![t][0] = NoValue] /\ blobsParse' = (blobsParse \/ Entries[t][0] # NoValue)
               /\ mayHold' = [mayHold EXCEPT ![t] = {NoValue}] /\ NoUpset
      <3>1. /\ Entries \in [Targets -> [0 .. MaxPieces -> BareItems]]
            /\ blobsParse => Entries = held
            /\ ~blobsParse => Entries[t][0] = NoValue
            /\ \A u \in Targets : ~IsSentinel(Entries[u][0]) /\ \A i \in 1 .. MaxPieces : Entries[u][i] = NoValue
        <4>1. CASE blobsParse
          BY <1>0, <1>9, <4>1 DEF Entries, SecretsTyped, OneItem
        <4>2. CASE ~blobsParse
          <5>1. Entries = [u \in Targets |-> [i \in 0 .. MaxPieces |-> NoValue]]
            BY <4>2 DEF Entries, NothingHeld
          <5> QED
            BY <1>0, <4>2, <5>1, Items, Longest
        <4> QED
          BY <4>1, <4>2
      <3>2. /\ held' \in [Targets -> [0 .. MaxPieces -> BareItems]]
            /\ held'[t][0] = NoValue
            /\ \A u \in Targets : u # t => held'[u] = Entries[u]
            /\ \A j \in 0 .. MaxPieces : j # 0 => held'[t][j] = Entries[t][j]
        BY <1>0, <2>3, <3>1, OneItemChanged
      <3>3. blobsParse' = blobsParse /\ blobsParse \in BOOLEAN
        BY <1>0, <2>3, <3>1 DEF SecretsTyped
      <3>4. /\ mayHold' \in [Targets -> SUBSET (SecretValues \cup {NoValue})] /\ mayHold'[t] = {NoValue}
            /\ \A u \in Targets : u # t => mayHold'[u] = mayHold[u]
        BY <1>4, <2>3
      <3>5. SecretsTyped'
        BY <1>0, <1>2, <1>3, <2>1, <2>2, <2>3, <3>2, <3>3, <3>4 DEF SecretsTyped, NoUpset
      <3>6. FreshRead(t)' = NoValue
        BY <3>2 DEF FreshRead
      <3>7. \A u \in Targets \ torn : u # t => FreshRead(u)' = FreshRead(u)
        <4> SUFFICES ASSUME NEW u \in Targets \ torn, u # t PROVE FreshRead(u)' = FreshRead(u)
          OBVIOUS
        <4>1. blobsParse
          BY <1>0 DEF FileTorn
        <4>2. held'[u] = held[u]
          BY <3>1, <3>2, <4>1
        <4> QED
          BY <3>3, <4>2, FreshSame
      <3>8. FreshTrue'
        BY <1>0, <2>1, <3>4, <3>6, <3>7 DEF FreshTrue
      <3>9. FileTorn'
        BY <1>0, <1>1, <2>1, <3>3 DEF FileTorn
      <3>10. OneItem'
        <4>1. ASSUME NEW u \in Targets
              PROVE  ~IsSentinel(held'[u][0]) /\ \A i \in 1 .. MaxPieces : held'[u][i] = NoValue
          <5>1. CASE u = t
            BY <3>1, <3>2, <5>1, Items, Longest
          <5>2. CASE u # t
            BY <3>1, <3>2, <5>2
          <5> QED
            BY <5>1, <5>2
        <4> QED
          BY <4>1 DEF OneItem
      <3>11. Remembered'
        BY <1>1, <1>2, <1>6, <1>7, <2>1, <3>7 DEF Remembered
      <3>12. Tidy'
        BY <1>1, <1>9, <2>2, <3>10, SinglesTidy
      <3> QED
        BY <2>2, <3>5, <3>8, <3>9, <3>10, <3>11, <3>12, Idles DEF SecretsInv
    <2>4. CASE CallUpset /\ mayHold' = [mayHold EXCEPT ![t] = mayHold[t] \cup {NoValue}]
               /\ UNCHANGED <<held, blobsParse>>
      <3>1. /\ mayHold' \in [Targets -> SUBSET (SecretValues \cup {NoValue})]
            /\ mayHold'[t] = mayHold[t] \cup {NoValue}
            /\ \A u \in Targets : u # t => mayHold'[u] = mayHold[u]
        BY <1>4, <1>5, <2>4
      <3>2. callUpsets' \in Nat /\ callUpsets' # 0
        BY <1>3, <2>4 DEF CallUpset
      <3>3. SecretsTyped'
        BY <1>0, <1>2, <2>1, <2>2, <2>4, <3>1, <3>2 DEF SecretsTyped
      <3>4. \A u \in Targets : FreshRead(u)' = FreshRead(u)
        BY <2>4, FreshSame
      <3>5. FreshTrue'
        BY <1>0, <2>1, <3>1, <3>4 DEF FreshTrue
      <3>6. FileTorn' /\ OneItem'
        BY <1>0, <1>1, <2>1, <2>4 DEF FileTorn, OneItem
      <3>7. Remembered'
        BY <1>1, <1>2, <1>6, <1>7, <2>1, <3>4 DEF Remembered
      <3>8. Tidy'
        BY <3>2 DEF Tidy
      <3> QED
        BY <2>2, <3>3, <3>5, <3>6, <3>7, <3>8, Idles DEF SecretsInv
    <2> QED
      BY <1>9, <2>3, <2>4 DEF DeleteSecretOf
  <1> QED
    BY <1>8, <1>9

LEMMA KillSecretsStep == ASSUME SecretsInv, KillSecrets PROVE SecretsInv'
  <1>0. SecretsTyped /\ FreshTrue /\ FileTorn /\ OneItem /\ Remembered
    BY DEF SecretsInv
  <1>1. /\ call' = NoCall /\ secretCache' = [t \in Targets |-> Unread]
        /\ UNCHANGED <<held, mayHold, platform>>
    BY DEF KillSecrets, SamePlatform
  <1>2. callUpsets' \in Nat /\ callUpsets' # 0
    BY <1>0 DEF KillSecrets, CallUpset, SecretsTyped
  <1>3. call' \in CallRecords /\ call'.kind = "none"
    BY <1>1, Calls
  <1>4. \/ UNCHANGED <<blobsParse, torn>>
        \/ platform = "file" /\ blobsParse' = FALSE /\ torn' = Targets
    BY DEF KillSecrets
  <1>5. SecretsTyped'
    BY <1>0, <1>1, <1>2, <1>3, <1>4 DEF SecretsTyped
  <1>6. UNCHANGED <<blobsParse, torn>> => \A t \in Targets : FreshRead(t)' = FreshRead(t)
    BY <1>1, FreshSame
  <1>7. FreshTrue' /\ FileTorn'
    BY <1>0, <1>1, <1>4, <1>6 DEF FreshTrue, FileTorn
  <1>8. OneItem' /\ Remembered' /\ Tidy'
    BY <1>0, <1>1, <1>2 DEF OneItem, Remembered, Tidy
  <1> QED
    BY <1>3, <1>5, <1>7, <1>8, Idles DEF SecretsInv

LEMMA SecretsStep == SecretsInv /\ [SecretsNext]_SecretsVars => SecretsInv'
  <1> SUFFICES ASSUME SecretsInv, [SecretsNext]_SecretsVars PROVE SecretsInv'
    OBVIOUS
  <1>1. CASE UNCHANGED SecretsVars
    <2>1. UNCHANGED <<platform, held, blobsParse, secretCache, call, mayHold, torn, callUpsets>>
      BY <1>1 DEF SecretsVars
    <2>2. \A t \in Targets : FreshRead(t)' = FreshRead(t)
      BY <2>1, FreshSame
    <2>3. SecretsTyped' /\ FreshTrue' /\ FileTorn' /\ OneItem' /\ Remembered'
      BY <2>1, <2>2 DEF SecretsInv, SecretsTyped, FreshTrue, FileTorn, OneItem, Remembered
    <2>4. Reading' /\ Writing' /\ Sweeping'
      BY <2>1 DEF SecretsInv, Reading, Writing, Sweeping
    <2>5. Tidy'
      BY <2>1 DEF SecretsInv, Tidy, Counted, NoGap, Filled
    <2> QED
      BY <2>3, <2>4, <2>5 DEF SecretsInv
  <1>2. ASSUME NEW t \in Targets, DeleteSecret(t) PROVE SecretsInv'
    BY <1>2, DeleteStep DEF DeleteSecret, BetweenCalls
  <1>3. ASSUME SweepNextSecret PROVE SecretsInv'
    <2>1. PICK t \in call.sweep : DeleteSecretOf(t, call.sweep \ {t})
      BY <1>3 DEF SweepNextSecret
    <2>2. call.sweep \in SUBSET Targets /\ call.kind = "sweep"
      BY <1>3, CallFields DEF SecretsInv, SweepNextSecret
    <2> QED
      BY <2>1, <2>2, DeleteStep
  <1> QED
    BY <1>1, <1>2, <1>3, GetStep, SetStep, ReadFailsStep, ReadBareStep, ReadPieceStep, WritePieceStep,
       WriteBareStep, WriteEntryStep, WriteFailsStep, DeleteTailStep, TailFailsStep, SweepStep,
       KillSecretsStep DEF SecretsNext

(* What the run checks of the stores.                                      *)
LEMMA StoresAreTidy == SecretsInv => CacheTrue /\ NoPieceLeft
  <1> SUFFICES ASSUME SecretsInv PROVE CacheTrue /\ NoPieceLeft
    OBVIOUS
  <1>1. SecretsTyped /\ Remembered /\ Tidy
    BY DEF SecretsInv
  <1>2. CacheTrue
    BY <1>1 DEF CacheTrue, BetweenCalls, Remembered
  <1>3. ASSUME BetweenCalls, callUpsets = 0, NEW t \in Targets
        PROVE  {i \in 1 .. MaxPieces : held[t][i] # NoValue} =
                 IF IsSentinel(held[t][0]) THEN 1 .. held[t][0].pieces ELSE {}
    <2>1. Counted(t)
      BY <1>1, <1>3 DEF Tidy, BetweenCalls
    <2>2. IsSentinel(held[t][0]) => held[t][0].pieces \in 2 .. MaxPieces
      BY <1>1, Items, Longest DEF SecretsTyped
    <2> QED
      BY <2>1, <2>2, Longest DEF Counted, Filled
  <1>4. NoPieceLeft
    BY <1>3 DEF NoPieceLeft
  <1> QED
    BY <1>2, <1>4

(* ReadsWhole, of a step.                                                  *)
ReadsTrue ==
  readAs' # readAs =>
    LET t == readAs'.target IN
    \/ t \in envSecrets /\ readAs'.value = FromEnv
    \/ readAs'.value \in mayHold[t]
    \/ readAs'.failed /\ readAs'.value = NoValue
    \/ t \in torn

LEMMA AnswersTrue == SecretsInv /\ [SecretsNext]_SecretsVars => [ReadsTrue]_SecretsVars
  <1> SUFFICES ASSUME SecretsInv, SecretsNext, readAs' # readAs PROVE ReadsTrue
    BY DEF ReadsTrue
  <1>0. SecretsTyped /\ FreshTrue /\ Remembered
    BY DEF SecretsInv
  <1>1. ASSUME NEW t \in Targets, NEW value, NEW failed,
               readAs' = [target |-> t, value |-> value, failed |-> failed],
               \/ t \in envSecrets /\ value = FromEnv
               \/ value = FreshRead(t)
               \/ failed /\ value = NoValue
               \/ t \in torn
        PROVE  ReadsTrue
    <2>1. readAs'.target = t /\ readAs'.value = value /\ readAs'.failed = failed
      BY <1>1
    <2>2. t \notin torn => FreshRead(t) \in mayHold[t]
      BY <1>0 DEF FreshTrue
    <2> QED
      BY <1>1, <2>1, <2>2 DEF ReadsTrue
  <1>2. ASSUME NEW t \in Targets, GetSecret(t) PROVE ReadsTrue
    <2>1. CASE t \in envSecrets
      BY <1>1, <1>2, <2>1 DEF GetSecret, ReadsAs
    <2>2. CASE t \notin envSecrets
      <3>1. secretCache[t] # Unread /\ readAs' = [target |-> t, value |-> secretCache[t], failed |-> FALSE]
        BY <1>2, <2>2 DEF GetSecret, ReadsAs
      <3>2. t \in torn \/ secretCache[t] = FreshRead(t)
        BY <1>0, <1>2, <3>1 DEF Remembered, GetSecret, BetweenCalls
      <3> QED
        BY <1>1, <3>1, <3>2
    <2> QED
      BY <2>1, <2>2
  <1>3. ASSUME ReadFails PROVE ReadsTrue
    <2>1. call.target \in Targets
      BY <1>0, <1>3 DEF SecretsTyped, ReadFails
    <2> QED
      BY <1>1, <1>3, <2>1 DEF ReadFails, ReadsAs
  <1>4. ASSUME ReadBare PROVE ReadsTrue
    <2>1. call.target \in Targets
      BY <1>0, <1>4 DEF SecretsTyped, ReadBare
    <2>2. readAs' = [target |-> call.target, value |-> FreshRead(call.target), failed |-> FALSE]
      BY <1>4 DEF ReadBare, ReadsAs
    <2> QED
      BY <1>1, <2>1, <2>2
  <1>5. ASSUME ReadPiece PROVE ReadsTrue
    <2>1. PICK t \in Targets : t = call.target
      BY <1>0, <1>5 DEF SecretsTyped, ReadPiece
    <2> DEFINE gathered == Append(call.got, held[t][call.at])
    <2>2. /\ held[t][call.at] = NoValue => FreshRead(t) = NoValue
          /\ held[t][call.at] # NoValue /\ call.at >= held[t][0].pieces => FreshRead(t) = WholeOf(gathered)
          /\ held[t][0].pieces \in 2 .. MaxPieces /\ call.at \in 1 .. held[t][0].pieces
      BY <1>5, <2>1, ChainRead DEF ReadPiece
    <2>3. \/ held[t][call.at] = NoValue /\ readAs' = [target |-> t, value |-> NoValue, failed |-> FALSE]
          \/ held[t][call.at] # NoValue /\ ~(call.at < held[t][0].pieces)
             /\ readAs' = [target |-> t, value |-> WholeOf(gathered), failed |-> FALSE]
      BY <1>5, <2>1 DEF ReadPiece, ReadsAs
    <2> HIDE DEF gathered
    <2>4. ~(call.at < held[t][0].pieces) => call.at >= held[t][0].pieces
      BY <2>2
    <2> QED
      BY <1>1, <2>2, <2>3, <2>4
  <1>6. ReadFails \/ ReadBare \/ ReadPiece \/ \E t \in Targets : GetSecret(t)
    BY DEF SecretsNext, DeleteSecret, DeleteSecretOf, SetSecret, WritePiece, WriteBare, WriteEntry,
           WriteFails, DeleteTail, TailFails, SweepSecrets, SweepNextSecret, KillSecrets
  <1> QED
    BY <1>2, <1>3, <1>4, <1>5, <1>6

LEMMA SecretsMove ==
  ASSUME [DeskNext]_DeskVars
  PROVE  /\ part' = part
         /\ part = "secrets" => [SecretsNext]_SecretsVars
         /\ part # "secrets" => UNCHANGED SecretsVars
  BY DEF DeskVars, DeskNext, Others, Elsewhere

SecretsPartInv == part = "secrets" => SecretsInv

(* The process remembers of a credential only what its store would answer  *)
(* afresh, and while no call failed no piece of a replaced or deleted      *)
(* value is left: for any targets, values, lengths, failures and deaths.   *)
THEOREM SecretsAreWhole == DeskSpec => []SecretsWhole
  <1>1. DeskInit => SecretsPartInv
    BY SecretsStart DEF DeskInit, SecretsPartInv
  <1>2. SecretsPartInv /\ [DeskNext]_DeskVars => SecretsPartInv'
    BY SecretsMove, SecretsStep DEF SecretsPartInv
  <1>3. SecretsPartInv => SecretsWhole
    BY StoresAreTidy DEF SecretsPartInv, SecretsWhole
  <1> QED
    BY <1>1, <1>2, <1>3, PTL DEF DeskSpec

(* get answers with what was last stored, whole, and with null only where  *)
(* nothing is stored or a call of that read failed, but for a value whose  *)
(* pieces or file were cut while they were written: for any targets,       *)
(* values, lengths, failures and deaths.                                   *)
THEOREM ReadsAreWhole == DeskSpec => ReadsWhole
  <1>1. DeskInit => SecretsPartInv
    BY SecretsStart DEF DeskInit, SecretsPartInv
  <1>2. SecretsPartInv /\ [DeskNext]_DeskVars => SecretsPartInv'
    BY SecretsMove, SecretsStep DEF SecretsPartInv
  <1>3. SecretsPartInv /\ [DeskNext]_DeskVars => [ReadsTrue]_SecretsVars
    BY SecretsMove, AnswersTrue DEF SecretsPartInv
  <1> QED
    BY <1>1, <1>2, <1>3, PTL DEF DeskSpec, ReadsWhole, ReadsTrue

-----------------------------------------------------------------------------
(* Types.                                                                  *)

(* What the gate's and the other parts' invariants say already is their    *)
(* typing; bounds on counters and on what is kept are stated beside it.    *)
LEMMA GateIsTyped == GateInv => GateTypeOK
  BY DEF GateInv, GateTyped, Wire, GateTypeOK

LEMMA RefreshTypedFirst == RefreshInit => RefreshTypeOK
  <1> SUFFICES ASSUME RefreshInit PROVE RefreshTypeOK
    OBVIOUS
  <1>1. 0 \in Seqs /\ 1 \in 1 .. MaxAsks /\ 0 \in 0 .. MaxFailures
    BY AsksAssumption DEF Seqs
  <1>2. \A x \in loads : x.n \in 1 .. asked /\ x.answer = Unanswered
    BY DEF RefreshInit, Load
  <1> QED
    BY <1>1, <1>2 DEF RefreshInit, RefreshTypeOK

(* An answer under way is a load's number with a head the host has served, *)
(* a failure or none yet.                                                  *)
LEMMA RefreshKeepsTypes == RefreshInv /\ RefreshTypeOK /\ [RefreshNext]_RefreshVars => RefreshTypeOK'
  <1> SUFFICES ASSUME RefreshInv, RefreshTypeOK, [RefreshNext]_RefreshVars PROVE RefreshTypeOK'
    OBVIOUS
  <1> USE AsksAssumption DEF RefreshInv, RefreshTyped, RefreshTypeOK, Seqs, Blank, Failed, Unanswered, Load
  <1>1. CASE LedgerMoves
    BY <1>1 DEF LedgerMoves
  <1>2. CASE refresh
    BY <1>2 DEF refresh, Bump
  <1>3. CASE pollHead
    BY <1>3 DEF pollHead
  <1>4. CASE HeadServed
    <2>1. PICK answer \in {ledgerSeq, Failed} : Replies(answer) /\ headPoll' = [headPoll EXCEPT !.answer = answer]
      BY <1>4 DEF HeadServed
    <2>2. headPoll' = [kind |-> headPoll.kind, answer |-> answer] /\ answer \in Seqs \cup {Unanswered, Failed}
      BY <2>1
    <2>3. failures' \in 0 .. MaxFailures
      BY <2>1 DEF Replies, LoadFails
    <2> QED
      BY <1>4, <2>2, <2>3 DEF HeadServed
  <1>5. CASE HeadLands
    <2>1. headPoll' = [kind |-> "none", answer |-> Unanswered] /\ overtaken' \in BOOLEAN
      BY <1>5 DEF HeadLands, NoPoll
    <2>2. seenSeq' \in {seenSeq, headPoll.answer} /\ (seenSeq' # seenSeq => headPoll.answer \notin {Unanswered, Failed})
      BY <1>5 DEF HeadLands
    <2>3. seenSeq' \in Seqs \cup {Blank}
      BY <2>2
    <2>4. \/ UNCHANGED <<asked, loads, loadsCrossed>>
          \/ Bump
      BY <1>5 DEF HeadLands
    <2>9. ASSUME Bump
          PROVE  /\ \A x \in loads' : x.n \in 1 .. asked' /\ x.answer \in Seqs \cup {Unanswered, Failed}
                 /\ asked' \in 1 .. MaxAsks /\ loadsCrossed' \in BOOLEAN
      <3>1. asked' = asked + 1 /\ asked' \in 1 .. MaxAsks /\ loadsCrossed' \in BOOLEAN
        BY <2>9 DEF Bump
      <3>2. loads' = loads \cup {[n |-> asked', answer |-> Unanswered]}
        BY <2>9, <3>1 DEF Bump
      <3>3. \A x \in loads' : x.n \in 1 .. asked' /\ x.answer \in Seqs \cup {Unanswered, Failed}
        BY <3>1, <3>2
      <3> QED
        BY <3>1, <3>3
    <2>5. /\ \A x \in loads' : x.n \in 1 .. asked' /\ x.answer \in Seqs \cup {Unanswered, Failed}
          /\ asked' \in 1 .. MaxAsks /\ loadsCrossed' \in BOOLEAN
      BY <2>4, <2>9
    <2> QED
      BY <1>5, <2>1, <2>3, <2>5 DEF HeadLands
  <1>6. ASSUME NEW x \in loads, HostServes(x) PROVE RefreshTypeOK'
    <2>1. PICK answer \in {ledgerSeq, Failed} : Replies(answer) /\ loads' = (loads \ {x}) \cup {[x EXCEPT !.answer = answer]}
      BY <1>6 DEF HostServes
    <2>2. [x EXCEPT !.answer = answer] = [n |-> x.n, answer |-> answer] /\ answer \in Seqs \cup {Unanswered, Failed}
      BY <2>1
    <2>3. failures' \in 0 .. MaxFailures
      BY <2>1 DEF Replies, LoadFails
    <2> QED
      BY <1>6, <2>1, <2>2, <2>3 DEF HostServes
  <1>7. ASSUME NEW x \in loads, Lands(x) PROVE RefreshTypeOK'
    BY <1>7 DEF Lands
  <1>8. CASE UNCHANGED RefreshVars
    BY <1>8 DEF RefreshVars
  <1> QED
    BY <1>1, <1>2, <1>3, <1>4, <1>5, <1>6, <1>7, <1>8 DEF RefreshNext

LEMMA ShellTypedFirst == ShellInit => ShellTypeOK
  BY MishapsAssumption DEF ShellInit, ShellTypeOK

(* A shell's windows, host process and health check keep their kinds       *)
(* whatever stops, crashes or hangs.                                       *)
LEMMA ShellKeepsTypes == ShellTypeOK /\ [ShellNext]_ShellVars => ShellTypeOK'
  <1> SUFFICES ASSUME ShellTypeOK, [ShellNext]_ShellVars PROVE ShellTypeOK'
    OBVIOUS
  <1> DEFINE Phases == {"off", "up", "exiting", "quit", "killed"}
             Hosts == {"none", "booting", "serving", "stopping", "dead"}
             Shown == [page : {"none", "splash", "app"}, seen : BOOLEAN]
             Titles == {"none", "starting", "name", "not responding"}
             Healths == {"waiting", "healthy", "gave up", "told"}
             ProcessesTyped == /\ phase \in [Shells -> Phases] /\ host \in [Shells -> Hosts]
                               /\ child \in [Shells -> BOOLEAN] /\ after \in [Shells -> Shells]
             WindowsTyped == /\ mainWindow \in [Shells -> Shown] /\ extras \in [Shells -> 0 .. 1]
                             /\ title \in [Shells -> Titles] /\ health \in [Shells -> Healths]
             MishapsCounted == mishaps \in 0 .. MaxMishaps
  <1>1. ProcessesTyped /\ WindowsTyped /\ MishapsCounted
    BY DEF ShellTypeOK
  <1>a. MaxMishaps \in Nat /\ mishaps \in 0 .. MaxMishaps
    BY MishapsAssumption DEF ShellTypeOK
  <1>b. ASSUME Mishap PROVE mishaps' \in 0 .. MaxMishaps
    BY <1>a, <1>b DEF Mishap
  <1>2. SUFFICES ProcessesTyped' /\ WindowsTyped' /\ MishapsCounted'
    BY DEF ShellTypeOK
  <1>3. CASE UNCHANGED ShellVars
    BY <1>1, <1>3 DEF ShellVars
  <1>4. ASSUME NEW x \in Shells, Launch(x) PROVE ProcessesTyped' /\ WindowsTyped' /\ MishapsCounted'
    BY <1>1, <1>4 DEF Launch, Starts
  <1>5. ASSUME NEW x \in Shells, serve(x) \/ HostCrashes(x) \/ ParentGone(x) \/ Stops(x)
        PROVE  ProcessesTyped' /\ WindowsTyped' /\ MishapsCounted'
    <2>1. PICK condition \in Hosts : Becomes(x, condition)
      BY <1>5 DEF serve, HostCrashes, ParentGone, Stops
    <2>2. Mishap \/ UNCHANGED mishaps
      BY <1>5 DEF serve, HostCrashes, ParentGone, Stops
    <2>3. MishapsCounted'
      BY <1>a, <1>b, <2>2
    <2> QED
      BY <1>1, <2>1, <2>3 DEF Becomes
  <1>6. ASSUME NEW x \in Shells, SplashFinds(x) \/ HealthTells(x)
        PROVE  ProcessesTyped' /\ WindowsTyped' /\ MishapsCounted'
    <2>1. ProcessesTyped' /\ MishapsCounted'
      BY <1>1, <1>6 DEF SplashFinds, HealthTells, Unmoved
    <2>2. Shows(x, "app") \/ UNCHANGED mainWindow
      BY <1>6 DEF SplashFinds, HealthTells
    <2>3. mainWindow' \in [Shells -> Shown]
      BY <1>1, <2>2 DEF Shows
    <2>4. extras' \in [Shells -> 0 .. 1] /\ title' \in [Shells -> Titles] /\ health' \in [Shells -> Healths]
      BY <1>1, <1>6 DEF SplashFinds, HealthTells
    <2> QED
      BY <2>1, <2>3, <2>4
  <1>7. ASSUME NEW x \in Shells, wait_for_health(x) PROVE ProcessesTyped' /\ WindowsTyped' /\ MishapsCounted'
    BY <1>1, <1>7 DEF wait_for_health, Unmoved
  <1>8. ASSUME NEW x \in Shells, CloseMain(x) \/ open_main(x)
        PROVE  ProcessesTyped' /\ WindowsTyped' /\ MishapsCounted'
    <2>1. PICK b \in BOOLEAN : mainWindow' = [mainWindow EXCEPT ![x].seen = b]
      BY <1>8 DEF CloseMain, open_main
    <2>2. mainWindow' \in [Shells -> Shown]
      BY <1>1, <2>1
    <2>3. UNCHANGED <<phase, host, child, after, mishaps, extras, title, health>>
      BY <1>8 DEF CloseMain, open_main, Unmoved
    <2> QED
      BY <1>1, <2>2, <2>3
  <1>9. ASSUME NEW x \in Shells, ExtraWindow(x) PROVE ProcessesTyped' /\ WindowsTyped' /\ MishapsCounted'
    <2>a. extras[x] \in 0 .. 1
      BY <1>1
    <2>b. 1 - extras[x] \in 0 .. 1
      BY <2>a
    <2>1. extras' = [extras EXCEPT ![x] = 1 - extras[x]]
      BY <1>9 DEF ExtraWindow
    <2>2. extras' \in [Shells -> 0 .. 1]
      BY <1>1, <2>b, <2>1
    <2>3. UNCHANGED <<phase, host, child, after, mishaps, mainWindow, title, health>>
      BY <1>9 DEF ExtraWindow, Unmoved
    <2> QED
      BY <1>1, <2>2, <2>3
  <1>10. ASSUME NEW x \in Shells, KillSwitch(x) \/ QuitApp(x) \/ ExitRuns(x)
         PROVE  ProcessesTyped' /\ WindowsTyped' /\ MishapsCounted'
    <2>1. WindowsTyped' /\ MishapsCounted' /\ after' = after
      BY <1>1, <1>10 DEF KillSwitch, QuitApp, ExitRuns, Left
    <2>2. kill_host(x) \/ UNCHANGED <<host, child>>
      BY <1>10 DEF KillSwitch, QuitApp, ExitRuns
    <2>3. host' \in [Shells -> Hosts] /\ child' \in [Shells -> BOOLEAN]
      BY <1>1, <2>2 DEF kill_host
    <2>4. phase' \in [Shells -> Phases]
      BY <1>1, <1>10 DEF KillSwitch, QuitApp, ExitRuns
    <2> QED
      BY <1>1, <2>1, <2>3, <2>4
  <1>11. ASSUME NEW x \in Shells, ShellKilled(x) PROVE ProcessesTyped' /\ WindowsTyped' /\ MishapsCounted'
    <2>1. ProcessesTyped' /\ WindowsTyped'
      BY <1>1, <1>11 DEF ShellKilled
    <2>2. MishapsCounted'
      BY <1>b, <1>11 DEF ShellKilled
    <2> QED
      BY <2>1, <2>2
  <1>12. ASSUME NEW x \in Shells, NEW y \in Shells, Relaunch(x, y)
         PROVE  ProcessesTyped' /\ WindowsTyped' /\ MishapsCounted'
    <2>1. MishapsCounted' /\ extras' \in [Shells -> 0 .. 1] /\ health' \in [Shells -> Healths]
      BY <1>1, <1>12 DEF Relaunch, Starts
    <2>2. mainWindow' \in [Shells -> Shown] /\ title' \in [Shells -> Titles]
      BY <1>1, <1>12 DEF Relaunch, Starts
    <2>3. ProcessesTyped'
      BY <1>1, <1>12 DEF Relaunch
    <2> QED
      BY <2>1, <2>2, <2>3
  <1> QED
    BY <1>3, <1>4, <1>5, <1>6, <1>7, <1>8, <1>9, <1>10, <1>11, <1>12 DEF ShellNext

(* Taking a user out of the list of recent ones leaves each of the others  *)
(* in it once.                                                             *)
LEMMA WithoutOnce ==
  ASSUME recent \in Seq(Household), IsInjective(recent), NEW u \in Household
  PROVE  /\ Without(u) \in Seq(Household) /\ IsInjective(Without(u))
         /\ \A i \in DOMAIN Without(u) : Without(u)[i] # u
  <1>1. CASE u \notin ToSet(recent)
    <2>1. Without(u) = recent
      BY <1>1 DEF Without
    <2> QED
      BY <1>1, <2>1 DEF ToSet
  <1>2. CASE u \in ToSet(recent)
    <2> DEFINE k == CHOOSE i \in DOMAIN recent : recent[i] = u
    <2>1. k \in DOMAIN recent /\ recent[k] = u
      BY <1>2 DEF ToSet
    <2> HIDE DEF k
    <2>2. k \in 1 .. Len(recent) /\ DOMAIN recent = 1 .. Len(recent)
      BY <2>1
    <2> DEFINE a == SubSeq(recent, 1, k - 1)
               b == SubSeq(recent, k + 1, Len(recent))
    <2>4. a \in Seq(Household) /\ Len(a) = k - 1 /\ \A i \in 1 .. k - 1 : a[i] = recent[i]
      BY <2>2
    <2>5. b \in Seq(Household) /\ Len(b) = Len(recent) - k /\ \A i \in 1 .. Len(recent) - k : b[i] = recent[k + i]
      <3>c. k \in Nat /\ Len(recent) \in Nat /\ k <= Len(recent)
        BY <2>2
      <3>e. k + 1 \in Int /\ Len(recent) \in Int /\ \A i \in k + 1 .. Len(recent) : recent[i] \in Household
        BY <2>2
      <3>f. b \in Seq(Household) /\ Len(b) = IF k + 1 <= Len(recent) THEN Len(recent) - (k + 1) + 1 ELSE 0
        BY <3>e, SubSeqProperties, Zenon
      <3>a. b \in Seq(Household)
        BY <3>f
      <3>b. Len(b) = IF k + 1 <= Len(recent) THEN Len(recent) - (k + 1) + 1 ELSE 0
        BY <3>f
      <3> HIDE DEF b
      <3>d. Len(b) = Len(recent) - k
        BY <3>b, <3>c
      <3> USE DEF b
      <3>1. b \in Seq(Household) /\ Len(b) = Len(recent) - k
        BY <3>a, <3>d
      <3>2. ASSUME NEW i \in 1 .. Len(recent) - k PROVE b[i] = recent[k + i]
        <4>1. i \in 1 .. (Len(recent) - (k + 1) + 1) /\ (k + 1) + i - 1 = k + i
          BY <2>2
        <4>2. b[i] = recent[(k + 1) + i - 1]
          BY <2>2, <4>1
        <4> QED
          BY <4>1, <4>2
      <3> QED
        BY <3>1, <3>2
    <2>6. Without(u) = a \o b
      BY <1>2 DEF Without, RemoveAt, k
    <2> HIDE DEF a, b
    <2>7. /\ a \o b \in Seq(Household) /\ Len(a \o b) = Len(a) + Len(b)
          /\ \A i \in 1 .. Len(a) + Len(b) : (a \o b)[i] = IF i <= Len(a) THEN a[i] ELSE b[i - Len(a)]
      <3>1. a \in Seq(Household) /\ b \in Seq(Household)
        BY <2>4, <2>5
      <3> QED
        BY <3>1, ConcatProperties, Zenon
    <2>3. /\ Without(u) \in Seq(Household) /\ DOMAIN Without(u) = 1 .. Len(recent) - 1
          /\ \A i \in 1 .. Len(recent) - 1 : Without(u)[i] = recent[IF i < k THEN i ELSE i + 1]
      <3>1. Without(u) \in Seq(Household) /\ Len(Without(u)) = Len(recent) - 1
        BY <2>2, <2>4, <2>5, <2>6, <2>7
      <3>2. ASSUME NEW i \in 1 .. Len(recent) - 1 PROVE Without(u)[i] = recent[IF i < k THEN i ELSE i + 1]
        <4>1. i \in 1 .. Len(a) + Len(b) /\ Without(u)[i] = IF i <= Len(a) THEN a[i] ELSE b[i - Len(a)]
          BY <2>2, <2>4, <2>5, <2>6, <2>7
        <4>2. CASE i < k
          BY <2>2, <2>4, <4>1, <4>2
        <4>3. CASE ~(i < k)
          <5>1. i - Len(a) \in 1 .. Len(recent) - k /\ k + (i - Len(a)) = i + 1 /\ ~(i <= Len(a))
            BY <2>2, <2>4, <4>3
          <5> QED
            BY <2>5, <4>1, <4>3, <5>1
        <4> QED
          BY <4>2, <4>3
      <3> QED
        BY <3>1, <3>2
    <2> DEFINE old(i) == IF i < k THEN i ELSE i + 1
    <2>8. \A i, j \in 1 .. Len(recent) - 1 :
             old(i) \in 1 .. Len(recent) /\ old(i) # k /\ (old(i) = old(j) => i = j)
      BY <2>2
    <2>9. \A i \in 1 .. Len(recent) - 1 : Without(u)[i] = recent[old(i)]
      BY <2>3
    <2> HIDE DEF old
    <2>10. \A i, j \in 1 .. Len(recent) : recent[i] = recent[j] => i = j
      BY <2>2 DEF IsInjective
    <2> QED
      BY <2>1, <2>2, <2>3, <2>8, <2>9, <2>10 DEF IsInjective
  <1> QED
    BY <1>1, <1>2

(* A user put in front of a list without them is in it once.               *)
LEMMA Foremost ==
  ASSUME NEW seq \in Seq(Household), IsInjective(seq), NEW u \in Household, \A i \in DOMAIN seq : seq[i] # u
  PROVE  <<u>> \o seq \in Seq(Household) /\ IsInjective(<<u>> \o seq)
  <1>1. <<u>> \o seq \in Seq(Household)
    OBVIOUS
  <1>2. DOMAIN (<<u>> \o seq) = 1 .. Len(seq) + 1 /\ DOMAIN seq = 1 .. Len(seq)
    OBVIOUS
  <1>3. \A i \in 1 .. Len(seq) + 1 : (<<u>> \o seq)[i] = IF i = 1 THEN u ELSE seq[i - 1]
    OBVIOUS
  <1> QED
    BY <1>1, <1>2, <1>3 DEF IsInjective

LEMMA TrayTypedFirst == TrayInit => TrayTypeOK
  <1> SUFFICES ASSUME TrayInit PROVE TrayTypeOK
    OBVIOUS
  <1>1. recent \in Seq(Household) /\ IsInjective(recent)
    BY DEF TrayInit, IsInjective
  <1>2. 0 \in 0 .. LastSecond /\ 0 \in 0 .. MaxSwitches
    BY SwitchesAssumption
  <1> QED
    BY <1>1, <1>2 DEF TrayInit, TrayTypeOK, Idle, SomeOne

LEMMA TrayKeepsTypes == TrayTypeOK /\ [TrayNext]_TrayVars => TrayTypeOK'
  <1> SUFFICES ASSUME TrayTypeOK, [TrayNext]_TrayVars PROVE TrayTypeOK'
    OBVIOUS
  <1>a. activeUser \in SomeOne /\ NoUser \in SomeOne
    BY DEF TrayTypeOK, activeUser, SomeOne
  <1>b. ASSUME Switch PROVE switches' \in 0 .. MaxSwitches /\ poller' = [poller EXCEPT !.since = TRUE]
    BY <1>b, SwitchesAssumption DEF Switch, TrayTypeOK
  <1>c. [poller EXCEPT !.since = TRUE] \in [at : {"rest", "session", "title", "posted"}, found : SomeOne, since : BOOLEAN]
    BY DEF TrayTypeOK
  <1>1. ASSUME NEW u \in Household, Uses(u) PROVE TrayTypeOK'
    <2>1. recent' \in Seq(Household) /\ IsInjective(recent')
      BY <1>1, WithoutOnce, Foremost DEF Uses, TrayTypeOK
    <2> QED
      BY <1>1, <1>b, <1>c, <2>1 DEF Uses, TrayTypeOK
  <1>2. ASSUME NEW u \in Household, SignsOut(u) PROVE TrayTypeOK'
    <2>1. recent' \in Seq(Household) /\ IsInjective(recent')
      BY <1>2, WithoutOnce DEF SignsOut, TrayTypeOK
    <2> QED
      BY <1>2, <1>b, <1>c, <2>1 DEF SignsOut, TrayTypeOK
  <1>3. CASE Toggle
    <2>1. showNw' \in BOOLEAN /\ shownTitle' \in SomeOne
      BY <1>3, <1>a DEF Toggle
    <2> QED
      BY <1>3, <1>b, <1>c, <2>1 DEF Toggle, TrayTypeOK
  <1>4. CASE tray_signed_in
    BY <1>4, <1>a DEF tray_signed_in, Polls, TrayTypeOK
  <1>5. CASE set_enabled
    BY <1>5, <1>a DEF set_enabled, Polls, Idle, TrayTypeOK
  <1>6. CASE tray_networth_title
    BY <1>6, <1>a DEF tray_networth_title, PolledTitle, Polls, TrayTypeOK
  <1>7. CASE set_title
    BY <1>7, <1>a DEF set_title, Polls, Idle, TrayTypeOK
  <1>8. CASE RefreshAssets \/ RefreshEnds \/ TrayNightlyEnds
    BY <1>8, <1>a DEF RefreshAssets, RefreshEnds, TrayNightlyEnds, TrayTypeOK
  <1>9. CASE SecondPasses
    <2>1. second \in 0 .. LastSecond /\ second' = second + 1 /\ second' \in 0 .. LastSecond
      BY <1>9, SwitchesAssumption DEF SecondPasses, TrayTypeOK
    <2>2. \A n \in 0 .. second : n \in 0 .. second'
      BY <2>1
    <2> QED
      BY <1>9, <2>1, <2>2 DEF SecondPasses, TrayTypeOK
  <1>10. ASSUME NEW u \in Household, PostNightly(u) PROVE TrayTypeOK'
    <2>1. second \in 0 .. second /\ Asked(u, second).user = u /\ Asked(u, second).second = second
      BY SwitchesAssumption DEF TrayTypeOK, Asked
    <2>2. /\ started' \subseteq started \cup {Asked(u, second)} /\ said' \subseteq said \cup {Asked(u, second)}
          /\ runningIds' \subseteq runningIds \cup {second}
      BY <1>10 DEF PostNightly, runId
    <2> QED
      BY <1>10, <2>1, <2>2 DEF PostNightly, TrayTypeOK
  <1>11. CASE UNCHANGED TrayVars
    BY <1>11 DEF TrayVars, TrayTypeOK
  <1> QED
    BY <1>1, <1>2, <1>3, <1>4, <1>5, <1>6, <1>7, <1>8, <1>9, <1>10, <1>11 DEF TrayNext

(* A user with a session signed in at some turn.                           *)
TurnsTell == \A u \in Members : sessionsOf[u] > 0 => serveTurns > 0

LEMMA ServeTypedFirst == ServeInit => ServeTypeOK /\ TurnsTell
  BY TurnsAssumption DEF ServeInit, ServeTypeOK, TurnsTell, NoApp

LEMMA ServeCrosses ==
  ASSUME ServeTypeOK, NEW u \in Members, Close(u)
  PROVE  crossed' \subseteq Opened
  <1>1. PICK open : open = [user |-> u, app |-> apps[u]]
    OBVIOUS
  <1>2. open \in working \/ (\E x \in incoming : x.user = u /\ x.app = open.app) => open \in Opened
    BY <1>1 DEF ServeTypeOK, Opened
  <1> QED
    BY <1>1, <1>2 DEF Close, ServeTypeOK

LEMMA ServeKeepsTypes ==
  ServeTypeOK /\ TurnsTell /\ [ServeNext]_ServeVars => ServeTypeOK' /\ TurnsTell'
  <1> SUFFICES ASSUME ServeTypeOK, TurnsTell, [ServeNext]_ServeVars PROVE ServeTypeOK' /\ TurnsTell'
    OBVIOUS
  <1>a. /\ MaxTurns \in Nat /\ serveTurns \in 0 .. MaxTurns
        /\ sessionsOf \in [Members -> 0 .. 2] /\ apps \in [Members -> 0 .. MaxTurns]
    BY TurnsAssumption DEF ServeTypeOK
  <1>b. ASSUME Turn PROVE serveTurns' \in 1 .. MaxTurns
    BY <1>a, <1>b DEF Turn
  <1>1. CASE UNCHANGED ServeVars
    BY <1>1 DEF ServeVars, ServeTypeOK, TurnsTell
  <1>2. ASSUME NEW u \in Members, login(u) PROVE ServeTypeOK' /\ TurnsTell'
    <2>1. sessionsOf[u] + 1 \in 0 .. 2 /\ serveTurns' \in 1 .. MaxTurns
      BY <1>2, <1>a, <1>b DEF login
    <2>2. sessionsOf' \in [Members -> 0 .. 2] /\ TurnsTell'
      BY <1>2, <1>a, <2>1 DEF login, TurnsTell
    <2>3. PICK app \in 1 .. MaxTurns :
            /\ apps' = [apps EXCEPT ![u] = app]
            /\ working' \subseteq working \cup {[user |-> u, app |-> app]}
      <3> DEFINE app == IF apps[u] = NoApp THEN serveTurns' ELSE apps[u]
      <3>1. app \in 1 .. MaxTurns
        BY <1>a, <2>1 DEF NoApp
      <3> QED
        BY <1>2, <3>1 DEF login, Resumes
    <2>4. apps' \in [Members -> 0 .. MaxTurns] /\ working' \subseteq Opened
      BY <1>a, <2>3 DEF Opened, ServeTypeOK
    <2> QED
      BY <1>2, <2>1, <2>2, <2>4 DEF login, Doors, ServeTypeOK
  <1>3. ASSUME NEW u \in Members, logout(u) PROVE ServeTypeOK' /\ TurnsTell'
    <2>1. sessionsOf[u] - 1 \in 0 .. 2 /\ serveTurns' \in 1 .. MaxTurns
      BY <1>3, <1>a, <1>b DEF logout
    <2>2. sessionsOf' \in [Members -> 0 .. 2] /\ TurnsTell'
      BY <1>3, <1>a, <2>1 DEF logout, TurnsTell
    <2>3. apps' \in [Members -> 0 .. MaxTurns]
      BY <1>3, <1>a DEF logout, NoApp
    <2>4. mounted' \subseteq Members /\ crossed' \subseteq Opened
      BY <1>3, ServeCrosses DEF logout, ServeTypeOK
    <2> QED
      BY <1>3, <2>1, <2>2, <2>3, <2>4 DEF logout, Doors, ServeTypeOK
  <1>4. ASSUME NEW u \in Members, changePassword(u) PROVE ServeTypeOK' /\ TurnsTell'
    <2>1. serveTurns' \in 1 .. MaxTurns
      BY <1>4, <1>b DEF changePassword
    <2>2. sessionsOf' \in [Members -> 0 .. 2] /\ TurnsTell'
      BY <1>4, <1>a, <2>1 DEF changePassword, TurnsTell
    <2>3. apps' \in [Members -> 0 .. MaxTurns]
      BY <1>4, <1>a, <2>1 DEF changePassword, NoApp
    <2>4. mounted' \subseteq Members /\ crossed' \subseteq Opened /\ working' \subseteq Opened
      BY <1>4, <2>1, ServeCrosses DEF changePassword, Resumes, ServeTypeOK, Opened
    <2> QED
      BY <1>4, <2>1, <2>2, <2>3, <2>4 DEF changePassword, Doors, ServeTypeOK
  <1>5. ASSUME NEW u \in Members, NEW kind \in {"ledger", "file", "run"}, Arrive(u, kind)
        PROVE  ServeTypeOK' /\ TurnsTell'
    <2>1. PICK app \in 1 .. MaxTurns :
            /\ apps' = [apps EXCEPT ![u] = app]
            /\ incoming' = incoming \cup {[user |-> u, app |-> app, kind |-> kind]}
      <3> DEFINE app == IF apps[u] = NoApp THEN serveTurns ELSE apps[u]
      <3>1. serveTurns > 0
        BY <1>5 DEF Arrive, TurnsTell
      <3>2. app \in 1 .. MaxTurns
        BY <1>a, <3>1 DEF NoApp
      <3> QED
        BY <1>5, <3>2 DEF Arrive
    <2>2. apps' \in [Members -> 0 .. MaxTurns]
      BY <1>a, <2>1
    <2> QED
      BY <1>5, <2>1, <2>2 DEF Arrive, Doors, ServeTypeOK, TurnsTell
  <1>6. ASSUME NEW x \in incoming, Handle(x) PROVE ServeTypeOK' /\ TurnsTell'
    BY <1>6 DEF Handle, Written, Opened, Doors, ServeTypeOK, TurnsTell
  <1>10. ASSUME NEW w \in working, Work(w) PROVE ServeTypeOK' /\ TurnsTell'
    BY <1>10 DEF Work, Written, Opened, Doors, ServeTypeOK, TurnsTell
  <1>7. ASSUME NEW on \in BOOLEAN, setLanMode(on) PROVE ServeTypeOK' /\ TurnsTell'
    <2>1. serveTurns' \in 1 .. MaxTurns
      BY <1>7, <1>b DEF setLanMode
    <2>2. rebinds' = rebinds \cup {[n |-> serveTurns', at |-> "timer"]}
      BY <1>7 DEF setLanMode, Rebinds
    <2>3. TurnsTell'
      BY <1>7, <2>1 DEF setLanMode, TurnsTell
    <2> QED
      BY <1>7, <2>1, <2>2, <2>3 DEF setLanMode, ServeTypeOK
  <1>8. ASSUME NEW r \in rebinds, RebindStops(r) PROVE ServeTypeOK' /\ TurnsTell'
    <2>1. [r EXCEPT !.at = "starting"].n = r.n /\ [r EXCEPT !.at = "starting"].at \in {"timer", "starting"}
      OBVIOUS
    <2> QED
      BY <1>8, <2>1 DEF RebindStops, Served, ServeTypeOK, TurnsTell
  <1>9. ASSUME NEW r \in rebinds, RebindStarts(r) PROVE ServeTypeOK' /\ TurnsTell'
    BY <1>9 DEF RebindStarts, Served, ServeTypeOK, TurnsTell
  <1> QED
    BY <1>1, <1>2, <1>3, <1>4, <1>5, <1>6, <1>7, <1>8, <1>9, <1>10 DEF ServeNext

(* A form that shows a save under way has one; requests and refusals are   *)
(* counted.                                                                *)
FormBounds ==
  /\ form \in FormKinds /\ waived \subseteq Edits
  /\ made \in 0 .. MaxRequests /\ refusals \in 0 .. MaxRefusals
  /\ saving => \E r \in requests : r.kind = "save"

LEMMA FormsAreTyped == FormsInv /\ FormBounds => FormsTypeOK
  <1> SUFFICES ASSUME FormsInv, FormBounds PROVE FormsTypeOK
    OBVIOUS
  <1>1. saving = (\E r \in requests : r.kind = "save")
    BY DEF FormsInv, FormsTyped, OneSave, FormBounds
  <1>2. \A r \in requests : r \in Requests
    BY DEF FormsInv, FormsTyped
  <1> QED
    BY <1>1, <1>2 DEF FormsInv, FormsTyped, Requests, FormBounds, FormsTypeOK

LEMMA FormBoundsFirst == FormsInit => FormBounds
  BY RequestsAssumption DEF FormsInit, FormBounds

LEMMA FormBoundsStep == FormsInv /\ FormBounds /\ [FormsNext]_FormsVars => FormBounds'
  <1> SUFFICES ASSUME FormsInv, FormBounds, [FormsNext]_FormsVars PROVE FormBounds'
    OBVIOUS
  <1>a. MaxRequests \in Nat /\ MaxRefusals \in Nat /\ made \in 0 .. MaxRequests /\ refusals \in 0 .. MaxRefusals
    BY RequestsAssumption DEF FormBounds
  <1>b. ASSUME NEW kind, NEW sent, Ask(kind, sent)
        PROVE  /\ made' \in 0 .. MaxRequests /\ requests \subseteq requests'
               /\ \E r \in requests' : r.kind = kind
    <2>1. made < MaxRequests /\ made' = made + 1
      BY <1>b DEF Ask
    <2>2. made' \in 0 .. MaxRequests
      BY <1>a, <2>1
    <2>3. requests' = requests \cup {[n |-> made + 1, kind |-> kind, sent |-> sent, got |-> {}, answer |-> "none"]}
      BY <1>b DEF Ask
    <2> DEFINE q == [n |-> made + 1, kind |-> kind, sent |-> sent, got |-> {}, answer |-> "none"]
    <2>4. q.kind = kind /\ requests' = requests \cup {q}
      BY <2>3
    <2> HIDE DEF q
    <2> QED
      BY <2>2, <2>4
  <1>1. CASE UNCHANGED FormsVars
    BY <1>1 DEF FormsVars, FormBounds
  <1>2. ASSUME NEW e \in Edits, setD(e) PROVE FormBounds'
    BY <1>2 DEF setD, FormBounds
  <1>3. CASE tick
    BY <1>3, <1>b DEF tick, FormBounds
  <1>4. CASE ResetForm
    BY <1>4, <1>b DEF ResetForm, FormBounds, FormsInv, FormsTyped
  <1>5. CASE Cancel \/ Edit
    BY <1>5 DEF Cancel, Edit, FormBounds
  <1>6. CASE save
    BY <1>6, <1>b DEF save, FormBounds
  <1>7. CASE extract
    BY <1>7, <1>b DEF extract, FormBounds
  <1>8. ASSUME NEW r \in requests, ServeForm(r) PROVE FormBounds'
    <2>1. refusals' \in 0 .. MaxRefusals
      <3>1. refusals' = refusals \/ (refusals < MaxRefusals /\ refusals' = refusals + 1)
        BY <1>8 DEF ServeForm
      <3> QED
        BY <1>a, <3>1
    <2>2. r \in Requests
      BY DEF FormsInv, FormsTyped
    <2>3. PICK q : q.kind = r.kind /\ requests' = (requests \ {r}) \cup {q}
      BY <1>8, <2>2 DEF ServeForm, Requests
    <2>4. saving => \E x \in requests' : x.kind = "save"
      BY <2>3 DEF FormBounds
    <2> QED
      BY <1>8, <2>1, <2>4 DEF ServeForm, FormBounds
  <1>9. ASSUME NEW r \in requests, LoadLands(r) PROVE FormBounds'
    BY <1>9 DEF LoadLands, FormBounds
  <1>10. ASSUME NEW r \in requests, SaveLands(r) PROVE FormBounds'
    BY <1>10 DEF SaveLands, FormBounds
  <1>11. ASSUME NEW r \in requests, ExtractLands(r) PROVE FormBounds'
    BY <1>11 DEF ExtractLands, FormBounds
  <1> QED
    BY <1>1, <1>2, <1>3, <1>4, <1>5, <1>6, <1>7, <1>8, <1>9, <1>10, <1>11 DEF FormsNext

(* No timer is set for longer than a leg.                                  *)
TimerBounds == clock <= Horizon /\ jumps <= MaxJumps /\ \A t \in Timers : leg[t].left <= Clamp

LEMMA TimersAreTyped == EarlyInv /\ TimerBounds => TimersTypeOK
  <1> SUFFICES ASSUME EarlyInv, TimerBounds PROVE TimersTypeOK
    OBVIOUS
  <1>1. clock \in 0 .. Horizon /\ jumps \in 0 .. MaxJumps
    BY TimesAssumption DEF EarlyInv, TimersTyped, TimerBounds
  <1>2. ASSUME NEW t \in Timers PROVE leg[t].kind \in Legs /\ leg[t].left \in 0 .. Clamp
    <2>1. leg[t].kind \in Legs /\ leg[t].left \in Nat /\ leg[t].left <= Clamp
      BY DEF EarlyInv, TimersTyped, TimerBounds
    <2> QED
      BY <2>1, ChunkAssumption
  <1> QED
    BY <1>1, <1>2 DEF EarlyInv, TimersTyped, TimersTypeOK

LEMMA TimerBoundsFirst == TimersInit => TimerBounds
  BY ChunkAssumption, TimesAssumption DEF TimersInit, TimerBounds, NoLeg

LEMMA TimerBoundsStep == EarlyInv /\ TimerBounds /\ [TimersNext]_TimersVars => TimerBounds'
  <1> SUFFICES ASSUME EarlyInv, TimerBounds, [TimersNext]_TimersVars PROVE TimerBounds'
    OBVIOUS
  <1>a. /\ leg \in [Timers -> [kind : Legs, left : Nat]] /\ clock \in Nat /\ jumps \in Nat
        /\ Clamp \in Nat /\ MaxJumps \in Nat /\ Horizon \in Nat
    BY ChunkAssumption, TimesAssumption DEF EarlyInv, TimersTyped
  <1>c. ASSUME NEW t \in Timers, arm(t), UNCHANGED <<clock, jumps>> PROVE TimerBounds'
    <2>1. NextLeg(t).left <= Clamp
      <3>1. remaining(t) \in Int /\ Slot - clock \in Int /\ CHUNK_MS \in Int
        BY ChunkAssumption DEF EarlyInv, TimersTyped, remaining, Slot, Later
      <3>2. ASSUME NEW delay \in Int PROVE setTimeout(delay) <= Clamp
        BY <1>a DEF setTimeout
      <3> QED
        BY <3>1, <3>2 DEF NextLeg
    <2>2. leg' = [leg EXCEPT ![t] = NextLeg(t)]
      BY <1>c DEF arm
    <2> QED
      BY <1>a, <1>c, <2>1, <2>2 DEF TimerBounds
  <1>d. ASSUME Jump PROVE jumps' <= MaxJumps
    BY <1>a, <1>d DEF Jump
  <1>e. \A kind : NoLeg(kind).left <= Clamp
    BY <1>a DEF NoLeg
  <1>1. CASE UNCHANGED TimersVars
    BY <1>1 DEF TimersVars, TimerBounds
  <1>2. ASSUME NEW t \in Timers, scheduleIn(t) \/ ChunkWakes(t) PROVE TimerBounds'
    BY <1>2, <1>c DEF scheduleIn, ChunkWakes
  <1>3. ASSUME NEW t \in Timers, Fires(t) \/ CancelTimer(t) PROVE TimerBounds'
    BY <1>a, <1>e, <1>3 DEF Fires, CancelTimer, TimerBounds
  <1>4. CASE Tick
    <2>1. clock' <= Horizon
      BY <1>a, <1>4 DEF Tick
    <2>2. ASSUME NEW t \in Timers PROVE leg'[t].left <= Clamp
      <3>1. leg[t] \in [kind : Legs, left : Nat] /\ leg[t].left <= Clamp
        BY <1>a DEF TimerBounds
      <3>2. leg'[t] = IF t \in Armed THEN [leg[t] EXCEPT !.left = @ - 1] ELSE leg[t]
        BY <1>4 DEF Tick
      <3>3. leg'[t].left = leg[t].left \/ leg'[t].left = leg[t].left - 1
        BY <3>1, <3>2
      <3> QED
        BY <1>a, <3>1, <3>3
    <2> QED
      BY <1>4, <2>1, <2>2 DEF Tick, TimerBounds
  <1>5. CASE Sleep
    BY <1>5, <1>d DEF Sleep, TimerBounds
  <1>6. CASE SetBack
    BY <1>a, <1>6, <1>d DEF SetBack, TimerBounds
  <1>7. CASE Restart
    BY <1>7, <1>d, <1>e DEF Restart, TimerBounds
  <1> QED
    BY <1>1, <1>2, <1>3, <1>4, <1>5, <1>6, <1>7 DEF TimersNext

(* No subscriber's buffer passes its limit.                                *)
SubBounds ==
  /\ logged <= MaxEvents
  /\ \A u \in Subscribers : Len(sub[u].buffer) <= bufferLimit /\ first[u] <= MaxEvents + 1

LEMMA SubsAreTyped == SubsInv /\ SubBounds => SubscriptionsTypeOK
  <1> SUFFICES ASSUME SubsInv, SubBounds PROVE SubscriptionsTypeOK
    OBVIOUS
  <1>1. logged \in 0 .. MaxEvents
    BY EventsAssumption DEF SubsInv, SubsTyped, SubBounds
  <1>2. ASSUME NEW u \in Subscribers
        PROVE  /\ Len(sub[u].buffer) <= bufferLimit
               /\ told[u] \in {"nothing", "threw", "aborted"} /\ first[u] \in 0 .. MaxEvents + 1
               /\ sub[u].waiter => sub[u].buffer = <<>> /\ ~sub[u].closed
    <2>1. first[u] \in Nat /\ first[u] <= MaxEvents + 1
      BY DEF SubsInv, SubsTyped, SubBounds
    <2>2. first[u] \in 0 .. MaxEvents + 1
      BY <2>1, EventsAssumption
    <2> QED
      BY <2>2 DEF SubsInv, SubsTyped, SubBounds, InOrder
  <1> QED
    BY <1>1, <1>2 DEF SubscriptionsTypeOK

LEMMA SubBoundsFirst == SubscriptionsInit => SubBounds
  <1> SUFFICES ASSUME SubscriptionsInit PROVE SubBounds
    OBVIOUS
  <1>1. Len(<<>>) <= bufferLimit
    BY LimitAssumption
  <1> QED
    BY <1>1, EventsAssumption DEF SubscriptionsInit, SubBounds, NoSub

LEMMA SubBoundsStep == SubsInv /\ SubBounds /\ [SubscriptionsNext]_SubscriptionsVars => SubBounds'
  <1> SUFFICES ASSUME SubsInv, SubBounds, [SubscriptionsNext]_SubscriptionsVars PROVE SubBounds'
    OBVIOUS
  <1>a. /\ logged \in Nat /\ sub \in [Subscribers -> SubRecords] /\ first \in [Subscribers -> Nat]
        /\ bufferLimit \in Nat /\ MaxEvents \in Nat
    BY LimitAssumption, EventsAssumption DEF SubsInv, SubsTyped
  <1>1. CASE UNCHANGED SubscriptionsVars
    BY <1>1 DEF SubscriptionsVars, SubBounds
  <1>2. CASE notify
    <2>1. logged' <= MaxEvents
      BY <1>a, <1>2 DEF notify
    <2>2. ASSUME NEW u \in Subscribers PROVE Len(sub'[u].buffer) <= bufferLimit
      <3>1. sub[u] \in SubRecords /\ Len(sub[u].buffer) <= bufferLimit
        BY <1>a DEF SubBounds
      <3>2. sub'[u] = IF sub[u].listed THEN Notified(sub[u], logged') ELSE sub[u]
        BY <1>2 DEF notify
      <3>3. \/ sub'[u].buffer = sub[u].buffer
            \/ ~Full(sub[u]) /\ sub'[u].buffer = Append(sub[u].buffer, logged')
        BY <3>1, <3>2 DEF Notified, Overrun, SubRecords
      <3>4. sub[u].buffer \in Seq(Nat)
        BY <3>1 DEF SubRecords
      <3> QED
        BY <1>a, <3>1, <3>3, <3>4 DEF Full
    <2> QED
      BY <1>2, <2>1, <2>2 DEF notify, SubBounds
  <1>3. ASSUME NEW u \in Subscribers, NEW n \in 1 .. MaxEvents + 1, subscribe(u, n) PROVE SubBounds'
    <2> DEFINE events == [i \in 1 .. logged + 1 - n |-> n + i - 1]
    <2>1. n <= logged + 1 /\ n \in Nat /\ n <= MaxEvents + 1
      BY <1>a, <1>3 DEF subscribe
    <2>2. events \in Seq(Nat)
      BY <1>a, <2>1
    <2>3. Len(Replayed(events).buffer) <= bufferLimit
      <3>1. CASE Len(events) > bufferLimit
        <4>1. Replayed(events).buffer = SubSeq(events, 1, bufferLimit)
          BY <3>1 DEF Replayed, NoSub
        <4> HIDE DEF events
        <4>2. Len(SubSeq(events, 1, bufferLimit)) = bufferLimit
          BY <1>a, <2>2, <3>1
        <4> QED
          BY <1>a, <4>1, <4>2
      <3>2. CASE ~(Len(events) > bufferLimit)
        <4>1. Replayed(events).buffer = events
          BY <3>2 DEF Replayed, NoSub
        <4> HIDE DEF events
        <4> QED
          BY <1>a, <2>2, <3>2, <4>1
      <3> QED
        BY <3>1, <3>2
    <2>4. sub' = [sub EXCEPT ![u] = Replayed(events)] /\ first' = [first EXCEPT ![u] = n] /\ logged' = logged
      BY <1>3 DEF subscribe
    <2> HIDE DEF events
    <2> QED
      BY <1>a, <2>1, <2>3, <2>4 DEF SubBounds
  <1>4. ASSUME NEW u \in Subscribers, next(u) PROVE SubBounds'
    <2>1. sub[u] \in SubRecords /\ Len(sub[u].buffer) <= bufferLimit
      BY <1>a DEF SubBounds
    <2>2. PICK x : /\ sub' = [sub EXCEPT ![u] = x]
                   /\ \/ x.buffer = sub[u].buffer
                      \/ sub[u].buffer # <<>> /\ x.buffer = Tail(sub[u].buffer)
      <3>1. CASE sub[u].error
        <4>1. sub' = [sub EXCEPT ![u] = closeNow(sub[u])]
          BY <1>4, <3>1 DEF next
        <4>2. closeNow(sub[u]).buffer = sub[u].buffer
          BY <2>1 DEF closeNow, SubRecords
        <4> QED
          BY <4>1, <4>2
      <3>2. CASE ~sub[u].error /\ sub[u].buffer # <<>>
        <4>1. sub' = [sub EXCEPT ![u] = [sub[u] EXCEPT !.buffer = Tail(sub[u].buffer)]]
          BY <1>a, <1>4, <3>2 DEF next
        <4>2. [sub[u] EXCEPT !.buffer = Tail(sub[u].buffer)].buffer = Tail(sub[u].buffer)
          BY <2>1 DEF SubRecords
        <4> QED
          BY <3>2, <4>1, <4>2
      <3>3. CASE ~sub[u].error /\ sub[u].buffer = <<>>
        <4>1. sub' = [sub EXCEPT ![u] = [sub[u] EXCEPT !.waiter = TRUE]]
          BY <1>a, <1>4, <3>3 DEF next
        <4>2. [sub[u] EXCEPT !.waiter = TRUE].buffer = sub[u].buffer
          BY <2>1 DEF SubRecords
        <4> QED
          BY <4>1, <4>2
      <3> QED
        BY <3>1, <3>2, <3>3
    <2>3. Len(x.buffer) <= bufferLimit
      <3>1. sub[u].buffer \in Seq(Nat)
        BY <2>1 DEF SubRecords
      <3>2. Len(x.buffer) <= Len(sub[u].buffer) /\ Len(x.buffer) \in Nat /\ Len(sub[u].buffer) \in Nat
        <4> DEFINE b == sub[u].buffer
        <4>1. b \in Seq(Nat) /\ (x.buffer = b \/ (b # <<>> /\ x.buffer = Tail(b)))
          BY <2>2, <3>1
        <4> HIDE DEF b
        <4>2. ASSUME x.buffer = b PROVE Len(x.buffer) <= Len(b) /\ Len(x.buffer) \in Nat /\ Len(b) \in Nat
          BY <4>1, <4>2
        <4>3. ASSUME b # <<>>, x.buffer = Tail(b) PROVE Len(x.buffer) <= Len(b) /\ Len(x.buffer) \in Nat /\ Len(b) \in Nat
          BY <4>1, <4>3
        <4>4. Len(x.buffer) <= Len(b) /\ Len(x.buffer) \in Nat /\ Len(b) \in Nat
          BY <4>1, <4>2, <4>3
        <4> QED
          BY <4>4 DEF b
      <3> QED
        BY <1>a, <2>1, <3>2
    <2>4. UNCHANGED <<logged, first>>
      BY <1>4 DEF next
    <2> QED
      BY <1>a, <2>2, <2>3, <2>4 DEF SubBounds
  <1>5. ASSUME NEW u \in Subscribers, abort(u) PROVE SubBounds'
    <2>1. closeNow(sub[u]).buffer = sub[u].buffer
      BY <1>a DEF closeNow, SubRecords
    <2>2. sub' = [sub EXCEPT ![u] = closeNow(sub[u])] /\ UNCHANGED <<logged, first>>
      BY <1>5 DEF abort
    <2> QED
      BY <1>a, <2>1, <2>2 DEF SubBounds
  <1> QED
    BY <1>1, <1>2, <1>3, <1>4, <1>5 DEF SubscriptionsNext

(* A run parks a bounded number of times.                                  *)
ChatBounds ==
  /\ collector \in BOOLEAN /\ resuming \subseteq Runs /\ raced \subseteq Agents
  /\ \A r \in Runs : run[r].channel <= MaxParks

LEMMA ChatIsTyped == EngineInv /\ ChatBounds => ChatTypeOK
  <1> SUFFICES ASSUME EngineInv, ChatBounds PROVE ChatTypeOK
    OBVIOUS
  <1>1. ASSUME NEW r \in Runs
        PROVE  /\ run[r].phase \in {"none", "turn", "recorded", "parked", "ended"}
               /\ run[r].log \in {"none", "running", "parked", "ended"}
               /\ run[r].message \in Messages \cup {Nobody} /\ run[r].channel \in 0 .. MaxParks
    <2>1. run[r] \in RunRecords /\ run[r].channel <= MaxParks
      BY DEF EngineInv, ChatTyped, ChatBounds
    <2>2. run[r].channel \in Nat
      BY <2>1 DEF RunRecords
    <2> QED
      BY <2>1, <2>2, ParksAssumption DEF RunRecords
  <1>2. \A m \in Messages : sending[m] \in SendRecords
    BY DEF EngineInv, ChatTyped
  <1> QED
    BY <1>1, <1>2 DEF SendRecords, ChatBounds, ChatTypeOK

LEMMA ChatBoundsFirst == ChatInit => ChatBounds
  <1> SUFFICES ASSUME ChatInit PROVE ChatBounds
    OBVIOUS
  <1>1. \A r \in Runs : run[r].channel = 0
    BY DEF ChatInit, NoRun
  <1>2. collector \in BOOLEAN /\ resuming = {} /\ raced = {}
    BY DEF ChatInit
  <1> QED
    BY <1>1, <1>2, ParksAssumption DEF ChatBounds

LEMMA ChatBoundsStep == EngineInv /\ ChatBounds /\ [ChatNext]_ChatVars => ChatBounds'
  <1> SUFFICES ASSUME EngineInv, ChatBounds, [ChatNext]_ChatVars PROVE ChatBounds'
    OBVIOUS
  <1>a. run \in [Runs -> RunRecords] /\ \A r \in Runs : run[r].channel \in Nat /\ run[r].channel <= MaxParks
    BY DEF EngineInv, ChatTyped, RunRecords, ChatBounds
  <1>b. ASSUME run' = run \/ \E r \in Runs : \E x : run' = [run EXCEPT ![r] = x] /\ x.channel \in {0, run[r].channel}
        PROVE  \A r \in Runs : run'[r].channel <= MaxParks
    BY <1>a, <1>b, ParksAssumption
  <1>1. CASE UNCHANGED ChatVars
    BY <1>1 DEF ChatVars, ChatBounds
  <1>2. ASSUME NEW m \in Messages,
               \/ sendChat(m) \/ activeChatRun(m) \/ Join(m) \/ Deliver(m) \/ waitForTurn(m) \/ TimesOut(m)
        PROVE  ChatBounds'
    <2>1. UNCHANGED <<run, collector, resuming>>
      BY <1>2 DEF sendChat, activeChatRun, Join, Deliver, waitForTurn, TimesOut
    <2>2. raced' \subseteq raced \cup {AgentOf[m]}
      BY <1>2 DEF sendChat, activeChatRun, Join, Deliver, waitForTurn, TimesOut
    <2> QED
      BY <2>1, <2>2 DEF ChatBounds, Agents
  <1>3. ASSUME NEW m \in Messages, Retire(m) PROVE ChatBounds'
    <2> DEFINE r == sending[m].run
    <2>1. r \in Runs
      BY <1>3 DEF Retire, EngineInv, ChatTyped, SendRecords
    <2>2. run' = run \/ run' = [run EXCEPT ![r] = [run[r] EXCEPT !.phase = "ended", !.log = "ended", !.driven = FALSE]]
      BY <1>3, <1>a, <2>1 DEF Retire, RunRecords
    <2>3. [run[r] EXCEPT !.phase = "ended", !.log = "ended", !.driven = FALSE].channel = run[r].channel
      BY <1>a, <2>1 DEF RunRecords
    <2>4. \A x \in Runs : run'[x].channel <= MaxParks
      BY <1>b, <2>1, <2>2, <2>3
    <2> QED
      BY <1>3, <2>4 DEF Retire, ChatBounds
  <1>4. ASSUME NEW m \in Messages, Start(m) PROVE ChatBounds'
    <2>1. PICK r \in Runs :
            run' = [run EXCEPT ![r] = [NoRun EXCEPT !.phase = "turn", !.agent = AgentOf[m],
                                         !.message = m, !.engine = engine, !.driven = TRUE]]
      BY <1>4 DEF Start
    <2>2. [NoRun EXCEPT !.phase = "turn", !.agent = AgentOf[m],
                        !.message = m, !.engine = engine, !.driven = TRUE].channel = 0
      BY DEF NoRun
    <2>3. \A x \in Runs : run'[x].channel <= MaxParks
      BY <1>b, <2>1, <2>2
    <2> QED
      BY <1>4, <2>3 DEF Start, ChatBounds
  <1>5. ASSUME NEW r \in Runs, Consume(r) \/ FlushChat(r) \/ ToolCall(r) \/ TurnEnds(r) \/ TurnFails(r) \/ ResumeChat(r)
        PROVE  ChatBounds'
    <2>1. run[r] \in RunRecords
      BY <1>a
    <2>2. \/ run' = run
          \/ \E x : run' = [run EXCEPT ![r] = x] /\ x.channel = run[r].channel
      <3>1. CASE Consume(r)
        <4>1. PICK m \in Messages : run' = [run EXCEPT ![r] = [run[r] EXCEPT !.phase = "turn", !.message = m]]
          BY <1>5, <1>a, <3>1 DEF Consume, RunRecords, EngineInv, ChatTyped
        <4>2. [run[r] EXCEPT !.phase = "turn", !.message = m].channel = run[r].channel
          BY <2>1 DEF RunRecords
        <4> QED
          BY <4>1, <4>2
      <3>2. CASE FlushChat(r)
        <4>1. run' = [run EXCEPT ![r] = [run[r] EXCEPT !.log = "running"]]
          BY <1>a, <3>2 DEF FlushChat
        <4>2. [run[r] EXCEPT !.log = "running"].channel = run[r].channel
          BY <2>1 DEF RunRecords
        <4> QED
          BY <4>1, <4>2
      <3>3. CASE TurnEnds(r)
        <4>1. run' = [run EXCEPT ![r] = [run[r] EXCEPT !.phase = "recorded"]]
          BY <1>a, <3>3 DEF TurnEnds
        <4>2. [run[r] EXCEPT !.phase = "recorded"].channel = run[r].channel
          BY <2>1 DEF RunRecords
        <4> QED
          BY <4>1, <4>2
      <3>4. CASE TurnFails(r)
        <4>1. run' = [run EXCEPT ![r] = [run[r] EXCEPT !.phase = "ended", !.log = "ended", !.driven = FALSE]]
          BY <1>a, <3>4 DEF TurnFails
        <4>2. [run[r] EXCEPT !.phase = "ended", !.log = "ended", !.driven = FALSE].channel = run[r].channel
          BY <2>1 DEF RunRecords
        <4> QED
          BY <4>1, <4>2
      <3>5. CASE ResumeChat(r)
        <4>1. \/ run' = [run EXCEPT ![r] = [run[r] EXCEPT !.phase = "parked", !.message = Nobody,
                                                       !.engine = engine, !.driven = TRUE]]
              \/ run' = [run EXCEPT ![r] = [run[r] EXCEPT !.phase = "ended", !.log = "ended"]]
          BY <1>a, <3>5 DEF ResumeChat
        <4>2. /\ [run[r] EXCEPT !.phase = "parked", !.message = Nobody, !.engine = engine, !.driven = TRUE].channel
                  = run[r].channel
              /\ [run[r] EXCEPT !.phase = "ended", !.log = "ended"].channel = run[r].channel
          BY <2>1 DEF RunRecords
        <4> QED
          BY <4>1, <4>2
      <3>6. CASE ToolCall(r)
        BY <3>6 DEF ToolCall
      <3> QED
        BY <1>5, <3>1, <3>2, <3>3, <3>4, <3>5, <3>6
    <2>3. \A x \in Runs : run'[x].channel <= MaxParks
      BY <1>b, <2>2
    <2>4. collector' \in BOOLEAN /\ resuming' \subseteq resuming /\ raced' = raced
      BY <1>5 DEF Consume, FlushChat, ToolCall, TurnEnds, TurnFails, ResumeChat, ChatBounds
    <2> QED
      BY <2>3, <2>4 DEF ChatBounds
  <1>6. ASSUME NEW r \in Runs, Parks(r) PROVE ChatBounds'
    <2>1. run' = [run EXCEPT ![r] = [run[r] EXCEPT !.phase = "parked", !.channel = run[r].channel + 1, !.log = "parked", !.message = Nobody]]
      BY <1>6, <1>a DEF Parks, RunRecords
    <2>2. [run[r] EXCEPT !.phase = "parked", !.channel = run[r].channel + 1, !.log = "parked", !.message = Nobody].channel = run[r].channel + 1
      BY <1>a DEF RunRecords
    <2>3. run[r].channel + 1 <= MaxParks
      BY <1>6, <1>a, ParksAssumption DEF Parks
    <2>4. \A x \in Runs : run'[x].channel <= MaxParks
      BY <1>a, <2>1, <2>2, <2>3
    <2> QED
      BY <1>6, <2>4 DEF Parks, ChatBounds
  <1>7. CASE SwitchEngine
    BY <1>7 DEF SwitchEngine, ChatBounds
  <1>8. CASE CrashChat
    <2>1. ASSUME NEW r \in Runs PROVE run'[r].channel <= MaxParks
      <3>1. \/ run'[r] = [NoRun EXCEPT !.phase = "ended"]
            \/ run'[r] = [run[r] EXCEPT !.driven = FALSE, !.engine = Nobody]
        BY <1>8 DEF CrashChat
      <3>2. run'[r].channel \in {0, run[r].channel}
        BY <1>a, <3>1 DEF NoRun, RunRecords
      <3> QED
        BY <1>a, <3>2, ParksAssumption
    <2> QED
      BY <1>8, <2>1 DEF CrashChat, ChatBounds
  <1> QED
    BY <1>1, <1>2, <1>3, <1>4, <1>5, <1>6, <1>7, <1>8 DEF ChatNext

(* No day is further than the clock's last.                                *)
DaysBounded ==
  /\ today <= LastDay /\ state \in Wakes /\ lastWake \in Wakes
  /\ \A n \in Nightlies : nightly[n].prev \in Wakes /\ nightly[n].day <= LastDay

AutoBounds ==
  /\ optedIn \in BOOLEAN /\ wakes \subseteq Proposals /\ standing \subseteq Proposals
  /\ deaths \in 0 .. MaxDeaths /\ DaysBounded

LEMMA AutoIsTyped == AutoInv /\ AutoBounds => AutoTypeOK
  <1> SUFFICES ASSUME AutoInv, AutoBounds PROVE AutoTypeOK
    OBVIOUS
  <1>1. today \in 1 .. LastDay
    BY DaysAssumption DEF AutoInv, AutoTyped, AutoBounds, DaysBounded
  <1>2. \A n \in Nightlies : nightly[n].at \in {"off", "running", "reading", "over"}
    BY DEF AutoInv, AutoTyped
  <1> QED
    BY <1>1, <1>2 DEF AutoInv, AutoTyped, AutoBounds, DaysBounded, AutoTypeOK

LEMMA NeverIsAWake == Never \in Wakes
  BY DaysAssumption DEF Never, Wakes

LEMMA AutoBoundsFirst == AutoInit => AutoBounds
  <1> SUFFICES ASSUME AutoInit PROVE AutoBounds
    OBVIOUS
  <1>1. \A n \in Nightlies : nightly[n].prev = Never /\ nightly[n].day = 0
    BY DEF AutoInit, NotYet
  <1>2. DaysBounded
    BY <1>1, NeverIsAWake, DaysAssumption DEF AutoInit, DaysBounded
  <1>3. deaths \in 0 .. MaxDeaths
    BY DaysAssumption DEF AutoInit
  <1>4. optedIn \in BOOLEAN /\ wakes = {} /\ standing = {}
    BY DEF AutoInit
  <1> QED
    BY <1>2, <1>3, <1>4 DEF AutoBounds

LEMMA AutoBoundsStep == AutoInv /\ AutoBounds /\ [AutoNext]_AutoVars => AutoBounds'
  <1> SUFFICES ASSUME AutoInv, AutoBounds, [AutoNext]_AutoVars PROVE AutoBounds'
    OBVIOUS
  <1>a. /\ LastDay \in Nat /\ MaxDeaths \in Nat /\ today \in Nat /\ today <= LastDay
        /\ picture \in Pictures \cup {NoPicture}
        /\ nightly \in [Nightlies -> [at : {"off", "running", "reading", "over"}, prev : WakeRecords, day : Nat]]
        /\ DaysBounded
    BY DaysAssumption DEF AutoInv, AutoTyped, AutoBounds, DaysBounded
  <1>b. ASSUME NEW n \in Nightlies, NEW x, x.prev \in Wakes, x.day <= LastDay, nightly' = [nightly EXCEPT ![n] = x]
        PROVE  \A m \in Nightlies : nightly'[m].prev \in Wakes /\ nightly'[m].day <= LastDay
    BY <1>a, <1>b DEF DaysBounded
  <1>c. ASSUME NEW n \in Nightlies, NEW at, nightly' = [nightly EXCEPT ![n].at = at]
        PROVE  \A m \in Nightlies : nightly'[m].prev \in Wakes /\ nightly'[m].day <= LastDay
    <2>1. nightly' = [nightly EXCEPT ![n] = [nightly[n] EXCEPT !.at = at]]
      BY <1>a, <1>c
    <2>2. [nightly[n] EXCEPT !.at = at].prev = nightly[n].prev /\ [nightly[n] EXCEPT !.at = at].day = nightly[n].day
      BY <1>a
    <2> QED
      BY <1>a, <1>b, <2>1, <2>2 DEF DaysBounded
  <1>d. ASSUME NEW n \in Nightlies PROVE [day |-> nightly[n].day, picture |-> picture] \in Wakes
    <2>1. nightly[n].day \in Nat /\ nightly[n].day <= LastDay
      BY <1>a DEF DaysBounded
    <2>2. nightly[n].day \in 0 .. LastDay
      BY <1>a, <2>1
    <2> QED
      BY <1>a, <2>2 DEF Wakes
  <1>e. ASSUME NEW prev \in Wakes, NEW wake \in Wakes, Remember(prev, wake) PROVE state' \in Wakes
    BY <1>e, NeverIsAWake DEF Remember
  <1>f. ASSUME Die
        PROVE  /\ deaths' \in 0 .. MaxDeaths /\ standing' = {} /\ UNCHANGED World
               /\ \A m \in Nightlies : nightly'[m].prev \in Wakes /\ nightly'[m].day <= LastDay
    <2>1. deaths' \in 0 .. MaxDeaths
      BY <1>a, <1>f DEF Die, AutoBounds
    <2>2. ASSUME NEW m \in Nightlies PROVE nightly'[m].prev = nightly[m].prev /\ nightly'[m].day = nightly[m].day
      <3>1. nightly'[m] = nightly[m] \/ nightly'[m] = [nightly[m] EXCEPT !.at = "over"]
        BY <1>f DEF Die
      <3> QED
        BY <1>a, <3>1
    <2> QED
      BY <1>a, <1>f, <2>1, <2>2 DEF Die, DaysBounded
  <1>1. CASE UNCHANGED AutoVars
    BY <1>1 DEF AutoVars, AutoBounds, DaysBounded
  <1>2. CASE WorldMoves
    <2>1. today' <= LastDay
      BY <1>a, <1>2 DEF WorldMoves
    <2>2. optedIn' \in BOOLEAN
      BY <1>2 DEF WorldMoves, AutoBounds
    <2> QED
      BY <1>2, <2>1, <2>2 DEF WorldMoves, AutoBounds, DaysBounded
  <1>3. CASE CrashAuto
    BY <1>3, <1>f DEF CrashAuto, AutoBounds, DaysBounded, World
  <1>4. ASSUME NEW n \in Nightlies, runNightlyOnce(n) PROVE AutoBounds'
    BY <1>4, <1>c DEF runNightlyOnce, AutoBounds, DaysBounded, World
  <1>5. ASSUME NEW n \in Nightlies, NightlyEnds(n) PROVE AutoBounds'
    <2>1. \/ nightly' = [nightly EXCEPT ![n] = [at |-> "reading", prev |-> state, day |-> today]]
          \/ nightly' = [nightly EXCEPT ![n].at = "over"]
      BY <1>5 DEF NightlyEnds
    <2>2. \A m \in Nightlies : nightly'[m].prev \in Wakes /\ nightly'[m].day <= LastDay
      BY <1>a, <1>b, <1>c, <2>1 DEF DaysBounded
    <2>3. state' \in Wakes
      BY <1>5, <1>a DEF NightlyEnds, Remember, DaysBounded
    <2> QED
      BY <1>5, <2>2, <2>3 DEF NightlyEnds, AutoBounds, DaysBounded, World
  <1>6. ASSUME NEW n \in Nightlies, Decide(n) PROVE AutoBounds'
    <2> DEFINE wake == [day |-> nightly[n].day, picture |-> picture]
    <2>1. \A m \in Nightlies : nightly'[m].prev \in Wakes /\ nightly'[m].day <= LastDay
      BY <1>6, <1>c DEF Decide
    <2>2. nightly[n].prev \in Wakes /\ wake \in Wakes
      BY <1>a, <1>d DEF DaysBounded
    <2>3. \/ Remember(nightly[n].prev, Never) /\ UNCHANGED <<proposal, standing, wakes, lastWake>>
          \/ /\ Remember(nightly[n].prev, wake)
             /\ \E p \in Proposals : Drive(p) /\ wakes' = wakes \cup {p}
             /\ lastWake' = wake
      BY <1>6 DEF Decide
    <2> HIDE DEF wake
    <2>4. state' \in Wakes /\ lastWake' \in Wakes
      BY <1>a, <1>e, <2>2, <2>3, NeverIsAWake DEF DaysBounded
    <2>5. wakes' \subseteq Proposals /\ standing' \subseteq Proposals
      BY <2>3 DEF Drive, AutoBounds
    <2> QED
      BY <1>6, <2>1, <2>4, <2>5 DEF Decide, AutoBounds, DaysBounded, World
  <1>7. ASSUME NEW n \in Nightlies, DieWaking(n) PROVE AutoBounds'
    <2>1. lastWake' \in Wakes /\ Remember(nightly[n].prev, lastWake') /\ Die /\ UNCHANGED wakes
      BY <1>7, <1>d DEF DieWaking
    <2>2. nightly[n].prev \in Wakes
      BY <1>a DEF DaysBounded
    <2>3. state' \in Wakes
      BY <2>1, <2>2, NeverIsAWake DEF Remember
    <2> QED
      BY <1>f, <2>1, <2>3 DEF AutoBounds, DaysBounded, World
  <1>8. ASSUME NEW p \in Proposals, startProposalRun(p) \/ Advance(p) \/ ResumeProposal(p) PROVE AutoBounds'
    BY <1>8 DEF startProposalRun, Advance, ResumeProposal, Drive, AutoBounds, DaysBounded, World
  <1> QED
    BY <1>1, <1>2, <1>3, <1>4, <1>5, <1>6, <1>7, <1>8 DEF AutoNext

(* The store holds items only, and a call ends with the last piece.        *)
SecretBounds ==
  /\ platform \in Platforms /\ envSecrets \subseteq Targets
  /\ held \in [Targets -> [0 .. MaxPieces -> StoreItems]]
  /\ call.at <= MaxPieces + 1
  /\ readAs.value \in SecretValues \cup {NoValue, Torn, FromEnv}
  /\ callUpsets <= MaxCallUpsets

LEMMA StoreItemsAre ==
  /\ NoValue \in StoreItems
  /\ \A v \in SecretValues : BareOf(v) \in StoreItems /\ \A i \in 0 .. MaxPieces : PieceOf(v, i) \in StoreItems
  <1>1. ASSUME NEW v \in SecretValues, NEW i \in 0 .. MaxPieces PROVE PieceOf(v, i) \in StoreItems
    BY DEF PieceOf, StoreItems
  <1>2. ASSUME NEW v \in SecretValues PROVE BareOf(v) \in StoreItems
    <2>1. CASE Pieces[v] > 0
      <3>1. BareOf(v) = [pieces |-> Pieces[v]] /\ Pieces[v] \in 2 .. MaxPieces
        BY <2>1, Longest DEF BareOf
      <3>2. BareOf(v) \in [pieces : 2 .. MaxPieces]
        BY <3>1
      <3> QED
        BY <3>2 DEF StoreItems
    <2>2. CASE ~(Pieces[v] > 0)
      <3>1. BareOf(v) = PieceOf(v, 0) /\ 0 \in 0 .. MaxPieces
        BY <2>2, Longest DEF BareOf, PieceOf
      <3> QED
        BY <1>1, <3>1
    <2> QED
      BY <2>1, <2>2
  <1> QED
    BY <1>1, <1>2 DEF StoreItems

(* One item of a store is written.                                         *)
LEMMA ItemWritten ==
  ASSUME NEW store \in [Targets -> [0 .. MaxPieces -> StoreItems]], NEW t \in Targets,
         NEW i \in 0 .. MaxPieces, NEW item \in StoreItems
  PROVE  [store EXCEPT ![t][i] = item] \in [Targets -> [0 .. MaxPieces -> StoreItems]]
  <1>1. [store[t] EXCEPT ![i] = item] \in [0 .. MaxPieces -> StoreItems]
    OBVIOUS
  <1>2. [store EXCEPT ![t][i] = item] = [store EXCEPT ![t] = [store[t] EXCEPT ![i] = item]]
    OBVIOUS
  <1> QED
    BY <1>1, <1>2

LEMMA EntriesAreStored ==
  held \in [Targets -> [0 .. MaxPieces -> StoreItems]] =>
    Entries \in [Targets -> [0 .. MaxPieces -> StoreItems]]
  BY StoreItemsAre DEF Entries, NothingHeld

LEMMA DeletesKeepItems ==
  ASSUME held \in [Targets -> [0 .. MaxPieces -> StoreItems]], NEW t \in Targets, NEW rest, DeleteSecretOf(t, rest)
  PROVE  held' \in [Targets -> [0 .. MaxPieces -> StoreItems]]
  <1>1. \/ held' = [held EXCEPT ![t][0] = NoValue] \/ held' = held \/ held' = [Entries EXCEPT ![t][0] = NoValue]
    BY DEF DeleteSecretOf
  <1>2. 0 \in 0 .. MaxPieces
    BY Longest
  <1> QED
    <2>1. ASSUME NEW store \in [Targets -> [0 .. MaxPieces -> StoreItems]]
          PROVE  [store EXCEPT ![t][0] = NoValue] \in [Targets -> [0 .. MaxPieces -> StoreItems]]
      BY <1>2, ItemWritten, StoreItemsAre
    <2>2. /\ [held EXCEPT ![t][0] = NoValue] \in [Targets -> [0 .. MaxPieces -> StoreItems]]
          /\ [Entries EXCEPT ![t][0] = NoValue] \in [Targets -> [0 .. MaxPieces -> StoreItems]]
      BY <2>1, EntriesAreStored
    <2> QED
      BY <1>1, <2>2

(* Whatever is written, replaced, deleted or cut, a store holds items.     *)
LEMMA ItemsStayItems ==
  ASSUME SecretsInv, SecretBounds, [SecretsNext]_SecretsVars
  PROVE  held' \in [Targets -> [0 .. MaxPieces -> StoreItems]]
  <1>1. /\ held \in [Targets -> [0 .. MaxPieces -> StoreItems]] /\ MaxPieces \in Nat /\ 0 \in 0 .. MaxPieces
        /\ call.kind \in {"get", "set", "tail"} => call.target \in Targets
        /\ call.kind = "set" => call.value \in SecretValues
        /\ call.at \in Nat /\ call.sweep \subseteq Targets
    BY Longest, CallFields DEF SecretsInv, SecretsTyped, SecretBounds
  <1>2. CASE WritePiece
    <2>1. call.at \in 1 .. MaxPieces /\ call.kind = "set"
      BY <1>1, <1>2, Longest DEF WritePiece, SecretsInv, Writing
    <2>2. held' = [held EXCEPT ![call.target][call.at] = PieceOf(call.value, call.at)]
      BY <1>2 DEF WritePiece, PieceOf
    <2>3. PieceOf(call.value, call.at) \in StoreItems /\ call.at \in 0 .. MaxPieces
      BY <1>1, <2>1, StoreItemsAre
    <2> QED
      BY <1>1, <2>1, <2>2, <2>3, ItemWritten
  <1>3. CASE WriteBare
    <2>1. held' = [held EXCEPT ![call.target][0] = BareOf(call.value)] /\ call.kind = "set"
      BY <1>3 DEF WriteBare, BareOf
    <2> QED
      BY <1>1, <2>1, ItemWritten, StoreItemsAre
  <1>4. CASE WriteEntry
    <2>1. held' = [Entries EXCEPT ![call.target][0] = PieceOf(call.value, 0)] /\ call.kind = "set"
      BY <1>4 DEF WriteEntry, PieceOf
    <2> QED
      BY <1>1, <2>1, ItemWritten, EntriesAreStored, StoreItemsAre
  <1>5. CASE DeleteTail
    <2>1. CASE call.at > MaxPieces \/ held[call.target][call.at] = NoValue
      BY <1>1, <1>5, <2>1 DEF DeleteTail
    <2>2. CASE ~(call.at > MaxPieces \/ held[call.target][call.at] = NoValue)
      <3>1. held' = [held EXCEPT ![call.target][call.at] = NoValue] /\ call.kind = "tail"
        BY <1>5, <2>2 DEF DeleteTail
      <3>2. call.at \in 0 .. MaxPieces
        BY <1>1, <2>2
      <3> QED
        BY <1>1, <3>1, <3>2, ItemWritten, StoreItemsAre
    <2> QED
      BY <2>1, <2>2
  <1>6. ASSUME NEW t \in Targets, DeleteSecret(t) PROVE held' \in [Targets -> [0 .. MaxPieces -> StoreItems]]
    BY <1>1, <1>6, DeletesKeepItems DEF DeleteSecret
  <1>7. CASE SweepNextSecret
    BY <1>1, <1>7, DeletesKeepItems DEF SweepNextSecret
  <1>8. CASE held' = held
    BY <1>1, <1>8
  <1>9. CASE UNCHANGED SecretsVars
    BY <1>8, <1>9 DEF SecretsVars
  <1>10. ASSUME NEW t \in Targets, GetSecret(t) \/ \E v \in SecretValues : SetSecret(t, v) PROVE held' = held
    BY <1>10 DEF GetSecret, SetSecret
  <1>11. CASE ReadFails \/ ReadBare \/ ReadPiece \/ WriteFails \/ TailFails \/ SweepSecrets \/ KillSecrets
    BY <1>8, <1>11 DEF ReadFails, ReadBare, ReadPiece, WriteFails, TailFails, SweepSecrets, KillSecrets
  <1> QED
    BY <1>2, <1>3, <1>4, <1>5, <1>6, <1>7, <1>8, <1>9, <1>10, <1>11 DEF SecretsNext

LEMMA OverAt == ASSUME NEW rest PROVE OverCall(rest).at = 0
  BY DEF OverCall, NoCall

(* A call counts pieces no further than the longest value has.             *)
LEMMA CallsEndInTime ==
  ASSUME SecretsInv, SecretBounds, [SecretsNext]_SecretsVars
  PROVE  call'.at <= MaxPieces + 1
  <1>1. /\ MaxPieces \in Nat /\ call.at <= MaxPieces + 1 /\ call \in CallRecords
        /\ call.kind \in {"get", "set", "tail"} => call.target \in Targets
        /\ call.kind = "set" => call.value \in SecretValues
        /\ call.at \in Nat /\ call.sweep \subseteq Targets
    BY Longest, CallFields DEF SecretsInv, SecretsTyped, SecretBounds
  <1>2. ASSUME NEW n \in Nat PROVE [call EXCEPT !.at = n].at = n /\ [call EXCEPT !.kind = "tail", !.at = n].at = n
    BY <1>1 DEF CallRecords
  <1>3. ASSUME NEW t \in Targets, GetSecret(t) PROVE call'.at = 0
    <2>1. call' = NoCall \/ call' = GetCall(t)
      BY <1>3 DEF GetSecret, ReadsAs, GetCall
    <2> QED
      BY <2>1, Calls
  <1>4. ASSUME NEW t \in Targets, NEW v \in SecretValues, SetSecret(t, v) PROVE call'.at \in {0, 1}
    <2> DEFINE at == IF platform = "manager" THEN FirstWrite(v) ELSE 0
    <2>1. at \in {0, 1}
      BY DEF FirstWrite
    <2>2. call' = SetCall(t, v, at)
      BY <1>4 DEF SetSecret, SetCall
    <2> HIDE DEF at
    <2> QED
      BY <2>1, <2>2, Calls
  <1>5. ASSUME NEW t \in Targets, NEW rest \in SUBSET Targets, DeleteSecretOf(t, rest) PROVE call'.at \in {0, 1}
    <2>1. call' = TailCall(t, rest) \/ call' = OverCall(rest)
      BY <1>5 DEF DeleteSecretOf, TailCall, OverCall
    <2> QED
      BY <2>1, Calls, OverAt
  <1>6. CASE SweepNextSecret
    BY <1>1, <1>5, <1>6 DEF SweepNextSecret
  <1>7. CASE SweepSecrets
    <2>1. \E all \in SUBSET Targets : call' = OverCall(all)
      BY <1>7 DEF SweepSecrets, OverCall
    <2> QED
      BY <1>1, <2>1, OverAt
  <1>8. CASE ReadFails \/ WriteEntry \/ WriteFails \/ KillSecrets
    <2>1. call' = NoCall
      BY <1>8 DEF ReadFails, ReadsAs, WriteEntry, WriteFails, KillSecrets
    <2> QED
      BY <1>1, <2>1, Calls
  <1>9. CASE ReadBare
    <2>1. call' = [call EXCEPT !.at = 1] \/ call' = NoCall
      BY <1>9 DEF ReadBare, ReadsAs
    <2>2. [call EXCEPT !.at = 1].at = 1
      BY <1>2
    <2>3. call'.at \in {0, 1}
      BY <2>1, <2>2, Calls
    <2> QED
      BY <1>1, <2>3
  <1>10. CASE ReadPiece
    <2>1. held[call.target][0].pieces \in 2 .. MaxPieces
      <3>1. call.kind = "get" /\ call.at > 0
        BY <1>10 DEF ReadPiece
      <3>2. IsSentinel(held[call.target][0])
        BY <3>1 DEF SecretsInv, Reading
      <3>3. held[call.target][0] \in BareItems
        BY <1>1, <3>1, Longest DEF SecretsInv, SecretsTyped
      <3> QED
        BY <3>2, <3>3, Items
    <2> DEFINE gathered == Append(call.got, held[call.target][call.at])
    <2>2. \/ call' = NoCall
          \/ /\ call.at < held[call.target][0].pieces
             /\ call' = [call EXCEPT !.at = call.at + 1, !.got = gathered]
      BY <1>1, <1>10 DEF ReadPiece, ReadsAs, CallRecords
    <2>3. [call EXCEPT !.at = call.at + 1, !.got = gathered].at = call.at + 1
      BY <1>1 DEF CallRecords
    <2> HIDE DEF gathered
    <2>4. call'.at = 0 \/ (call'.at = call.at + 1 /\ call.at < held[call.target][0].pieces)
      BY <2>2, <2>3, Calls
    <2> QED
      BY <1>1, <2>1, <2>4
  <1>11. CASE WritePiece
    <2>1. Pieces[call.value] \in Nat /\ Pieces[call.value] <= MaxPieces
      BY <1>1, <1>11, Longest DEF WritePiece
    <2>2. \/ call' = [call EXCEPT !.at = 0]
          \/ call.at < Pieces[call.value] /\ call' = [call EXCEPT !.at = call.at + 1]
      BY <1>1, <1>11 DEF WritePiece, CallRecords
    <2>3. [call EXCEPT !.at = 0].at = 0 /\ [call EXCEPT !.at = call.at + 1].at = call.at + 1
      BY <1>1, <1>2
    <2>4. call'.at = 0 \/ (call'.at = call.at + 1 /\ call.at < Pieces[call.value])
      BY <2>2, <2>3
    <2> QED
      BY <1>1, <2>1, <2>4
  <1>12. CASE WriteBare
    <2>1. Pieces[call.value] \in Nat /\ Pieces[call.value] <= MaxPieces
      BY <1>1, <1>12, Longest DEF WriteBare
    <2>2. call' = [call EXCEPT !.kind = "tail", !.at = Pieces[call.value] + 1]
      BY <1>12 DEF WriteBare, TailFrom
    <2>3. call'.at = Pieces[call.value] + 1
      BY <1>1, <1>2, <2>1, <2>2
    <2> QED
      BY <1>1, <2>1, <2>3
  <1>13. CASE DeleteTail \/ TailFails
    <2>1. \/ call' = OverCall(call.sweep)
          \/ call.at <= MaxPieces /\ call' = [call EXCEPT !.at = call.at + 1]
      BY <1>1, <1>13 DEF DeleteTail, TailFails, CallOver, OverCall, CallRecords
    <2>2. [call EXCEPT !.at = call.at + 1].at = call.at + 1
      BY <1>1, <1>2
    <2>3. call'.at = 0 \/ (call.at <= MaxPieces /\ call'.at = call.at + 1)
      BY <2>1, <2>2, OverAt
    <2> QED
      BY <1>1, <2>3
  <1>14. CASE UNCHANGED SecretsVars
    BY <1>1, <1>14 DEF SecretsVars
  <1> QED
    BY <1>1, <1>3, <1>4, <1>5, <1>6, <1>7, <1>8, <1>9, <1>10, <1>11, <1>12, <1>13, <1>14 DEF SecretsNext, DeleteSecret

LEMMA SecretBoundsFirst == SecretsInit => SecretBounds
  <1> SUFFICES ASSUME SecretsInit PROVE SecretBounds
    OBVIOUS
  <1>1. PICK before \in [Targets -> SecretValues \cup {NoValue}] : held = [t \in Targets |-> StoreOf(before[t], platform)]
    BY DEF SecretsInit
  <1>2. ASSUME NEW v \in SecretValues \cup {NoValue}, NEW i \in 0 .. MaxPieces
        PROVE  StoreOf(v, platform)[i] \in StoreItems
    <2> DEFINE item == IF v = NoValue THEN NoValue
                       ELSE IF platform # "manager" \/ Pieces[v] = 0 THEN IF i = 0 THEN [of |-> v, piece |-> 0] ELSE NoValue
                       ELSE IF i = 0 THEN [pieces |-> Pieces[v]]
                       ELSE IF i <= Pieces[v] THEN [of |-> v, piece |-> i] ELSE NoValue
    <2>1. StoreOf(v, platform)[i] = item
      BY DEF StoreOf
    <2>2. CASE v = NoValue
      BY <2>1, <2>2, StoreItemsAre
    <2>3. CASE v \in SecretValues /\ v # NoValue
      <3>1. PieceOf(v, i) \in StoreItems /\ PieceOf(v, i) = [of |-> v, piece |-> i]
        BY <2>3, StoreItemsAre DEF PieceOf
      <3>2. Pieces[v] > 0 => [pieces |-> Pieces[v]] \in StoreItems
        BY <2>3, StoreItemsAre DEF BareOf
      <3>3. Pieces[v] = 0 \/ Pieces[v] > 0
        BY <2>3, Longest
      <3> HIDE DEF PieceOf
      <3>4. item \in {NoValue, [of |-> v, piece |-> i]} \/ (Pieces[v] > 0 /\ item = [pieces |-> Pieces[v]])
        BY <2>3, <3>3
      <3> QED
        BY <2>1, <3>1, <3>2, <3>4, StoreItemsAre
    <2> QED
      BY <2>2, <2>3
  <1>3. \A v \in SecretValues \cup {NoValue} : StoreOf(v, platform) \in [0 .. MaxPieces -> StoreItems]
    <2>1. ASSUME NEW v PROVE StoreOf(v, platform) = [i \in 0 .. MaxPieces |-> StoreOf(v, platform)[i]]
      BY DEF StoreOf
    <2> QED
      BY <1>2, <2>1
  <1>4. held \in [Targets -> [0 .. MaxPieces -> StoreItems]]
    BY <1>1, <1>3
  <1>5. call.at = 0 /\ callUpsets = 0 /\ readAs.value = NoValue
    BY DEF SecretsInit, NoCall
  <1>6. call.at <= MaxPieces + 1 /\ callUpsets <= MaxCallUpsets
    BY <1>5, Longest, CallUpsetsAssumption
  <1> QED
    BY <1>4, <1>5, <1>6 DEF SecretsInit, SecretBounds

(* What get answers is a value, nothing, the environment's or torn.        *)
LEMMA AnswersAreRead ==
  ASSUME SecretsInv, SecretBounds, [SecretsNext]_SecretsVars
  PROVE  readAs'.value \in SecretValues \cup {NoValue, Torn, FromEnv}
  <1>0. readAs.value \in SecretValues \cup {NoValue, Torn, FromEnv}
    BY DEF SecretBounds
  <1>1. ASSUME NEW t, NEW v \in SecretValues \cup {NoValue, Torn, FromEnv}, NEW failed, ReadsAs(t, v, failed)
        PROVE  readAs'.value \in SecretValues \cup {NoValue, Torn, FromEnv}
    BY <1>1 DEF ReadsAs
  <1>2. ASSUME NEW t \in Targets, GetSecret(t) PROVE readAs'.value \in SecretValues \cup {NoValue, Torn, FromEnv}
    <2>1. secretCache[t] \in SecretValues \cup {NoValue, Torn, Unread}
      BY DEF SecretsInv, SecretsTyped
    <2> QED
      BY <1>0, <1>1, <1>2, <2>1 DEF GetSecret
  <1>3. CASE ReadFails
    BY <1>1, <1>3 DEF ReadFails
  <1>4. CASE ReadBare
    <2>1. FreshRead(call.target) \in SecretValues \cup {NoValue, Torn}
      BY <1>4, FreshType DEF ReadBare, SecretsInv, SecretsTyped
    <2> QED
      BY <1>0, <1>1, <1>4, <2>1 DEF ReadBare
  <1>5. CASE ReadPiece
    <2> DEFINE gathered == Append(call.got, held[call.target][call.at])
    <2>1. WholeOf(gathered) \in SecretValues \cup {Torn}
      BY WholeType
    <2>2. \/ ReadsAs(call.target, NoValue, FALSE) \/ ReadsAs(call.target, WholeOf(gathered), FALSE)
          \/ UNCHANGED readAs
      BY <1>5 DEF ReadPiece
    <2> HIDE DEF gathered
    <2> QED
      BY <1>0, <1>1, <2>1, <2>2
  <1>6. CASE UNCHANGED readAs
    BY <1>0, <1>6
  <1>7. ASSUME NEW t \in Targets, DeleteSecret(t) \/ \E v \in SecretValues : SetSecret(t, v) PROVE UNCHANGED readAs
    BY <1>7 DEF DeleteSecret, DeleteSecretOf, SetSecret
  <1>8. CASE WritePiece \/ WriteBare \/ WriteEntry \/ WriteFails \/ DeleteTail \/ TailFails \/ SweepSecrets \/ SweepNextSecret \/ KillSecrets
    BY <1>6, <1>8 DEF WritePiece, WriteBare, WriteEntry, WriteFails, DeleteTail, TailFails, SweepSecrets, SweepNextSecret, DeleteSecretOf, KillSecrets
  <1>9. CASE UNCHANGED SecretsVars
    BY <1>6, <1>9 DEF SecretsVars
  <1> QED
    BY <1>2, <1>3, <1>4, <1>5, <1>6, <1>7, <1>8, <1>9 DEF SecretsNext

LEMMA UpsetsCounted ==
  ASSUME SecretsInv, SecretBounds, [SecretsNext]_SecretsVars
  PROVE  callUpsets' <= MaxCallUpsets /\ platform' = platform /\ envSecrets' = envSecrets
  <1> DEFINE Risen == (callUpsets < MaxCallUpsets /\ callUpsets' = callUpsets + 1) \/ callUpsets' = callUpsets
             PlatformKept == platform' = platform /\ envSecrets' = envSecrets
  <1>1. callUpsets \in Nat /\ MaxCallUpsets \in Nat /\ callUpsets <= MaxCallUpsets
    BY CallUpsetsAssumption DEF SecretsInv, SecretsTyped, SecretBounds
  <1>2. ASSUME Risen PROVE callUpsets' <= MaxCallUpsets
    BY <1>1, <1>2
  <1>3. ASSUME NEW t, NEW rest, DeleteSecretOf(t, rest) PROVE Risen /\ PlatformKept
    BY <1>3 DEF DeleteSecretOf, CallUpset, NoUpset, SamePlatform
  <1>4. CASE UNCHANGED SecretsVars
    BY <1>1, <1>4 DEF SecretsVars
  <1>5. CASE SecretsNext
    <2>1. ASSUME NEW t \in Targets, GetSecret(t) \/ \E v \in SecretValues : SetSecret(t, v)
          PROVE  Risen /\ PlatformKept
      BY <2>1 DEF CallUpset, NoUpset, SamePlatform, GetSecret, SetSecret
    <2>2. ASSUME NEW t \in Targets, DeleteSecret(t) PROVE Risen /\ PlatformKept
      BY <1>3, <2>2 DEF DeleteSecret
    <2>3. ASSUME ReadFails \/ ReadBare \/ ReadPiece PROVE Risen /\ PlatformKept
      BY <2>3 DEF CallUpset, NoUpset, SamePlatform, ReadFails, ReadBare, ReadPiece
    <2>4. ASSUME WritePiece \/ WriteBare \/ WriteEntry \/ WriteFails PROVE Risen /\ PlatformKept
      BY <2>4 DEF CallUpset, NoUpset, SamePlatform, WritePiece, WriteBare, WriteEntry, WriteFails
    <2>5. ASSUME DeleteTail \/ TailFails \/ KillSecrets PROVE Risen /\ PlatformKept
      BY <2>5 DEF CallUpset, NoUpset, SamePlatform, DeleteTail, TailFails, KillSecrets
    <2>6. ASSUME SweepSecrets PROVE Risen /\ PlatformKept
      BY <2>6 DEF CallUpset, NoUpset, SamePlatform, SweepSecrets
    <2>7. ASSUME SweepNextSecret PROVE Risen /\ PlatformKept
      BY <1>3, <2>7 DEF SweepNextSecret
    <2>8. Risen /\ PlatformKept
      BY <1>5, <2>1, <2>2, <2>3, <2>4, <2>5, <2>6, <2>7 DEF SecretsNext
    <2> QED
      BY <1>2, <2>8
  <1> QED
    BY <1>4, <1>5 DEF SecretsVars

LEMMA SecretBoundsStep == SecretsInv /\ SecretBounds /\ [SecretsNext]_SecretsVars => SecretBounds'
  <1> SUFFICES ASSUME SecretsInv, SecretBounds, [SecretsNext]_SecretsVars PROVE SecretBounds'
    OBVIOUS
  <1>1. platform' \in Platforms /\ envSecrets' \subseteq Targets
    BY UpsetsCounted DEF SecretBounds
  <1> QED
    BY <1>1, ItemsStayItems, CallsEndInTime, AnswersAreRead, UpsetsCounted DEF SecretBounds

LEMMA SecretsAreTyped == SecretsInv /\ SecretBounds => SecretsTypeOK
  <1> SUFFICES ASSUME SecretsInv, SecretBounds PROVE SecretsTypeOK
    OBVIOUS
  <1>1. call.kind \in {"none", "get", "set", "tail", "sweep"} /\ call.at \in Nat /\ call.sweep \subseteq Targets
    BY DEF SecretsInv, SecretsTyped, CallRecords
  <1>2. call.at \in 0 .. MaxPieces + 1
    BY <1>1, Longest DEF SecretBounds
  <1>3. callUpsets \in 0 .. MaxCallUpsets
    BY CallUpsetsAssumption DEF SecretsInv, SecretsTyped, SecretBounds
  <1> QED
    BY <1>1, <1>2, <1>3 DEF SecretsInv, SecretsTyped, SecretBounds, SecretsTypeOK

(* Each part's types with the invariant that keeps them: a timer's leg is  *)
(* no longer than the clamp because arming it works from typed times, a    *)
(* read ends at the last piece because the sentinel it met counts them.    *)
ScreensTyped ==
  /\ part = "gate" => GateInv
  /\ part = "refresh" => RefreshInv /\ RefreshTypeOK
  /\ part = "forms" => FormsInv /\ FormBounds
  /\ part = "tray" => TrayTypeOK
  /\ part = "shell" => ShellTypeOK
  /\ part = "serve" => ServeTypeOK /\ TurnsTell

HostTyped ==
  /\ part = "auto" => AutoInv /\ AutoBounds
  /\ part = "chat" => EngineInv /\ ChatBounds
  /\ part = "timers" => EarlyInv /\ TimerBounds
  /\ part = "subscriptions" => SubsInv /\ SubBounds
  /\ part = "secrets" => SecretsInv /\ SecretBounds

LEMMA TypesFirst == DeskInit => ScreensTyped /\ HostTyped
  <1> SUFFICES ASSUME DeskInit PROVE ScreensTyped /\ HostTyped
    OBVIOUS
  <1>1. ScreensTyped
    BY GateStarts, RefreshStarts, RefreshTypedFirst, FormsStarts, FormBoundsFirst, TrayTypedFirst,
       ShellTypedFirst, ServeTypedFirst DEF DeskInit, ScreensTyped
  <1>2. HostTyped
    BY AutoStarts, AutoBoundsFirst, EnginesStart, ChatBoundsFirst, EarlyStarts, TimerBoundsFirst,
       SubsStart, SubBoundsFirst, SecretsStart, SecretBoundsFirst DEF DeskInit, HostTyped
  <1> QED
    BY <1>1, <1>2

LEMMA TypesStep ==
  ScreensTyped /\ HostTyped /\ [DeskNext]_DeskVars => ScreensTyped' /\ HostTyped'
  <1> SUFFICES ASSUME ScreensTyped, HostTyped, [DeskNext]_DeskVars PROVE ScreensTyped' /\ HostTyped'
    OBVIOUS
  <1>1. part' = part
    BY DeskMoves
  <1>2. part = "gate" => GateInv'
    BY DeskMoves, GateSteps DEF ScreensTyped
  <1>3. part = "refresh" => RefreshInv' /\ RefreshTypeOK'
    BY DeskMoves, RefreshSteps, RefreshKeepsTypes DEF ScreensTyped
  <1>4. part = "forms" => FormsInv' /\ FormBounds'
    BY DeskMoves, FormsSteps, FormBoundsStep DEF ScreensTyped
  <1>5. part = "tray" => TrayTypeOK'
    BY DeskMoves, TrayKeepsTypes DEF ScreensTyped
  <1>6. part = "shell" => ShellTypeOK'
    BY DeskMoves, ShellKeepsTypes DEF ScreensTyped
  <1>7. part = "serve" => ServeTypeOK' /\ TurnsTell'
    BY DeskMoves, ServeKeepsTypes DEF ScreensTyped
  <1>8. part = "auto" => AutoInv' /\ AutoBounds'
    BY PartMoves, AutoSteps, AutoBoundsStep DEF HostTyped
  <1>9. part = "chat" => EngineInv' /\ ChatBounds'
    BY PartMoves, EnginesStep, ChatBoundsStep DEF HostTyped
  <1>10. part = "timers" => EarlyInv' /\ TimerBounds'
    BY PartMoves, EarlyStep, TimerBoundsStep DEF HostTyped
  <1>11. part = "subscriptions" => SubsInv' /\ SubBounds'
    BY PartMoves, SubsStep, SubBoundsStep DEF HostTyped
  <1>12. part = "secrets" => SecretsInv' /\ SecretBounds'
    BY SecretsMove, SecretsStep, SecretBoundsStep DEF HostTyped
  <1>13. ScreensTyped'
    BY <1>1, <1>2, <1>3, <1>4, <1>5, <1>6, <1>7 DEF ScreensTyped
  <1>14. HostTyped'
    BY <1>1, <1>8, <1>9, <1>10, <1>11, <1>12 DEF HostTyped
  <1> QED
    BY <1>13, <1>14

(* The variables of every part keep their types, counters their bounds and *)
(* buffers their limits: for any windows, users, shells, timers, messages, *)
(* subscribers, targets and bounds.                                        *)
THEOREM DeskIsTyped == DeskSpec => []DeskTypeOK
  <1>1. ScreensTyped /\ HostTyped => DeskTypeOK
    BY GateIsTyped, FormsAreTyped, AutoIsTyped, ChatIsTyped, TimersAreTyped, SubsAreTyped, SecretsAreTyped
    DEF ScreensTyped, HostTyped, DeskTypeOK
  <1> QED
    BY <1>1, TypesFirst, TypesStep, PTL DEF DeskSpec
===============================================================================
