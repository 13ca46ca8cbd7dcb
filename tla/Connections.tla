------------------------------ MODULE Connections ------------------------------
(***************************************************************************)
(* The household's connections (institutions/src/registry.ts, and          *)
(* connect.ts, managed.ts, plaid-finish.ts and app.ts of the host): the    *)
(* registry file, the tokens beside it, the browser logins that make a     *)
(* connection, the figures typed in by hand, and the refresh that takes    *)
(* each change to the books.                                               *)
(*                                                                         *)
(* What happens between two awaits is a list of effects; the host may die  *)
(* between any two of them.  Runs in flight survive a death (RunLog),      *)
(* logins under way do not.                                                *)
(***************************************************************************)
EXTENDS Naturals, Sequences, FiniteSets, SequencesExt

CONSTANTS MaxId,      \* inst.<slug>, inst.<slug>_2 .. of the one name used
          Links,      \* browser logins
          Addresses,  \* as typed
          AddressKey, \* walletAddressKey: spellings of one address agree
          Amounts,    \* what an account may be worth
          NoValue,
          MaxRuns,    \* bound on refreshes in flight
          MaxActs,    \* bound on what the operator does
          MaxUpsets   \* bound on deaths

ASSUME BoundsAssumption == MaxId \in Nat /\ MaxRuns \in Nat /\ MaxActs \in Nat /\ MaxUpsets \in Nat

Ids == 1 .. MaxId
Adapters == {"plaid", "enablebanking", "coinbase", "kraken", "wallet", "managed", "files"}

(* connectionSecretAccounts: the secrets a connection of each kind owns.   *)
connectionSecretAccounts(adapter) ==
  CASE adapter \in {"plaid", "enablebanking"} -> {1}
    [] adapter \in {"coinbase", "kraken"} -> {1, 2}
    [] OTHER -> {}

InstitutionEntry == [adapter : Adapters, enabled : BOOLEAN, holdings : SUBSET Addresses]
Figures == [amount : Amounts, closed : BOOLEAN]
Accounts == Figures \cup {NoValue}
Snapshots == [at : 0 .. MaxActs, amount : Amounts \cup {0, NoValue}]
Logins == [kind : {"plaid", "enablebanking"}, target : Ids \cup {NoValue},
           stage : {"none", "open", "finished", "spent"}]
Returns == [link : Links, target : Ids \cup {NoValue}, state : {"waiting", "done", "failed"}]
Flows == [link : Links \cup {NoValue}, target : Ids \cup {NoValue}, auto : 0 .. 2]
Refreshes == [id : Ids, flow : Flows, snap : Snapshots \cup {NoValue}, fetched : BOOLEAN]
Effects == {"entry", "secret", "second", "managed", "snapshot", "refresh", "tokens", "close", "remove"}

(* NoValue is nothing else.                                                *)
ASSUME ValuesAssumption ==
  /\ NoValue \notin Ids \cup Links \cup Amounts \cup {0}
  /\ NoValue \notin InstitutionEntry \cup Figures \cup Snapshots \cup Returns

VARIABLES
  entries,    \* institutions.json: per id an entry, or NoValue
  order,      \* its ids in the order listed
  tokens,     \* the stored parts of each connection's secret
  links,      \* each login: its kind, target and how far it has come
  pendingEb,  \* memory: the bank consents started
  pendingPlaid, \* memory: the login whose return is awaited
  flows,      \* memory: logins being exchanged
  managed,    \* managed.json: the one account typed in, or NoValue
  inbox,      \* the newest file of each inbox
  books,      \* what the ledger holds open for each id
  runs,       \* refreshes in flight
  op,         \* the synchronous part under way: its id, flow and effects left
  acts,       \* what the operator has done: the clock
  made,       \* logins whose token was stored
  twice,      \* logins finished a second time
  cut,        \* ids whose figures were cut from their snapshot
  late,       \* ids closed with a refresh in flight
  upsets

memory == <<pendingEb, pendingPlaid, flows>>
disk == <<entries, order, tokens, managed, inbox>>
ghosts == <<acts, twice, cut, late, upsets>>
vars == <<disk, memory, links, books, runs, op, ghosts, made>>

Registered == {i \in Ids : entries[i] # NoValue}
NoFlow == [link |-> NoValue, target |-> NoValue, auto |-> 0]
NoOp == [id |-> NoValue, adapter |-> "files", flow |-> NoFlow, account |-> NoValue, holdings |-> {}, todo |-> <<>>]
Idle == op.todo = <<>>
Acts == Idle /\ acts < MaxActs /\ acts' = acts + 1
Shut == [at |-> 0, amount |-> NoValue]

TypeOK ==
  /\ entries \in [Ids -> InstitutionEntry \cup {NoValue}]
  /\ order \in Seq(Ids) /\ ToSet(order) = Registered /\ Len(order) = Cardinality(Registered)
  /\ tokens \in [Ids -> SUBSET {1, 2}]
  /\ links \in [Links -> Logins]
  /\ pendingEb \subseteq Links /\ flows \subseteq Flows
  /\ pendingPlaid \in Returns \cup {NoValue}
  /\ managed \in [Ids -> Accounts]
  /\ inbox \in [Ids -> Snapshots \cup {NoValue}]
  /\ books \in [Ids -> Snapshots]
  /\ runs \subseteq Refreshes /\ Cardinality(runs) <= MaxRuns
  /\ op.todo \in Seq(Effects) /\ op.account \in Accounts
  /\ acts \in 0 .. MaxActs /\ cut \cup late \subseteq Ids /\ made \cup twice \subseteq Links /\ upsets \in 0 .. MaxUpsets

Init ==
  /\ entries = [i \in Ids |-> NoValue]
  /\ order = <<>>
  /\ tokens = [i \in Ids |-> {}]
  /\ links = [l \in Links |-> [kind |-> "plaid", target |-> NoValue, stage |-> "none"]]
  /\ pendingEb = {} /\ pendingPlaid = NoValue /\ flows = {}
  /\ managed = [i \in Ids |-> NoValue]
  /\ inbox = [i \in Ids |-> NoValue]
  /\ books = [i \in Ids |-> Shut]
  /\ runs = {}
  /\ op = NoOp
  /\ acts = 0 /\ made = {} /\ twice = {} /\ cut = {} /\ late = {} /\ upsets = 0

-----------------------------------------------------------------------------
(* The registry.                                                           *)

(* Mutant of institutionIdFor: an id somebody has.                         *)
IdFromNameAlone == 1

(* institutionIdFor: the first of slug, slug_2, .. that is free.           *)
FreeIds == Ids \ Registered
institutionIdFor == CHOOSE i \in FreeIds : \A j \in FreeIds : i <= j

addInstitutionEntry(i, adapter, holdings) ==
  /\ entries' = [entries EXCEPT ![i] = [adapter |-> adapter, enabled |-> TRUE, holdings |-> holdings]]
  /\ order' = Append(order, i)

(* An id is listed once, and nothing comes between this and its check.     *)
removeInstitutionEntry(i) ==
  \E k \in DOMAIN order :
    /\ order[k] = i
    /\ entries' = [entries EXCEPT ![i] = NoValue]
    /\ order' = RemoveAt(order, k)

(* The listed ids take that order in the slots they held; the rest stay.   *)
Reordered(list) ==
  [k \in DOMAIN order |->
     IF order[k] \notin ToSet(list) THEN order[k]
     ELSE list[Cardinality({s \in 1 .. k : order[s] \in ToSet(list)})]]

(* Unknown ids and repetitions drop out before.                            *)
reorderInstitutionEntries ==
  /\ Acts
  /\ \E S \in SUBSET Registered : \E list \in SetToSeqs(S) :
       /\ Len(list) >= 2 /\ Reordered(list) # order
       /\ order' = Reordered(list)
  /\ UNCHANGED <<entries, tokens, managed, inbox, memory, links, books, runs, op, twice, cut, late, upsets, made>>

(* A pause keeps the entry; no adapter is built for it.                    *)
setInstitutionEnabled(i) ==
  /\ Acts /\ i \in Registered
  /\ entries' = [entries EXCEPT ![i].enabled = ~@]
  /\ UNCHANGED <<order, tokens, managed, inbox, memory, links, books, runs, op, twice, cut, late, upsets, made>>

-----------------------------------------------------------------------------
(* The synchronous parts, effect by effect.                                *)

Doing(e) == ~Idle /\ Head(op.todo) = e
Done == op' = IF Len(op.todo) = 1 THEN NoOp ELSE [op EXCEPT !.todo = Tail(@)]
Begin(i, adapter, flow, account, holdings, todo) ==
  op' = [id |-> i, adapter |-> adapter, flow |-> flow, account |-> account,
         holdings |-> holdings, todo |-> todo]

Secrets(adapter) ==
  CASE connectionSecretAccounts(adapter) = {} -> <<>>
    [] connectionSecretAccounts(adapter) = {1} -> <<"secret">>
    [] OTHER -> <<"secret", "second">>

(* Mutant of NewConnection: the token goes in before the entry it is of.   *)
SecretFirst(adapter) ==
  (IF connectionSecretAccounts(adapter) = {} THEN <<>> ELSE <<"secret">>) \o <<"entry", "refresh">>

(* The entry first, so that what is stored is always somebody's.  A key    *)
(* pair is two secrets, one after the other.                               *)
NewConnection(adapter) ==
  <<"entry">> \o Secrets(adapter) \o <<"refresh">>

WriteEntry ==
  /\ Doing("entry") /\ Done
  /\ addInstitutionEntry(op.id, op.adapter, op.holdings)
  /\ UNCHANGED <<tokens, managed, inbox, memory, links, books, runs, ghosts, made>>

storeSecret ==
  /\ \/ Doing("secret") /\ tokens' = [tokens EXCEPT ![op.id] = @ \cup {1}]
     \/ Doing("second") /\ tokens' = [tokens EXCEPT ![op.id] = @ \cup {2}]
  /\ Done
  /\ made' = IF op.flow.link = NoValue THEN made ELSE made \cup {op.flow.link}
  /\ UNCHANGED <<entries, order, managed, inbox, memory, links, books, runs, ghosts>>

writeManagedAccounts ==
  /\ Doing("managed") /\ Done
  /\ managed' = [managed EXCEPT ![op.id] = op.account]
  /\ UNCHANGED <<entries, order, tokens, inbox, memory, links, books, runs, ghosts, made>>

(* What the snapshot says of the account; a list with none says nothing.   *)
(* Mutant of Figure: a closed account is left out of the snapshot.         *)
FigureOpen(a) == IF a = NoValue THEN NoValue ELSE IF a.closed THEN NoValue ELSE a.amount

Figure(a) == IF a = NoValue THEN NoValue ELSE IF a.closed THEN 0 ELSE a.amount

(* A file named by the instant, so that the newest is the last by name.    *)
NewFile(i, amount) == inbox' = [inbox EXCEPT ![i] = [at |-> acts', amount |-> amount]]

writeSnapshot ==
  /\ Doing("snapshot") /\ Done
  /\ UNCHANGED acts /\ NewFile(op.id, Figure(managed[op.id]))
  /\ cut' = cut \ {op.id}
  /\ UNCHANGED <<entries, order, tokens, managed, memory, links, books, runs, twice, late, upsets, made>>

(* A refresh is a nightly of one institution, awaited.                     *)
refreshInstitution ==
  /\ Doing("refresh") /\ Done
  /\ Cardinality(runs) < MaxRuns
  /\ runs' = runs \cup {[id |-> op.id, flow |-> op.flow, snap |-> NoValue, fetched |-> FALSE]}
  /\ UNCHANGED <<disk, memory, links, books, ghosts, made>>

deleteTokens ==
  /\ Doing("tokens") /\ Done
  /\ tokens' = [tokens EXCEPT ![op.id] = {}]
  /\ UNCHANGED <<entries, order, managed, inbox, memory, links, books, runs, ghosts, made>>

(* Every open account of the institution gets a closing fact, dated now.   *)
CloseBooks ==
  /\ Doing("close") /\ Done
  /\ books' = [books EXCEPT ![op.id] = [at |-> @.at, amount |-> NoValue]]
  /\ late' = IF \E r \in runs : r.id = op.id THEN late \cup {op.id} ELSE late
  /\ UNCHANGED <<disk, memory, links, runs, acts, twice, cut, upsets, made>>

(* Only the entry goes: the inbox and the figures typed in stay on disk.   *)
RemoveEntry ==
  /\ Doing("remove") /\ Done
  /\ removeInstitutionEntry(op.id)
  /\ UNCHANGED <<tokens, managed, inbox, memory, links, books, runs, ghosts, made>>

Effect ==
  \/ WriteEntry \/ storeSecret \/ writeManagedAccounts \/ writeSnapshot
  \/ refreshInstitution \/ deleteTokens \/ CloseBooks \/ RemoveEntry

-----------------------------------------------------------------------------
(* What the operator does.  Each begins between two synchronous parts.     *)

Started == Acts /\ UNCHANGED <<disk, memory, links, books, runs, twice, cut, late, upsets, made>>

(* addInstitution: typed in by hand, or files dropped into an inbox.       *)
addInstitution ==
  /\ Started /\ FreeIds # {}
  /\ \/ Begin(institutionIdFor, "files", NoFlow, NoValue, {}, <<"entry">>)
     \/ Begin(institutionIdFor, "managed", NoFlow, NoValue, {}, <<"entry", "managed", "snapshot">>)

(* A pair of keys pasted, for a new entry or one that is of that kind.     *)
KeysPasted(adapter) ==
  /\ Started
  /\ \/ /\ FreeIds # {}
        /\ Begin(institutionIdFor, adapter, NoFlow, NoValue, {}, NewConnection(adapter))
     \/ \E i \in Registered :
          /\ entries[i].adapter = adapter
          /\ Begin(i, adapter, NoFlow, NoValue, {}, Tail(NewConnection(adapter)))

connectCoinbase == KeysPasted("coinbase")
connectKraken == KeysPasted("kraken")

(* Mutant of Keys: addresses are compared as they were typed.              *)
KeysAsTyped(holdings) == holdings

Keys(holdings) == {AddressKey[a] : a \in holdings}

(* An address another wallet watches is refused, and one listed twice.     *)
connectWallet ==
  /\ Started /\ FreeIds # {}
  /\ \E holdings \in SUBSET Addresses \ {{}} :
       /\ Cardinality(Keys(holdings)) = Cardinality(holdings)
       /\ \A i \in Registered : Keys(entries[i].holdings) \cap Keys(holdings) = {}
       /\ Begin(institutionIdFor, "wallet", NoFlow, NoValue, holdings, NewConnection("wallet"))

(* saveManagedAccount and removeManagedAccount.  Saving reopens.           *)
saveManagedAccount(i) ==
  /\ Started /\ i \in Registered /\ entries[i].adapter = "managed"
  /\ \/ \E v \in Amounts :
          Begin(i, "managed", NoFlow, [amount |-> v, closed |-> FALSE], {}, <<"managed", "snapshot", "refresh">>)
     \/ /\ managed[i] # NoValue /\ ~managed[i].closed
        /\ Begin(i, "managed", NoFlow, [managed[i] EXCEPT !.closed = TRUE], {}, <<"managed", "snapshot", "refresh">>)

storeInstitutionFile(i) ==
  /\ Acts /\ i \in Registered /\ entries[i].adapter = "files"
  /\ \E v \in Amounts : NewFile(i, v)
  /\ UNCHANGED <<entries, order, tokens, managed, memory, links, books, runs, op, twice, late, cut, upsets, made>>

Refresh(i) ==
  /\ Started /\ i \in Registered
  /\ Begin(i, entries[i].adapter, NoFlow, NoValue, {}, <<"refresh">>)

(* Mutant of Removal: the entry goes before its accounts are closed.       *)
RemovalFirst == <<"tokens", "remove", "close">>

Removal == <<"tokens", "close", "remove">>

removeInstitution(i) ==
  /\ Started /\ i \in Registered
  /\ Begin(i, entries[i].adapter, NoFlow, NoValue, {}, Removal)

deleteConnectionTokens(i) ==
  /\ Started /\ i \in Registered /\ tokens[i] # {}
  /\ Begin(i, entries[i].adapter, NoFlow, NoValue, {}, <<"tokens">>)

-----------------------------------------------------------------------------
(* Logins in the browser.                                                  *)

ensurePlaidFinishListener == BOOLEAN     \* the port may be taken

(* The return comes by itself where the redirect is registered at Plaid.   *)
plaidLinkStart(listening) == IF listening THEN BOOLEAN ELSE {FALSE}

(* A finished session's public token is read back and exchanged, once; a   *)
(* consent's code likewise.                                                *)
plaidExchange(l) == links[l].stage = "finished"

(* connectPlaidStart: a Link session; with the loopback listener up and a  *)
(* name or an institution given, its return is awaited.  The session       *)
(* awaited before is given up.                                             *)
connectPlaidStart ==
  /\ Acts
  /\ \E l \in Links, target \in Ids \cup {NoValue}, listening \in ensurePlaidFinishListener :
       /\ links[l].stage = "none"
       /\ links' = [links EXCEPT ![l] = [kind |-> "plaid", target |-> target, stage |-> "open"]]
       /\ \E auto \in plaidLinkStart(listening) :
            pendingPlaid' = IF auto THEN [link |-> l, target |-> target, state |-> "waiting"] ELSE NoValue
  /\ UNCHANGED <<disk, pendingEb, flows, books, runs, op, twice, cut, late, upsets, made>>

(* connectEbStart: a consent at the bank, remembered by its state.         *)
connectEbStart ==
  /\ Acts
  /\ \E l \in Links, target \in Ids \cup {NoValue} :
       /\ links[l].stage = "none"
       /\ links' = [links EXCEPT ![l] = [kind |-> "enablebanking", target |-> target, stage |-> "open"]]
       /\ pendingEb' = pendingEb \cup {l}
  /\ UNCHANGED <<disk, pendingPlaid, flows, books, runs, op, twice, cut, late, upsets, made>>

(* The operator logs in at the bank.                                       *)
LogIn(l) ==
  /\ links[l].stage = "open"
  /\ links' = [links EXCEPT ![l].stage = "finished"]
  /\ UNCHANGED <<disk, memory, books, runs, op, ghosts, made>>

(* A login being finished that is not under way yet, or under way again.   *)
Finishing(f) ==
  LET others == {g \in flows \cup {r.flow : r \in runs} \cup {op.flow} : g.link = f.link} IN
  /\ f \notin others
  /\ flows' = flows \cup {f}
  /\ twice' = IF others = {} /\ links[f.link].stage # "spent" THEN twice ELSE twice \cup {f.link}

(* The browser lands on /plaid/done, once or again.                        *)
onPlaidReturn ==
  /\ Acts
  /\ pendingPlaid # NoValue /\ pendingPlaid.state = "waiting"
  /\ links[pendingPlaid.link].stage \in {"finished", "spent"}
  /\ \E n \in 1 .. 2 :
       LET f == [link |-> pendingPlaid.link, target |-> pendingPlaid.target, auto |-> n] IN
       Finishing(f)
  /\ UNCHANGED <<disk, pendingEb, pendingPlaid, links, books, runs, op, cut, late, upsets, made>>

(* The Finish button, for either kind; a consent only while it is          *)
(* remembered.                                                             *)
connectComplete(l) ==
  LET f == [link |-> l, target |-> links[l].target, auto |-> 0] IN
  /\ Acts /\ links[l].stage # "none"
  /\ links[l].kind = "enablebanking" => l \in pendingEb
  /\ Finishing(f)
  /\ UNCHANGED <<disk, pendingEb, pendingPlaid, links, books, runs, op, cut, late, upsets, made>>

(* What the awaited return comes to; a session given up meanwhile is       *)
(* nobody's to see.                                                        *)
Settle(f, state) ==
  pendingPlaid' = IF f.auto > 0 /\ pendingPlaid # NoValue /\ pendingPlaid.link = f.link
                  THEN [pendingPlaid EXCEPT !.state = state] ELSE pendingPlaid

(* finishPlaidConnect, connectEbComplete: the provider exchanges a login   *)
(* once.  Then, in one breath, an entry if it is a new one, the token, the *)
(* refresh.                                                                *)
Exchanged(f) ==
  LET kind == links[f.link].kind
      known == f.target # NoValue /\ f.target \in Registered /\ entries[f.target].adapter = kind
      ok == plaidExchange(f.link) /\ (known \/ (f.target = NoValue /\ FreeIds # {}))
  IN
  /\ Idle /\ f \in flows
  /\ flows' = flows \ {f}
  /\ links' = IF plaidExchange(f.link) THEN [links EXCEPT ![f.link].stage = "spent"] ELSE links
  /\ IF ok
     THEN /\ IF known THEN Begin(f.target, kind, f, NoValue, {}, Tail(NewConnection(kind)))
                      ELSE Begin(institutionIdFor, kind, f, NoValue, {}, NewConnection(kind))
          /\ UNCHANGED pendingPlaid
     ELSE Settle(f, "failed") /\ UNCHANGED op
  /\ UNCHANGED <<disk, pendingEb, books, runs, ghosts, made>>

-----------------------------------------------------------------------------
(* A refresh, as far as the registry and the books are concerned.          *)

(* Without an adapter, a whole secret or a file there is nothing to fetch: *)
(* a finding, and the run goes on.                                         *)
CanFetch(i) ==
  /\ i \in Registered /\ entries[i].enabled
  /\ connectionSecretAccounts(entries[i].adapter) \subseteq tokens[i]
  /\ entries[i].adapter \in {"managed", "files"} => inbox[i] # NoValue

newestJson(i) == inbox[i]

Fetch(r) ==
  /\ Idle /\ r \in runs /\ ~r.fetched
  /\ LET snap == IF ~CanFetch(r.id) THEN NoValue
                 ELSE IF entries[r.id].adapter \in {"managed", "files"} THEN newestJson(r.id)
                 ELSE [at |-> acts, amount |-> 0]
     IN runs' = (runs \ {r}) \cup {[r EXCEPT !.fetched = TRUE, !.snap = snap]}
  /\ UNCHANGED <<disk, memory, links, books, op, ghosts, made>>

(* Mutant of Outcome: a refresh that fetched nothing counts as a failed    *)
(* connection.                                                             *)
OutcomeOfFetch(r) == IF r.snap = NoValue THEN "failed" ELSE "done"

Outcome(r) == "done"

(* The commit: newer figures stand over older ones.  A run of a connection *)
(* removed meanwhile may open its accounts again.                          *)
Commit(r) ==
  /\ Idle /\ r \in runs /\ r.fetched
  /\ runs' = runs \ {r}
  /\ IF r.snap = NoValue \/ r.snap.at < books[r.id].at
     THEN UNCHANGED books
     ELSE books' = [books EXCEPT ![r.id] =
            [at |-> r.snap.at, amount |-> IF r.snap.amount = NoValue THEN @.amount ELSE r.snap.amount]]
  /\ Settle(r.flow, Outcome(r))
  /\ UNCHANGED <<disk, pendingEb, flows, links, op, ghosts, made>>

(* The host dies: what it was doing stops, what it remembered is gone.     *)
Crash ==
  /\ upsets < MaxUpsets /\ upsets' = upsets + 1
  /\ op' = NoOp
  /\ cut' = IF ~Idle /\ ToSet(op.todo) \cap {"managed", "snapshot"} # {} THEN cut \cup {op.id} ELSE cut
  /\ pendingEb' = {} /\ pendingPlaid' = NoValue /\ flows' = {}
  /\ UNCHANGED <<disk, links, books, runs, acts, twice, late, made>>

Next ==
  \/ Effect
  \/ addInstitution \/ connectCoinbase \/ connectKraken \/ connectWallet
  \/ reorderInstitutionEntries
  \/ \E i \in Ids :
       \/ setInstitutionEnabled(i) \/ saveManagedAccount(i) \/ storeInstitutionFile(i)
       \/ Refresh(i) \/ removeInstitution(i) \/ deleteConnectionTokens(i)
  \/ connectPlaidStart \/ connectEbStart \/ onPlaidReturn
  \/ \E l \in Links : LogIn(l) \/ connectComplete(l)
  \/ \E f \in flows : Exchanged(f)
  \/ \E r \in runs : Fetch(r) \/ Commit(r)
  \/ Crash

Spec == Init /\ [][Next]_vars

-----------------------------------------------------------------------------
(* Properties.                                                             *)

(* Whenever the host dies, a stored token is one its registry entry owns:  *)
(* removing the connection, or every connection, finds them all.           *)
TokensListed ==
  \A i \in Ids :
    tokens[i] # {} => i \in Registered /\ tokens[i] \subseteq connectionSecretAccounts(entries[i].adapter)

(* No address is watched by two wallets, however it is spelt: the same     *)
(* funds would count twice.                                                *)
WatchedOnce ==
  \A i, j \in Registered :
    i # j => {AddressKey[a] : a \in entries[i].holdings} \cap {AddressKey[a] : a \in entries[j].holdings} = {}

(* A connection that is not in the registry has no open account, whenever  *)
(* the host dies during its removal -- except where a refresh of it was in *)
(* flight as its accounts were closed, whose commit comes after.           *)
RemovedIsShut ==
  \A i \in Ids \ (Registered \cup late) :
    books[i].amount = NoValue

(* Where the newest snapshot of a connection kept by hand is in the books, *)
(* its account, while open, says what was typed in last, and zero when the *)
(* operator closed it -- unless the host died between the figures and      *)
(* their snapshot.                                                         *)
BooksTellFigures ==
  Idle => \A i \in Registered \ cut :
    entries[i].adapter = "managed" /\ managed[i] # NoValue
      /\ books[i].at = inbox[i].at /\ books[i].amount # NoValue
    => books[i].amount = IF managed[i].closed THEN 0 ELSE managed[i].amount

(* The page that waits for the browser's return is not told "failed" of a  *)
(* login that has made its connection, unless the browser came back twice  *)
(* or the operator pressed Finish as well.                                 *)
FailedIsUnmade ==
  pendingPlaid # NoValue /\ pendingPlaid.state = "failed" =>
    pendingPlaid.link \notin made \/ pendingPlaid.link \in twice

(* What a connection owns goes with it: tokens, addresses and accounts.    *)
OwnedByOne == TypeOK /\ TokensListed /\ WatchedOnce /\ RemovedIsShut

(* What the operator is told of a connection is what was done.             *)
ToldAsDone == BooksTellFigures /\ FailedIsUnmade
=============================================================================
