------------------------------- MODULE Accounts -------------------------------
(***************************************************************************)
(* One institution's accounts in the ledger: the nightly's fetch, normalise*)
(* and commits (packages/actions/src/ingest/fetch.ts, normalize.ts,        *)
(* ledger/commit.ts), the operator who relinks, removes and hides, and the *)
(* merge that folds two subjects of one real account into one              *)
(* (packages/ledger/src/merge.ts), at boot or from another process.        *)
(*                                                                         *)
(* A link mints provider ids of its own for the accounts and movements it  *)
(* reports; what identifies them is the account's mask and the movement's  *)
(* content.                                                                *)
(***************************************************************************)
EXTENDS FactTable, FiniteSetsExt, SequencesExt

CONSTANTS Reals,        \* real accounts, a number each
          Movements,    \* what may be posted, numbered in the order it is
          On,           \* the account each is posted to
          Content,      \* day, amount and description of each
          MaxLinks, MaxNights, MaxUpsets

ASSUME RealsAssumption == Reals \subseteq Nat /\ Movements \subseteq Nat
ASSUME OnAssumption == On \in [Movements -> Reals]
ASSUME BoundsAssumption == MaxLinks \in Nat \ {0} /\ MaxNights \in Nat /\ MaxUpsets \in Nat

(* Subjects are the account a link reports under its own id.               *)
None == <<0, 0>>  \* no subject
AccountKey == <<0, 0>>
TotalKey == <<0, 1>>

Account(r, open, into, ignored) == [real |-> r, open |-> open, into |-> into, ignored |-> ignored]
Transaction(m, voided) == [content |-> <<On[m], Content[m]>>, voided |-> voided]

VARIABLES
  link,     \* which link the institution is read through, 0 when it is removed
  links,    \* links made so far
  gone,     \* real accounts the institution no longer reports
  posted,   \* movements it reports
  clock,
  nightly,  \* the run in flight: its step, what it fetched and proposes
  nights,
  merging,  \* a merge between its two commits
  upsets,
  booked,   \* history: movements whose report was committed
  crossed   \* history: a night committed to a subject while, or after, its merge
            \* was made

world == <<link, links, gone, posted, upsets>>
history_ == <<booked, crossed>>
vars == <<fact, batch, world, clock, nightly, nights, merging, history_>>

Idle == [step |-> "idle"]
NoMerge == [pair |-> <<>>, assets |-> <<>>]

Init ==
  /\ NoFacts
  /\ link = 1 /\ links = 1 /\ gone = {} /\ posted = {} /\ clock = 1
  /\ nightly = Idle /\ nights = 0 /\ merging = NoMerge /\ upsets = 0
  /\ booked = {} /\ crossed = FALSE

-----------------------------------------------------------------------------
(* What the ledger says.                                                   *)

(* The current row of each account subject.                                *)
latestAccount(s) == CurrentOf("account", s, AccountKey)
KnownIds == {fact[i].subject : i \in {j \in DOMAIN fact : fact[j].kind = "account"}}
Said(s) == fact[latestAccount(s)].payload

CurrentTxns(s) == CurrentRows("transaction", s)
Balance(s) == CurrentOf("balance", s, TotalKey)

Row(k, s, key, p, o, e, over) ==
  [kind |-> k, subject |-> s, key |-> key, payload |-> p, observed |-> o, effective |-> e,
   supersedes |-> over, writer |-> Owner[k], provisional |-> FALSE]
AccountRow(s, p, t, over) == Row("account", s, AccountKey, p, t, t, over)
Rows(S) == FoldSet(LAMBDA f, rows : Append(rows, f), <<>>, S)

sameRealAccount(p, r) == p.real = r

-----------------------------------------------------------------------------
(* The institution and the operator.                                       *)

Post(m) ==
  /\ m \notin posted /\ \A n \in Movements : n < m => n \in posted
  /\ posted' = posted \cup {m}
  /\ UNCHANGED <<fact, batch, link, links, gone, upsets, clock, nightly, nights, merging, history_>>

(* An account the institution stops, or starts again, to report.           *)
StopReporting(r) ==
  /\ upsets < MaxUpsets
  /\ gone' = IF r \in gone THEN gone \ {r} ELSE gone \cup {r}
  /\ upsets' = upsets + 1
  /\ UNCHANGED <<fact, batch, link, links, posted, clock, nightly, nights, merging, history_>>

(* A new link session, on the entry there is or on a new one.              *)
Relink ==
  /\ links < MaxLinks
  /\ link' = links + 1 /\ links' = links + 1
  /\ UNCHANGED <<fact, batch, gone, posted, upsets, clock, nightly, nights, merging, history_>>

(* Every open account is closed now.                                       *)
removeInstitution ==
  /\ link # 0 /\ upsets < MaxUpsets
  /\ clock' = clock + 1 /\ upsets' = upsets + 1
  /\ link' = 0
  /\ LET open == {s \in KnownIds : Said(s).open}
     IN  IF open = {} THEN UNCHANGED <<fact, batch>>
         ELSE commit(<<"close", clock'>>, "assets_manager",
                     Rows({AccountRow(s, [Said(s) EXCEPT !.open = FALSE], clock', latestAccount(s)) : s \in open}))
  /\ UNCHANGED <<links, gone, posted, nightly, nights, merging, history_>>

(* Hiding closes the account, restoring reopens it.  The account list      *)
(* offers to hide what is open and to restore what is hidden.              *)
setAccountIgnored(s, ignored) ==
  /\ upsets < MaxUpsets
  /\ s \in KnownIds /\ Said(s).into = None /\ Said(s).ignored # ignored
  /\ ignored => Said(s).open
  /\ clock' = clock + 1 /\ upsets' = upsets + 1
  /\ commit(<<"ignore", clock'>>, "assets_manager",
            <<AccountRow(s, [Said(s) EXCEPT !.open = ~ignored, !.ignored = ignored], clock', latestAccount(s))>>)
  /\ UNCHANGED <<link, links, gone, posted, nightly, nights, merging, history_>>

-----------------------------------------------------------------------------
(* The nightly.                                                            *)

(* The snapshot is durable before anything else is done with it.           *)
Fetch ==
  /\ nightly.step = "idle" /\ link # 0 /\ nights < MaxNights
  /\ clock' = clock + 1 /\ nights' = nights + 1
  /\ nightly' = [step |-> "fetched", at |-> clock', link |-> link,
                 accounts |-> Reals \ gone, moved |-> {m \in posted : On[m] \notin gone}]
  /\ UNCHANGED <<fact, batch, world, merging, history_>>

(* Mutant of Matches: a hidden account is not matched.                      *)
MatchesOpen(s, r, incoming) ==
  /\ Said(s).open /\ Said(s).into = None
  /\ s \notin incoming /\ sameRealAccount(Said(s), r)

(* A known account that a provider id never seen before may stand for.     *)
Matches(s, r, incoming) ==
  /\ Said(s).open \/ Said(s).ignored
  /\ Said(s).into = None
  /\ s \notin incoming /\ sameRealAccount(Said(s), r)

(* Mutant of Survivor: one marker is followed, not the chain.               *)
SurvivorNext(s) == IF s \in KnownIds /\ Said(s).into # None THEN Said(s).into ELSE s

(* The markers are followed for at most eight hops.                        *)
Survivor(s) ==
  LET Hop[n \in 0 .. 8] ==
        IF n = 0 THEN s
        ELSE LET at == Hop[n - 1]
             IN  IF at \notin KnownIds \/ Said(at).into \in {None, s} THEN at ELSE Said(at).into
  IN  Hop[8]

(* Mutant of Home: a new id is never matched.                               *)
HomeOwn(p, incoming) == IF p \in KnownIds THEN Survivor(p) ELSE p

(* Where tonight's account is booked.                                      *)
Home(p, incoming) ==
  IF p \in KnownIds THEN Survivor(p)
  ELSE LET m == {s \in KnownIds : Matches(s, p[1], incoming)}
       IN  IF m = {} THEN p ELSE CHOOSE s \in m : \A t \in m : s[2] <= t[2]

Quiet(s) == s \in KnownIds /\ Said(s).ignored

(* Mutant of Fresh: a known content absorbs every movement that repeats it. *)
FreshByContent(s, moved) ==
  LET held == CurrentTxns(s)
  IN  {m \in moved : \A i \in held : fact[i].payload.content # Transaction(m, FALSE).content}

(* The movements that are new: not known by id, and not one of the live    *)
(* movements of the same content that tonight does not report by id.       *)
Fresh(s, moved) ==
  LET held == CurrentTxns(s)
      id(m) == <<m, nightly.link>>
      ids == {id(m) : m \in moved}
      known == {m \in moved : \E i \in held : fact[i].key = id(m)}
      spare(c) == {i \in held : /\ ~fact[i].payload.voided /\ fact[i].key \notin ids
                                /\ fact[i].payload.content = c}
      earlier(m) == {n \in moved \ known : n < m /\ Transaction(n, FALSE).content = Transaction(m, FALSE).content}
  IN  {m \in moved \ known :
         Cardinality(earlier(m)) >= Cardinality(spare(Transaction(m, FALSE).content))}

(* The assets and the flows proposed, from the ledger as it is now.        *)
Normalize ==
  /\ nightly.step = "fetched"
  /\ LET at == nightly.at
         incoming == {<<r, nightly.link>> : r \in nightly.accounts}
         home(p) == Home(p, incoming)
         aliases == {p \in incoming \ KnownIds : home(p) # p}
         booked_ == {p \in incoming : ~Quiet(home(p))}
         reported == {home(p) : p \in incoming}
         dropped == {s \in KnownIds : s \notin reported /\ Said(s).open /\ Said(s).into = None}
         mine(p) == {m \in nightly.moved : On[m] = p[1]}
     IN  nightly' = [step |-> "normalized", at |-> at,
                     moved |-> UNION {mine(p) : p \in booked_},
                     assets |-> Rows({AccountRow(p, Account(p[1], FALSE, home(p), FALSE), at, 0) : p \in aliases})
                             \o Rows({AccountRow(home(p), Account(p[1], TRUE, None, FALSE), at, 0) : p \in booked_})
                             \o Rows({Row("balance", home(p), TotalKey, [amount |-> at], at, at, 0) : p \in booked_})
                             \o Rows({AccountRow(s, [Said(s) EXCEPT !.open = FALSE], at, latestAccount(s)) : s \in dropped}),
                     flows |-> Rows(UNION {
                          {Row("transaction", home(p), <<m, nightly.link>>, Transaction(m, FALSE), at, 1, 0)
                             : m \in Fresh(home(p), mine(p))} : p \in booked_})]
  /\ UNCHANGED <<fact, batch, world, clock, nights, merging, history_>>

FlowsOf(dup) == <<"flows", dup[1], dup[2]>>
AssetsOf(dup) == <<"merge", dup[1], dup[2]>>
Crosses(rows) == \E f \in ToSet(rows) : \/ merging # NoMerge
                                       \/ {FlowsOf(f.subject), AssetsOf(f.subject)} \cap DOMAIN batch # {}

CommitAssets ==
  /\ nightly.step = "normalized"
  /\ commit(<<"assets", nightly.at>>, "assets_manager", nightly.assets)
  /\ nightly' = [nightly EXCEPT !.step = "assets"]
  /\ crossed' = (crossed \/ Crosses(nightly.assets))
  /\ UNCHANGED <<world, clock, nights, merging, booked>>

CommitFlows ==
  /\ nightly.step = "assets"
  /\ IF nightly.flows = <<>> THEN UNCHANGED <<fact, batch>>
     ELSE commit(<<"night", nightly.at>>, "cash_flow", nightly.flows)
  /\ nightly' = Idle
  /\ booked' = booked \cup nightly.moved
  /\ crossed' = (crossed \/ Crosses(nightly.flows))
  /\ UNCHANGED <<world, clock, nights, merging>>

-----------------------------------------------------------------------------
(* The merge of two subjects of one real account.                          *)

firstSeen(s) == CHOOSE i \in DOMAIN fact :
  /\ fact[i].kind = "account" /\ fact[i].subject = s
  /\ \A j \in 1 .. i - 1 : fact[j].kind = "account" => fact[j].subject # s

Unmerged(r) == {s \in KnownIds : Said(s).real = r /\ Said(s).into = None}

(* Mutant of findMergeCandidates: the survivor is paired with itself.       *)
WithItself ==
  UNION {LET group == Unmerged(r)
         IN  IF \E s \in group : Said(s).open THEN group \X group ELSE {} : r \in Reals}

(* The oldest survives; two closed accounts are left alone.                *)
findMergeCandidates ==
  UNION {LET group == Unmerged(r)
             head == CHOOSE s \in group : \A t \in group : firstSeen(s) <= firstSeen(t)
         IN  IF \E s \in group : Said(s).open THEN {<<head, dup>> : dup \in group \ {head}} ELSE {}
         : r \in Reals}

Earlier(j, i) == LET k == fact[j].key l == fact[i].key
                 IN  k[1] < l[1] \/ (k[1] = l[1] /\ k[2] < l[2])
Live(i) == ~fact[i].payload.voided
(* Mutant of Moved: what the survivor holds by content is moved again.      *)
MovedAll(survivor, dup) == {i \in CurrentTxns(dup) : Live(i)}

(* The movements of dup the survivor has not, as a multiset by content.    *)
Moved(survivor, dup) ==
  LET mine == CurrentTxns(survivor)
      theirs == {i \in CurrentTxns(dup) : Live(i)}
      same(S, i) == {j \in S : Live(j) /\ fact[j].payload.content = fact[i].payload.content}
  IN  {i \in theirs : /\ \A j \in mine : fact[j].key # fact[i].key
                      /\ Cardinality({j \in same(theirs, i) : Earlier(j, i)})
                           >= Cardinality(same(mine, i))}

(* Mutant of Restated: what the survivor has is left alone.                 *)
RestatedOnlyIfAbsent(survivor, dup) == {i \in {Balance(dup)} \ {0} : Balance(survivor) = 0}

(* The balance is restated when the duplicate's is the newer.              *)
Restated(survivor, dup) ==
  {i \in {Balance(dup)} \ {0} :
     Balance(survivor) = 0 \/ fact[Balance(survivor)].effective < fact[i].effective}

(* What both commits will hold is read at once; the flows are committed    *)
(* first.  Merges are bounded by the instants left for nights and upsets.  *)
MergeFlows(survivor, dup) ==
  /\ merging = NoMerge /\ <<survivor, dup>> \in findMergeCandidates
  /\ clock + 1 + (MaxNights - nights) + (MaxUpsets - upsets) \in Times
  /\ clock' = clock + 1
  /\ LET now == clock'
         live == {i \in CurrentTxns(dup) : Live(i)}
         moved == Moved(survivor, dup)
         flows == Rows({Row("transaction", survivor, fact[i].key, fact[i].payload, now, fact[i].effective, 0) : i \in moved}
                  \cup {Row("transaction", dup, fact[i].key, [fact[i].payload EXCEPT !.voided = TRUE], now,
                            fact[i].effective, i) : i \in live})
     IN  /\ IF flows = <<>> THEN UNCHANGED <<fact, batch>> ELSE commit(FlowsOf(dup), "cash_flow", flows)
         /\ merging' = [pair |-> <<survivor, dup>>,
                        assets |-> <<AccountRow(survivor, [Said(survivor) EXCEPT !.open = TRUE], now, latestAccount(survivor)),
                                     AccountRow(dup, [Said(dup) EXCEPT !.open = FALSE, !.into = survivor], now, latestAccount(dup))>>
                             \o Rows({Row("balance", survivor, TotalKey, fact[i].payload, now, fact[i].effective, Balance(survivor))
                                        : i \in Restated(survivor, dup)})]
  /\ UNCHANGED <<world, nightly, nights, history_>>

(* The marker lands last.                                                  *)
MergeAssets ==
  /\ merging # NoMerge
  /\ commit(AssetsOf(merging.pair[2]), "assets_manager", merging.assets)
  /\ merging' = NoMerge
  /\ UNCHANGED <<world, clock, nightly, nights, history_>>

(* The process that merges dies between the two.                           *)
Crash ==
  /\ merging # NoMerge /\ upsets < MaxUpsets
  /\ upsets' = upsets + 1
  /\ merging' = NoMerge
  /\ UNCHANGED <<fact, batch, link, links, gone, posted, clock, nightly, nights, history_>>

Next ==
  \/ \E m \in Movements : Post(m)
  \/ \E r \in Reals : StopReporting(r)
  \/ Relink \/ removeInstitution
  \/ \E s \in KnownIds, ignored \in BOOLEAN : setAccountIgnored(s, ignored)
  \/ Fetch \/ Normalize \/ CommitAssets \/ CommitFlows
  \/ \E pair \in findMergeCandidates : MergeFlows(pair[1], pair[2])
  \/ MergeAssets \/ Crash

Spec == Init /\ [][Next]_vars

-----------------------------------------------------------------------------
TypeOK ==
  /\ FactsTypeOK
  /\ link \in 0 .. links /\ links \in 1 .. MaxLinks /\ gone \subseteq Reals
  /\ booked \subseteq posted /\ posted \subseteq Movements
  /\ clock \in Times /\ nights \in 0 .. MaxNights /\ upsets \in 0 .. MaxUpsets
  /\ nightly.step \in {"idle", "fetched", "normalized", "assets"}
  /\ \A pair \in findMergeCandidates : pair[1] # pair[2]

Open(s) == Said(s).open /\ Said(s).into = None

(* However often it is relinked, removed and read again, a real account is *)
(* open under one subject at most.  A merge may reopen the oldest of three *)
(* while the youngest is still to be merged.                               *)
OneOpen ==
  ~crossed => \A r \in Reals :
    \/ \E s \in KnownIds : Said(s).real = r /\ AssetsOf(s) \in DOMAIN batch
    \/ Cardinality({s \in Unmerged(r) : Open(s)}) <= 1

(* Every subject merged away leads to one that is not, in the hops that    *)
(* are followed.                                                           *)
AliasesEnd == \A s \in KnownIds : Said(Survivor(s)).into = None /\ Said(Survivor(s)).real = Said(s).real

count(c) == Cardinality({i \in UNION {CurrentTxns(s) : s \in KnownIds} : Live(i) /\ fact[i].payload.content = c})
Contents == {Transaction(m, FALSE).content : m \in Movements}
Made(c) == Cardinality({m \in booked : Transaction(m, FALSE).content = c})
Settled(c) == Cardinality(Unmerged(c[1])) <= 1

(* What was reported and committed stays counted: no relink, hiding, merge *)
(* or death between a merge's commits loses a movement.                    *)
NothingLost == \A c \in Contents : count(c) >= Made(c)

(* Once no duplicate is left, every movement counts once, unless a night   *)
(* was in flight over the merge.                                           *)
CountedOnceInOrder == ~crossed => \A c \in Contents : Settled(c) => count(c) = Made(c)

(* The open account shows the newest balance known of the real account.    *)
NewestShown ==
  ~crossed => \A s \in KnownIds : Open(s) /\ Cardinality(Unmerged(Said(s).real)) = 1 =>
    \A i \in DOMAIN fact : fact[i].kind = "balance" /\ Said(fact[i].subject).real = Said(s).real =>
      fact[Balance(s)].payload.amount >= fact[i].payload.amount

(* He hid the account this subject stands for, and no subject of it is open.*)
AllClosed(r) == \A s \in KnownIds : Said(s).real = r => ~Said(s).open
HiddenAway(s) == Said(s).ignored /\ Said(s).into = None /\ AllClosed(Said(s).real)

(* What the operator hid stays out of the books until he restores it: no   *)
(* night, relink, removal or merge opens the account again, under the      *)
(* subject he hid or under another, whatever was merged into it before.    *)
(* The code does bring it back in three cases, which are left out: another *)
(* subject of the account is still open (the merge of the two opens its    *)
(* survivor, merge.ts:157-167), a merge that read the account before he    *)
(* hid it commits after, and a night was in flight over a merge.           *)
HiddenStays ==
  [][fact' # fact /\ ~crossed' /\ merging = NoMerge =>
       \A s \in KnownIds : HiddenAway(s) =>
         \/ AllClosed(Said(s).real)'
         \/ \E t \in KnownIds : setAccountIgnored(t, FALSE) /\ sameRealAccount(Said(t), Said(s).real)]_vars

(* One account in the world is one account in the books: open once, its    *)
(* aliases lead to it, and what it holds and moved counts once.            *)
OneAccount ==
  TypeOK /\ OneOpen /\ AliasesEnd /\ NothingLost /\ CountedOnceInOrder /\ NewestShown
=============================================================================
