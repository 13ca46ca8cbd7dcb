------------------------------- MODULE Detectors -------------------------------
(***************************************************************************)
(* What reconciliation asks about (reconcile.ts) and record_findings       *)
(* closes again: institutions that did not answer, accounts that came and  *)
(* went, addresses watched twice, transfers typed as income, balances that *)
(* froze, corrected forms, lots and positions without a basis, swaps, and  *)
(* positions that do not add up.  (Old balances and duplicates are in      *)
(* Nightly.)  A behavior is about one topic, chosen at the start.  A night *)
(* reads the feed and the ledger, commits what it read, and then records   *)
(* what it drafted; nights may overlap, and the operator answers at any    *)
(* time.                                                                   *)
(***************************************************************************)
EXTENDS Integers, Sequences, FiniteSets, SequencesExt, FiniteSetsExt

CONSTANTS Topics,
          Institutions,
          Wallets,          \* account ids, as they sort
          Addresses,
          Totals,           \* what a balance may be
          FedForms,         \* what a feed may say of a form: totals, corrected
          FedLots,          \* ... of a lot: quantity, cost
          FedHoldings,      \* ... of a position: quantity, cost, value
          Pairs,            \* transfers found: group, whether the in leg was typed as income
          Instants,         \* movements of one instant, in the feed's order
          MaxAge,           \* thresholds.staleBalanceDays
          MaxNights, LastEvening, MaxOverlaps,   \* by topic
          MaxDismissals,
          NoValue

ASSUME WalletsAssumption == Wallets \subseteq Int /\ MaxAge \in Nat

VARIABLES
  topic,
  kept,         \* what the ledger says
  night,        \* per night: where it is, what it read and drafted
  queue,        \* findings: code, what it is about, fingerprint, night, open
  undisturbed,  \* the night whose record was the last that happened, if nothing crossed it
  overlaps,     \* how many nights began while another was under way
  evening, dismissals

DetectorNights == 1 .. MaxNights[topic]   \* in the order they start

DetectorsVars == <<topic, kept, night, queue, undisturbed, overlaps, evening, dismissals>>

Nothing ==
  [failed |-> {}, answered |-> {}, listed |-> NoValue, wallets |-> <<>>, total |-> NoValue, moves |-> FALSE,
   form |-> NoValue, lot |-> NoValue, holding |-> NoValue, pairs |-> {}, legs |-> <<>>]

AnswersRead(f, a) == [Nothing EXCEPT !.failed = f, !.answered = a]
TotalRead(t, m)   == [Nothing EXCEPT !.total = t, !.moves = m]
LotRead(l, h)     == [Nothing EXCEPT !.lot = l, !.holding = h]
SumRead(h, t)     == [Nothing EXCEPT !.holding = h, !.total = t]
MovesRead(p, l)   == [Nothing EXCEPT !.pairs = p, !.legs = l]

(* What a night may read, by topic.                                        *)
Readings ==
  [answers |-> UNION {{AnswersRead(f, a) : a \in SUBSET (Institutions \ f)} : f \in SUBSET Institutions},
   accounts |-> {[Nothing EXCEPT !.listed = s] : s \in SUBSET Wallets},
   wallets |-> {[Nothing EXCEPT !.wallets = w] : w \in UNION {[s -> SUBSET Addresses] : s \in SUBSET Wallets}},
   totals  |-> {TotalRead(t, m) : t \in Totals, m \in BOOLEAN},
   forms   |-> {[Nothing EXCEPT !.form = f] : f \in FedForms},
   lots    |-> {LotRead(l, h) : l \in FedLots, h \in FedHoldings},
   sums    |-> {SumRead(h, t) : h \in FedHoldings, t \in Totals},
   moves   |-> {MovesRead(p, l) : p \in SUBSET Pairs, l \in Instants}]

ASSUME TopicsAssumption == Topics \subseteq DOMAIN Readings /\ \A t \in Topics : MaxNights[t] \in Nat

Idle == [at |-> "waits", in |-> Nothing, proposed |-> NoValue, day |-> 1, drafts |-> {}, standing |-> {}, alone |-> TRUE]

DetectorsInit ==
  /\ topic \in Topics
  /\ kept = [open |-> {}, closed |-> {}, watched |-> [w \in Wallets |-> {}], totals |-> <<>>,
             posts |-> {}, form |-> NoValue, lot |-> NoValue]
  /\ night = [r \in DetectorNights |-> Idle]
  /\ queue = {} /\ undisturbed = 0 /\ overlaps = 0 /\ evening = 1 /\ dismissals = 0

DetectorsTypeOK ==
  /\ topic \in DOMAIN Readings
  /\ \A r \in DetectorNights : night[r].at \in {"waits", "commit", "record", "over"} /\ night[r].in \in Readings[topic] \cup {Nothing}
  /\ \A f \in queue : f.night \in DetectorNights /\ f.open \in BOOLEAN
  /\ kept.open \cap kept.closed = {} /\ kept.watched \in [Wallets -> SUBSET Addresses]
  /\ undisturbed \in DetectorNights \cup {0} /\ evening \in 1 .. LastEvening[topic]

-----------------------------------------------------------------------------
(* A draft is known again by what it is about.                             *)
Draft(code, thing, fingerprint) == [code |-> code, thing |-> thing, fingerprint |-> fingerprint]

(* Mutant of emit: the night is part of what identifies a condition.        *)
emitDated(code, thing) == Draft(code, thing, <<thing, evening>>)

emit(code, thing) == Draft(code, thing, thing)

(* Each failure is its own: its fingerprint holds the time of the fetch.   *)
FetchFailures(in, r) == {emit("fetch_failed", <<i, r>>) : i \in in.failed}

NewAccounts(in) ==
  IF in.listed = NoValue THEN {}
  ELSE {emit("unknown_account", a) : a \in in.listed \ (kept.open \cup kept.closed)}
         \cup {emit("account_gone", a) : a \in kept.open \ in.listed}

(* Tonight's accounts over the ledger's open ones: the accounts that watch *)
(* an address, for each that two or more watch.                            *)
Overlaid(wallets) == [w \in Wallets |-> IF w \in DOMAIN wallets THEN wallets[w] ELSE kept.watched[w]]
TwiceIn(watched) ==
  {<<a, {w \in Wallets : a \in watched[w]}>> :
     a \in {b \in Addresses : Cardinality({w \in Wallets : b \in watched[w]}) > 1}}

(* Mutant of StillWatchedTwice: only what is in the ledger already.         *)
WatchedTwiceInLedger(in) == TwiceIn(kept.watched)

StillWatchedTwice(in) == TwiceIn(Overlaid(in.wallets))
AddressesWatchedTwice(in) == {emit("address_watched_twice", c) : c \in StillWatchedTwice(in)}

IncomeTransfers(in) ==
  {emit("internal_transfer_booked_as_income", p.group) : p \in {q \in in.pairs : q.income}}

(* The total that counts, and the oldest of the run of equal ones it ends. *)
LatestTotal ==
  CHOOSE i \in DOMAIN kept.totals : \A j \in DOMAIN kept.totals :
    \/ kept.totals[j].day < kept.totals[i].day
    \/ kept.totals[j].day = kept.totals[i].day /\ j <= i

(* Mutant of OldestIdentical: the first of all the equal ones.              *)
OldestEver(last) ==
  kept.totals[Min({i \in 1 .. last : kept.totals[i].amount = kept.totals[last].amount})]

OldestIdentical(last) ==
  kept.totals[Min({i \in 1 .. last : \A j \in i .. last : kept.totals[j].amount = kept.totals[last].amount})]

(* A day of grace: a movement's day and a fetch's time do not compare.     *)
ActivitySince(in, since) == in.moves \/ \E d \in kept.posts : d >= since - 1

StaleBalances(in) ==
  IF in.total = NoValue \/ kept.totals = <<>> THEN {}
  ELSE LET since == OldestIdentical(LatestTotal).day
       IN  IF /\ kept.totals[LatestTotal].amount = in.total
              /\ evening - since > MaxAge /\ ActivitySince(in, since)
             THEN {emit("stale_balance", <<in.total, since>>)}
             ELSE {}

(* The form as it is to be kept: one that supersedes is kept as corrected. *)
FormOf(in) ==
  IF in.form = NoValue THEN NoValue
  ELSE IF kept.form = NoValue THEN [totals |-> in.form.totals, corrected |-> in.form.corrected, version |-> 1]
  ELSE IF kept.form.totals = in.form.totals /\ kept.form.corrected = in.form.corrected THEN kept.form
  ELSE [totals |-> in.form.totals, corrected |-> TRUE, version |-> kept.form.version + 1]

CorrectedTaxDocuments(in) ==
  IF in.form = NoValue \/ kept.form = NoValue THEN {}
  ELSE {emit("corrected_tax_document", <<FormOf(in), kept.form.totals>>) : f \in {FormOf(in)} \ {kept.form}}

(* A lot that is no longer listed is kept at nothing.  A changed lot is     *)
(* asked about; a position, when no lot speaks for it.                      *)
LotOf(in) ==
  IF in.lot = NoValue \/ (in.lot.quantity = 0 /\ kept.lot = NoValue) THEN kept.lot
  ELSE IF in.lot.quantity = 0 THEN [kept.lot EXCEPT !.quantity = 0]
  ELSE in.lot
LotChanged(in) == LotOf(in) # kept.lot

MissingLotBasis(in) ==
  IF LotChanged(in) /\ LotOf(in).cost = NoValue THEN {emit("missing_cost_basis", <<"lot", LotOf(in).quantity>>)} ELSE {}

HasLots(in) == LotChanged(in) \/ (kept.lot # NoValue /\ kept.lot.quantity # 0)
MissingPositionBasis(in) ==
  IF \/ in.holding = NoValue \/ topic = "sums"
     \/ in.holding.quantity = 0 \/ HasLots(in)
     \/ ~(in.holding.cost = NoValue \/ (in.holding.cost = 0 /\ in.holding.value # NoValue /\ in.holding.value > 0))
    THEN {}
    ELSE {emit("missing_cost_basis", <<"position", in.holding>>)}

(* A swap the feed marks, or one crypto out and another in at one instant  *)
(* with no money beside it: the leg that goes out is the disposal.         *)
Unmarked(legs) == SelectSeq(legs, LAMBDA l : ~l.marked)
Going(legs) ==
  SelectSeq(Unmarked(legs), LAMBDA l : l.asset # "cash" /\ l.amount <= 0 /\ l.type # "sell")
Coming(legs) ==
  SelectSeq(Unmarked(legs), LAMBDA l : /\ l.asset # "cash" /\ l.amount >= 0 /\ l.type # "buy"
                                       /\ Going(legs) # <<>> => l.asset # Going(legs)[1].asset)
CryptoSwaps(in) ==
  {emit("crypto_swap_taxable_event", l.txn) : l \in {k \in ToSet(in.legs) : k.marked}}
    \cup (IF /\ Len(Unmarked(in.legs)) > 1 /\ Going(in.legs) # <<>> /\ Coming(in.legs) # <<>>
             /\ \A l \in ToSet(Unmarked(in.legs)) : l.asset # "cash"
            THEN {emit("crypto_swap_taxable_event", Going(in.legs)[1].txn)}
            ELSE {})

(* Half a percent of the total, and one unit at least, is let pass.        *)
SizeOf(n) == IF n < 0 THEN -n ELSE n
Off(sum, total) == SizeOf(sum - total) > 1 /\ 200 * SizeOf(sum - total) > SizeOf(total)
PositionBalanceMismatch(in) ==
  IF \/ in.holding = NoValue \/ in.total = NoValue
     \/ in.holding.value = NoValue
     \/ ~Off(in.holding.value, in.total)
    THEN {}
    ELSE {emit("position_balance_mismatch", <<in.holding.value, in.total>>)}

Detect(in, r) ==
  UNION {FetchFailures(in, r), NewAccounts(in), AddressesWatchedTwice(in), IncomeTransfers(in),
         StaleBalances(in), CorrectedTaxDocuments(in), MissingLotBasis(in), MissingPositionBasis(in),
         CryptoSwaps(in), PositionBalanceMismatch(in)}

DedupeForever ==
  {"missing_cost_basis", "corrected_tax_document", "crypto_swap_taxable_event", "unknown_account",
   "account_gone", "internal_transfer_booked_as_income"}

Suppressed(d) ==
  \E f \in queue : f.code = d.code /\ f.fingerprint = d.fingerprint /\ (d.code \in DedupeForever \/ f.open)

-----------------------------------------------------------------------------
(* What normalize proposed against the ledger as it was read.              *)
Proposed(in) ==
  [listed |-> IF in.listed = NoValue THEN {} ELSE in.listed,
   gone   |-> IF in.listed = NoValue THEN {} ELSE kept.open \ in.listed,
   form   |-> FormOf(in),
   lot    |-> LotOf(in)]

UnderWay(r) == night[r].at \in {"commit", "record"}

(* Every other night under way has been crossed.                           *)
Crossed(r) == [q \in DetectorNights |-> IF q # r /\ UnderWay(q) THEN [night[q] EXCEPT !.alone = FALSE] ELSE night[q]]

Reconciles(r, in) ==
  /\ night[r].at = "waits" /\ \A q \in 1 .. r - 1 : night[q].at # "waits"
  /\ LET crossed == \E q \in DetectorNights : UnderWay(q)
     IN  /\ night' = [Crossed(r) EXCEPT ![r] =
                        [at |-> "commit", in |-> in, proposed |-> Proposed(in), day |-> evening,
                         drafts |-> {d \in Detect(in, r) : ~Suppressed(d)},
                         standing |-> StillWatchedTwice(in), alone |-> ~crossed]]
         /\ crossed => overlaps < MaxOverlaps[topic]
         /\ overlaps' = overlaps + (IF crossed THEN 1 ELSE 0)
  /\ undisturbed' = 0
  /\ UNCHANGED <<topic, kept, queue, evening, dismissals>>

Commits(r) ==
  /\ night[r].at = "commit"
  /\ LET in == night[r].in proposed == night[r].proposed
     IN  kept' = [open    |-> (kept.open \cup proposed.listed) \ proposed.gone,
                  closed  |-> (kept.closed \ proposed.listed) \cup proposed.gone,
                  watched |-> Overlaid(in.wallets),
                  totals  |-> IF in.total = NoValue THEN kept.totals
                              ELSE Append(kept.totals, [amount |-> in.total, day |-> night[r].day]),
                  posts   |-> IF in.moves THEN kept.posts \cup {night[r].day} ELSE kept.posts,
                  form    |-> IF in.form = NoValue THEN kept.form ELSE proposed.form,
                  lot     |-> IF in.lot = NoValue THEN kept.lot ELSE proposed.lot]
  /\ night' = [Crossed(r) EXCEPT ![r].at = "record"] /\ undisturbed' = 0
  /\ UNCHANGED <<topic, queue, overlaps, evening, dismissals>>

(* Mutant of Moot: a failure is closed by the night it was told in only.    *)
MootTonight(f, r) ==
  \/ f.code = "fetch_failed" /\ f.thing[1] \in night[r].in.answered /\ f.night = r
  \/ f.code = "address_watched_twice" /\ f.fingerprint \notin night[r].standing

(* What the institution's answer, or an account that closed, has settled.  *)
Moot(f, r) ==
  \/ f.code = "fetch_failed" /\ f.thing[1] \in night[r].in.answered
  \/ f.code = "address_watched_twice" /\ f.fingerprint \notin night[r].standing

Records(r) ==
  /\ night[r].at = "record"
  /\ LET asked == queue \cup {[code |-> d.code, thing |-> d.thing, fingerprint |-> d.fingerprint,
                               night |-> r, open |-> TRUE] : d \in night[r].drafts}
     IN  queue' = {IF f.open /\ Moot(f, r) THEN [f EXCEPT !.open = FALSE] ELSE f : f \in asked}
  /\ night' = [Crossed(r) EXCEPT ![r].at = "over"]
  /\ undisturbed' = IF night[r].alone THEN r ELSE 0
  /\ UNCHANGED <<topic, kept, overlaps, evening, dismissals>>

DismissesFinding(f) ==
  /\ f.open /\ dismissals < MaxDismissals /\ dismissals' = dismissals + 1
  /\ queue' = (queue \ {f}) \cup {[f EXCEPT !.open = FALSE]}
  /\ night' = Crossed(0) /\ undisturbed' = 0
  /\ UNCHANGED <<topic, kept, overlaps, evening>>

EveningPasses ==
  /\ evening < LastEvening[topic] /\ evening' = evening + 1
  /\ UNCHANGED <<topic, kept, night, queue, undisturbed, overlaps, dismissals>>

DetectorsNext ==
  \/ \E r \in DetectorNights : (\E in \in Readings[topic] : Reconciles(r, in)) \/ Commits(r) \/ Records(r)
  \/ \E f \in queue : DismissesFinding(f)
  \/ EveningPasses

-----------------------------------------------------------------------------
Open(code) == {f \in queue : f.open /\ f.code = code}

(* Once a night is recorded that nothing crossed, the queue tells the      *)
(* truth: who failed tonight and nobody who answered is in it, the         *)
(* addresses watched twice are in it and no others, a total that did not   *)
(* move for longer than the threshold while movements posted is in it, and *)
(* every account that came or went and every lot without a basis has been  *)
(* told.                                                                   *)
QueueTellsTrue ==
  undisturbed # 0 =>
    LET in   == night[undisturbed].in
        told(code) == {f.thing : f \in {g \in queue : g.code = code}}
    IN  /\ \A f \in Open("fetch_failed") : f.thing[1] \notin in.answered
        /\ \A i \in in.failed : \E f \in Open("fetch_failed") : f.thing[1] = i
        /\ {f.thing : f \in Open("address_watched_twice")} = TwiceIn(kept.watched)
        /\ \A i \in DOMAIN kept.totals :
             /\ overlaps = 0 /\ in.total # NoValue /\ night[undisturbed].day - kept.totals[i].day > MaxAge
             /\ \A j \in i .. Len(kept.totals) : kept.totals[j].amount = in.total
             /\ \E d \in kept.posts : d >= kept.totals[i].day
             => Open("stale_balance") # {}
        /\ kept.open \subseteq told("unknown_account") /\ kept.closed \subseteq told("account_gone")
        /\ kept.lot # NoValue /\ kept.lot.cost = NoValue => <<"lot", kept.lot.quantity>> \in told("missing_cost_basis")

(* While nights do not overlap one condition is one question: never two    *)
(* open at once, and for the codes that are told once never a second even  *)
(* after an answer.                                                        *)
ToldOnce ==
  overlaps = 0 =>
    \A f, g \in queue :
      f.code = g.code /\ f.thing = g.thing /\ f # g => f.code \notin DedupeForever /\ ~(f.open /\ g.open)

(* Whoever is told the total is frozen is told of one stretch of equal     *)
(* totals: it has not been anything else since the day the finding names.  *)
FrozenSinceThen ==
  undisturbed # 0 /\ overlaps = 0 =>
    \A f \in {g \in Open("stale_balance") : g.night = undisturbed} :
      \A i \in DOMAIN kept.totals : kept.totals[i].day > f.thing[2] => kept.totals[i].amount = f.thing[1]
================================================================================
