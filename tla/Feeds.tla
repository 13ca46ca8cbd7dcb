--------------------------------- MODULE Feeds ---------------------------------
(***************************************************************************)
(* How movements reach the ledger through a connector: the window a fetch  *)
(* asks for (packages/actions/src/ingest/fetch.ts), each adapter's walk of *)
(* its provider's pages (packages/institutions/src), made while movements  *)
(* go on being posted, what an adapter does when a page fails, and the tax *)
(* lots the exchanges' adapters derive from what they walked.              *)
(*                                                                         *)
(* One connection of several wallets (accounts of a bank, currencies of an *)
(* exchange, addresses of a chain).  Movements are posted on the day they  *)
(* are dated; a provider serves its newest movements first.                *)
(***************************************************************************)
EXTENDS Integers, Sequences, FiniteSetsExt, SequencesExt

CONSTANTS Wallets,
          Qty,            \* what the first, second, ... movement moves
          DefaultDays, BackfillDays, ThresholdDays,
          PageSize, PageCap,
          MaxDay, MaxUpsets

ASSUME QtyAssumption == Qty \in Seq(Int \ {0})
ASSUME DaysAssumption == DefaultDays \in Nat \ {0} /\ ThresholdDays \in Nat /\ BackfillDays \in Nat
                         /\ DefaultDays < ThresholdDays /\ ThresholdDays < BackfillDays
ASSUME BoundsAssumption == PageSize \in Nat \ {0} /\ PageCap \in Nat /\ MaxDay \in Nat /\ MaxUpsets \in Nat

VARIABLES
  conn,      \* the adapter the connection is read by
  day,
  at,        \* the provider's movements, oldest first
  walk,      \* the fetch in flight
  recorded,  \* <<movement, how often it was read>>: the ledger's transactions
  shipped,   \* each wallet's lots in the last snapshot, or Withheld
  upsets,
  kept,      \* history: since when, up to which movement and when last the
             \* ledger was read for
  cutOff,    \* history: movements that cut walks left out, not asked for since
  shifted    \* history: pages counted from the newest movement have shifted

vars == <<conn, day, at, walk, recorded, shipped, upsets, kept, cutOff, shifted>>

Idle == [step |-> "idle"]
Withheld == <<>>
Owed(since, upto, last) == [since |-> since, upto |-> upto, last |-> last]

-----------------------------------------------------------------------------
(* The adapters: whether pages are counted from the newest movement or     *)
(* follow the last one read, how the last page is known, whether the       *)
(* provider or the walk keeps to the window, what may come of a page that  *)
(* fails and of too many pages, and whether it derives lots.               *)

plaid == [pages |-> "offset", ends |-> "count", window |-> "asked",
          failed |-> {"fail", "keep"}, capped |-> "never", lots |-> FALSE]
enablebanking == [pages |-> "cursor", ends |-> "cursor", window |-> "asked",
                  failed |-> {"narrow"}, capped |-> "never", lots |-> FALSE]
coinbase == [pages |-> "cursor", ends |-> "cursor", window |-> "none",
             failed |-> {"drop"}, capped |-> "drop", lots |-> TRUE]
coinbaseFlows == [coinbase EXCEPT !.window = "walked", !.lots = FALSE]
kraken == [pages |-> "offset", ends |-> "count", window |-> "none",
           failed |-> {"drop"}, capped |-> "drop", lots |-> TRUE]
esplora == [pages |-> "cursor", ends |-> "cursor", window |-> "walked",
            failed |-> {"keep"}, capped |-> "keep", lots |-> FALSE]
xpub == [pages |-> "offset", ends |-> "short", window |-> "walked",
         failed |-> {"fail"}, capped |-> "keep", lots |-> FALSE]

Adapters == {plaid, enablebanking, coinbase, kraken, esplora, xpub}

(* A Coinbase wallet with nothing in it is only read over the window.      *)
Reads(ws, held) == IF conn = coinbase /\ \A w \in ws : held[w] = 0 THEN coinbaseFlows ELSE conn

(* Plaid pages over all accounts, Kraken over all assets; the others take  *)
(* a wallet at a time.                                                     *)
Rounds == IF conn \in {plaid, kraken} THEN <<Wallets>>
          ELSE FoldSet(LAMBDA w, s : Append(s, {w}), <<>>, Wallets)

-----------------------------------------------------------------------------
(* The window.                                                             *)

Known == {r[1] : r \in recorded}
Dates(S) == {at[i].day : i \in S}

(* Mutant of backfillLookback: a year only for a ledger with nothing.       *)
BackfillOnce == IF Known = {} THEN BackfillDays ELSE DefaultDays

Shallow == \A d \in Dates(Known) : day - d < ThresholdDays
backfillLookback == IF Shallow THEN BackfillDays ELSE DefaultDays

-----------------------------------------------------------------------------
(* The walk.                                                               *)

Moved(ws, upto) == {i \in 1 .. upto : at[i].on \in ws}
Net(S) == FoldSet(LAMBDA i, sum : Qty[i] + sum, 0, S)
Round == Head(walk.left)
Way == Reads(Round, walk.held)

(* What the provider answers from, newest first.                           *)
Rows == SelectSeq(Reverse([i \in DOMAIN at |-> i]),
                  LAMBDA i : at[i].on \in Round /\ (Way.window = "asked" => at[i].day >= walk.from))

(* Mutant of Offset: the next page starts on the last row of this one.      *)
OffsetBack == IF walk.got = <<>> THEN 0 ELSE Len(walk.got) - 1

(* Every page but the last is full.                                        *)
Offset == Len(walk.got)
Page ==
  LET rest == IF Way.pages = "offset" THEN SubSeq(Rows, Offset + 1, Len(Rows))
              ELSE SelectSeq(Rows, LAMBDA i : walk.got # <<>> => i < Last(walk.got))
  IN  SubSeq(rest, 1, Min({PageSize, Len(rest)}))

PastWindow(page) ==
  Way.window = "walked" /\ (page # <<>> => at[Last(page)].day < walk.since)

(* Mutant of LastPage: a page that is not full is not needed to stop.       *)
LastAlways(page) == TRUE

LastPage(page) ==
  \/ page = <<>>
  \/ Way.ends = "count" /\ Len(walk.got) + Len(page) >= Len(Rows)
  \/ Way.ends = "short" /\ Len(page) < PageSize
  \/ Way.ends = "cursor" /\ \A i \in ToSet(Rows) : i >= Last(page)
  \/ PastWindow(page)

(* An explorer's walk stops, an exchange's fails, at its bound.            *)
AtCap(kind) == Way.capped = kind /\ walk.pages + (IF kind = "keep" THEN 1 ELSE 0) >= PageCap

Times(got) == [i \in DOMAIN Qty |-> Cardinality({k \in DOMAIN got : got[k] = i})]
NothingRead == [i \in DOMAIN Qty |-> 0]

-----------------------------------------------------------------------------
(* Lots.                                                                   *)

(* Mutant of Consume: what is sold is taken from the newest lots.           *)
ConsumeNewest(lots, qty) ==
  LET after(i) == FoldSet(LAMBDA j, s : lots[j] + s, 0, {j \in DOMAIN lots : j > i})
  IN  [i \in DOMAIN lots |-> lots[i] - Max({0, Min({lots[i], qty - after(i)})})]

(* Mutant of Consume: the oldest lot is reduced by all that is sold.        *)
ConsumeHead(lots, qty) ==
  LET head == Min({Len(lots)} \cup {i \in DOMAIN lots : lots[i] > 0})
  IN  [lots EXCEPT ![head] = @ - qty]

(* An outflow takes from the oldest lots first.                            *)
Consume(lots, qty) ==
  LET before(i) == FoldSet(LAMBDA j, s : lots[j] + s, 0, {j \in DOMAIN lots : j < i})
  IN  [i \in DOMAIN lots |-> lots[i] - Max({0, Min({lots[i], qty - before(i)})})]

(* The lots still open after the movements read, the net of all of them    *)
(* and what outflows could not be covered.                                 *)
deriveCoinbaseLots(times, w) ==
  FoldLeftDomain(LAMBDA d, i :
      LET moved == IF times[i] > 0 /\ at[i].on = w THEN Qty[i] * times[i] ELSE 0
          open == FoldSet(LAMBDA j, s : d.lots[j] + s, 0, DOMAIN Qty)
      IN  IF moved >= 0 THEN [d EXCEPT !.lots[i] = moved, !.net = @ + moved]
          ELSE [lots |-> Consume(d.lots, -moved), net |-> d.net + moved,
                short |-> d.short + Max({0, -moved - open})],
    [lots |-> NothingRead, net |-> 0, short |-> 0], at)

(* Kraken's ledger is one of all assets.                                   *)
deriveKrakenLots(times) == [w \in Wallets |-> deriveCoinbaseLots(times, w)]

LotsOf(times, w) == IF conn = kraken THEN deriveKrakenLots(times)[w] ELSE deriveCoinbaseLots(times, w)

(* Mutant of lotsFor: lots that do not add up to the balance are shipped.   *)
LotsAnyway(times, w, held) ==
  LET d == LotsOf(times, w) IN IF d.short # 0 \/ held = 0 THEN Withheld ELSE d.lots

(* Lots that do not add up to the balance are withheld.                    *)
lotsFor(times, w, held) ==
  LET d == LotsOf(times, w) IN IF d.short # 0 \/ d.net # held \/ held = 0 THEN Withheld ELSE d.lots

-----------------------------------------------------------------------------
(* The transactions of a snapshot: <<movement, id>>.                       *)

coinbaseTransactions(w) == {<<i, 1>> : i \in {j \in DOMAIN at : w.times[j] > 0 /\ at[j].day >= w.since}}

(* Movements on a chain carry no dollar value: one whose day has no price  *)
(* is left out.                                                            *)
esploraMovements(w) == {i \in DOMAIN at : w.times[i] > 0}
chainTransactions(w, unpriced) ==
  {<<i, 1>> : i \in {j \in esploraMovements(w) \ unpriced : at[j].day >= w.since}}

(* Kraken's entries are put together by their reference; one that was read *)
(* twice falls apart into its legs, under ids of their own.                *)
krakenTransactions(w, unpriced) ==
  {<<t[1], IF w.times[t[1]] > 1 THEN 2 ELSE 1>> : t \in chainTransactions(w, unpriced)}

Valued == {kraken, esplora, xpub}
Transactions(w, unpriced) ==
  CASE conn = kraken -> krakenTransactions(w, unpriced)
    [] conn \in {esplora, xpub} -> chainTransactions(w, unpriced)
    [] OTHER -> coinbaseTransactions(w)

-----------------------------------------------------------------------------
(* The provider and the days.                                              *)

Init ==
  /\ conn \in Adapters
  /\ day = 1 /\ at = <<>> /\ walk = Idle /\ recorded = {} /\ upsets = 0
  /\ shipped = [w \in Wallets |-> Withheld]
  /\ kept = Owed(0, 0, 0) /\ cutOff = {} /\ shifted = FALSE

(* A wallet is never overdrawn.  A movement that comes while pages are     *)
(* counted shifts them.                                                    *)
Post(w) ==
  /\ Len(at) < Len(Qty)
  /\ Net(Moved({w}, Len(at))) + Qty[Len(at) + 1] >= 0
  /\ at' = Append(at, [day |-> day, on |-> w])
  /\ LET shifts == walk # Idle /\ conn.pages = "offset" /\ walk.pages > 0 /\ w \in Round
     IN  /\ walk' = IF shifts THEN [walk EXCEPT !.shifted = TRUE] ELSE walk
         /\ shifted' = (shifted \/ shifts)
  /\ UNCHANGED <<conn, day, recorded, shipped, upsets, kept, cutOff>>

NextDay ==
  /\ day < MaxDay /\ walk = Idle
  /\ day' = day + 1
  /\ UNCHANGED <<conn, at, walk, recorded, shipped, upsets, kept, cutOff, shifted>>

-----------------------------------------------------------------------------
(* A fetch.                                                                *)

(* The window is the ledger's to choose, the balances are read first.      *)
Fetch ==
  /\ walk = Idle
  /\ walk' = [step |-> "walking", since |-> day - backfillLookback, from |-> day - backfillLookback,
              wide |-> Shallow,
              held |-> [w \in Wallets |-> Net(Moved({w}, Len(at)))], upto |-> Len(at),
              left |-> Rounds, got |-> <<>>, pages |-> 0, times |-> NothingRead,
              cut |-> FALSE, shifted |-> FALSE, broken |-> FALSE, failed |-> {}]
  /\ UNCHANGED <<conn, day, at, recorded, shipped, upsets, kept, cutOff, shifted>>

(* What a fetch is to bring: a year while the ledger is shallow.           *)
OwedFrom(w) == day - IF w.wide THEN BackfillDays ELSE DefaultDays

(* The snapshot is normalised: what the ledger does not know is new.       *)
Deliver(w) ==
  \E unpriced \in SUBSET IF conn \in Valued THEN esploraMovements(w) ELSE {} :
    /\ upsets + Cardinality(unpriced) <= MaxUpsets
    /\ upsets' = upsets + Cardinality(unpriced)
    /\ recorded' = recorded \cup Transactions(w, unpriced)
    /\ shipped' = [v \in Wallets |->
         IF conn.lots /\ v \notin w.failed THEN lotsFor(w.times, v, w.held[v]) ELSE Withheld]
    /\ LET owed == {i \in 1 .. w.upto : at[i].day >= OwedFrom(w)}
       IN  /\ kept' = Owed(IF kept.last = 0 \/ day - kept.last > DefaultDays THEN OwedFrom(w) ELSE kept.since,
                           w.upto, day)
           /\ cutOff' = IF w.cut \/ unpriced # {} THEN cutOff \cup (owed \ Known') ELSE cutOff \ owed
    /\ walk' = Idle

(* The wallets of this round are done.                                     *)
NextRound(w) ==
  IF Len(w.left) = 1 THEN Deliver(w)
  ELSE /\ walk' = [w EXCEPT !.left = Tail(@), !.got = <<>>, !.pages = 0, !.from = w.since]
       /\ UNCHANGED <<recorded, shipped, kept, cutOff, upsets>>

Keep(got) == [i \in DOMAIN Qty |-> walk.times[i] + Times(got)[i]]
Dropped == [walk EXCEPT !.cut = TRUE, !.failed = @ \cup Round]

ReadPage ==
  /\ walk # Idle
  /\ ~walk.broken /\ ~AtCap("drop")
  /\ LET got == walk.got \o Page
     IN  IF LastPage(Page) \/ AtCap("keep")
         THEN NextRound([walk EXCEPT !.times = Keep(got), !.cut = @ \/ ~LastPage(Page)])
         ELSE /\ walk' = [walk EXCEPT !.got = got, !.pages = @ + 1]
              /\ UNCHANGED <<recorded, shipped, kept, cutOff, upsets>>
  /\ UNCHANGED <<conn, day, at, shifted>>

TooLong ==
  /\ walk # Idle /\ ~walk.broken /\ AtCap("drop")
  /\ NextRound(Dropped)
  /\ UNCHANGED <<conn, day, at, shifted>>

(* A page fails.  What is read is kept or the rounds go on without it, the *)
(* fetch fails, or a year's window is given up for the default one.        *)
FailPage ==
  /\ walk # Idle /\ ~walk.broken /\ upsets < MaxUpsets
  /\ upsets' = upsets + 1
  /\ \/ /\ "fail" \in Way.failed \/ ("narrow" \in Way.failed /\ ~walk.wide)
        /\ walk' = Idle
     \/ /\ Way.failed \cap {"keep", "drop"} # {}
        /\ walk' = [walk EXCEPT !.broken = TRUE]
     \/ /\ "narrow" \in Way.failed /\ walk.wide
        /\ walk' = [walk EXCEPT !.got = <<>>, !.pages = 0, !.cut = TRUE, !.from = day - DefaultDays]
  /\ UNCHANGED <<conn, day, at, recorded, shipped, kept, cutOff, shifted>>

GoOn ==
  /\ walk # Idle /\ walk.broken
  /\ NextRound(IF "keep" \in Way.failed THEN [walk EXCEPT !.times = Keep(walk.got), !.cut = TRUE, !.broken = FALSE]
               ELSE [Dropped EXCEPT !.broken = FALSE])
  /\ UNCHANGED <<conn, day, at, shifted>>

(* The process dies: the resumed run fetches anew.                         *)
Crash ==
  /\ walk # Idle /\ upsets < MaxUpsets
  /\ upsets' = upsets + 1 /\ walk' = Idle
  /\ UNCHANGED <<conn, day, at, recorded, shipped, kept, cutOff, shifted>>

Next ==
  \/ \E w \in Wallets : Post(w)
  \/ NextDay \/ Fetch \/ ReadPage \/ TooLong \/ FailPage \/ GoOn \/ Crash

Spec == Init /\ [][Next]_vars

-----------------------------------------------------------------------------
(* What must hold.                                                         *)

TypeOK ==
  /\ conn \in Adapters /\ day \in 1 .. MaxDay /\ upsets \in 0 .. MaxUpsets
  /\ at \in Seq([day : 1 .. MaxDay, on : Wallets]) /\ Len(at) <= Len(Qty)
  /\ recorded \subseteq ((DOMAIN at) \X {1, 2})
  /\ shipped \in [Wallets -> {Withheld} \cup [DOMAIN Qty -> Nat]]
  /\ walk # Idle => /\ walk.left # <<>> /\ ToSet(walk.got) \subseteq DOMAIN at
                    /\ walk.upto <= Len(at) /\ walk.from >= walk.since
  /\ kept \in [since : Int, upto : Nat, last : Nat] /\ cutOff \subseteq DOMAIN at /\ shifted \in BOOLEAN

(* The ledger has every movement posted since a year before the first      *)
(* fetch that delivered or, after a pause longer than the default window,  *)
(* since what the fetch that ended it was owed: all but what a cut walk    *)
(* (a page that failed, a history too long, a day's price missing) left    *)
(* out and no whole fetch was owed since.  The year is asked for again     *)
(* while the ledger is shallow; a cut walk that came past the threshold    *)
(* ends that, and what it left out stays out (backfillLookback: fetch.ts). *)
NothingSlipsThrough ==
  \A i \in 1 .. kept.upto : at[i].day >= kept.since => i \in Known \cup cutOff

(* No movement is in the ledger twice under two ids, unless movements were *)
(* posted while pages counted from the newest were read (kraken.ts,        *)
(* crypto-flows.ts).                                                       *)
RecordedOnce == \A i \in DOMAIN at : {<<i, 1>>, <<i, 2>>} \subseteq recorded => shifted

(* The lots an exchange's adapter ships add up to the balance it read when *)
(* the fetch began, and are what first-in-first-out leaves of the history: *)
(* the last units taken in, whatever was traded while it was walked.  Only *)
(* pages that shift can make two errors cancel (coinbase-lots.ts,          *)
(* kraken-lots.ts).                                                        *)
LastUnits(i, upto) ==
  LET later == {j \in (i + 1) .. upto : at[j].on = at[i].on /\ Qty[j] > 0}
      held == Net(Moved({at[i].on}, upto))
  IN  IF Qty[i] < 0 THEN 0 ELSE Max({0, Min({Qty[i], held - Net(later)})})

ShippedLotsTrue ==
  [][shipped' # shipped =>
       \A w \in Wallets : LET lots == shipped'[w] IN lots # Withheld =>
         /\ FoldSet(LAMBDA i, sum : lots[i] + sum, 0, DOMAIN Qty) = walk.held[w]
         /\ shifted \/ \E upto \in walk.upto .. Len(at) :
              \A i \in DOMAIN Qty : lots[i] = IF i <= upto /\ at[i].on = w THEN LastUnits(i, upto) ELSE 0]_vars

(* Every movement of the provider's history comes to the ledger, once.     *)
MovementsOnce == TypeOK /\ NothingSlipsThrough /\ RecordedOnce
===============================================================================
