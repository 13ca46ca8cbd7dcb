------------------------------ MODULE TaxFigures ------------------------------
(***************************************************************************)
(* The quarter's estimate (tax/math.ts and estimateQuarter in              *)
(* tax/handlers.ts): income and realized gains of the year so far,         *)
(* annualized, against the prior year's safe harbour, less what was        *)
(* withheld and paid.  Between two estimates movements post, the feed      *)
(* lists what is left of the lots that were sold, accounts are held, and   *)
(* the operator pays what was asked.  The year is compressed to a few      *)
(* days; money is in units whose quotients are whole.                      *)
(***************************************************************************)
EXTENDS Integers, Sequences, FiniteSets, SequencesExt, FiniteSetsExt

CONSTANTS Quarters,    \* per quarter: the last day of its period, and its due day
          YearLength, WashDays,
          Postings,    \* the movements that may post, with the days they may
          FirstLots,   \* what the lots may be at the start of the year
          Profile,     \* rates in percent, last year's tax, withholding
          NoBasis, NotAsked, Refused, Throws

ASSUME QuartersAssumption ==
  /\ Len(Quarters) = 4
  /\ \A q \in 1 .. 4 : Quarters[q].end \in Nat /\ Quarters[q].due \in Nat /\ Quarters[q].end < Quarters[q].due
  /\ \A q \in 1 .. 3 : Quarters[q].due <= Quarters[q + 1].end

VARIABLES
  posted,   \* the movements in the ledger, each with its day
  taxLots,  \* the lots in force
  lotFeed,  \* whether the feed lists lots, so that a sale consumes them
  heldNow,  \* a contributing account is held
  asked,    \* per quarter: the installment its due check asked
  settled,  \* the quarters whose installment was paid as asked
  moved,    \* the quarters whose figures something changed after they were asked
  taxDay

TaxFiguresVars == <<posted, taxLots, lotFeed, heldNow, asked, settled, moved, taxDay>>

TaxFiguresTypeOK ==
  /\ \A t \in posted : t.day \in 1 .. Quarters[4].due
  /\ \A l \in DOMAIN taxLots : taxLots[l].quantity \in Nat /\ taxLots[l].cost \in Nat \cup {NoBasis}
  /\ \A q \in 1 .. 4 : asked[q] = NotAsked \/ asked[q] \in Nat
  /\ settled \subseteq 1 .. 4 /\ moved \subseteq 1 .. 4
  /\ taxDay \in 1 .. Quarters[4].due + 1

TaxFiguresInit ==
  /\ posted = {} /\ taxLots \in FirstLots /\ lotFeed \in BOOLEAN /\ heldNow = FALSE
  /\ asked = [q \in 1 .. 4 |-> NotAsked] /\ settled = {} /\ moved = {} /\ taxDay = 1

-----------------------------------------------------------------------------
SumOf(S, Of(_)) == MapThenSumSet(Of, S)
ToWhole(n, d) == (2 * n + d) \div (2 * d)
AtLeastNil(n) == IF n > 0 THEN n ELSE 0

(* Months' share of a year, in tenths, and the shares that are due by now, *)
(* in thousandths.                                                         *)
quarterSpec ==
  << [factor |-> 40, annualizedShare |-> 225, safeHarborShare |-> 250],
     [factor |-> 24, annualizedShare |-> 450, safeHarborShare |-> 500],
     [factor |-> 15, annualizedShare |-> 675, safeHarborShare |-> 750],
     [factor |-> 10, annualizedShare |-> 900, safeHarborShare |-> 1000] >>

ordinaryIncome(q) ==
  SumOf({t \in posted : t.type = "income" /\ t.day <= Quarters[q].end /\ ~t.internal}, LAMBDA t : t.amount)

(* A lot listed at nothing, with a basis: its basis per share has no value.*)
ReadThrows == \E l \in DOMAIN taxLots : taxLots[l].cost # NoBasis /\ taxLots[l].quantity = 0

LotQueue ==
  LET ids == SetToSortSeq(DOMAIN taxLots,
                          LAMBDA k, l : \/ taxLots[k].acquired < taxLots[l].acquired
                                        \/ taxLots[k].acquired = taxLots[l].acquired /\ k < l)
  IN  [i \in DOMAIN ids |-> [lot |-> ids[i], left |-> taxLots[ids[i]].quantity]]

(* Lots come off the front of the queue while shares remain.               *)
Consume(queue, quantity) ==
  LET step(s, e) ==
        LET take == IF e.left < s.remaining THEN e.left ELSE s.remaining
        IN  IF s.remaining = 0 THEN [s EXCEPT !.queue = Append(@, e)]
            ELSE [remaining |-> s.remaining - take,
                  taken     |-> Append(s.taken, [lot |-> e.lot, shares |-> take]),
                  queue     |-> IF e.left = take THEN s.queue
                                ELSE Append(s.queue, [e EXCEPT !.left = @ - take])]
  IN  FoldLeft(step, [remaining |-> quantity, taken |-> <<>>, queue |-> <<>>], queue)

(* Mutant of Incomplete: shares no lot covers are let through.              *)
IncompleteLots(queue, c) ==
  queue = <<>> \/ \E i \in DOMAIN c.taken : taxLots[c.taken[i].lot].cost = NoBasis

(* A sale counts when every share of it came from a lot of known basis.    *)
Incomplete(queue, c) ==
  \/ queue = <<>> \/ c.remaining > 0
  \/ \E i \in DOMAIN c.taken : taxLots[c.taken[i].lot].cost = NoBasis

Basis(piece) == (piece.shares * taxLots[piece.lot].cost) \div taxLots[piece.lot].quantity
Gain(sale, piece) == (piece.shares * sale.amount) \div sale.quantity - Basis(piece)
LongTerm(sale, piece) == sale.day > taxLots[piece.lot].acquired + YearLength

SalesThrough(q) ==
  SetToSortSeq({t \in posted : t.type = "sell" /\ t.day <= Quarters[q].end},
               LAMBDA s, t : s.day < t.day \/ (s.day = t.day /\ s.id < t.id))

(* Sales in the order they posted, each against what the ones before it    *)
(* left of the lots in force.                                              *)
realizedGains(q) ==
  LET step(s, sale) ==
        LET c    == Consume(s.queue, sale.quantity)
            over(long) == SumOf({i \in DOMAIN c.taken : LongTerm(sale, c.taken[i]) = long},
                                  LAMBDA i : Gain(sale, c.taken[i]))
            open == Incomplete(s.queue, c)
        IN  [queue |-> c.queue,
             sales |-> Append(s.sales, [sale |-> sale, taken |-> c.taken, incomplete |-> open,
                                        st |-> IF open THEN 0 ELSE over(FALSE),
                                        lt |-> IF open THEN 0 ELSE over(TRUE)])]
  IN  FoldLeft(step, [queue |-> LotQueue, sales |-> <<>>], SalesThrough(q)).sales

(* Of a sale at a loss, the first repurchase of the year near enough.      *)
washSales(sales) ==
  LET loss(s) == s.st + s.lt
      near(s) == {t \in posted : /\ t.type = "buy" /\ t.day <= Quarters[4].end
                                 /\ t.day \in s.sale.day - WashDays .. s.sale.day + WashDays}
      item(s) == LET t == CHOOSE t \in near(s) : TRUE
                     n == IF t.quantity < s.sale.quantity THEN t.quantity ELSE s.sale.quantity
                 IN  [sale |-> s.sale.id, loss |-> loss(s), disallowed |-> (loss(s) * n) \div s.sale.quantity]
  IN  {item(sales[i]) : i \in {j \in DOMAIN sales :
         ~sales[j].incomplete /\ loss(sales[j]) < 0 /\ near(sales[j]) # {}}}

annualizedTax(q, ordinary, st, lt) ==
  LET factor == quarterSpec[q].factor
  IN  ToWhole((AtLeastNil(ordinary) + AtLeastNil(st)) * factor * Profile.ordinary_rate
                + AtLeastNil(lt) * factor * Profile.ltcg_rate, 1000)

safeHarborCap == ToWhole(Profile.prior_year_tax * (IF Profile.over_150k THEN 110 ELSE 100), 100)

requiredCumulative(q, annualized) ==
  LET byAnnualized == quarterSpec[q].annualizedShare * annualized
      byHarbor     == quarterSpec[q].safeHarborShare * safeHarborCap
  IN  ToWhole(IF byAnnualized <= byHarbor THEN byAnnualized ELSE byHarbor, 1000)

(* Mutant of paymentsCumulative: what is paid on the due day comes late.    *)
paymentsBefore(q) ==
  ToWhole(Profile.withholding * quarterSpec[q].safeHarborShare
            + 1000 * SumOf({t \in posted : t.type = "tax" /\ t.day < Quarters[q].due}, LAMBDA t : t.amount), 1000)

paymentsCumulative(q) ==
  ToWhole(Profile.withholding * quarterSpec[q].safeHarborShare
            + 1000 * SumOf({t \in posted : t.type = "tax" /\ t.day <= Quarters[q].due}, LAMBDA t : t.amount), 1000)

RequiredOf(q) ==
  LET sales == realizedGains(q)
      total(Of(_)) == SumOf(DOMAIN sales, LAMBDA i : Of(sales[i]))
  IN  requiredCumulative(q, annualizedTax(q, ordinaryIncome(q), total(LAMBDA s : s.st), total(LAMBDA s : s.lt)))

(* The estimate of quarter q today: refused while an account is held.      *)
estimateQuarter(q) ==
  IF heldNow THEN Refused
  ELSE IF ReadThrows THEN Throws
  ELSE [installment |-> AtLeastNil(RequiredOf(q) - paymentsCumulative(q))]

(* The past quarters it calls underpaid.                                   *)
Underpaid(q) ==
  {p \in 1 .. q - 1 : Quarters[p].due < taxDay /\ paymentsCumulative(p) < RequiredOf(p)}

-----------------------------------------------------------------------------
(* What the feed lists once a sale posted: lots consumed, oldest first, an *)
(* exhausted one kept at nothing (LotFacts in Lots).                       *)
LotsAfter(t) ==
  IF ~lotFeed \/ t.type # "sell" THEN taxLots
  ELSE LET taken == Consume(SelectSeq(LotQueue, LAMBDA e : e.left > 0), t.quantity).taken
           of(l) == SumOf({i \in DOMAIN taken : taken[i].lot = l}, LAMBDA i : taken[i].shares)
       IN  [l \in DOMAIN taxLots |->
              LET lot == taxLots[l] left == lot.quantity - of(l)
              IN  IF left = lot.quantity THEN lot
                  ELSE IF left = 0 \/ lot.cost = NoBasis THEN [lot EXCEPT !.quantity = left]
                  ELSE [lot EXCEPT !.quantity = left, !.cost = (lot.cost * left) \div lot.quantity]]

(* The quarters whose figures no longer stand as they were asked.          *)
Upset(t) ==
  {q \in 1 .. 4 : asked[q] # NotAsked /\ (t.day <= Quarters[q].end \/ LotsAfter(t) # taxLots)}

Posts(t) ==
  /\ t.day = taxDay /\ \A u \in posted : u.id # t.id
  /\ posted' = posted \cup {t} /\ taxLots' = LotsAfter(t) /\ moved' = moved \cup Upset(t)
  /\ UNCHANGED <<lotFeed, heldNow, asked, settled, taxDay>>

DueCheck(q) ==
  /\ taxDay \in Quarters[q].end + 1 .. Quarters[q].due /\ asked[q] = NotAsked
  /\ estimateQuarter(q) \notin {Refused, Throws}
  /\ asked' = [asked EXCEPT ![q] = estimateQuarter(q).installment]
  /\ UNCHANGED <<posted, taxLots, lotFeed, heldNow, settled, moved, taxDay>>

Pays(q) ==
  /\ asked[q] # NotAsked /\ q \notin settled /\ taxDay <= Quarters[q].due
  /\ settled' = settled \cup {q}
  /\ posted' = posted \cup {[id |-> 100 + q, type |-> "tax", amount |-> asked[q], quantity |-> 0,
                             day |-> taxDay, internal |-> FALSE]}
  /\ UNCHANGED <<taxLots, lotFeed, heldNow, asked, moved, taxDay>>

HoldsOrClears ==
  /\ heldNow' = ~heldNow
  /\ UNCHANGED <<posted, taxLots, lotFeed, asked, settled, moved, taxDay>>

TaxDayPasses ==
  /\ taxDay <= Quarters[4].due /\ taxDay' = taxDay + 1
  /\ UNCHANGED <<posted, taxLots, lotFeed, heldNow, asked, settled, moved>>

TaxFiguresNext ==
  \/ \E t \in Postings : Posts(t)
  \/ \E q \in 1 .. 4 : DueCheck(q) \/ Pays(q)
  \/ HoldsOrClears
  \/ TaxDayPasses

-----------------------------------------------------------------------------
(* Who pays by the deadline what the check asked is not told later in the  *)
(* year that the quarter was underpaid, unless the movements of its period *)
(* or the lots changed after the check.                                    *)
PaidIsEnough ==
  \A q \in settled \ moved, later \in 2 .. 4 :
    q < later /\ estimateQuarter(later) \notin {Refused, Throws} => q \notin Underpaid(later)

(* No gain is guessed: no share of a lot is sold twice, the older lot goes *)
(* first, a sale counts only when lots of known basis cover all of it, and *)
(* what is counted as gain is the proceeds less the basis that was used.   *)
(* Each loss that is counted has at most one repurchase against it, and no *)
(* more of it is disallowed than there is.                                 *)
GainsAccounted ==
  ~ReadThrows =>
    \A q \in 1 .. 4 :
      LET sales == realizedGains(q)
          taken(s, l) == SumOf({i \in DOMAIN s.taken : s.taken[i].lot = l}, LAMBDA i : s.taken[i].shares)
          used(l)  == SumOf(DOMAIN sales, LAMBDA i : taken(sales[i], l))
          washes == washSales(sales)
      IN  /\ \A l \in DOMAIN taxLots : used(l) <= taxLots[l].quantity
          /\ \A k, l \in DOMAIN taxLots :
               taxLots[k].acquired < taxLots[l].acquired /\ used(l) > 0 => used(k) = taxLots[k].quantity
          /\ \A i \in DOMAIN sales :
               ~sales[i].incomplete =>
                 /\ SumOf(DOMAIN taxLots, LAMBDA l : taken(sales[i], l)) = sales[i].sale.quantity
                 /\ sales[i].st + sales[i].lt =
                      sales[i].sale.amount - SumOf(DOMAIN sales[i].taken, LAMBDA j : Basis(sales[i].taken[j]))
          /\ \A w, v \in washes : w.disallowed \in w.loss .. 0 /\ (w.sale = v.sale => w = v)

(* An estimate over books that are not held is worked out: it is refused   *)
(* for provisional data only (tax/handlers.ts:18-21).                      *)
EstimateAnswers == ~heldNow => \A q \in 1 .. 4 : estimateQuarter(q) # Throws
=============================================================================
