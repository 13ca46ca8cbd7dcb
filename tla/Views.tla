-------------------------------- MODULE Views --------------------------------
(***************************************************************************)
(* The figures the household reads (packages/ledger/src/views.ts): pure    *)
(* functions of the fact table as of two times.  An amount is an integer,  *)
(* a date is its month, a rate is a whole factor, and sums are exact as    *)
(* the code's decimal strings are.                                         *)
(***************************************************************************)
EXTENDS FactTable, Integers, FiniteSetsExt, SequencesExt

CONSTANTS Display,  \* the display currency
          Rates,    \* the rates at hand: native currency to factor
          NotStated \* a figure nobody stated

ASSUME NotStatedAssumption == NotStated \notin Int

SumOver(S, v(_)) == MapThenSumSet(v, S)
Magnitude(n) == IF n < 0 THEN -n ELSE n

As(k, o) == asOf(Query(k, o.effective, o.observed))
Today == [effective |-> Latest, observed |-> Latest]

convert(n, c) ==
  IF c = Display THEN n
  ELSE IF c \in DOMAIN Rates THEN n * Rates[c] ELSE NotStated

-----------------------------------------------------------------------------
(* Accounts and what they hold.                                            *)

accounts(o) == As("account", o)
closedSubjects(o) == {fact[a].subject : a \in {b \in accounts(o) : ~fact[b].payload.open}}
liveAccountFacts(o) == {a \in accounts(o) : fact[a].payload.open}

(* Mutant of livePositionFacts: the positions of closed accounts stay.      *)
AllPositionFacts(o) == {p \in As("position", o) : fact[p].payload.quantity # 0}

livePositionFacts(o) ==
  {p \in As("position", o) : /\ fact[p].payload.quantity # 0
                             /\ fact[p].subject \notin closedSubjects(o)}

PositionsOf(s, o) == {p \in livePositionFacts(o) : fact[p].subject = s}
BalancesOf(s, key, o) == {b \in As("balance", o) : fact[b].subject = s /\ fact[b].key = key}

Worth(p) == IF fact[p].payload.value = NotStated THEN 0 ELSE fact[p].payload.value

(* One row for each instrument and currency.                               *)
Bundles(o) ==
  {[symbol |-> fact[p].key, currency |-> fact[p].payload.currency] : p \in livePositionFacts(o)}
consolidatedPositions(o) ==
  {LET group == {p \in livePositionFacts(o) : /\ fact[p].key = b.symbol
                                              /\ fact[p].payload.currency = b.currency}
       known == {p \in group : fact[p].payload.basis # NotStated}
       stated == {p \in group : fact[p].payload.value # NotStated}
   IN  [symbol |-> b.symbol, currency |-> b.currency,
        accounts |-> {fact[p].subject : p \in group},
        quantity |-> SumOver(group, LAMBDA p : fact[p].payload.quantity),
        value |-> IF stated = {} THEN NotStated ELSE SumOver(stated, Worth),
        basis |-> IF known = {} THEN NotStated
                  ELSE SumOver(known, LAMBDA p : fact[p].payload.basis),
        complete |-> known = group,
        provisional |-> \E p \in group : fact[p].provisional]
   : b \in Bundles(o)}

(* An account is worth its stated total, or else its positions; a liability*)
(* is what is owed on it, or else its total, and always counts against.    *)
Line(a, o) ==
  LET acct  == fact[a].payload
      s     == fact[a].subject
      total == BalancesOf(s, "total", o)
      owed  == BalancesOf(s, "owed", o)
      held  == PositionsOf(s, o)
      source == IF acct.type = "liability" THEN (IF owed # {} THEN owed ELSE total)
                ELSE IF total # {} THEN total
                ELSE IF acct.type = "holding" THEN held ELSE {}
      stated == IF acct.type = "liability" \/ total # {}
                  THEN SumOver(source, LAMBDA b : fact[b].payload.amount)
                  ELSE SumOver(source, Worth)
      value == IF acct.type = "liability" THEN -Magnitude(stated) ELSE stated
  IN  [account |-> s, rests_on |-> source, value |-> value, currency |-> acct.currency,
       provisional |-> \E f \in source \cup {a} : fact[f].provisional,
       display_value |-> convert(value, acct.currency)]

netWorth(o) ==
  LET lines  == {Line(a, o) : a \in liveAccountFacts(o)}
      counted == {l \in lines : l.display_value # NotStated}
      assets == SumOver({l \in counted : l.display_value >= 0}, LAMBDA l : l.display_value)
      owed   == SumOver({l \in counted : l.display_value < 0}, LAMBDA l : -l.display_value)
  IN  [lines |-> lines, assets |-> assets, liabilities |-> owed, net_worth |-> assets - owed,
       provisional |-> \E l \in lines : l.provisional,
       fx_missing |-> {l.currency : l \in lines \ counted}]

-----------------------------------------------------------------------------
(* Movements.                                                              *)

(* Mutant of isInternal: a swap inside an account is spent.                 *)
OnlyTransfers(p) == p.group \/ p.type \in {"buy", "sell"}

isInternal(p) == p.group \/ p.type \in {"buy", "sell", "swap"}

transactions(o) == {t \in As("transaction", o) : ~fact[t].payload.voided}

Inflow(S, v(_)) == SumOver({t \in S : v(t) >= 0}, v)
Outflow(S, v(_)) == -SumOver({t \in S : v(t) < 0}, v)

(* Money that enters or leaves the household, month by month up to now.    *)
cashFlow(o, n, now) ==
  LET value(t) == convert(fact[t].payload.amount, fact[t].payload.currency)
      moving == {t \in transactions(o) :
                   ~(fact[t].payload.group \/ fact[t].payload.type \in {"buy", "sell", "swap"})}
      inside == {t \in moving : fact[t].payload.month \in (now - n + 1) .. now}
      bucket(m) == {t \in inside : fact[t].payload.month = m /\ value(t) # NotStated}
  IN  [months |-> [m \in (now - n + 1) .. now |->
                     [inflow |-> Inflow(bucket(m), value), outflow |-> Outflow(bucket(m), value),
                      txns |-> Cardinality(bucket(m))]],
       fx_missing |-> {fact[t].payload.currency : t \in {u \in inside : value(u) = NotStated}},
       excluded_internal |-> Cardinality(transactions(o) \ moving),
       provisional |-> \E t \in inside : value(t) # NotStated /\ fact[t].provisional]

(* A filter bounds the month and the magnitude and names the types.        *)
matchTransactions(o, q) ==
  LET fits(p) == /\ p.month \in q.from .. q.to /\ p.type \in q.types
                 /\ Magnitude(p.amount) \in q.min .. q.max
      fitting == {t \in transactions(o) : fits(fact[t].payload)}
      internal == {t \in fitting : isInternal(fact[t].payload)}
  IN  [facts |-> IF q.include_internal THEN fitting ELSE fitting \ internal,
       excluded_internal |-> Cardinality(internal)]

NewestFirst(S) ==
  SetToSortSeq(S, LAMBDA t, u : \/ fact[t].payload.month > fact[u].payload.month
                                \/ fact[t].payload.month = fact[u].payload.month /\ t < u)

tally(S, c) ==
  LET mine == {t \in S : fact[t].payload.currency = c}
      value(t) == fact[t].payload.amount
  IN  [count |-> Cardinality(mine), inflow |-> Inflow(mine, value),
       outflow |-> Outflow(mine, value), net |-> SumOver(mine, value)]
Currencies(S) == {fact[t].payload.currency : t \in S}

PageMax == 500

(* Mutant of Truncated: the last page of an exact fit is said to go on.     *)
TruncatedAtEnd(offset, page, matched) == offset + Len(page) <= matched

Truncated(offset, page, matched) == offset + Len(page) < matched

(* One page, with the totals over everything that matches.                 *)
transactionRows(o, q, limit, offset) ==
  LET found == matchTransactions(o, q)
      rows  == NewestFirst(found.facts)
      n     == Max({1, Min({PageMax, limit})})
      page  == SubSeq(rows, offset + 1, Min({offset + n, Len(rows)}))
  IN  [rows |-> page, matched |-> Len(rows), truncated |-> Truncated(offset, page, Len(rows)),
       totals |-> [c \in Currencies(found.facts) |-> tally(found.facts, c)],
       excluded_internal |-> found.excluded_internal]

GroupKey(t, by) == CASE by = "month"   -> fact[t].payload.month
                     [] by = "account" -> fact[t].subject
                     [] by = "type"    -> fact[t].payload.type

(* One bucket for each group and currency.                                 *)
transactionSummary(o, q, by) ==
  LET found == matchTransactions(o, q)
      in(k, c) == {t \in found.facts : GroupKey(t, by) = k /\ fact[t].payload.currency = c}
  IN  [buckets |-> {[key |-> GroupKey(t, by), currency |-> fact[t].payload.currency,
                     total |-> tally(in(GroupKey(t, by), fact[t].payload.currency),
                                     fact[t].payload.currency)] : t \in found.facts},
       matched |-> Cardinality(found.facts), excluded_internal |-> found.excluded_internal]
=============================================================================
