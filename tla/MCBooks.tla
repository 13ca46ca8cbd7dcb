-------------------------------- MODULE MCBooks --------------------------------
(***************************************************************************)
(* What is kept in the books and worked out from them, on small instances: *)
(* the ledger and its views, lots, transfers, drift, the registry, the     *)
(* quarter's figures and the detectors.  None of these parts reads         *)
(* another's variables; a behavior moves the one chosen at its start, and  *)
(* the others stay as they begin.                                          *)
(***************************************************************************)
EXTENDS Ledger, Lots, Transfers, Drift, Estate, TaxFigures, Detectors, TLC

VARIABLE part   \* the part this behavior is about

BooksParts == {"ledger", "lots", "transfers", "drift", "estate", "figures", "detectors"}

BooksInit ==
  /\ part \in BooksParts
  /\ Init /\ LotsInit /\ TransfersInit
  /\ DriftInit /\ (part # "drift" => books = CHOOSE b \in Books : TRUE)
  /\ EstateInit
  /\ part # "estate" => estate = (CHOOSE f \in EstateFiles : TRUE) /\ booked = {CHOOSE a \in EstateAccounts : TRUE}
  /\ TaxFiguresInit /\ (part # "figures" => taxLots = (CHOOSE l \in FirstLots : TRUE) /\ ~lotFeed)
  /\ DetectorsInit /\ (part # "detectors" => topic = CHOOSE t \in Topics : TRUE)

Elsewhere(p, v) == part # p => UNCHANGED v

Others ==
  /\ UNCHANGED part
  /\ Elsewhere("ledger", vars) /\ Elsewhere("lots", LotsVars) /\ Elsewhere("transfers", TransfersVars)
  /\ Elsewhere("drift", DriftVars) /\ Elsewhere("estate", EstateVars)
  /\ Elsewhere("figures", TaxFiguresVars) /\ Elsewhere("detectors", DetectorsVars)

BooksNext ==
  \/ part = "ledger" /\ Next /\ Others
  \/ part = "lots" /\ LotsNext /\ Others
  \/ part = "transfers" /\ TransfersNext /\ Others
  \/ part = "drift" /\ DriftNext /\ Others
  \/ part = "estate" /\ EstateNext /\ Others
  \/ part = "figures" /\ TaxFiguresNext /\ Others
  \/ part = "detectors" /\ DetectorsNext /\ Others

BooksSpec == BooksInit /\ [][BooksNext]_<<part, vars, LotsVars, TransfersVars, DriftVars, EstateVars,
                                         TaxFiguresVars, DetectorsVars>>

(* The variables of every part keep their types.                           *)
BooksTypeOK ==
  /\ part = "ledger" => TypeOK
  /\ part = "lots" => LotsTypeOK
  /\ part = "transfers" => TransfersTypeOK
  /\ part = "estate" => EstateTypeOK
  /\ part = "figures" => TaxFiguresTypeOK
  /\ part = "detectors" => DetectorsTypeOK

(* The ledger answers for what was committed: batches partition the facts, *)
(* one in force is the right one, and no two views of it disagree.         *)
LedgerAgrees ==
  part = "ledger" => BatchesPartition /\ Answered /\ ReportsAgree /\ PagesCover /\ BundlesAgree

(* Basis and gain are what somebody stated or paid: a position's basis is  *)
(* the institution's or its lots', a split adds up to what was entered,    *)
(* no gain is guessed, and who pays what was asked is not told of a        *)
(* shortfall.                                                              *)
BasisTrue ==
  /\ part = "lots" => BasisHonest /\ SplitExact /\ RowsTrue
  /\ part = "figures" => GainsAccounted /\ PaidIsEnough

(* A recommended order is one the plan and the shares held allow, and the  *)
(* draft is the candidate that was shown.                                  *)
OrdersTrue == part = "drift" => OrdersSound /\ DraftsTheShown

(* A night takes a movement for a leg of one pair at most and misses none, *)
(* and one paired as it was reported is in no pair of a later night; the   *)
(* registry mirrors the file, and an empty queue after an audit means that *)
(* plan and reality agree; after a night nothing crossed the queue tells   *)
(* the truth, each condition once.                                         *)
QuestionsTrue ==
  /\ part = "transfers" => LegsOnce /\ CountedOnce /\ NoneMissed
  /\ part = "estate" => RegistryMirrors /\ OneGapOneQuestion /\ CleanMeansMatched
  /\ part = "detectors" => QueueTellsTrue /\ ToldOnce /\ FrozenSinceThen

(* What was committed stays, and what the operator entered of a lot        *)
(* outlives every later report of the feed.                                *)
NothingRewritten == PastStands /\ OperatorKept

-----------------------------------------------------------------------------
\* Two accounts that hold one instrument, then a close, a restated position,
\* movements, and the same batches again.
Fact(k, s, key, p, o, e, over) ==
  [kind |-> k, subject |-> s, key |-> key, payload |-> p, observed |-> o, effective |-> e,
   supersedes |-> over, writer |-> Owner[k], provisional |-> FALSE]

Account(open) == [open |-> open, type |-> "holding", currency |-> "USD"]
Position(n) == [quantity |-> n, value |-> 10 * n, basis |-> IF n = 2 THEN 5 ELSE NotStated,
                currency |-> "USD"]
Movement(type, amount, month) ==
  [type |-> type, amount |-> amount, month |-> month, currency |-> "USD", group |-> FALSE,
   voided |-> FALSE]

Batch(b, w, facts) ==
  [batch |-> b, writer |-> w, facts |-> facts,
   after |-> CASE b = "seed" -> {} [] b = "more" -> {"moves"} [] OTHER -> {"seed"}]

Seed == Batch("seed", "assets_manager",
              <<Fact("account", "a", "account", Account(TRUE), 1, 1, 0),
                Fact("account", "b", "account", Account(TRUE), 1, 1, 0),
                Fact("position", "a", "VTI", Position(1), 1, 1, 0),
                Fact("position", "b", "VTI", Position(2), 1, 1, 0)>>)

Closes == {Batch("close", "assets_manager", <<Fact("account", "a", "account", Account(FALSE), o, 2, over)>>) :
             o \in 1 .. 3, over \in {0, 1, MaxFacts}}

Restates == {Batch("restate", "assets_manager",
                   <<Fact("position", "a", "VTI", Position(n), o, e, over)>>) :
               n \in {0, 2}, o \in 2 .. 3, e \in {1, 3}, over \in {0, 3, 4}}

Moves == {Batch("moves", "cash_flow", <<Fact("transaction", "a", "t1", Movement(type, -3, m), 2, 2, 0)>>) :
            type \in {"debit", "swap"}, m \in 1 .. 2}
More == {Batch("more", "cash_flow", <<Fact("transaction", "b", "t1", Movement("credit", 4, m), 3, 1, 0),
                                      Fact("transaction", "b", "t2", Movement("credit", 4, 2), 2, 2, 0)>>) :
            m \in 1 .. 2}

ModelInputs == {Seed} \cup Closes \cup Restates \cup Moves \cup More
ModelPayloads == {Account(b) : b \in BOOLEAN} \cup {Position(n) : n \in 0 .. 2}
  \cup {Movement(type, n, m) : type \in {"debit", "swap", "credit"}, n \in {-3, 4}, m \in 1 .. 2}
NoRates == [c \in {} |-> 0]

\* Reports of one asset: with lots, without, and none at all.
Listing(q, c, a) == [quantity |-> q, cost |-> c, acquired |-> a]
Rep(q, st, lots) == [listed |-> TRUE, quantity |-> q, stated |-> st, lots |-> lots]
ModelReports ==
  { Rep(3, Unknown, [l \in {1, 2} |-> Listing(l, Unknown, 1)]),
    Rep(2, Unknown, [l \in {1, 2} |-> Listing(1, IF l = 2 THEN 1 ELSE Unknown, l)]),
    Rep(1, Unknown, [l \in {2} |-> Listing(1, Unknown, 1)]),
    Rep(3, Unknown, NoLots),
    Rep(3, 9, NoLots),
    [listed |-> FALSE, quantity |-> 0, stated |-> Unknown, lots |-> NoLots] }

\* Six movements between three accounts.
Mv(a, n, d, q, t) == [account |-> a, amount |-> n, posted |-> d, type |-> t,
                      instrument |-> IF q = 0 THEN NoQuantity ELSE "btc",
                      quantity |-> IF q = 0 THEN NoQuantity ELSE q]
ModelMovements == <<Mv("x", -5, 0, 0, "debit"), Mv("y", 5, 1, 0, "credit"), Mv("z", 5, 1, 0, "income"),
                    Mv("x", -5, 2, 0, "other"), Mv("y", -9, 3, -100, "transfer_out"), Mv("x", 8, 3, 98, "transfer_in"), Mv("x", 5, 5, 97, "other")>>

\* Holdings with and without a price, and lots long, short and unknown.
Held(c, q, p, v, lots) == [class |-> c, quantity |-> q, price |-> p, value |-> v, lots |-> lots]
L(q, d, k) == [quantity |-> q, acquired |-> d, known |-> k]
ModelTargets == <<6000, 3000, 1000>>
ModelLots == {<<>>, <<L(15, 0, TRUE), L(5, 0, TRUE), L(40, 300, TRUE)>>, <<L(10, 0, FALSE), L(20, 10, TRUE)>>}
Equities == {Held(1, q, p, v, l) : q \in {25, 60}, p \in {7, NoPrice}, v \in {20, 70}, l \in ModelLots}
Bonds == {Held(2, 30, p, v, l) : p \in {3, NoPrice}, v \in {10, 35}, l \in ModelLots}
Cash == {Held(4, 10, NoPrice, 25, <<>>), Held(2, 40, NoPrice, NoPrice, <<>>)}
MoreEquity == {Held(1, 12, 30, 36, <<>>)}
ModelBooks == {<<e, b>> : e \in Equities, b \in Bonds} \cup {<<e, m>> : e \in Equities, m \in MoreEquity} \cup {<<b>> : b \in Bonds} \cup {<<e, c>> : e \in Equities, c \in Cash}

\* Files that plan, observe and expect too much or too little.
Titled(trust, heirs, day) == [in_trust |-> trust, beneficiaries |-> heirs, verified |-> day]
Named == {"executors", "digital_access"}
Trusts == "t" :> [in_trust |-> NoTrust, beneficiaries |-> {}, verified |-> 1]
EstateFile(entities, observed, plan, documents, named) ==
  [entities |-> entities, observed |-> observed, plan |-> plan, documents |-> documents, named |-> named]
ModelEstates ==
  { EstateFile(Trusts, "a" :> Titled("t", {"x"}, 2), "a" :> Titled("t", {"x"}, 0), "will" :> "s", Named),
    EstateFile(Trusts, "a" :> Titled("t", {"y"}, 1), "a" :> Titled(NoTrust, {"x"}, 0) , "will" :> NoSha, Named),
    EstateFile(<<>>, "a" :> Titled("t", {"x"}, 2), "a" :> Titled(NoTrust, {"x"}, 0), <<>>, Named),
    EstateFile(<<>>, <<>>, ("a" :> Titled("t", {"x"}, 0)) @@ ("b" :> Titled(NoTrust, {}, 0)), <<>>, {"executors"}) }

\* A year of eight days.
ModelQuarters == << [end |-> 1, due |-> 2], [end |-> 3, due |-> 4], [end |-> 5, due |-> 6], [end |-> 7, due |-> 8] >>
P(id, type, amount, quantity, internal, day) ==
  [id |-> id, type |-> type, amount |-> amount, quantity |-> quantity, internal |-> internal, day |-> day]
ModelPostings ==
  {P(1, "income", 100, 0, FALSE, d) : d \in {1, 3}} \cup {P(2, "income", 50, 0, TRUE, 3)}
  \cup {P(3, "sell", 60, 3, FALSE, d) : d \in {1, 5}} \cup {P(4, "sell", 8, 2, FALSE, d) : d \in {3, 5}}
  \cup {P(5, "buy", 10, 1, FALSE, d) : d \in {4}}
KnownLots == << [quantity |-> 2, cost |-> 20, acquired |-> -2], [quantity |-> 2, cost |-> 10, acquired |-> 0] >>
ModelFirstLots == {KnownLots, Append(KnownLots, [quantity |-> 2, cost |-> NoBasis, acquired |-> 1])}
ModelProfile == [ordinary_rate |-> 30, ltcg_rate |-> 15, prior_year_tax |-> 90, over_150k |-> TRUE, withholding |-> 20]

\* What a night may read.
Form(totals, corrected) == [totals |-> totals, corrected |-> corrected]
Sold(quantity, cost) == [quantity |-> quantity, cost |-> cost]
Valued(quantity, cost, value) == [quantity |-> quantity, cost |-> cost, value |-> value]
Leg(txn, marked, type, asset, amount) == [txn |-> txn, marked |-> marked, type |-> type, asset |-> asset, amount |-> amount]
ModelNights == [t \in Topics |-> IF t = "totals" THEN 4 ELSE IF t \in {"answers", "lots", "moves"} THEN 2 ELSE 3]
ModelEvenings == [t \in Topics |-> IF t = "totals" THEN 3 ELSE IF t \in {"lots", "moves", "forms"} THEN 2 ELSE 1]
ModelOverlaps == [t \in Topics |-> IF t = "totals" THEN 0 ELSE 1]
ModelForms == {Form(1, FALSE), Form(2, FALSE), Form(2, TRUE)}
ModelFedLots == {Sold(2, NoValue), Sold(1, NoValue), Sold(0, NoValue), Sold(2, 5), NoValue}
ModelHoldings == {Valued(2, NoValue, 300), Valued(2, 0, 400)}
ModelPairs == {[group |-> "g", income |-> TRUE], [group |-> "h", income |-> FALSE]}
ModelInstants ==
  { <<>>, <<Leg("t", TRUE, "swap", "btc", 0)>>,
    <<Leg("o", FALSE, "transfer", "btc", 0), Leg("i", FALSE, "transfer", "eth", 0)>>,
    <<Leg("o", FALSE, "transfer", "btc", 0), Leg("i", FALSE, "transfer", "eth", 0), Leg("m", FALSE, "fee", "cash", -1)>> }
================================================================================
