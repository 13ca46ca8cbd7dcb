--------------------------------- MODULE Drift --------------------------------
(***************************************************************************)
(* From the books to an order (market/drift.ts and the intake in           *)
(* market/handlers.ts): the drift of the invested portfolio from the plan, *)
(* one candidate order for each class out of its band, and the draft       *)
(* rebuilt from the candidate whose number the model answered.  The books  *)
(* may move between the drift the model is shown and the intake.           *)
(* Quantities are in tenths of a share, money in whole units, weights in   *)
(* basis points; a class or a holding is named by its rank.                *)
(***************************************************************************)
EXTENDS Integers, Sequences, FiniteSets, SequencesExt, FiniteSetsExt

CONSTANTS Books,     \* what the ledger may hold: holdings, and each one's lots
          PlanTargets, \* the plan's weight of each class
          Band, MaxOrder, \* the plan's band, and its largest order
          CashClass, \* the class that counts as cash, with no target
          NoPrice, NoDraft,
          ReviewDay,
          MaxMoves

ASSUME PlanAssumption ==
  /\ CashClass \notin DOMAIN PlanTargets
  /\ Band \in Nat /\ MaxOrder \in Nat
  /\ IsFiniteSet(DOMAIN PlanTargets) /\ DOMAIN PlanTargets \subseteq Nat
  /\ \A c \in DOMAIN PlanTargets : PlanTargets[c] \in Nat
HeldLots == [quantity : Nat, acquired : Int, known : BOOLEAN]
ASSUME BooksAssumption ==
  \A b \in Books :
    /\ IsFiniteSet(DOMAIN b) /\ DOMAIN b \subseteq Nat
    /\ \A h \in DOMAIN b :
         /\ b[h].quantity \in Nat \ {0} /\ b[h].value \in Nat \cup {NoPrice}
         /\ b[h].price \in Nat \cup {NoPrice} /\ b[h].lots \in Seq(HeldLots)

VARIABLES
  books,
  shown,    \* the candidates the model is shown, NoDraft before
  draft,    \* the recommendation drafted: its order and the number chosen
  movedOn,  \* the books moved since they were shown
  moves

DriftVars == <<books, shown, draft, movedOn, moves>>

DriftInit == books \in Books /\ shown = NoDraft /\ draft = NoDraft /\ movedOn = FALSE /\ moves = 0

-----------------------------------------------------------------------------
AbsOf(n) == IF n < 0 THEN - n ELSE n
ValueOf(b, S) == MapThenSumSet(LAMBDA h : b[h].value, S)
SharesIn(rows) == MapThenSumSet(LAMBDA i : rows[i].quantity, DOMAIN rows)

Counted(b) == {h \in DOMAIN b : b[h].value # NoPrice}
Invested(b) == ValueOf(b, {h \in Counted(b) : b[h].class # CashClass})
OfClass(b, c) == {h \in Counted(b) : b[h].class = c}
Classes == DOMAIN PlanTargets

(* In basis points, halves up.                                             *)
BasisPoints(part, whole) == IF whole = 0 THEN 0 ELSE (2 * 10000 * part + whole) \div (2 * whole)

DriftOf(b, c) == BasisPoints(ValueOf(b, OfClass(b, c)), Invested(b)) - PlanTargets[c]

(* The classes out of their band, the farthest first.                      *)
OutOfBand(b) == {c \in Classes : AbsOf(DriftOf(b, c)) > Band}
AheadOf(b, classes, c) ==
  {d \in classes : \/ AbsOf(DriftOf(b, d)) > AbsOf(DriftOf(b, c))
                   \/ AbsOf(DriftOf(b, d)) = AbsOf(DriftOf(b, c)) /\ d < c}
FarthestFirst(b, classes) ==
  [i \in 1 .. Cardinality(classes) |-> CHOOSE c \in classes : Cardinality(AheadOf(b, classes, c)) = i - 1]

Largest(b, c) ==
  CHOOSE h \in OfClass(b, c) : \A g \in OfClass(b, c) :
    b[h].value > b[g].value \/ (b[h].value = b[g].value /\ h <= g)

PriceOf(p) == IF p.price # NoPrice THEN p.price ELSE (10 * p.value) \div p.quantity

(* Mutant of WholeShares: a class's excess is sold off one holding.         *)
WholeSharesUncapped(b, c, p) ==
  LET wanted == (AbsOf(DriftOf(b, c)) * Invested(b)) \div 10000
  IN  (IF wanted > MaxOrder THEN MaxOrder ELSE wanted) \div PriceOf(p)

(* Whole shares for the drift's worth, at most what the plan allows and,   *)
(* when selling, no more than the holding's.                               *)
WholeShares(b, c, p) ==
  LET wanted == (AbsOf(DriftOf(b, c)) * Invested(b)) \div 10000
      shares == (IF wanted > MaxOrder THEN MaxOrder ELSE wanted) \div PriceOf(p)
      whole  == p.quantity \div 10
  IN  IF DriftOf(b, c) > 0 /\ shares > whole THEN whole ELSE shares

(* The lots a sale consumes, oldest first; fills of one day and treatment  *)
(* are one reference, and what no lot accounts for is unknown.             *)
TreatmentOf(lot) ==
  IF ~lot.known THEN "unknown" ELSE IF ReviewDay > lot.acquired + 365 THEN "LTCG" ELSE "STCG"

FoldedIn(refs, lot, take) ==
  LET last == Len(refs)
  IN  IF last > 0 /\ refs[last].acquired = lot.acquired /\ refs[last].treatment = TreatmentOf(lot)
      THEN [refs EXCEPT ![last].fills = @ + 1, ![last].quantity = @ + take]
      ELSE Append(refs, [treatment |-> TreatmentOf(lot), fills |-> 1, quantity |-> take,
                         acquired |-> lot.acquired])

TakeFrom(s, lot) ==
  LET take == IF lot.quantity < s.left THEN lot.quantity ELSE s.left
  IN  IF s.left = 0 \/ lot.quantity = 0 THEN s
      ELSE [left |-> s.left - take, refs |-> FoldedIn(s.refs, lot, take)]

fifoLotTreatments(lots, quantity) ==
  LET done == FoldLeft(TakeFrom, [left |-> quantity, refs |-> <<>>], lots)
  IN  IF done.left = 0 THEN done.refs
      ELSE Append(done.refs, [treatment |-> "unknown", fills |-> 0, quantity |-> 0, acquired |-> ReviewDay])

Order(b, c) ==
  LET h == Largest(b, c)
      q == WholeShares(b, c, b[h])
      sells == DriftOf(b, c) > 0
  IN  [side |-> IF sells THEN "SELL" ELSE "BUY", holding |-> h, class |-> c, quantity |-> q,
       value |-> q * PriceOf(b[h]),
       lots |-> IF sells THEN fifoLotTreatments(b[h].lots, 10 * q) ELSE <<>>]

(* One for each class out of its band that something is held of, when the  *)
(* holding has a price and the drift is worth a share.                     *)
CandidateOrders(b) ==
  LET priced(c) == OfClass(b, c) # {} /\ PriceOf(b[Largest(b, c)]) > 0
      worth(c)  == priced(c) /\ WholeShares(b, c, b[Largest(b, c)]) > 0
      classes   == FarthestFirst(b, {c \in OutOfBand(b) : worth(c)})
  IN  [i \in DOMAIN classes |-> Order(b, classes[i])]

buildProposalDraft(b, k) == [order |-> CandidateOrders(b)[k], chosen |-> k]

-----------------------------------------------------------------------------
marketDriftShown ==
  /\ shown = NoDraft
  /\ shown' = CandidateOrders(books) /\ shown' # <<>>
  /\ movedOn' = FALSE
  /\ UNCHANGED <<books, draft, moves>>

(* A nightly commits meanwhile.                                            *)
BooksMove ==
  /\ moves < MaxMoves /\ moves' = moves + 1
  /\ books' \in Books \ {books}
  /\ movedOn' = TRUE
  /\ UNCHANGED <<shown, draft>>

(* The reply is a number; the engine is run again and the order is the one *)
(* it has under that number now.  A number it does not have is an error.   *)
draftFromReply(k) ==
  /\ shown # NoDraft /\ draft = NoDraft
  /\ k \in DOMAIN CandidateOrders(books)
  /\ draft' = buildProposalDraft(books, k)
  /\ UNCHANGED <<books, shown, movedOn, moves>>

DriftNext == marketDriftShown \/ BooksMove \/ \E k \in 1 .. Cardinality(Classes) : draftFromReply(k)

-----------------------------------------------------------------------------
(* Whatever the books hold, an order moves its class towards the plan and  *)
(* by no more than it is off, within a rounded basis point; a sale is of   *)
(* shares the holding has, inside the plan's limit, and its lots account   *)
(* for every share or say that they do not.                                *)
OrdersSound ==
  \A o \in Range(CandidateOrders(books)) :
    LET p == books[o.holding]
        off == 10000 * ValueOf(books, OfClass(books, o.class))
                 - PlanTargets[o.class] * Invested(books)
        covered == SharesIn(o.lots)
    IN  /\ o.value <= MaxOrder
        /\ 10000 * o.value <= AbsOf(off) + Invested(books)
        /\ (o.side = "SELL") = (off > 0)
        /\ o.side = "SELL" =>
             /\ 10 * o.quantity <= p.quantity
             /\ covered <= 10 * o.quantity
             /\ covered < 10 * o.quantity => o.lots[Len(o.lots)].treatment = "unknown"
             /\ covered <= SharesIn(p.lots)

(* The order drafted is the one the model was shown under the number it    *)
(* answered, unless the books moved in between.                            *)
DraftsTheShown == draft # NoDraft /\ ~movedOn => shown[draft.chosen] = draft.order
=============================================================================
