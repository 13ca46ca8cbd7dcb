--------------------------------- MODULE Lots ---------------------------------
(***************************************************************************)
(* One asset of one account: its position and its tax lots, re-derived by  *)
(* the feed every night (normalize.ts) and corrected by the operator in    *)
(* between (setLotBasis, addLot in app.ts).  Money is in cents, a basis is *)
(* known or Unknown.  A night's facts are worked out in one step and       *)
(* committed in a later one, and a fact in force is the one observed last; *)
(* the feeds that report lots date what they report when they fetch it.    *)
(***************************************************************************)
EXTENDS Integers, Sequences, FiniteSets, SequencesExt, FiniteSetsExt

CONSTANTS FeedLots, OwnLots,  \* ids the feed gives its lots, and operator's lots get
          LotReports,  \* what the feed may say of the asset
          NoLots,      \* the feed says nothing of lots
          Unknown,     \* no basis known
          EnteredTotals,      \* amounts the operator enters, in cents
          Days,        \* dates of acquisition
          MaxInstant   \* bound on the clock

LotIds == FeedLots \cup OwnLots

ASSUME LotIdsAssumption == LotIds \subseteq Nat /\ IsFiniteSet(LotIds) /\ FeedLots \cap OwnLots = {}
ASSUME TotalsAssumption == EnteredTotals \subseteq Nat /\ Days \subseteq Nat /\ MaxInstant \in Nat

Listings == [quantity : Nat, cost : Int \cup {Unknown}, acquired : Days]
ASSUME ReportsAssumption ==
  \A r \in LotReports :
    /\ r.listed \in BOOLEAN /\ r.quantity \in Nat /\ r.stated \in Int \cup {Unknown}
    /\ r.lots # NoLots => DOMAIN r.lots \subseteq FeedLots /\ \A l \in DOMAIN r.lots : r.lots[l] \in Listings

VARIABLES
  lotFact,       \* per lot: the fact in force, Unknown for none
  positionFact,  \* the position in force, Unknown for none
  normalized,    \* a night's report and its facts, not yet committed
  lotsClock,
  disturbed,     \* an edit was cut, or fell between a night's two steps
  entered        \* what the operator entered last, if nothing came after

LotsVars == <<lotFact, positionFact, normalized, lotsClock, disturbed, entered>>

Lot == [quantity : Nat, cost : Int \cup {Unknown}, acquired : Days,
        by : {"feed", "operator"}, at : 0 .. MaxInstant]
HeldPosition == [quantity : Nat, cost : Int \cup {Unknown}, at : 0 .. MaxInstant]
NightsFacts == [report : LotReports, lots : UNION {[S -> Lot] : S \in SUBSET LotIds},
                position : HeldPosition \cup {Unknown}, crossed : BOOLEAN]

ASSUME UnknownAssumption == Unknown \notin Int /\ Unknown \notin Lot /\ Unknown \notin HeldPosition /\ Unknown \notin NightsFacts

LotsTypeOK ==
  /\ lotFact \in [LotIds -> Lot \cup {Unknown}]
  /\ positionFact \in HeldPosition \cup {Unknown}
  /\ normalized # Unknown =>
       /\ normalized.report \in LotReports /\ normalized.crossed \in BOOLEAN
       /\ DOMAIN normalized.lots \subseteq LotIds
       /\ \A l \in DOMAIN normalized.lots : normalized.lots[l] \in Lot
       /\ normalized.position \in HeldPosition \cup {Unknown}
  /\ lotsClock \in 0 .. MaxInstant /\ disturbed \in BOOLEAN

LotsInit ==
  /\ lotFact = [l \in LotIds |-> Unknown] /\ positionFact = Unknown
  /\ normalized = Unknown /\ entered = Unknown
  /\ lotsClock = 0 /\ disturbed = FALSE

-----------------------------------------------------------------------------
(* To the cent, halves up.                                                 *)
RoundedRatio(n, d) == (2 * n + d) \div (2 * d)

Over(S, Of(_)) == MapThenSumSet(Of, S)
LiveIn(lots) == {l \in DOMAIN lots : lots[l] # Unknown /\ lots[l].quantity > 0}

(* The live lots, oldest first.                                            *)
liveLotsOf ==
  SetToSortSeq(LiveIn(lotFact),
               LAMBDA k, l : \/ lotFact[k].acquired < lotFact[l].acquired
                             \/ lotFact[k].acquired = lotFact[l].acquired /\ k < l)

(* The basis that lots give a position of this quantity: none unless all of*)
(* them are known and they cover it.                                       *)
BasisOf(lots, quantity) ==
  LET live == LiveIn(lots)
  IN  IF /\ live # {} /\ \A l \in live : lots[l].cost # Unknown
         /\ Over(live, LAMBDA l : lots[l].quantity) = quantity
        THEN Over(live, LAMBDA l : lots[l].cost)
        ELSE Unknown

(* Mutant of FillOf: lots that cover a part give a basis.                   *)
FillOfPart(lots, position) ==
  LET live == LiveIn(lots)
  IN  IF position = Unknown \/ live = {} \/ \E l \in live : lots[l].cost = Unknown
        THEN Unknown ELSE Over(live, LAMBDA l : lots[l].cost)

FillOf(lots, position) ==
  IF position = Unknown THEN Unknown ELSE BasisOf(lots, position.quantity)

(* After an edit of the lots the position follows, when they cover it.     *)
fillPositionBasis(lots, now) ==
  LET basis == FillOf(lots, positionFact)
  IN  IF basis = Unknown \/ positionFact.cost = basis
        THEN positionFact
        ELSE [positionFact EXCEPT !.cost = basis, !.at = now]

-----------------------------------------------------------------------------
(* A night.                                                                *)

(* Mutant of CarriedBasis: the basis is carried whole.                      *)
CarriedWhole(has, quantity) == has.cost

CarriedBasis(has, quantity) == RoundedRatio(has.cost * quantity, has.quantity)

(* The lot as the feed lists it, with the operator's basis carried forward *)
(* where the feed has none.                                                *)
EffectiveLot(l, lot, now) ==
  LET has == lotFact[l]
  IN  IF /\ has # Unknown /\ lot.cost = Unknown
         /\ has.by = "operator" /\ has.cost # Unknown /\ has.quantity # 0
        THEN [quantity |-> lot.quantity, cost |-> CarriedBasis(has, lot.quantity),
              acquired |-> has.acquired, by |-> "operator", at |-> now]
        ELSE [quantity |-> lot.quantity, cost |-> lot.cost, acquired |-> lot.acquired,
              by |-> "feed", at |-> now]

sameLot(a, b) ==
  a # Unknown /\ a.quantity = b.quantity /\ a.cost = b.cost /\ a.acquired = b.acquired /\ a.by = b.by

(* Lots the feed lists and that changed, and at quantity zero those it no  *)
(* longer lists.                                                           *)
LotFacts(r, now) ==
  IF ~r.listed \/ r.lots = NoLots THEN [l \in {} |-> Unknown]
  ELSE LET listed  == DOMAIN r.lots
           changed == {l \in listed : ~sameLot(lotFact[l], EffectiveLot(l, r.lots[l], now))}
           gone    == LiveIn(lotFact) \ listed
       IN  [l \in changed \cup gone |->
              IF l \in listed THEN EffectiveLot(l, r.lots[l], now)
                              ELSE [lotFact[l] EXCEPT !.quantity = 0, !.at = now]]

PositionFact(r, now) ==
  IF ~r.listed
    THEN IF positionFact = Unknown \/ positionFact.quantity = 0 THEN Unknown
         ELSE [positionFact EXCEPT !.quantity = 0, !.at = now]
    ELSE LET lots == IF r.lots = NoLots THEN lotFact
                     ELSE [l \in DOMAIN r.lots |-> EffectiveLot(l, r.lots[l], now)]
         IN  [quantity |-> r.quantity, at |-> now,
              cost |-> IF r.stated # Unknown THEN r.stated ELSE BasisOf(lots, r.quantity)]

NormalizeHolding(r) ==
  /\ normalized = Unknown /\ lotsClock < MaxInstant
  /\ lotsClock' = lotsClock + 1 /\ entered' = Unknown
  /\ normalized' = [report |-> r, lots |-> LotFacts(r, lotsClock + 1),
                    position |-> PositionFact(r, lotsClock + 1), crossed |-> FALSE]
  /\ UNCHANGED <<lotFact, positionFact, disturbed>>

InForce(old, new) ==
  IF new = Unknown \/ (old # Unknown /\ old.at > new.at) THEN old ELSE new

(* What came in force while the night waited stays in force.               *)
CommitHolding ==
  /\ normalized # Unknown
  /\ lotFact' = [l \in LotIds |-> IF l \in DOMAIN normalized.lots
                                    THEN InForce(lotFact[l], normalized.lots[l])
                                    ELSE lotFact[l]]
  /\ positionFact' = InForce(positionFact, normalized.position)
  /\ disturbed' = (normalized.crossed \/ (disturbed /\ ~normalized.report.listed))
  /\ normalized' = Unknown /\ entered' = Unknown
  /\ UNCHANGED lotsClock

-----------------------------------------------------------------------------
(* The operator.  The lots are committed first, the position after them;   *)
(* the host may die in between.                                            *)

EditLots(lots, cut) ==
  /\ lotFact' = lots
  /\ positionFact' = IF cut THEN positionFact ELSE fillPositionBasis(lots, lotsClock + 1)
  /\ disturbed' = (disturbed \/ cut)
  /\ normalized' = IF normalized = Unknown THEN Unknown
                   ELSE [normalized EXCEPT !.crossed = TRUE]
  /\ lotsClock' = lotsClock + 1

(* Mutant of Shares: the last fill's share is rounded like the others.      *)
SharesRounded(ids, total) ==
  LET all == Over(ToSet(ids), LAMBDA l : lotFact[l].quantity)
  IN  [i \in DOMAIN ids |-> RoundedRatio(total * lotFact[ids[i]].quantity, all)]

(* A total is split over the fills by quantity, the last takes what is     *)
(* left.                                                                   *)
Shares(ids, total) ==
  LET all      == Over(ToSet(ids), LAMBDA l : lotFact[l].quantity)
      share(i) == RoundedRatio(total * lotFact[ids[i]].quantity, all)
  IN  [i \in DOMAIN ids |-> IF i < Len(ids) THEN share(i)
                            ELSE total - Over(1 .. Len(ids) - 1, share)]

setLotBasis(ids, perUnit, amount, day, cut) ==
  /\ lotsClock < MaxInstant
  /\ ids \in Seq({l \in LotIds : lotFact[l] # Unknown})
  /\ \E i \in DOMAIN ids : lotFact[ids[i]].quantity > 0
  /\ LET shares == IF perUnit THEN [i \in DOMAIN ids |-> amount * lotFact[ids[i]].quantity]
                              ELSE Shares(ids, amount)
         at(l)  == CHOOSE i \in DOMAIN ids : ids[i] = l
     IN  /\ EditLots([l \in LotIds |->
                        IF l \in ToSet(ids)
                          THEN [lotFact[l] EXCEPT !.cost = shares[at(l)], !.by = "operator",
                                                  !.acquired = day, !.at = lotsClock + 1]
                          ELSE lotFact[l]], cut)
         /\ entered' = [lots |-> ToSet(ids), perUnit |-> perUnit, amount |-> amount]

(* A lot of the operator's own never takes the lots past the position.     *)
addLot(quantity, amount, day, cut) ==
  /\ lotsClock < MaxInstant /\ positionFact # Unknown
  /\ Over(LiveIn(lotFact), LAMBDA l : lotFact[l].quantity) + quantity <= positionFact.quantity
  /\ \E l \in OwnLots :
       /\ lotFact[l] = Unknown /\ \A k \in OwnLots : k < l => lotFact[k] # Unknown
       /\ EditLots([lotFact EXCEPT ![l] = [quantity |-> quantity, cost |-> amount, acquired |-> day,
                                           by |-> "operator", at |-> lotsClock + 1]], cut)
       /\ entered' = [lots |-> {l}, perUnit |-> FALSE, amount |-> amount]

-----------------------------------------------------------------------------
(* The list the operator sees: lots of one day in one state are one order. *)

(* Mutant of sameOrder: lots of one day are one order.                      *)
sameDay(a, b) == a.acquired = b.acquired

sameOrder(a, b) ==
  a.acquired = b.acquired /\ a.by = b.by /\ (a.cost = Unknown) = (b.cost = Unknown)

(* Orders in turn: the first lot of each says what the rest are compared to*)
foldLotRows(lots) ==
  LET add(rows, l) ==
        IF rows # <<>> /\ sameOrder(lotFact[rows[Len(rows)][1]], lotFact[l])
          THEN [rows EXCEPT ![Len(rows)] = Append(@, l)]
          ELSE Append(rows, <<l>>)
      row(ids) ==
        [lots     |-> ids,
         quantity |-> Over(ToSet(ids), LAMBDA l : lotFact[l].quantity),
         cost     |-> IF \E l \in ToSet(ids) : lotFact[l].cost = Unknown THEN Unknown
                      ELSE Over(ToSet(ids), LAMBDA l : lotFact[l].cost)]
      grouped == FoldLeft(add, <<>>, lots)
  IN  [i \in DOMAIN grouped |-> row(grouped[i])]

LotRows == foldLotRows(liveLotsOf)

LotsNext ==
  \/ \E r \in LotReports : NormalizeHolding(r)
  \/ CommitHolding
  \/ \E i \in DOMAIN LotRows, perUnit, cut \in BOOLEAN, amount \in EnteredTotals, day \in Days :
       setLotBasis(LotRows[i].lots, perUnit, amount, day, cut)
  \/ \E quantity \in 1 .. 2, amount \in EnteredTotals, day \in Days, cut \in BOOLEAN :
       addLot(quantity, amount, day, cut)

-----------------------------------------------------------------------------
StatedBases == {r.stated : r \in LotReports}

(* A position claims a basis only when the institution states it or when   *)
(* its lots are all known and cover it, and then it is theirs: a partial   *)
(* basis never passes for a whole one.  An edit that was cut, or that came *)
(* between a night's two steps, may upset this until the next night.       *)
BasisHonest ==
  \/ disturbed \/ positionFact = Unknown \/ positionFact.quantity = 0
  \/ positionFact.cost \in StatedBases \cup {Unknown, BasisOf(lotFact, positionFact.quantity)}

(* A basis the operator entered outlives the feed's nights: while the feed *)
(* has none for the lot and goes on listing it, the lot keeps the          *)
(* operator's, in proportion to what is left of it, and the operator's date*)
OperatorKept ==
  [][\A l \in FeedLots :
       /\ normalized # Unknown /\ normalized' = Unknown
       /\ lotFact'[l] # lotFact[l] /\ lotFact[l] # Unknown
       /\ lotFact[l].by = "operator" /\ lotFact[l].quantity > 0 /\ lotFact'[l].quantity > 0
       /\ ~normalized.crossed /\ normalized.report.lots[l].cost = Unknown
       => LET was == lotFact[l] is == lotFact'[l]
          IN  /\ is.by = "operator" /\ is.acquired = was.acquired
              /\ 2 * (is.cost * was.quantity - was.cost * is.quantity)
                   \in - was.quantity .. was.quantity]_LotsVars

(* What the operator entered is what the lots add up to, to the cent, and  *)
(* no fill of an order of two or three is given less than nothing.         *)
SplitExact ==
  entered # Unknown =>
    LET lots == entered.lots
    IN  /\ Over(lots, LAMBDA l : lotFact[l].cost)
             = IF entered.perUnit THEN entered.amount * Over(lots, LAMBDA l : lotFact[l].quantity)
                                  ELSE entered.amount
        /\ Cardinality(lots) <= 3 => \A l \in lots : lotFact[l].cost >= 0

(* The list hides nothing of the lots: every live lot is in one row, and   *)
(* the rows' quantities and known bases add up to the lots'.               *)
RowsTrue ==
  LET live  == LiveIn(lotFact)
      known == {l \in live : lotFact[l].cost # Unknown}
      rows  == LotRows
      knownRows == {i \in DOMAIN rows : rows[i].cost # Unknown}
  IN  /\ \A l \in live : Cardinality({i \in DOMAIN rows : l \in ToSet(rows[i].lots)}) = 1
      /\ Over(DOMAIN rows, LAMBDA i : rows[i].quantity) = Over(live, LAMBDA l : lotFact[l].quantity)
      /\ Over(knownRows, LAMBDA i : rows[i].cost) = Over(known, LAMBDA l : lotFact[l].cost)
=============================================================================
