------------------------------ MODULE Transfers ------------------------------
(***************************************************************************)
(* Internal transfers: the nightly pairs what left one account of the      *)
(* household with what came into another (classifyTransfers in             *)
(* normalize.ts).  The two legs may be reported on different nights, and a *)
(* movement whose content changed is reported again; a row of the ledger   *)
(* is read, never rewritten.                                               *)
(***************************************************************************)
EXTENDS Integers, Sequences, FiniteSets, SequencesExt, FiniteSetsExt

CONSTANTS Movements,   \* ids, in the order of posting day, account and id
          MovementOf,  \* what a movement is
          TransferWindow,  \* days between the legs, at most
          FeeParts,    \* a fee is at most one part in so many of what arrived
          NoQuantity,
          MaxPairings

ASSUME MovementsAssumption ==
  /\ Movements \subseteq Nat /\ IsFiniteSet(Movements) /\ FeeParts \in Nat \ {0}
  /\ \A x \in Movements : MovementOf[x].posted \in Int /\ MovementOf[x].amount \in Int
  /\ \A x, y \in Movements : x < y => MovementOf[x].posted <= MovementOf[y].posted

VARIABLES
  rows,      \* per movement in the ledger: the pair it was marked with, {} for none
  lastNight, \* what the last night proposed, and its pairs
  counted,   \* history: with what each leg was paired since it was reported
             \* last, and whether on the night that reported it
  nightsLeft

TransfersVars == <<rows, lastNight, counted, nightsLeft>>

TransfersTypeOK ==
  /\ DOMAIN rows \subseteq Movements /\ \A x \in DOMAIN rows : rows[x] \subseteq Movements
  /\ lastNight.proposed \subseteq Movements
  /\ \A p \in lastNight.pairs : p.out \in Movements /\ p.in \in Movements
  /\ \A c \in counted : c.leg \in DOMAIN rows /\ c.with \in Movements /\ c.told \in BOOLEAN
  /\ nightsLeft \in 0 .. MaxPairings

TransfersInit ==
  /\ rows = [x \in {} |-> {}] /\ counted = {} /\ nightsLeft = MaxPairings
  /\ lastNight = [proposed |-> {}, legs |-> {}, pairs |-> {}]

-----------------------------------------------------------------------------
Size(n) == IF n < 0 THEN - n ELSE n

Outs(legs) == {x \in legs : MovementOf[x].amount < 0 /\ MovementOf[x].type \in {"debit", "transfer_out", "other"}}
Ins(legs) ==
  {x \in legs : /\ MovementOf[x].amount > 0
                /\ MovementOf[x].type \in {"credit", "transfer_in", "income", "dividend", "interest", "other"}}

(* One movement seen from both sides: the amount, or of one instrument as  *)
(* much as was sent, less a small fee.                                     *)
sameMovement(o, i) ==
  LET out == MovementOf[o] in == MovementOf[i]
      sent == Size(out.quantity) got == Size(in.quantity)
  IN  \/ Size(out.amount) = in.amount
      \/ /\ out.instrument # NoQuantity /\ out.instrument = in.instrument
         /\ out.quantity # NoQuantity /\ in.quantity # NoQuantity
         /\ got > 0 /\ got <= sent /\ FeeParts * (sent - got) <= got

Apart(o, i) == Size(MovementOf[o].posted - MovementOf[i].posted)

(* Mutant of CouldPair: a leg in the same account will do.                  *)
CouldPairWithin(o, i) == sameMovement(o, i) /\ Apart(o, i) <= TransferWindow

CouldPair(o, i) ==
  /\ MovementOf[o].account # MovementOf[i].account
  /\ sameMovement(o, i) /\ Apart(o, i) <= TransferWindow

(* The closest in time, of those the smallest id.                          *)
Closest(o, among) ==
  CHOOSE i \in among : \A j \in among : Apart(o, i) < Apart(o, j) \/ (Apart(o, i) = Apart(o, j) /\ i <= j)

(* Tonight's facts, and what the ledger holds and no pair has marked.      *)
LegsTonight(proposed) == proposed \cup {x \in DOMAIN rows \ proposed : rows[x] = {}}

(* Mutant of AfterBest: a leg that is not rewritten counts as used.         *)
AfterBestUsed(state, o, best, proposed) ==
  [used  |-> state.used \cup {o, best},
   pairs |-> state.pairs \cup IF {o, best} \cap proposed = {} THEN {} ELSE {[out |-> o, in |-> best]}]

(* Two rows of the ledger are left as they are, and free for others.       *)
AfterBest(state, o, best, proposed) ==
  IF {o, best} \cap proposed = {} THEN state
  ELSE [used  |-> state.used \cup {o, best},
        pairs |-> state.pairs \cup {[out |-> o, in |-> best]}]

(* What left takes the closest of what came and is free yet.               *)
Pairing(o, state, legs, proposed) ==
  LET open == {i \in Ins(legs) \ state.used : CouldPair(o, i)}
  IN  IF open = {} THEN state ELSE AfterBest(state, o, Closest(o, open), proposed)

(* One after the other, in their order: the last over those before.        *)
classifyTransfers(proposed) ==
  LET legs == LegsTonight(proposed)
  IN  MapThenFoldSet(LAMBDA o, state : Pairing(o, state, legs, proposed), [used |-> {}, pairs |-> {}],
                     LAMBDA o : o, Max, Outs(legs)).pairs

LegsOf(pairs, proposed) ==
  {[leg |-> p.out, with |-> p.in, told |-> p.out \in proposed] : p \in pairs}
  \cup {[leg |-> p.in, with |-> p.out, told |-> p.in \in proposed] : p \in pairs}

(* Only tonight's facts are marked.                                        *)
NormalizeMovements(proposed) ==
  LET pairs == classifyTransfers(proposed)
      mark(x) == UNION {{p.out, p.in} : p \in {q \in pairs : x \in {q.out, q.in}}}
  IN  /\ nightsLeft > 0 /\ proposed # {}
      /\ nightsLeft' = nightsLeft - 1
      /\ rows' = [x \in DOMAIN rows \cup proposed |-> IF x \in proposed THEN mark(x) ELSE rows[x]]
      /\ lastNight' = [proposed |-> proposed, legs |-> LegsTonight(proposed), pairs |-> pairs]
      /\ counted' = {c \in counted : c.leg \notin proposed} \cup LegsOf(pairs, proposed)

TransfersNext == \E proposed \in SUBSET Movements : NormalizeMovements(proposed)

-----------------------------------------------------------------------------
(* A night counts no leg twice, and takes nothing for internal that stayed *)
(* in one account, came back, or came too late.                            *)
LegsOnce ==
  /\ \A p \in lastNight.pairs :
       /\ MovementOf[p.out].amount < 0 /\ MovementOf[p.in].amount > 0
       /\ MovementOf[p.out].account # MovementOf[p.in].account
       /\ Apart(p.out, p.in) <= TransferWindow
  /\ \A p, q \in lastNight.pairs : p # q => {p.out, p.in} \cap {q.out, q.in} = {}

(* Over the nights: a movement paired on the night that reports it is in   *)
(* no other pair until it is reported anew.  A row a later night finds a   *)
(* partner for is not rewritten: it is free for the nights after, and may  *)
(* be a leg of a pair of each (classifyTransfers: normalize.ts).           *)
CountedOnce == \A c, d \in counted : c.leg = d.leg /\ c.with # d.with => ~c.told

(* Of what a night is told, nothing that left is taken for spent while the *)
(* household has an arrival of it that nothing else explains.              *)
NoneMissed ==
  LET paired == UNION {{p.out, p.in} : p \in lastNight.pairs}
  IN  \A o \in Outs(lastNight.proposed) \ paired :
        \A i \in Ins(lastNight.legs) \ paired : ~CouldPair(o, i)
=============================================================================
