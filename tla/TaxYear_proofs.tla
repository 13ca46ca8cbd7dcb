--------------------------- MODULE TaxYear_proofs ---------------------------
(***************************************************************************)
(* Proofs about TaxYear, for any years, runs and books and any number of   *)
(* changes and deaths.                                                     *)
(***************************************************************************)
EXTENDS TaxYear, SequenceTheorems, TLAPS

(* A chain that moved belongs to a run that has its year and was driven.   *)
Begun == \A c \in Chains : at[c] # "idle" => year[c[1]] \in Years /\ c[1] \notin starting
Named == \A r \in starting : year[r] \in Years

TypeInv == TypeOK /\ Begun /\ Named

LEMMA ChainRuns ==
  ASSUME NEW c \in Chains
  PROVE  c[1] \in Runs /\ c[2] \in Stages
  BY DEF Chains

LEMMA SupersededType ==
  ASSUME obligation \in Seq(Obligations), NEW y
  PROVE  /\ Superseded(y) \in 0 .. Len(obligation)
         /\ Current(y) # {} => Superseded(y) \in Current(y)
         /\ Current(y) = {} => Superseded(y) = 0
  <1>1. Current(y) \subseteq 1 .. Len(obligation)
    BY LenProperties DEF Current
  <1>2. Len(obligation) \in Nat
    BY LenProperties
  <1> QED
    BY <1>1, <1>2 DEF Superseded

LEMMA EstimateType ==
  ASSUME books \in Books
  PROVE  estimateQuarter \in Estimates
  BY BooksAssumption DEF estimateQuarter, Estimates

LEMMA NothingType == Nothing \in Estimates
  BY DEF Nothing, Estimates

LEMMA RecordedType ==
  ASSUME finding \in [Fingerprints -> Nat], NEW c
  PROVE  Recorded(c) \in [Fingerprints -> Nat]
  BY DEF Recorded

(* The row taxObligate appends.                                            *)
Row(c) == [year |-> year[c[1]], amount |-> estimate[c].due, over |-> Superseded(year[c[1]])]

LEMMA RowType ==
  ASSUME TypeInv, NEW c \in Chains, at[c] # "idle", ~Unchanged(c)
  PROVE  Row(c) \in Obligations
  <1>1. year[c[1]] \in Years
    BY DEF TypeInv, Begun
  <1>2. estimate[c].due \in Nat \ {0}
    BY DEF TypeInv, TypeOK, Estimates, Unchanged
  <1>3. Superseded(year[c[1]]) \in Nat
    BY SupersededType, LenProperties DEF TypeInv, TypeOK
  <1> QED
    BY <1>1, <1>2, <1>3 DEF Row, Obligations

LEMMA ObligateType ==
  ASSUME TypeInv, NEW c \in Chains, taxObligate(c)
  PROVE  obligation' \in Seq(Obligations)
  <1>1. CASE Unchanged(c)
    BY <1>1 DEF taxObligate, TypeInv, TypeOK
  <1>2. CASE ~Unchanged(c)
    <2>1. obligation' = Append(obligation, Row(c))
      BY <1>2 DEF taxObligate, Row
    <2>2. Row(c) \in Obligations
      BY <1>2, RowType DEF taxObligate, At
    <2> QED
      BY <2>1, <2>2, AppendProperties DEF TypeInv, TypeOK
  <1> QED
    BY <1>1, <1>2

-----------------------------------------------------------------------------
(* Types.                                                                  *)

LEMMA TypeInit == Init => TypeInv
  <1> SUFFICES ASSUME Init PROVE TypeInv
    OBVIOUS
  <1>1. TypeOK
    BY NothingType, YearsAssumption, EmptySeq
    DEF Init, TypeOK, Places, InFlight
  <1> QED
    BY <1>1 DEF Init, TypeInv, Begun, Named

LEMMA TypeNext == TypeInv /\ [Next]_vars => TypeInv'
  <1> SUFFICES ASSUME TypeInv, [Next]_vars PROVE TypeInv'
    OBVIOUS
  <1> USE DEF TypeInv
  <1>1. ASSUME NEW r \in Standing, NEW y \in Years, startTaxYear(r, y)
        PROVE  TypeInv'
    <2>1. TypeOK'
      BY <1>1 DEF startTaxYear, TypeOK, Runs, ledger
    <2>2. \A c \in Chains : at[c] # "idle" => c[1] # r
      BY <1>1, YearsAssumption DEF startTaxYear, Begun
    <2> QED
      BY <1>1, <2>1, <2>2 DEF startTaxYear, TypeOK, Begun, Named, Runs
  <1>2. ASSUME NEW r \in Standing, drive(r)
        PROVE  TypeInv'
    <2>1. TypeOK'
      BY <1>2 DEF drive, TypeOK, ledger, Places
    <2>2. \A c \in Chains : c \in chainsOf(r) <=> c[1] = r
      BY DEF chainsOf, Chains
    <2>3. ASSUME NEW c \in Chains, at'[c] # "idle"
          PROVE  (year[c[1]] \in Years /\ c[1] \notin starting)'
      <3>1. CASE c[1] = r
        BY <1>2, <3>1 DEF drive, Named
      <3>2. CASE c[1] # r
        BY <1>2, <2>2, <2>3, <3>2 DEF drive, TypeOK, Begun
      <3> QED
        BY <3>1, <3>2
    <2> QED
      BY <1>2, <2>1, <2>3 DEF drive, Begun, Named
  <1>3. ASSUME NEW r \in Runs, Flush(r)
        PROVE  TypeInv'
    <2>1. TypeOK'
      BY <1>3 DEF Flush, TypeOK, ledger, Places
    <2> QED
      BY <1>3, <2>1 DEF Flush, TypeOK, Begun, Named
  <1>4. ASSUME NEW r \in Checks, NEW s \in Stages, runTaxCheck(r, s)
        PROVE  TypeInv'
    <2>1. r \in Runs /\ <<r, s>> \in Chains /\ r \notin starting
      BY RunsAssumption DEF Runs, Chains, TypeOK
    <2>2. TypeOK'
      BY <1>4, <2>1 DEF runTaxCheck, TypeOK, ledger, Places, InFlight
    <2>3. \A c \in Chains : at[c] # "idle" => c[1] # r
      BY <1>4, YearsAssumption DEF runTaxCheck, Begun
    <2>4. ASSUME NEW c \in Chains, at'[c] # "idle"
          PROVE  (year[c[1]] \in Years /\ c[1] \notin starting)'
      <3>1. CASE c = <<r, s>>
        BY <1>4, <2>1, <3>1 DEF runTaxCheck, TypeOK
      <3>2. CASE c # <<r, s>>
        <4>1. at[c] # "idle"
          BY <1>4, <2>4, <3>2 DEF runTaxCheck, TypeOK
        <4> QED
          BY <1>4, <4>1, <2>3, ChainRuns DEF runTaxCheck, TypeOK, Begun
      <3> QED
        BY <3>1, <3>2
    <2>5. \A q \in starting : q # r
      BY <2>1
    <2> QED
      BY <1>4, <2>1, <2>2, <2>4, <2>5 DEF runTaxCheck, TypeOK, Begun, Named, Runs
  <1>5. ASSUME NEW s \in Stages, skipTaxDeadline(s)
        PROVE  TypeInv'
    BY <1>5 DEF skipTaxDeadline, TypeOK, ledger, Active, Runs, Chains, Begun, Named
  <1>6. ASSUME NEW c \in Chains, ChainStep(c)
        PROVE  TypeInv'
    <2>1. at' = at \/ \E place \in Places : Goto(c, place)
      BY <1>6 DEF ChainStep, Expire, Skip, taxSkip, taxEstimate, taxRecord, taxObligate,
                  taxConfirm, End, Places, InFlight
    <2>2. /\ at[c] # "idle"
          /\ year' = year /\ starting' = starting
          /\ profile' = profile /\ books' = books /\ upsets' = upsets
      BY <1>6 DEF ChainStep, Expire, Skip, taxSkip, taxEstimate, taxRecord, taxObligate,
                  taxConfirm, At
    <2>3. at' \in [Chains -> Places]
      BY <2>1 DEF Goto, TypeOK
    <2>4. estimate' \in [Chains -> Estimates]
      BY <1>6, EstimateType, NothingType
      DEF ChainStep, Expire, Skip, taxSkip, taxEstimate, taxRecord, taxObligate, taxConfirm,
          End, TypeOK
    <2>5. failed' \in SUBSET Runs /\ asked' \in SUBSET Chains
      BY <1>6, ChainRuns
      DEF ChainStep, Expire, Skip, taxSkip, taxEstimate, taxRecord, taxObligate, taxConfirm,
          TypeOK
    <2>6. finding' \in [Fingerprints -> Nat] /\ event' \in SUBSET Events
      BY <1>6, RecordedType
      DEF ChainStep, Expire, Skip, taxSkip, taxEstimate, taxRecord, taxObligate, taxConfirm,
          ledger, TypeOK, Events, EventKinds
    <2>7. obligation' \in Seq(Obligations)
      BY <1>6, ObligateType
      DEF ChainStep, Expire, Skip, taxSkip, taxEstimate, taxRecord, taxConfirm, ledger, TypeOK
    <2>8. TypeOK'
      BY <2>2, <2>3, <2>4, <2>5, <2>6, <2>7 DEF TypeOK
    <2>9. \A d \in Chains : at'[d] # "idle" => at[d] # "idle"
      BY <2>1, <2>2 DEF Goto, TypeOK
    <2> QED
      BY <2>2, <2>8, <2>9 DEF Begun, Named
  <1>7. ASSUME Die, finding' \in [Fingerprints -> Nat], event' = event
        PROVE  TypeInv'
    <2>1. TypeOK'
      BY <1>7 DEF Die, Upset, Interrupted, TypeOK
    <2>2. ASSUME NEW c \in Chains, at'[c] # "idle"
          PROVE  (year[c[1]] \in Years /\ c[1] \notin starting)'
      BY <1>7, <2>2, ChainRuns DEF Die, Begun
    <2> QED
      BY <1>7, <2>1, <2>2 DEF Die, Begun, Named
  <1>8. ASSUME NEW c \in Chains, CrashInRecord(c)
        PROVE  TypeInv'
    BY <1>7, <1>8, RecordedType DEF CrashInRecord, TypeOK
  <1>9. ASSUME NEW y \in Years, saveTaxProfile(y)
        PROVE  TypeInv'
    BY <1>9 DEF saveTaxProfile, Upset, TypeOK, ledger, Begun, Named
  <1>10. ASSUME NEW f \in Fingerprints, resolveFinding(f)
         PROVE  TypeInv'
    <2>1. finding' \in [Fingerprints -> Nat]
      BY <1>10 DEF resolveFinding, TypeOK
    <2> QED
      BY <1>10, <2>1 DEF resolveFinding, Upset, TypeOK, Begun, Named
  <1>11. CASE Crash
    BY <1>7, <1>11 DEF Crash, TypeOK
  <1>12. CASE Rebook
    BY <1>12 DEF Rebook, Upset, TypeOK, ledger, Begun, Named
  <1>13. CASE UNCHANGED vars
    BY <1>13 DEF vars, ledger, TypeOK, Begun, Named
  <1> QED
    BY <1>1, <1>2, <1>3, <1>4, <1>5, <1>6, <1>8, <1>9, <1>10, <1>11, <1>12, <1>13 DEF Next

(* Every reachable state is well typed.                                    *)
THEOREM TypeCorrect == Spec => []TypeOK
  <1>1. TypeInv => TypeOK
    BY DEF TypeInv
  <1> QED
    BY <1>1, TypeInit, TypeNext, PTL DEF Spec
-----------------------------------------------------------------------------
(* Obligations.                                                            *)

(* Rows supersede rows before them.                                        *)
Linked == \A i \in DOMAIN obligation : obligation[i].over \in 0 .. i - 1

ObligationInv == TypeInv /\ Linked /\ OneObligation

LEMMA ObligationKept ==
  ASSUME Linked, OneObligation, obligation' = obligation
  PROVE  Linked' /\ OneObligation'
  BY DEF Linked, OneObligation, Current

(* The new row is current, the row it supersedes is not, and no other      *)
(* becomes so.                                                             *)
LEMMA ObligationAppended ==
  ASSUME ObligationInv, NEW c \in Chains, Row(c) \in Obligations,
         obligation' = Append(obligation, Row(c))
  PROVE  Linked' /\ OneObligation'
  <1> DEFINE n == Len(obligation)
             k == Superseded(year[c[1]])
  <1>1. /\ n \in Nat /\ DOMAIN obligation = 1 .. n
        /\ DOMAIN obligation' = 1 .. n + 1
        /\ \A i \in 1 .. n : obligation'[i] = obligation[i]
        /\ obligation'[n + 1] = Row(c)
    BY LenProperties, AppendProperties DEF ObligationInv, TypeInv, TypeOK
  <1>2. /\ k \in 0 .. n
        /\ Current(year[c[1]]) # {} => k \in Current(year[c[1]])
    BY SupersededType DEF ObligationInv, TypeInv, TypeOK
  <1>3. Row(c).over = k /\ Row(c).year = year[c[1]]
    BY DEF Row
  <1>4. Linked'
    <2> SUFFICES ASSUME NEW i \in 1 .. n + 1
                 PROVE  obligation'[i].over \in 0 .. i - 1
      BY <1>1 DEF Linked
    <2>1. CASE i = n + 1
      BY <1>1, <1>2, <1>3, <2>1
    <2>2. CASE i # n + 1
      BY <1>1, <2>2 DEF ObligationInv, Linked
    <2> QED
      BY <2>1, <2>2
  <1>5. ASSUME NEW y \in Years, NEW i \in 1 .. n, i \in Current(y)'
        PROVE  i \in Current(y) /\ i # k
    <2>1. \A j \in 1 .. n + 1 : obligation'[j].over # i
      BY <1>1, <1>5 DEF Current
    <2>2. i # k
      BY <1>1, <1>3, <2>1
    <2>3. \A j \in 1 .. n : obligation[j].over # i
      BY <1>1, <2>1
    <2>4. obligation[i].year = y
      BY <1>1, <1>5 DEF Current
    <2> QED
      BY <1>1, <2>2, <2>3, <2>4 DEF Current
  <1>6. ASSUME NEW y \in Years, NEW i \in 1 .. n, i \in Current(y)'
        PROVE  y # year[c[1]]
    <2> SUFFICES ASSUME y = year[c[1]] PROVE FALSE
      OBVIOUS
    <2>1. i \in Current(y) /\ i # k
      BY <1>5, <1>6
    <2>2. k \in Current(y)
      BY <1>2, <2>1
    <2> QED
      BY <2>1, <2>2 DEF ObligationInv, OneObligation
  <1>7. OneObligation'
    <2> SUFFICES ASSUME NEW y \in Years, NEW i \in Current(y)', NEW j \in Current(y)'
                 PROVE  i = j
      BY DEF OneObligation
    <2>1. i \in 1 .. n + 1 /\ j \in 1 .. n + 1
      BY <1>1 DEF Current
    <2>2. n + 1 \in Current(y)' => y = year[c[1]]
      BY <1>1, <1>3 DEF Current
    <2>3. CASE i \in 1 .. n /\ j \in 1 .. n
      BY <1>5, <2>3 DEF ObligationInv, OneObligation
    <2>4. CASE i = n + 1 \/ j = n + 1
      <3>1. y = year[c[1]]
        BY <2>2, <2>4
      <3>2. i \notin 1 .. n /\ j \notin 1 .. n
        BY <1>6, <3>1
      <3> QED
        BY <1>1, <2>1, <3>2
    <2> QED
      BY <1>1, <2>1, <2>3, <2>4
  <1> QED
    BY <1>4, <1>7

LEMMA ObligationNext ==
  ASSUME ObligationInv, [Next]_vars
  PROVE  ObligationInv'
  <1>1. TypeInv'
    BY TypeNext DEF ObligationInv
  <1>2. CASE \E c \in Chains : taxObligate(c)
    <2>1. PICK c \in Chains : taxObligate(c)
      BY <1>2
    <2>2. CASE Unchanged(c)
      BY <1>1, <2>1, <2>2, ObligationKept DEF taxObligate, ObligationInv
    <2>3. CASE ~Unchanged(c)
      <3>1. obligation' = Append(obligation, Row(c))
        BY <2>1, <2>3 DEF taxObligate, Row
      <3>2. Row(c) \in Obligations
        BY <2>1, <2>3, RowType DEF taxObligate, At, ObligationInv
      <3> QED
        BY <1>1, <3>1, <3>2, ObligationAppended DEF ObligationInv
    <2> QED
      BY <2>2, <2>3
  <1>3. CASE ~\E c \in Chains : taxObligate(c)
    <2>1. obligation' = obligation
      BY <1>3
      DEF Next, vars, ledger, startTaxYear, drive, Flush, runTaxCheck, skipTaxDeadline, ChainStep,
          Expire, Skip, taxSkip, taxEstimate, taxRecord, taxConfirm, CrashInRecord, Die,
          saveTaxProfile, resolveFinding, Crash, Rebook
    <2> QED
      BY <1>1, <2>1, ObligationKept DEF ObligationInv
  <1> QED
    BY <1>2, <1>3

(* However many deadlines and checks write it, a year's obligation has one *)
(* current row: a row supersedes one before it, and the one that is        *)
(* current when it is written.                                             *)
THEOREM ObligationIsOne == Spec => []OneObligation
  <1>1. Init => ObligationInv
    BY TypeInit DEF Init, ObligationInv, Linked, OneObligation, Current
  <1>2. ObligationInv /\ [Next]_vars => ObligationInv'
    BY ObligationNext
  <1>3. ObligationInv => OneObligation
    BY DEF ObligationInv
  <1> QED
    BY <1>1, <1>2, <1>3, PTL DEF Spec

-----------------------------------------------------------------------------
(* Deadlines.                                                              *)

EventOf(kind, c) == [kind |-> kind, by |-> c]

Unchecked == {"idle", "parked", "est", "rec", "skip"}

(* A chain that has not recorded an estimate has announced none, and one   *)
(* that announced a skip is over.                                          *)
Untold == \A c \in Chains : at[c] \in Unchecked => EventOf("tax.estimate", c) \notin event
Over == \A c \in Chains : EventOf("tax.skipped", c) \in event => at[c] \in {"ended", "done"}

DeadlineInv == TypeInv /\ Untold /\ Over /\ SkippedOrChecked

(* Steps that announce nothing keep a chain on its side of the record.     *)
Forward(c) ==
  \/ at'[c] = at[c]
  \/ at[c] \in Unchecked /\ at'[c] \in Unchecked
  \/ at[c] \notin Unchecked \cup {"ended", "done"} /\ at'[c] \notin Unchecked
  \/ at[c] = "ended" /\ at'[c] = "done"

LEMMA Quiet ==
  ASSUME DeadlineInv, TypeInv', event' = event,
         \A c \in Chains : Forward(c)
  PROVE  DeadlineInv'
  BY DEF DeadlineInv, Untold, Over, SkippedOrChecked, EventOf, Forward, Unchecked

LEMMA DeadlineNext ==
  ASSUME DeadlineInv, [Next]_vars
  PROVE  DeadlineInv'
  <1> USE DEF DeadlineInv
  <1>0. TypeInv' /\ at \in [Chains -> Places]
    BY TypeNext DEF TypeInv, TypeOK
  <1>1. ASSUME NEW r \in Standing, drive(r)
        PROVE  DeadlineInv'
    <2>1. \A c \in Chains : c[1] = r => at[c] = "idle"
      BY <1>1 DEF drive, TypeInv, Begun
    <2>2. \A c \in Chains : c \in chainsOf(r) => c[1] = r
      BY DEF chainsOf
    <2>3. \A c \in Chains : Forward(c)
      BY <1>1, <2>1, <2>2 DEF drive, Forward, Unchecked
    <2>4. event' = event
      BY <1>1 DEF drive, ledger
    <2> QED
      BY <1>0, <2>3, <2>4, Quiet
  <1>2. ASSUME NEW r \in Checks, NEW s \in Stages, runTaxCheck(r, s)
        PROVE  DeadlineInv'
    <2>1. \A c \in Chains : c = <<r, s>> => at[c] = "idle"
      BY <1>2, YearsAssumption DEF runTaxCheck, TypeInv, Begun
    <2>2. \A c \in Chains : Forward(c)
      BY <1>0, <1>2, <2>1 DEF runTaxCheck, Forward, Unchecked
    <2>3. event' = event
      BY <1>2 DEF runTaxCheck, ledger
    <2> QED
      BY <1>0, <2>2, <2>3, Quiet
  <1>3. ASSUME NEW r \in Runs, Flush(r)
        PROVE  DeadlineInv'
    <2>1. \A c \in Chains : Forward(c)
      BY <1>3 DEF Flush, Forward
    <2>2. event' = event
      BY <1>3 DEF Flush, ledger
    <2> QED
      BY <1>0, <2>1, <2>2, Quiet
  <1>4. ASSUME NEW c \in Chains, Expire(c) \/ Skip(c) \/ taxEstimate(c)
        PROVE  DeadlineInv'
    <2>1. \A d \in Chains : Forward(d)
      BY <1>0, <1>4 DEF Expire, Skip, taxEstimate, At, Goto, Forward, Unchecked
    <2>2. event' = event
      BY <1>4 DEF Expire, Skip, taxEstimate, ledger
    <2> QED
      BY <1>0, <2>1, <2>2, Quiet
  <1>5. ASSUME NEW c \in Chains, taxObligate(c)
        PROVE  DeadlineInv'
    <2>1. at[c] = "obl" /\ (Goto(c, "ok") \/ Goto(c, "ended")) /\ event' = event
      BY <1>5 DEF taxObligate, At, End
    <2>2. \A d \in Chains : Forward(d)
      BY <1>0, <2>1 DEF Goto, Forward, Unchecked
    <2> QED
      BY <1>0, <2>1, <2>2, Quiet
  <1>6. ASSUME NEW c \in Chains, taxSkip(c)
        PROVE  DeadlineInv'
    <2>1. /\ at[c] = "skip" /\ at' = [at EXCEPT ![c] = "ended"]
          /\ event' = event \cup {EventOf("tax.skipped", c)}
      BY <1>6 DEF taxSkip, At, Goto, EventOf
    <2>2. EventOf("tax.estimate", c) \notin event
      BY <2>1 DEF Untold, Unchecked
    <2>3. Untold'
      BY <1>0, <2>1 DEF Untold, Unchecked, EventOf
    <2>4. Over'
      BY <1>0, <2>1 DEF Over, EventOf
    <2>5. SkippedOrChecked'
      BY <2>1, <2>2 DEF SkippedOrChecked, EventOf
    <2> QED
      BY <1>0, <2>3, <2>4, <2>5
  <1>7. ASSUME NEW c \in Chains, taxRecord(c)
        PROVE  DeadlineInv'
    <2>1. /\ at[c] = "rec" /\ at' = [at EXCEPT ![c] = "obl"]
          /\ event' = event \cup {EventOf("tax.estimate", c)}
      BY <1>7 DEF taxRecord, At, Goto, EventOf
    <2>2. EventOf("tax.skipped", c) \notin event
      BY <2>1 DEF Over
    <2>3. Untold'
      BY <1>0, <2>1 DEF Untold, Unchecked, EventOf
    <2>4. Over'
      BY <1>0, <2>1, <2>2 DEF Over, EventOf
    <2>5. SkippedOrChecked'
      BY <2>1, <2>2 DEF SkippedOrChecked, EventOf
    <2> QED
      BY <1>0, <2>3, <2>4, <2>5
  <1>8. ASSUME NEW c \in Chains, taxConfirm(c)
        PROVE  DeadlineInv'
    <2>1. /\ at[c] = "ok" /\ at' = [at EXCEPT ![c] = "ended"]
          /\ event' = event \cup {EventOf("tax.ready", c)}
      BY <1>8 DEF taxConfirm, At, Goto, End, EventOf
    <2>2. Untold'
      BY <1>0, <2>1 DEF Untold, Unchecked, EventOf
    <2>3. Over'
      BY <1>0, <2>1 DEF Over, EventOf
    <2>4. SkippedOrChecked'
      BY <2>1 DEF SkippedOrChecked, EventOf
    <2> QED
      BY <1>0, <2>2, <2>3, <2>4
  <1>9. CASE at' = at /\ event' = event
    BY <1>0, <1>9, Quiet DEF Forward
  <1> QED
    BY <1>1, <1>2, <1>3, <1>4, <1>5, <1>6, <1>7, <1>8, <1>9
    DEF Next, vars, ledger, startTaxYear, skipTaxDeadline, ChainStep, CrashInRecord, Die,
        saveTaxProfile, resolveFinding, Crash, Rebook

(* A deadline that was skipped was not checked, nor the other way round,   *)
(* whatever the timer, the signal and the deaths of the host do.           *)
THEOREM SkippedIsUnchecked == Spec => []SkippedOrChecked
  <1>1. Init => DeadlineInv
    BY TypeInit DEF Init, DeadlineInv, Untold, Over, SkippedOrChecked
  <1>2. DeadlineInv /\ [Next]_vars => DeadlineInv'
    BY DeadlineNext
  <1>3. DeadlineInv => SkippedOrChecked
    BY DEF DeadlineInv
  <1> QED
    BY <1>1, <1>2, <1>3, PTL DEF Spec

-----------------------------------------------------------------------------
(* Findings.                                                               *)

FindingInv == TypeInv /\ OneOpen

(* No condition is open twice: the look at the open findings and the rows  *)
(* are one handler.                                                        *)
THEOREM ConditionsOpenOnce == Spec => []OneOpen
  <1>1. Init => FindingInv
    BY TypeInit DEF Init, FindingInv, OneOpen
  <1>2. FindingInv /\ [Next]_vars => FindingInv'
    <2> SUFFICES ASSUME FindingInv, [Next]_vars PROVE FindingInv'
      OBVIOUS
    <2>1. TypeInv' /\ finding \in [Fingerprints -> Nat]
      BY TypeNext DEF FindingInv, TypeInv, TypeOK
    <2>2. ASSUME NEW c \in Chains, finding' = Recorded(c)
          PROVE  OneOpen'
      BY <2>1, <2>2 DEF Recorded, suppressKnown, OneOpen, FindingInv
    <2>3. ASSUME NEW f \in Fingerprints, resolveFinding(f)
          PROVE  OneOpen'
      BY <2>1, <2>3 DEF resolveFinding, OneOpen, FindingInv
    <2>4. CASE finding' = finding
      BY <2>1, <2>4 DEF OneOpen, FindingInv
    <2>5. \/ \E c \in Chains : finding' = Recorded(c)
          \/ \E f \in Fingerprints : resolveFinding(f)
          \/ finding' = finding
      BY DEF Next, vars, ledger, startTaxYear, drive, Flush, runTaxCheck, skipTaxDeadline,
             ChainStep, Expire, Skip, taxSkip, taxEstimate, taxRecord, taxObligate, taxConfirm,
             CrashInRecord, saveTaxProfile, Crash, Rebook
    <2> QED
      BY <2>1, <2>2, <2>3, <2>4, <2>5 DEF FindingInv
  <1>3. FindingInv => OneOpen
    BY DEF FindingInv
  <1> QED
    BY <1>1, <1>2, <1>3, PTL DEF Spec

(* Chains in flight together agree on a year, however many there are.      *)
THEOREM YearAlwaysStands == Spec => []YearStands
  BY ObligationIsOne, ConditionsOpenOnce, SkippedIsUnchecked, PTL DEF YearStands

-----------------------------------------------------------------------------
(* Recording.                                                              *)

(* What an estimate finds are conditions of its year and deadline.         *)
LEMMA DraftsType ==
  ASSUME TypeInv, NEW c \in Chains, at[c] # "idle"
  PROVE  Drafts(c) \subseteq Fingerprints
  <1>1. year[c[1]] \in Years /\ c[2] \in Stages
    BY ChainRuns DEF TypeInv, Begun
  <1> QED
    BY <1>1 DEF Drafts, Fingerprints, Codes

(* Only its own record takes a chain from the estimate to the obligation.  *)
LEMMA RecordedByItsStep ==
  ASSUME TypeInv, [Next]_vars, NEW c \in Chains, at[c] = "rec", at'[c] = "obl"
  PROVE  taxRecord(c)
  <1>0. at \in [Chains -> Places]
    BY DEF TypeInv, TypeOK
  <1>1. ASSUME NEW d \in Chains, ChainStep(d)
        PROVE  taxRecord(c)
    <2>1. at' = at \/ \E p \in Places : at' = [at EXCEPT ![d] = p]
      BY <1>1 DEF ChainStep, Expire, Skip, taxSkip, taxEstimate, taxRecord, taxObligate,
                  taxConfirm, End, Goto, Places, InFlight
    <2>2. d = c
      BY <1>0, <2>1
    <2>3. ~(Expire(c) \/ Skip(c) \/ taxSkip(c) \/ taxEstimate(c) \/ taxObligate(c) \/ taxConfirm(c))
      BY DEF Expire, Skip, taxSkip, taxEstimate, taxObligate, taxConfirm, At
    <2> QED
      BY <1>1, <2>2, <2>3 DEF ChainStep
  <1>2. ASSUME NEW r \in Standing, drive(r) PROVE FALSE
    BY <1>2 DEF drive
  <1>3. ASSUME NEW r \in Runs, Flush(r) PROVE FALSE
    BY <1>3 DEF Flush
  <1>4. ASSUME NEW r \in Checks, NEW s \in Stages, runTaxCheck(r, s) PROVE FALSE
    BY <1>0, <1>4 DEF runTaxCheck
  <1>5. CASE at' = at
    BY <1>5
  <1> QED
    BY <1>1, <1>2, <1>3, <1>4, <1>5
    DEF Next, vars, startTaxYear, skipTaxDeadline, CrashInRecord, Die, saveTaxProfile,
        resolveFinding, Crash, Rebook

(* The step that records an estimate leaves each of its conditions open,   *)
(* whatever the operator closed before and whichever chain opened it: what *)
(* the deduplication drops was open already.                               *)
THEOREM RecordAlwaysAsks == Spec => RecordAsks
  <1>1. TypeInv /\ [Next]_vars =>
          \A c \in Chains : at[c] = "rec" /\ at'[c] = "obl" =>
            \A d \in Drafts(c) : finding'[d] > 0
    <2> SUFFICES ASSUME TypeInv, [Next]_vars, NEW c \in Chains, at[c] = "rec", at'[c] = "obl",
                        NEW d \in Drafts(c)
                 PROVE  finding'[d] > 0
      OBVIOUS
    <2>1. finding' = Recorded(c)
      BY RecordedByItsStep DEF taxRecord
    <2>2. d \in Fingerprints /\ finding[d] \in Nat
      BY DraftsType DEF TypeInv, TypeOK
    <2> QED
      BY <2>1, <2>2 DEF Recorded, suppressKnown
  <1>2. Spec => []TypeInv
    BY TypeInit, TypeNext, PTL DEF Spec
  <1> QED
    BY <1>1, <1>2, PTL DEF Spec, RecordAsks
=============================================================================
