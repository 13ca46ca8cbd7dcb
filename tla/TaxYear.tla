------------------------------- MODULE TaxYear -------------------------------
(***************************************************************************)
(* The tax year (packages/workflows/src/tax-year.ts) with the handlers of  *)
(* packages/actions/src/tax/handlers.ts: standing runs whose deadlines are *)
(* timed gates side by side, tax checks that run the same chain on demand, *)
(* the findings, events and obligation they write into one ledger, and the *)
(* operator who starts years, skips deadlines and saves his profile.       *)
(*                                                                         *)
(* One quarter: the quarters of a year share their runs and nothing they   *)
(* write.  A chain is what hangs off one deadline's gate in one run.       *)
(***************************************************************************)
EXTENDS Naturals, Sequences

CONSTANTS Years,        \* tax years
          FirstYear,    \* the year of the first profile on file
          Standing,     \* tax-year runs
          Checks,       \* tax-check runs
          Books,        \* what the books may come to for the quarter
          MaxUpsets     \* bound on changes of the books, profiles saved for
                        \* another year, findings resolved and host deaths

ASSUME YearsAssumption == FirstYear \in Years /\ 0 \notin Years
ASSUME RunsAssumption == Standing \cap Checks = {}
(* What an estimate reads: the installment the figures come to, whether    *)
(* the reserve holds it, and whether a contributing account is provisional.*)
ASSUME BooksAssumption ==
  Books # {} /\ Books \subseteq [due : Nat, funded : BOOLEAN, held : BOOLEAN]
ASSUME BoundAssumption == MaxUpsets \in Nat

Stages == {"pre", "due"}
Runs == Standing \cup Checks
Chains == Runs \X Stages

InFlight == {"est", "rec", "obl", "ok", "skip"}
Places == InFlight \cup {"idle", "parked", "ended", "done"}

Estimates == [due : Nat, covered : BOOLEAN, blocked : BOOLEAN]
Nothing == [due |-> 0, covered |-> FALSE, blocked |-> FALSE]

Codes == {"tax_estimate_blocked", "estimated_tax_due", "reserve_shortfall"}
Fingerprints == [code : Codes, year : Years, stage : Stages]

EventKinds == {"tax.estimate", "tax.ready", "tax.skipped"}
Events == [kind : EventKinds, by : Chains]

(* An obligation fact; over is the row it supersedes, 0 for none.          *)
Obligations == [year : Years, amount : Nat \ {0}, over : Nat]

VARIABLES
  profile,     \* the year of the tax profile on file
  books,
  year,        \* a run's tax year, 0 before it is started
  starting,    \* standing runs accepted and not yet on disk
  at,          \* where each chain is
  estimate,    \* the output of its estimate, until it ends
  failed,      \* runs that failed
  asked,       \* skip signals a parked gate has yet to take
  finding,     \* how many findings are open for each condition
  obligation,
  event,       \* the outbox
  upsets

ledger == <<finding, obligation, event>>
vars == <<profile, books, year, starting, at, estimate, failed, asked, ledger, upsets>>

TypeOK ==
  /\ profile \in Years
  /\ books \in Books
  /\ year \in [Runs -> Years \cup {0}]
  /\ starting \in SUBSET Standing
  /\ at \in [Chains -> Places]
  /\ estimate \in [Chains -> Estimates]
  /\ failed \in SUBSET Runs
  /\ asked \in SUBSET Chains
  /\ finding \in [Fingerprints -> Nat]
  /\ obligation \in Seq(Obligations)
  /\ event \in SUBSET Events
  /\ upsets \in Nat

Init ==
  /\ profile = FirstYear
  /\ books \in Books
  /\ year = [r \in Runs |-> 0]
  /\ starting = {}
  /\ at = [c \in Chains |-> "idle"]
  /\ estimate = [c \in Chains |-> Nothing]
  /\ failed = {} /\ asked = {}
  /\ finding = [f \in Fingerprints |-> 0] /\ obligation = <<>> /\ event = {}
  /\ upsets = 0

-----------------------------------------------------------------------------
(* Runs.                                                                   *)

chainsOf(r) == {r} \X Stages

(* Standing runs whose log says they are running.                          *)
Active == {r \in Standing : /\ year[r] # 0 /\ r \notin starting \cup failed
                            /\ \E c \in chainsOf(r) : at[c] # "done"}

(* startTaxYear looks at the runs on disk, between awaits; it compares the *)
(* first it finds running with the year that is asked for.                 *)
startTaxYear(r, y) ==
  /\ year[r] = 0
  /\ Active = {} \/ \E q \in Active : year[q] # y
  /\ year' = [year EXCEPT ![r] = y]
  /\ starting' = starting \cup {r}
  /\ UNCHANGED <<profile, books, at, estimate, failed, asked, ledger, upsets>>

(* The run is driven: its gates park side by side and its log is on disk.  *)
drive(r) ==
  /\ r \in starting
  /\ starting' = starting \ {r}
  /\ at' = [c \in Chains |-> IF c \in chainsOf(r) THEN "parked" ELSE at[c]]
  /\ UNCHANGED <<profile, books, year, estimate, failed, asked, ledger, upsets>>

(* A check is for the profile's year.                                      *)
runTaxCheck(r, s) ==
  /\ r \in Checks /\ year[r] = 0
  /\ year' = [year EXCEPT ![r] = profile]
  /\ at' = [at EXCEPT ![<<r, s>>] = "est"]
  /\ UNCHANGED <<profile, books, starting, estimate, failed, asked, ledger, upsets>>

At(c, place) == at[c] = place /\ c[1] \notin failed
Goto(c, place) == at' = [at EXCEPT ![c] = place]

-----------------------------------------------------------------------------
(* A deadline's gate.                                                      *)

(* A signal for a gate that is gone is never taken.                        *)
skipTaxDeadline(s) ==
  /\ \E r \in Active : at[<<r, s>>] = "parked" /\ asked' = asked \cup {<<r, s>>}
  /\ UNCHANGED <<profile, books, year, starting, at, estimate, failed, ledger, upsets>>

(* Mutant of Expire: a deadline that passes is let pass.                    *)
LetPass(c) ==
  /\ At(c, "parked")
  /\ Goto(c, "ended")
  /\ asked' = asked \ {c}
  /\ UNCHANGED <<profile, books, year, starting, estimate, failed, ledger, upsets>>

(* The timer fires.                                                        *)
Expire(c) ==
  /\ At(c, "parked")
  /\ Goto(c, "est")
  /\ asked' = asked \ {c}
  /\ UNCHANGED <<profile, books, year, starting, estimate, failed, ledger, upsets>>

(* Mutant of Skip: the timer is still armed when the signal is taken.       *)
SkipAndCheck(c) ==
  /\ At(c, "parked") /\ c \in asked
  /\ Goto(c, "est")
  /\ event' = event \cup {[kind |-> "tax.skipped", by |-> c]}
  /\ asked' = asked \ {c}
  /\ UNCHANGED <<profile, books, year, starting, estimate, failed, finding, obligation,
                 upsets>>

(* The signal is taken first.                                              *)
Skip(c) ==
  /\ At(c, "parked") /\ c \in asked
  /\ Goto(c, "skip")
  /\ asked' = asked \ {c}
  /\ UNCHANGED <<profile, books, year, starting, estimate, failed, ledger, upsets>>

taxSkip(c) ==
  /\ At(c, "skip")
  /\ event' = event \cup {[kind |-> "tax.skipped", by |-> c]}
  /\ Goto(c, "ended")
  /\ UNCHANGED <<profile, books, year, starting, estimate, failed, asked, finding,
                 obligation, upsets>>

-----------------------------------------------------------------------------
(* The check chain.                                                        *)

estimateQuarter ==
  IF books.held
  THEN [due |-> 0, covered |-> FALSE, blocked |-> TRUE]
  ELSE [due |-> books.due, covered |-> books.due = 0 \/ books.funded, blocked |-> FALSE]

(* A profile for another year throws, and with the step the run fails.     *)
taxEstimate(c) ==
  /\ At(c, "est")
  /\ IF profile = year[c[1]]
     THEN /\ estimate' = [estimate EXCEPT ![c] = estimateQuarter]
          /\ Goto(c, "rec")
          /\ UNCHANGED failed
     ELSE /\ failed' = failed \cup {c[1]}
          /\ UNCHANGED <<estimate, at>>
  /\ UNCHANGED <<profile, books, year, starting, asked, ledger, upsets>>

(* The findings of an estimate.                                            *)
Drafts(c) ==
  LET e == estimate[c]
      said == (IF e.blocked THEN {"tax_estimate_blocked"} ELSE {})
                \cup (IF c[2] = "due" /\ e.due > 0 THEN {"estimated_tax_due"} ELSE {})
                \cup (IF ~e.blocked /\ ~e.covered THEN {"reserve_shortfall"} ELSE {})
  IN  {[code |-> code, year |-> year[c[1]], stage |-> c[2]] : code \in said}

(* Mutants of suppressKnown: nothing is known; a stage knows for the other. *)
KeepAll(drafts) == drafts
KnownByCode(drafts) == {d \in drafts : \A f \in Fingerprints : f.code = d.code => finding[f] = 0}

(* None of the tax codes is deduplicated for ever: findings with a         *)
(* resolution are of no more use here, and the model drops them.           *)
suppressKnown(drafts) == {d \in drafts : finding[d] = 0}

Recorded(c) ==
  [f \in Fingerprints |-> finding[f] + (IF f \in suppressKnown(Drafts(c)) THEN 1 ELSE 0)]

taxRecord(c) ==
  /\ At(c, "rec")
  /\ finding' = Recorded(c)
  /\ event' = event \cup {[kind |-> "tax.estimate", by |-> c]}
  /\ Goto(c, "obl")
  /\ UNCHANGED <<profile, books, year, starting, estimate, failed, asked, obligation,
                 upsets>>

End(c) == Goto(c, "ended") /\ estimate' = [estimate EXCEPT ![c] = Nothing]

(* What asOf gives for the year's obligation.                              *)
Current(y) == {i \in DOMAIN obligation : /\ obligation[i].year = y
                                         /\ \A j \in DOMAIN obligation : obligation[j].over # i}

(* Mutant of Superseded: a check's obligation stands beside the deadline's. *)
NotSuperseded(y) == 0

Superseded(y) == IF Current(y) = {} THEN 0 ELSE CHOOSE i \in Current(y) : TRUE

Stands(c) == \E i \in Current(year[c[1]]) : obligation[i].amount = estimate[c].due

(* Mutant of Unchanged: an installment of nothing is written.              *)
OnlyStanding(c) == Stands(c)

(* Nothing due, or nothing known, leaves the obligation as it is.          *)
Unchanged(c) == estimate[c].due = 0 \/ Stands(c)

taxObligate(c) ==
  /\ At(c, "obl")
  /\ obligation' = IF Unchanged(c)
                   THEN obligation
                   ELSE Append(obligation, [year |-> year[c[1]],
                                            amount |-> estimate[c].due,
                                            over |-> Superseded(year[c[1]])])
  /\ IF estimate[c].covered
     THEN Goto(c, "ok") /\ UNCHANGED estimate
     ELSE End(c)
  /\ UNCHANGED <<profile, books, year, starting, failed, asked, finding,
                 event, upsets>>

taxConfirm(c) ==
  /\ At(c, "ok")
  /\ event' = event \cup {[kind |-> "tax.ready", by |-> c]}
  /\ End(c)
  /\ UNCHANGED <<profile, books, year, starting, failed, asked, finding,
                 obligation, upsets>>

-----------------------------------------------------------------------------
(* Durability.                                                             *)

(* A chain that ended is in the commit buffer until the run is flushed.    *)
Flush(r) ==
  /\ r \notin failed
  /\ \E c \in chainsOf(r) : at[c] = "ended"
  /\ at' = [c \in Chains |-> IF c \in chainsOf(r) /\ at[c] = "ended" THEN "done" ELSE at[c]]
  /\ UNCHANGED <<profile, books, year, starting, estimate, failed, asked, ledger, upsets>>

(* Runs with a step in flight, as far as their logs know: a step's start   *)
(* is on disk before its handler runs, its end with the next flush.        *)
Interrupted == {r \in Runs : \E c \in chainsOf(r) : at[c] \in InFlight \cup {"ended"}}

Upset == upsets < MaxUpsets /\ upsets' = upsets + 1

(* The host dies and is started again: parked gates re-arm, a run that was *)
(* never written is gone, and one with an action in flight fails.          *)
Die ==
  /\ Upset
  /\ failed' = failed \cup Interrupted
  /\ starting' = {}
  /\ year' = [r \in Runs |-> IF r \in starting THEN 0 ELSE year[r]]
  /\ UNCHANGED <<profile, books, at, estimate, asked, obligation>>

Crash == Die /\ UNCHANGED <<finding, event>>

(* A death between the findings and the event of taxRecord.                *)
CrashInRecord(c) ==
  /\ At(c, "rec")
  /\ Die
  /\ finding' = Recorded(c)
  /\ UNCHANGED event

-----------------------------------------------------------------------------
(* The world outside the runs.                                             *)

Rebook ==
  /\ Upset
  /\ books' \in Books \ {books}
  /\ UNCHANGED <<profile, year, starting, at, estimate, failed, asked, ledger>>

saveTaxProfile(y) ==
  /\ Upset /\ y # profile
  /\ profile' = y
  /\ UNCHANGED <<books, year, starting, at, estimate, failed, asked, ledger>>

resolveFinding(f) ==
  /\ Upset /\ finding[f] > 0
  /\ finding' = [finding EXCEPT ![f] = @ - 1]
  /\ UNCHANGED <<profile, books, year, starting, at, estimate, failed, asked,
                 obligation, event>>

-----------------------------------------------------------------------------
ChainStep(c) == \/ Expire(c) \/ Skip(c) \/ taxSkip(c)
                \/ taxEstimate(c) \/ taxRecord(c) \/ taxObligate(c) \/ taxConfirm(c)

Next == \/ \E r \in Standing, y \in Years : startTaxYear(r, y)
        \/ \E r \in Standing : drive(r)
        \/ \E r \in Runs : Flush(r)
        \/ \E r \in Checks, s \in Stages : runTaxCheck(r, s)
        \/ \E s \in Stages : skipTaxDeadline(s)
        \/ \E c \in Chains : ChainStep(c) \/ CrashInRecord(c)
        \/ \E y \in Years : saveTaxProfile(y)
        \/ \E f \in Fingerprints : resolveFinding(f)
        \/ Crash \/ Rebook

Spec == Init /\ [][Next]_vars

(* Deadlines come, and a started chain goes on.                            *)
FairSpec == Spec /\ \A c \in Chains : WF_vars(ChainStep(c))

-----------------------------------------------------------------------------
(* Properties.                                                             *)

(* A year's obligation is one chain: deadlines and checks in flight        *)
(* together supersede one another's rows and leave one that is current.    *)
OneObligation == \A y \in Years : \A i, j \in Current(y) : i = j

(* No condition is open twice, however many chains find it at once.        *)
OneOpen == \A f \in Fingerprints : finding[f] <= 1

(* A recorded estimate leaves each of its conditions in the operator's     *)
(* queue: one he closed is asked again when a later check still finds it.  *)
RecordAsks ==
  [][\A c \in Chains : at[c] = "rec" /\ at'[c] = "obl" =>
       \A d \in Drafts(c) : finding'[d] > 0]_vars

(* A deadline is skipped or checked, not both, whatever the timer and the  *)
(* signal do, and across a restart.                                        *)
SkippedOrChecked ==
  \A c \in Chains : [kind |-> "tax.skipped", by |-> c] \in event =>
    [kind |-> "tax.estimate", by |-> c] \notin event

(* tax-year.ts: "Never to auto-approve, and never to silence".  A parked   *)
(* deadline is checked or skipped unless its run failed.                   *)
NeverSilent ==
  \A c \in Standing \X Stages :
    at[c] = "parked" ~> \/ \E e \in event : e.by = c
                        \/ c[1] \in failed

(* Chains in flight together leave one obligation, one finding for a       *)
(* condition, and a deadline that is checked or skipped.                   *)
YearStands == OneObligation /\ OneOpen /\ SkippedOrChecked
=============================================================================
