------------------------------ MODULE AutoPropose ------------------------------
(***************************************************************************)
(* The nightly wakes the Market Manager (apps/host/src/app.ts,             *)
(* proposeAfterNightly): after a clean full nightly, when the plan opts in *)
(* and the drift report has candidates, the host starts the proposal run   *)
(* that the Strategy page's button starts.  It remembers in one file what  *)
(* it last did.  Full nightlies may overlap, and the host may die.         *)
(***************************************************************************)
EXTENDS Naturals, FiniteSets

CONSTANTS Nightlies, Proposals,  \* run ids
          Pictures,              \* what a drift report may propose
          NoPicture,             \* no candidates, or no report
          REARM,                 \* days
          LastDay,               \* bound on the clock
          MaxDeaths

ASSUME RearmAssumption == REARM \in Nat \ {0}
ASSUME DaysAssumption == LastDay \in Nat \ {0} /\ MaxDeaths \in Nat

VARIABLES
  picture,   \* the signature of the drift report now
  optedIn,
  today,
  state,     \* auto-propose.json: the last wake it knows of
  nightly,   \* per nightly: where it is, and what proposeAfterNightly read
  proposal,  \* per proposal run, on disk
  standing,  \* runs this process drives
  wakes,     \* the proposals a nightly has started
  lastWake,  \* the last of the recorded wakes
  readAcross,   \* has a nightly woken while another was between its read and its decision?
  deaths

AutoVars == <<picture, optedIn, today, state, nightly, proposal, standing, wakes, lastWake, readAcross, deaths>>

Never == [day |-> 0, picture |-> NoPicture]   \* days are counted from 1
NotYet == [at |-> "off", prev |-> Never, day |-> 0]
Wakes == [day : 0 .. LastDay, picture : Pictures \cup {NoPicture}]

AutoTypeOK ==
  /\ picture \in Pictures \cup {NoPicture} /\ optedIn \in BOOLEAN /\ today \in 1 .. LastDay
  /\ state \in Wakes /\ lastWake \in Wakes /\ wakes \subseteq Proposals
  /\ \A n \in Nightlies : nightly[n].at \in {"off", "running", "reading", "over"}
  /\ \A p \in Proposals : proposal[p] \in {"none", "going", "queued", "over"}
  /\ standing \subseteq Proposals /\ readAcross \in BOOLEAN /\ deaths \in 0 .. MaxDeaths

AutoInit ==
  /\ picture = NoPicture /\ optedIn = FALSE /\ today = 1
  /\ state = Never
  /\ nightly = [n \in Nightlies |-> NotYet]
  /\ proposal = [p \in Proposals |-> "none"]
  /\ standing = {}
  /\ wakes = {} /\ lastWake = Never /\ readAcross = FALSE /\ deaths = 0

World == <<picture, optedIn, today>>

-----------------------------------------------------------------------------
(* The world: prices move, the operator edits the plan, days pass.         *)

WorldMoves ==
  /\ \/ /\ picture' \in (Pictures \cup {NoPicture}) \ {picture}
        /\ UNCHANGED <<optedIn, today>>
     \/ /\ optedIn' = ~optedIn
        /\ UNCHANGED <<picture, today>>
     \/ /\ today < LastDay /\ today' = today + 1
        /\ UNCHANGED <<picture, optedIn>>
  /\ UNCHANGED <<state, nightly, proposal, standing, wakes, lastWake, readAcross, deaths>>

(* A proposal run: drafts, parks at the gate, settles.                     *)
Advance(p) ==
  /\ p \in standing
  /\ \/ proposal[p] = "going" /\ proposal' = [proposal EXCEPT ![p] = "queued"] /\ UNCHANGED standing
     \/ proposal' = [proposal EXCEPT ![p] = "over"] /\ standing' = standing \ {p}
  /\ UNCHANGED <<World, state, nightly, wakes, lastWake, readAcross, deaths>>

-----------------------------------------------------------------------------

Drive(p) ==
  /\ proposal[p] = "none"
  /\ proposal' = [proposal EXCEPT ![p] = "going"]
  /\ standing' = standing \cup {p}

(* The button.                                                             *)
startProposalRun(p) ==
  /\ Drive(p)
  /\ UNCHANGED <<World, state, nightly, wakes, lastWake, readAcross, deaths>>

runNightlyOnce(n) ==
  /\ nightly[n].at = "off"
  /\ nightly' = [nightly EXCEPT ![n].at = "running"]
  /\ UNCHANGED <<World, state, proposal, standing, wakes, lastWake, readAcross, deaths>>

(* Mutant of Remember: a skip forgets the wake before it.                  *)
RememberThis(prev, wake) == state' = IF wake = Never THEN Never ELSE wake

(* record: what was read before the await, unless this is a wake.          *)
Remember(prev, wake) == state' = IF wake = Never THEN prev ELSE wake

(* The run is complete: up to its first await proposeAfterNightly reads    *)
(* the plan, the file and the clock.  A failed run is recorded at once.    *)
NightlyEnds(n) ==
  /\ nightly[n].at = "running"
  /\ \/ /\ optedIn
        /\ nightly' = [nightly EXCEPT ![n] = [at |-> "reading", prev |-> state, day |-> today]]
        /\ UNCHANGED state
     \/ /\ nightly' = [nightly EXCEPT ![n].at = "over"]
        /\ IF optedIn THEN Remember(state, Never) ELSE UNCHANGED state
  /\ UNCHANGED <<World, proposal, standing, wakes, lastWake, readAcross, deaths>>

(* Mutant of Busy: a run still drafting is not looked for.                 *)
BusyQueue == \E p \in Proposals : proposal[p] = "queued"

(* A recommendation awaits the operator, or this process drives a proposal. *)
Busy == standing # {} \/ \E p \in Proposals : proposal[p] = "queued"

(* The same picture as the wake it read of, within the week.               *)
Unchanged(prev, day) ==
  prev.picture = picture /\ prev.day > 0 /\ day < prev.day + REARM

(* After the await: held back, or woken; either is recorded, then the run  *)
(* is driven, unless the host dies between the two.                        *)
Decide(n) ==
  LET prev == nightly[n].prev
      wake == [day |-> nightly[n].day, picture |-> picture]
  IN
  /\ nightly[n].at = "reading"
  /\ nightly' = [nightly EXCEPT ![n].at = "over"]
  /\ \/ /\ Remember(prev, Never)      \* an account was held, or one of the reasons below
        /\ UNCHANGED <<proposal, standing, wakes, lastWake, readAcross>>
     \/ /\ picture # NoPicture /\ ~Busy /\ ~Unchanged(prev, nightly[n].day)
        /\ Remember(prev, wake)
        /\ \E p \in Proposals : Drive(p) /\ wakes' = wakes \cup {p}
        /\ lastWake' = wake
        /\ readAcross' = (readAcross \/ \E other \in Nightlies \ {n} : nightly[other].at = "reading")
  /\ UNCHANGED <<World, deaths>>

(* Nightlies go on after a restart, but nothing waits for them any more.   *)
Die ==
  /\ deaths < MaxDeaths /\ deaths' = deaths + 1
  /\ nightly' = [n \in Nightlies |->
                   IF nightly[n].at \in {"running", "reading"} THEN [nightly[n] EXCEPT !.at = "over"] ELSE nightly[n]]
  /\ standing' = {}
  /\ UNCHANGED <<World, proposal, readAcross>>

CrashAuto == Die /\ UNCHANGED <<state, wakes, lastWake>>

(* ... between the record of a wake and the run's start.                   *)
DieWaking(n) ==
  /\ nightly[n].at = "reading" /\ picture # NoPicture /\ ~Busy
  /\ ~Unchanged(nightly[n].prev, nightly[n].day)
  /\ lastWake' = [day |-> nightly[n].day, picture |-> picture]
  /\ Remember(nightly[n].prev, lastWake')
  /\ Die /\ UNCHANGED wakes

(* resumeInFlight, one run after another; nightlies may come before it.    *)
ResumeProposal(p) ==
  /\ proposal[p] \in {"going", "queued"} /\ p \notin standing
  /\ standing' = standing \cup {p}
  /\ UNCHANGED <<World, state, nightly, proposal, wakes, lastWake, readAcross, deaths>>

AutoNext ==
  \/ WorldMoves \/ CrashAuto
  \/ \E n \in Nightlies : runNightlyOnce(n) \/ NightlyEnds(n) \/ Decide(n) \/ DieWaking(n)
  \/ \E p \in Proposals : startProposalRun(p) \/ Advance(p) \/ ResumeProposal(p)

-----------------------------------------------------------------------------
(* Properties.                                                             *)

(* No nightly wakes the Market Manager while any proposal is unsettled,    *)
(* whoever started it (app.ts:1059), but for one a restart has not yet     *)
(* taken up again.                                                         *)
NeverOnTop ==
  [][wakes' # wakes =>
       \A p \in Proposals :
         \/ proposal[p] \in {"none", "over"}
         \/ proposal[p] = "going" /\ p \notin standing]_AutoVars

(* The picture of the last wake wakes it again within the week only if     *)
(* another nightly had read of the wakes before it (app.ts:1059), whatever *)
(* was held back, skipped or lost in between.                              *)
NotTwiceAWeek ==
  [][wakes' # wakes /\ ~readAcross /\ lastWake'.picture = lastWake.picture =>
       lastWake'.day >= lastWake.day + REARM]_AutoVars
=============================================================================
