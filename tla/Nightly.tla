------------------------------- MODULE Nightly -------------------------------
(***************************************************************************)
(* The nightly runs (packages/workflows/src/nightly.ts) over one ledger,   *)
(* the processes their findings are answered from (packages/ledger/src/    *)
(* resolve.ts: the GUI's host, the CLI), and deaths of all of them.        *)
(*                                                                         *)
(* A nightly reads the ledger in reconcile and in notify and writes it in  *)
(* later steps, one durable transaction each; resolveFinding is three.     *)
(* Whatever is open, answered or held may change between any two of them:  *)
(* nights overlap, and each process answers without asking the others.     *)
(* A transaction and the reads just before it are one step.                *)
(*                                                                         *)
(* The facts of one writer about one account in one run are one fact here. *)
(* Two conditions stand for the detectors that hold an account: a stale    *)
(* balance, asked again whenever its last question is closed, and a        *)
(* movement booked twice, asked once ever (DEDUPE_FOREVER).  Each night    *)
(* may have a movement of each account to report.                          *)
(***************************************************************************)
EXTENDS Naturals

CONSTANTS Runs,        \* nightly runs
          Subjects,    \* accounts
          Dates,       \* as-of dates a stale feed may state
          Kinds,       \* what an account may come to be besides a "feed"
          Answerers,   \* processes the operator answers from
          MaxCrashes,  \* bound on host deaths
          MaxAborts    \* bound on answers cut short

ASSUME DatesAssumption == Dates \subseteq Nat \ {0}
ASSUME KindsAssumption == Kinds \subseteq {"manual", "own_ids"}
ASSUME MaximaAssumption == MaxCrashes \in Nat /\ MaxAborts \in Nat

Writers == {"assets_manager", "cash_flow"}

(* A fingerprint: what makes two drafts the same question.                 *)
Fingerprints == [code : {"stale_balance"}, subject : Subjects, as_of : Dates]
                  \cup [code : {"duplicate_transaction"}, subject : Subjects, as_of : {0}]
Findings == [run : Runs, of : Fingerprints]
Answers == {"accept_incoming", "keep_prior"}

(* A fact as committed, or superseded by a clean copy of itself or of what *)
(* the ledger said before it.                                              *)
Statuses == {"none", "clean", "provisional", "accepted", "kept"}

InFlight == {"fetch", "commit_assets", "commit_flows", "record_findings", "notify",
             "emit", "hold"}
Steps == InFlight \cup {"idle", "completed", "failed"}

VARIABLES
  run,         \* where each run is and what reconcile gave it
  fact,        \* fact rows, by run, writer and subject
  finding,     \* finding rows
  resolution,  \* findings that have a resolution row
  awake,       \* runs whose nightly.clean event is in the outbox
  kind,        \* what the account is, as its adapter reports it
  answering,   \* the resolveFindings under way, one a process at most
  released,    \* the batches `release:<finding>:<writer>` in the ledger
  crashes,
  aborts,
  (* History, read by the properties only.                                 *)
  meantime,    \* runs that wrote what a run had read and was to act on
  tangled      \* accounts whose findings were answered at once, or again

rows == <<fact, finding, resolution>>
answers == <<answering, released, tangled>>
vars == <<run, rows, awake, kind, answers, crashes, aborts, meantime>>

RunStates == [at : Steps, scope : SUBSET Subjects, moves : SUBSET Subjects,
              drafts : SUBSET Fingerprints]
Calls == [by : Answerers, phase : {"release", "close"}, finding : Findings]

TypeOK ==
  /\ run \in [Runs -> RunStates]
  /\ fact \in [Runs -> [Writers -> [Subjects -> Statuses]]]
  /\ finding \in SUBSET Findings
  /\ resolution \in SUBSET Findings
  /\ awake \in SUBSET Runs
  /\ kind \in [Subjects -> {"feed"} \cup Kinds]
  /\ answering \in SUBSET Calls
  /\ released \in SUBSET [finding : Findings, writer : Writers]
  /\ crashes \in Nat
  /\ aborts \in Nat
  /\ meantime \in [Runs -> SUBSET Runs]
  /\ tangled \in SUBSET Subjects

Idle == [at |-> "idle", scope |-> {}, moves |-> {}, drafts |-> {}]

Init ==
  /\ run = [r \in Runs |-> Idle]
  /\ fact = [r \in Runs |-> [w \in Writers |-> [s \in Subjects |-> "none"]]]
  /\ finding = {}
  /\ resolution = {}
  /\ awake = {}
  /\ kind = [s \in Subjects |-> "feed"]
  /\ answering = {}
  /\ released = {}
  /\ crashes = 0
  /\ aborts = 0
  /\ meantime = [r \in Runs |-> {}]
  /\ tangled = {}

-----------------------------------------------------------------------------
(* What the ledger is asked.                                               *)

At(r, step) == run[r].at = step
Goto(r, step) == [run EXCEPT ![r].at = step]

Open == finding \ resolution

isProvisional(s) ==
  \E r \in Runs, w \in Writers : fact[r][w][s] = "provisional"

(* Mutant of suppressKnown: a repeated condition is asked every night.      *)
SuppressOnlyForever(drafts) ==
  {d \in drafts : d.code = "duplicate_transaction" => \A f \in finding : f.of # d}

suppressKnown(drafts) ==
  {d \in drafts : IF d.code = "duplicate_transaction"
                  THEN \A f \in finding : f.of # d
                  ELSE \A f \in Open : f.of # d}

(* Accounts tonight's findings hold: all their facts commit provisional.   *)
Held(r) == {d.subject : d \in run[r].drafts}

(* The fact a finding disputes.                                            *)
WriterOf(fp) == IF fp.code = "stale_balance" THEN "assets_manager" ELSE "cash_flow"
Disputed(f) == fact[f.run][WriterOf(f.of)][f.of.subject]

-----------------------------------------------------------------------------
(* A nightly run.  Every step is an action whose start is durable before   *)
(* its handler runs, so a host death fails the run (Crash).                *)

Start(r) ==
  /\ At(r, "idle")
  /\ run' = Goto(r, "fetch")
  /\ UNCHANGED <<rows, awake, kind, answers, crashes, aborts, meantime>>

(* The drafts tonight's snapshot gives rise to; as_of[s] = 0 is fresh.     *)
Detected(as_of, twice) ==
  {[code |-> "stale_balance", subject |-> s, as_of |-> as_of[s]] :
     s \in {t \in DOMAIN as_of : as_of[t] # 0 /\ kind[t] # "manual"}}
    \cup
  {[code |-> "duplicate_transaction", subject |-> s, as_of |-> 0] :
     s \in {t \in twice : kind[t] # "own_ids"}}

(* fetch, normalize and reconcile read; only the last one's output counts. *)
reconcile(r) ==
  /\ At(r, "fetch")
  /\ \E scope \in (SUBSET Subjects) \ {{}} :
     \E as_of \in [scope -> {0} \cup Dates], moves \in SUBSET scope :
     \E twice \in SUBSET moves :
       run' = [run EXCEPT ![r] = [at |-> "commit_assets", scope |-> scope, moves |-> moves,
                                  drafts |-> suppressKnown(Detected(as_of, twice))]]
  /\ UNCHANGED <<rows, awake, kind, answers, crashes, aborts, meantime>>

(* q writes while the runs at `steps` are between a read and its use.      *)
Behind(q, steps) ==
  [r \in Runs |-> IF r # q /\ run[r].at \in steps THEN meantime[r] \cup {q} ELSE meantime[r]]
ToAsk == {"commit_assets", "commit_flows", "record_findings"}

(* One writer's batch, in one transaction.                                 *)
Batch(r, w, subjects) ==
  [s \in Subjects |-> IF s \notin subjects THEN fact[r][w][s]
                      ELSE IF s \in Held(r) THEN "provisional" ELSE "clean"]

commit_assets(r) ==
  /\ At(r, "commit_assets")
  /\ fact' = [fact EXCEPT ![r]["assets_manager"] = Batch(r, "assets_manager", run[r].scope)]
  /\ run' = Goto(r, "commit_flows")
  /\ meantime' = Behind(r, {"emit"})
  /\ UNCHANGED <<finding, resolution, awake, kind, answers, crashes, aborts>>

commit_flows(r) ==
  /\ At(r, "commit_flows")
  /\ fact' = [fact EXCEPT ![r]["cash_flow"] = Batch(r, "cash_flow", run[r].moves)]
  /\ run' = Goto(r, "record_findings")
  /\ meantime' = Behind(r, {"emit"})
  /\ UNCHANGED <<finding, resolution, awake, kind, answers, crashes, aborts>>

(* Mutant of Recorded: drafts that point at the assets batch are lost.      *)
RecordsFlowsOnly(r) ==
  {[run |-> r, of |-> d] : d \in {e \in run[r].drafts : WriterOf(e) = "cash_flow"}}

Recorded(r) == {[run |-> r, of |-> d] : d \in run[r].drafts}

(* Open findings that tonight's snapshot makes moot: a hand-entered        *)
(* holding has no feed, an institution's own ids tell movements apart.     *)
Moot(r) == {f \in Open : /\ f.of.subject \in run[r].scope
                         /\ kind[f.of.subject] = IF f.of.code = "stale_balance"
                                                 THEN "manual" ELSE "own_ids"}

AfterGate(r) == IF run[r].drafts = {} THEN "notify" ELSE "hold"

(* Findings are appended, moot ones dismissed (their facts stay as they    *)
(* are), and the gate routes on reconcile's verdict.                       *)
record_findings(r) ==
  /\ At(r, "record_findings")
  /\ finding' = finding \cup Recorded(r)
  /\ resolution' = resolution \cup Moot(r)
  /\ run' = Goto(r, AfterGate(r))
  /\ meantime' = Behind(r, ToAsk)
  /\ UNCHANGED <<fact, awake, kind, answers, crashes, aborts>>

(* Mutant of Refused: the gate's word is enough.                            *)
TrustsTheGate(r) == run[r].drafts # {}

Refused(r) == run[r].drafts # {} \/ \E s \in run[r].scope : isProvisional(s)

(* The clean branch.  The ledger is asked before the effect's permission   *)
(* and its record are awaited; the events are emitted after.               *)
notify(r) ==
  /\ At(r, "notify")
  /\ run' = Goto(r, IF Refused(r) THEN "failed" ELSE "emit")
  /\ meantime' = [meantime EXCEPT ![r] = {}]
  /\ UNCHANGED <<rows, awake, kind, answers, crashes, aborts>>

emit(r) ==
  /\ At(r, "emit")
  /\ awake' = awake \cup {r}
  /\ run' = Goto(r, "completed")
  /\ UNCHANGED <<rows, kind, answers, crashes, aborts, meantime>>

hold(r) ==
  /\ At(r, "hold")
  /\ run' = Goto(r, "completed")
  /\ UNCHANGED <<rows, awake, kind, answers, crashes, aborts, meantime>>

NightlyStep(r) == \/ reconcile(r) \/ commit_assets(r) \/ commit_flows(r)
                  \/ record_findings(r) \/ notify(r)
                  \/ emit(r) \/ hold(r)

-----------------------------------------------------------------------------
(* Deaths of the host, and new versions of the adapters.                   *)

(* Mutant of Settled: the in-flight action gets a status of its own.        *)
SettledAsCrashed == [r \in Runs |-> IF run[r].at \in InFlight \ {"fetch"}
                                    THEN [run[r] EXCEPT !.at = "crashed"]
                                    ELSE run[r]]

(* A run that had not started a step is resumed, any other has an action   *)
(* in flight, which resume settles as failed.                              *)
Settled == [r \in Runs |-> IF run[r].at \in InFlight \ {"fetch"}
                           THEN [run[r] EXCEPT !.at = "failed"]
                           ELSE run[r]]

Die ==
  /\ crashes < MaxCrashes
  /\ run' = Settled
  /\ crashes' = crashes + 1
  /\ UNCHANGED <<fact, kind, answers, aborts>>

Crash ==
  /\ \E r \in Runs : run[r].at \in InFlight
  /\ Die
  /\ UNCHANGED <<finding, resolution, awake, meantime>>

(* A death inside a handler.  The findings are one transaction, each       *)
(* dismissal another; a batch that landed is a death a step later.         *)
CrashInHandler(r) ==
  /\ Die
  /\ \/ /\ At(r, "record_findings")
        /\ finding' = finding \cup Recorded(r)
        /\ \E done \in SUBSET Moot(r) : resolution' = resolution \cup done
        /\ meantime' = Behind(r, ToAsk)
        /\ UNCHANGED awake
     \/ /\ At(r, "emit")
        /\ awake' = awake \cup {r}
        /\ UNCHANGED <<finding, resolution, meantime>>

(* A host of a newer version: the account is known for what it is.         *)
Upgrade(s) ==
  /\ \A r \in Runs : run[r].at \notin InFlight
  /\ kind[s] = "feed"
  /\ \E k \in Kinds : kind' = [kind EXCEPT ![s] = k]
  /\ UNCHANGED <<run, rows, awake, answers, crashes, aborts, meantime>>

-----------------------------------------------------------------------------
(* resolveFinding, one durable transaction after the other.                *)

(* Mutant of AnswerFact: the fact is superseded whatever it is by now.      *)
AnswerWhateverItIs(f, d) ==
  fact' = [fact EXCEPT ![f.run][WriterOf(f.of)][f.of.subject] =
             IF d = "keep_prior" THEN "kept" ELSE "accepted"]

(* The disputed fact, if it is still provisional and current.              *)
AnswerFact(f, d) ==
  IF Disputed(f) = "provisional"
  THEN fact' = [fact EXCEPT ![f.run][WriterOf(f.of)][f.of.subject] =
                  IF d = "keep_prior" THEN "kept" ELSE "accepted"]
  ELSE UNCHANGED fact

(* Another answer about the account is under way, or this finding's was    *)
(* cut short after its release.                                            *)
Tangles(f) == \/ \E c \in answering : c.finding.of.subject = f.of.subject
              \/ \E b \in released : b.finding = f

(* A process answers one finding at a time, and asks only the ledger what  *)
(* the others do.                                                          *)
resolveFinding(p, f, d) ==
  /\ \A c \in answering : c.by # p
  /\ f \in Open
  /\ AnswerFact(f, d)
  /\ answering' = answering \cup {[by |-> p, phase |-> "release", finding |-> f]}
  /\ tangled' = IF Tangles(f) THEN tangled \cup {f.of.subject} ELSE tangled
  /\ UNCHANGED <<run, finding, resolution, awake, kind, released, crashes, aborts, meantime>>

(* Mutant of StillHeld: any answer frees the account.                       *)
NeverHeld(f) == f \notin finding

StillHeld(f) == \E g \in Open \ {f} : g.of.subject = f.of.subject

(* A batch of this id is in the ledger: commit returns the old one.        *)
Replayed(f, w) == [finding |-> f, writer |-> w] \in released

(* Mutant of ReleaseSubject: one writer's facts are forgotten.              *)
ReleaseAssets(f) ==
  fact' = [r \in Runs |-> [fact[r] EXCEPT !["assets_manager"][f.of.subject] =
                              IF @ = "provisional" THEN "accepted" ELSE @]]

(* Everything provisional about the account, whichever run committed it,   *)
(* in one batch a writer.                                                  *)
ReleaseSubject(f) ==
  fact' = [r \in Runs |-> [w \in Writers |->
            [fact[r][w] EXCEPT ![f.of.subject] =
               IF @ = "provisional" /\ ~Replayed(f, w) THEN "accepted" ELSE @]]]

Releases(f) ==
  {[finding |-> f, writer |-> w] :
     w \in {v \in Writers : \E r \in Runs : fact[r][v][f.of.subject] = "provisional"}}

release(c) ==
  /\ c \in answering
  /\ c.phase = "release"
  /\ IF StillHeld(c.finding)
     THEN UNCHANGED <<fact, released>>
     ELSE ReleaseSubject(c.finding) /\ released' = released \cup Releases(c.finding)
  /\ answering' = (answering \ {c}) \cup {[c EXCEPT !.phase = "close"]}
  /\ UNCHANGED <<run, finding, resolution, awake, kind, crashes, aborts, meantime, tangled>>

appendResolution(c) ==
  /\ c \in answering
  /\ c.phase = "close"
  /\ resolution' = resolution \cup {c.finding}
  /\ answering' = answering \ {c}
  /\ UNCHANGED <<run, fact, finding, awake, kind, released, crashes, aborts, meantime, tangled>>

(* A process that answers dies between two of its transactions.            *)
AbortAnswer(c) ==
  /\ aborts < MaxAborts
  /\ answering' = answering \ {c}
  /\ aborts' = aborts + 1
  /\ UNCHANGED <<run, rows, awake, kind, released, crashes, meantime, tangled>>

-----------------------------------------------------------------------------
Next == \/ \E r \in Runs : Start(r) \/ NightlyStep(r) \/ CrashInHandler(r)
        \/ Crash
        \/ \E s \in Subjects : Upgrade(s)
        \/ \E p \in Answerers, f \in finding, d \in Answers : resolveFinding(p, f, d)
        \/ \E c \in answering : release(c) \/ appendResolution(c) \/ AbortAnswer(c)

Spec == Init /\ [][Next]_vars

(* A started run goes on.  Nobody has to start a nightly or to answer, and *)
(* an answer that was begun may never end.                                 *)
FairSpec == Spec /\ \A r \in Runs : WF_vars(NightlyStep(r))

-----------------------------------------------------------------------------
(* Properties.                                                             *)

(* Waiting(s): a run committed, or is about to commit, provisional facts   *)
(* of s and has yet to write the question that explains them.              *)
Waiting(s) == \E r \in Runs : /\ run[r].at \in {"commit_flows", "record_findings"}
                              /\ s \in Held(r)

Questioned(s) == Waiting(s) \/ \E f \in Open : f.of.subject = s

(* Nothing is held without a question the operator can answer: while no    *)
(* host died and no adapter changed its mind, a provisional account has an *)
(* open finding, or a run about to write one.  resolve.ts releases the     *)
(* account only with the last of them, over any interleaving of nightlies  *)
(* and answers, cut-short answers included.  Excused are the accounts two  *)
(* processes answered about at once, and those with a finding answered     *)
(* again after its release batch was written (`tangled`).                  *)
HeldHasQuestion ==
  crashes = 0 /\ (\A s \in Subjects : kind[s] = "feed") =>
    \A s \in Subjects \ tangled : isProvisional(s) => Questioned(s)

(* A condition is asked once: two open findings carry one fingerprint only *)
(* when the run of one recorded it after the other's run had looked what   *)
(* was open and before that one recorded (suppressKnown, "already knows"). *)
OneQuestion ==
  \A f, g \in Open :
    f.of = g.of => f = g \/ f.run \in meantime[g.run] \/ g.run \in meantime[f.run]

(* A disputed fact is settled by the answer to its own question: while its *)
(* finding is open no other answer, no nightly, no dismissal of another    *)
(* finding and no death frees or changes it.                               *)
OwnAnswerSettles ==
  [][\A f \in Open :
       Disputed(f) = "provisional" /\ Disputed(f)' # "provisional"
         => \E c \in answering \cup answering' : c.finding = f]_vars

(* Nothing is overwritten: a settled fact stays as it is, so an answer     *)
(* given twice, or a second finding about one fact, never changes a first. *)
SettledStays ==
  [][\A r \in Runs, w \in Writers, s \in Subjects :
       fact[r][w][s] \in {"clean", "accepted", "kept"} => fact'[r][w][s] = fact[r][w][s]]_vars

(* A run that put provisional facts in the ledger comes to its question or *)
(* dies with its host.                                                     *)
HeldIsAsked ==
  \A r \in Runs, w \in Writers, s \in Subjects :
    (fact[r][w][s] = "provisional")
      ~> ((\E f \in finding : f.run = r /\ f.of.subject = s) \/ At(r, "failed"))

(* notify.ts, header: it "refuses to emit for a subject the ledger still   *)
(* holds provisional", whichever run, tonight's or an older one, put the   *)
(* provisional facts there; all but those another run commits while the    *)
(* effect's permission and record are awaited.                             *)
WakeOnSettled ==
  [][\A r \in awake' \ awake, s \in Subjects, q \in Runs, w \in Writers :
       s \in run[r].scope /\ fact[q][w][s] = "provisional" => q \in meantime[r]]_vars

(* The operator's answers stand: only the one a fact's question was given  *)
(* settles it, and what is settled stays.                                  *)
AnswersStand == OwnAnswerSettles /\ SettledStays
=============================================================================
