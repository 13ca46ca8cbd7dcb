------------------------------ MODULE Proposal ------------------------------
(***************************************************************************)
(* One run of the proposal workflow (packages/workflows/src/proposal.ts)   *)
(* with the handlers of packages/actions/src/market/handlers.ts, driven by *)
(* fin-host: what is in the ledger, what the effect ledger recorded, what  *)
(* the run log holds on disk and in memory, the signal inbox, the approval *)
(* gate's timer, and a host that may die between any two durable writes.   *)
(*                                                                         *)
(* A handler's run() body is synchronous, so in one process it is atomic;  *)
(* a crash inside it leaves a prefix of its ledger writes (CrashIn...).    *)
(* The instants of the code are kept as what is left of a window:          *)
(* life[a] is (draft's expires - now), gate is (timer's fireAt - now).     *)
(***************************************************************************)
EXTENDS Integers, Sequences

CONSTANTS MaxAttempts,   \* the rework loop's maxIterations (maxRedrafts)
          Window,        \* expiryMs: the gate's timeout and the draft's life
          MaxCrashes,    \* bound on host deaths
          MaxSignals     \* bound on decisions the operator sends

ASSUME BoundsAssumption == /\ MaxAttempts \in Nat \ {0}
                           /\ Window \in Nat \ {0}
                           /\ MaxCrashes \in Nat
                           /\ MaxSignals \in Nat

Attempts == 1..MaxAttempts
Verbs == {"approve", "reject"}
Signals == [rec : Attempts, verb : Verbs]
NoSignal == [rec |-> 0, verb |-> "none"]

(* Steps with an effectful handler; the gates material, verdict and route  *)
(* are pure and are folded into the step before them.                      *)
Handlers == {"drift", "intake", "audit", "settle", "decide", "prepare",
             "rejected", "expired", "exhausted", "declined", "nothing"}
Closers == {"rejected", "exhausted", "declined", "nothing"}
Body == {"propose", "intake", "audit"}
Terminal == {"completed", "failed"}
Steps == Handlers \cup {"propose", "approve"} \cup Terminal

VARIABLES
  drafted,    \* attempts whose recommendation row is in the ledger
  life,       \* what is left of that recommendation's window
  verdict,    \* audit_verdict rows
  approval,   \* approval rows, by whether the draft was live when signed
  instr,      \* instruction rows folded with instruction_event
  decided,    \* the run's single "decided" event, at most one element
  lapsed,     \* the "proposal.expired" event: the set of recs it names, if emitted
  effects,    \* the effect ledger: outputs recorded by perform
  child,      \* durable terminal log of each loop iteration's child run
  disk,       \* the run's state as its durable log folds it
  mem,        \* the same in the host's memory, commit buffer included
  up,         \* a host process drives the run
  gate,       \* what is left of the approval timer, once set
  inbox,      \* durable signal files, in file order
  swept,      \* how many of them this process dispatched to its channel
  taken,      \* how many of those an awaiter consumed: the queue is between
  crashes

ledger == <<drafted, life, verdict, approval, instr, decided, lapsed>>
host == <<disk, mem, up>>
signals == <<inbox, swept, taken>>
vars == <<ledger, effects, child, host, gate, signals, crashes>>

RunStates == [at : Steps, began : BOOLEAN, attempt : Attempts,
              heard : Signals \cup {NoSignal}]

EffectStates ==
  [drift : {"none", "candidates", "balanced"},
   intake : [Attempts -> {"none", "drafted", "declined"}],
   review : [Attempts -> {"none", "cleared", "blocked"}],
   decision : {"none", "approved", "rejected"}]

TypeOK ==
  /\ drafted \in SUBSET Attempts
  /\ life \in [Attempts -> 0..Window]
  /\ verdict \in [Attempts -> {"none", "cleared", "blocked"}]
  /\ approval \in [Attempts -> {"none", "live", "stale"}]
  /\ instr \in [Attempts -> {"none", "prepared", "revoked"}]
  /\ decided \in SUBSET Signals
  /\ lapsed \in SUBSET (SUBSET Attempts)
  /\ effects \in EffectStates
  /\ child \in [Attempts -> {"none", "cleared", "blocked", "declined", "failed"}]
  /\ disk \in RunStates
  /\ mem \in RunStates
  /\ up \in BOOLEAN
  /\ gate \in 0..Window
  /\ inbox \in Seq(Signals)
  /\ swept \in 0..Len(inbox)
  /\ taken \in 0..swept
  /\ crashes \in Nat

Fresh == [at |-> "drift", began |-> FALSE, attempt |-> 1, heard |-> NoSignal]

(* startProposalRun drives a run with an empty log.                        *)
Init ==
  /\ drafted = {}
  /\ life = [a \in Attempts |-> 0]
  /\ verdict = [a \in Attempts |-> "none"]
  /\ approval = [a \in Attempts |-> "none"]
  /\ instr = [a \in Attempts |-> "none"]
  /\ decided = {}
  /\ lapsed = {}
  /\ effects = [drift |-> "none",
                intake |-> [a \in Attempts |-> "none"],
                review |-> [a \in Attempts |-> "none"],
                decision |-> "none"]
  /\ child = [a \in Attempts |-> "none"]
  /\ disk = Fresh
  /\ mem = Fresh
  /\ up = TRUE
  /\ gate = 0
  /\ inbox = <<>>
  /\ swept = 0
  /\ taken = 0
  /\ crashes = 0

-----------------------------------------------------------------------------
(* The runtime: where the run is, and what of it is durable.               *)

At(s) == up /\ mem.at = s
Running(s) == At(s) /\ mem.began

Goto(s) == [mem EXCEPT !.at = s, !.began = FALSE]

(* The next step; a terminal event flushes the commit buffer.              *)
Proceed(s) ==
  /\ mem' = Goto(s)
  /\ disk' = IF s \in Terminal THEN Goto(s) ELSE disk
  /\ UNCHANGED up

(* StepStarted of a handler enters the commit buffer.                      *)
Begin ==
  /\ up
  /\ mem.at \in Handlers
  /\ ~mem.began
  /\ mem' = [mem EXCEPT !.began = TRUE]
  /\ UNCHANGED <<ledger, effects, child, disk, up, gate, signals, crashes>>

(* What a flush of the parent's buffer makes durable: an iteration under   *)
(* way has its events in the child run, which flushes only at its end.     *)
Flushed(s) == IF s.at \in Body
              THEN [s EXCEPT !.at = "propose", !.began = FALSE]
              ELSE s

(* The periodic flusher of a driven run.                                   *)
Flush ==
  /\ up
  /\ disk # Flushed(mem)
  /\ disk' = Flushed(mem)
  /\ UNCHANGED <<ledger, effects, child, mem, up, gate, signals, crashes>>

(* SIGKILL, power loss, or a process that exits: memory goes, disk stays.  *)
Die ==
  /\ up
  /\ crashes < MaxCrashes
  /\ up' = FALSE
  /\ crashes' = crashes + 1
  /\ mem' = Fresh
  /\ swept' = 0
  /\ taken' = 0
  /\ UNCHANGED <<effects, child, disk, gate, inbox>>

Crash == mem.at \notin Terminal /\ Die /\ UNCHANGED ledger

(* resumeInFlight over the durable log: an action left in flight settles   *)
(* as failed, a parked gate re-arms; channel.start sweeps the whole inbox  *)
(* before the run re-parks.  (It drops what the log already received; the  *)
(* gate is the run's only awaiter, so nothing would consume that again.)   *)
Restart ==
  /\ ~up
  /\ up' = TRUE
  /\ LET resumed == IF disk.at \in Handlers /\ disk.began
                    THEN [disk EXCEPT !.at = "failed", !.began = FALSE]
                    ELSE disk
     IN /\ mem' = resumed
        /\ disk' = resumed
  /\ swept' = Len(inbox)
  /\ taken' = 0
  /\ UNCHANGED <<ledger, effects, child, gate, inbox, crashes>>

-----------------------------------------------------------------------------
(* The steps.                                                              *)

(* drift, then the material gate.                                          *)
marketDrift ==
  /\ Running("drift")
  /\ \E d \in {"candidates", "balanced"} :
       /\ effects.drift \in {"none", d}
       /\ effects' = [effects EXCEPT !.drift = d]
       /\ Proceed(IF d = "candidates" THEN "propose" ELSE "nothing")
  /\ UNCHANGED <<ledger, child, gate, signals, crashes>>

(* Mutant of AfterIteration: a decline runs into the gate (issue #45).      *)
DeclineArmsGate(outcome) ==
  IF outcome \in {"cleared", "declined"} THEN {"approve"} ELSE {"exhausted"}

(* The end of a loop iteration: while("mm.blocked"), the iteration bound,  *)
(* and the routes the host has seen a failed loop take.                    *)
AfterIteration(outcome) ==
  CASE outcome \in {"cleared", "declined"} -> {"settle"}
    [] outcome = "blocked" /\ mem.attempt < MaxAttempts -> {"propose"}
    [] outcome = "blocked" -> {"exhausted"}
    [] OTHER -> {"exhausted", "approve", "failed"}

EndIteration(outcome) ==
  /\ child' = [child EXCEPT ![mem.attempt] = outcome]
  /\ \E s \in AfterIteration(outcome) :
       IF s = "propose"
       THEN /\ mem' = [Goto(s) EXCEPT !.attempt = @ + 1]
            /\ UNCHANGED <<disk, up>>
       ELSE Proceed(s)

(* The drafting model answers, or its step fails.  An iteration whose      *)
(* child log is on disk is adopted, not run again.                         *)
propose ==
  /\ At("propose")
  /\ \/ /\ child[mem.attempt] = "none"
        /\ Proceed("intake")
        /\ UNCHANGED child
     \/ /\ child[mem.attempt] = "none"
        /\ EndIteration("failed")
     \/ /\ child[mem.attempt] # "none"
        /\ EndIteration(child[mem.attempt])
  /\ UNCHANGED <<ledger, effects, gate, signals, crashes>>

(* appendRecommendation: a replay keeps the stored row and its window.     *)
RecordDraft(a) ==
  /\ drafted' = drafted \cup {a}
  /\ life' = IF a \in drafted THEN life ELSE [life EXCEPT ![a] = Window]
  /\ UNCHANGED <<verdict, approval, instr, decided, lapsed>>

(* intake: a NOTHING is a decline, a draft is recorded, any other reply    *)
(* throws and fails the iteration.                                         *)
auditIntake ==
  LET a == mem.attempt IN
  /\ Running("intake")
  /\ \/ /\ effects.intake[a] \in {"none", "declined"}
        /\ effects' = [effects EXCEPT !.intake[a] = "declined"]
        /\ Proceed("audit")
        /\ UNCHANGED <<ledger, child>>
     \/ /\ effects.intake[a] = "none"
        /\ RecordDraft(a)
        /\ effects' = [effects EXCEPT !.intake[a] = "drafted"]
        /\ Proceed("audit")
        /\ UNCHANGED child
     \/ /\ effects.intake[a] = "drafted"
        /\ Proceed("audit")
        /\ UNCHANGED <<ledger, effects, child>>
     \/ /\ effects.intake[a] = "none"
        /\ EndIteration("failed")
        /\ UNCHANGED <<ledger, effects>>
  /\ UNCHANGED <<gate, signals, crashes>>

(* appendAuditVerdict: a replay keeps the stored row.                      *)
RecordVerdict(a, v) ==
  /\ verdict' = IF verdict[a] = "none" THEN [verdict EXCEPT ![a] = v] ELSE verdict
  /\ UNCHANGED <<drafted, life, approval, instr, decided, lapsed>>

(* audit: a decline has nothing to audit; otherwise the four checks are    *)
(* run against the ledger as it is now, and THEIR answer is the step's     *)
(* output, whatever row a crashed first try already stored.                *)
auditReview ==
  LET a == mem.attempt IN
  /\ Running("audit")
  /\ \/ /\ effects.intake[a] = "declined"
        /\ EndIteration("declined")
        /\ UNCHANGED <<ledger, effects>>
     \/ /\ effects.intake[a] = "drafted"
        /\ effects.review[a] = "none"
        /\ \E v \in {"cleared", "blocked"} :
             /\ RecordVerdict(a, v)
             /\ effects' = [effects EXCEPT !.review[a] = v]
             /\ EndIteration(v)
     \/ /\ effects.intake[a] = "drafted"
        /\ effects.review[a] # "none"
        /\ EndIteration(effects.review[a])
        /\ UNCHANGED <<ledger, effects>>
  /\ UNCHANGED <<gate, signals, crashes>>

(* Mutant of HasCleared: the decision trusts that the gate was armed for    *)
(* the recommendation it was sent.                                         *)
Recorded(a) == a \in drafted

(* The latest verdict of the recommendation cleared it.                    *)
HasCleared(a) == a \in drafted /\ verdict[a] = "cleared"

(* settle, then the verdict gate: did any attempt clear?                   *)
governSettle ==
  /\ Running("settle")
  /\ Proceed(IF \E a \in Attempts : HasCleared(a) THEN "approve" ELSE "declined")
  /\ UNCHANGED <<ledger, effects, child, gate, signals, crashes>>

(* awaitSignal parks: SignalAwaited and TimerSet are flushed together.     *)
Park ==
  /\ At("approve")
  /\ ~mem.began
  /\ mem' = [mem EXCEPT !.began = TRUE]
  /\ disk' = mem'
  /\ gate' = Window
  /\ UNCHANGED <<ledger, effects, child, up, signals, crashes>>

(* An awaiter takes the head of the channel's queue.                       *)
Receive ==
  /\ Running("approve")
  /\ taken < swept
  /\ taken' = taken + 1
  /\ mem' = [mem EXCEPT !.at = "decide", !.began = FALSE, !.heard = inbox[taken']]
  /\ UNCHANGED <<ledger, effects, child, disk, up, gate, inbox, swept, crashes>>

(* Mutants of TimerFires: the timeout is acted on before it is durable; the *)
(* gate has no timeout.                                                    *)
TimerOnlyInMemory ==
  /\ Running("approve")
  /\ taken = swept
  /\ gate = 0
  /\ mem' = Goto("expired")
  /\ UNCHANGED <<ledger, effects, child, disk, up, gate, signals, crashes>>

NoTimeout == Running("approve") /\ gate > Window /\ UNCHANGED vars

(* TimerFired is committed through the durable store before the run sees   *)
(* it; a signal already dispatched has resolved the awaiter first.         *)
TimerFires ==
  /\ Running("approve")
  /\ taken = swept
  /\ gate = 0
  /\ mem' = Goto("expired")
  /\ disk' = Goto("expired")
  /\ UNCHANGED <<ledger, effects, child, up, gate, signals, crashes>>

(* Mutant of EmitDecided: the decision is journaled without its event.      *)
NoDecidedEvent(s) == s \in Signals /\ UNCHANGED decided

(* emitEvent with the id `${run}:decided`: the first one stays.            *)
EmitDecided(s) == decided' = IF decided = {} THEN {s} ELSE decided

(* appendApproval: idempotent by the signal id, which names the rec.       *)
SignApproval(a) ==
  approval' = IF approval[a] # "none" THEN approval
              ELSE [approval EXCEPT ![a] = IF life[a] > 0 THEN "live" ELSE "stale"]

(* decide, then the route gate.  The handler throws unless the latest      *)
(* verdict of the NAMED recommendation cleared it.                         *)
governDecision ==
  LET a == mem.heard.rec IN
  /\ Running("decide")
  /\ \/ /\ effects.decision # "none"
        /\ Proceed(IF effects.decision = "approved" THEN "prepare" ELSE "rejected")
        /\ UNCHANGED <<ledger, effects>>
     \/ /\ effects.decision = "none"
        /\ ~HasCleared(a)
        /\ Proceed("failed")
        /\ UNCHANGED <<ledger, effects>>
     \/ /\ effects.decision = "none"
        /\ HasCleared(a)
        /\ mem.heard.verb = "approve"
        /\ SignApproval(a)
        /\ EmitDecided(mem.heard)
        /\ effects' = [effects EXCEPT !.decision = "approved"]
        /\ Proceed("prepare")
        /\ UNCHANGED <<drafted, life, verdict, instr, lapsed>>
     \/ /\ effects.decision = "none"
        /\ HasCleared(a)
        /\ mem.heard.verb = "reject"
        /\ EmitDecided(mem.heard)
        /\ effects' = [effects EXCEPT !.decision = "rejected"]
        /\ Proceed("rejected")
        /\ UNCHANGED <<drafted, life, verdict, approval, instr, lapsed>>
  /\ UNCHANGED <<child, gate, signals, crashes>>

(* Mutants of AppendInstruction: a replay writes the row again; the row is  *)
(* never written.                                                          *)
RewriteInstruction(a) == instr' = [instr EXCEPT ![a] = "prepared"]
SkipInstruction(a) == a \in Attempts /\ UNCHANGED instr

(* appendInstruction: idempotent by the instruction id.                    *)
AppendInstruction(a) ==
  instr' = IF instr[a] = "none" THEN [instr EXCEPT ![a] = "prepared"] ELSE instr

executionPrepare ==
  LET a == mem.heard.rec IN
  /\ Running("prepare")
  /\ \/ /\ approval[a] # "none"
        /\ AppendInstruction(a)
        /\ Proceed("completed")
     \/ /\ approval[a] = "none"
        /\ Proceed("failed")
        /\ UNCHANGED instr
  /\ UNCHANGED <<drafted, life, verdict, approval, decided, lapsed>>
  /\ UNCHANGED <<effects, child, gate, signals, crashes>>

(* governExpired names every draft of the run in its event.                *)
EmitExpired == lapsed' = IF lapsed = {} THEN {drafted} ELSE lapsed

governExpired ==
  /\ Running("expired")
  /\ EmitExpired
  /\ Proceed("completed")
  /\ UNCHANGED <<drafted, life, verdict, approval, instr, decided>>
  /\ UNCHANGED <<effects, child, gate, signals, crashes>>

(* rejected, exhausted, declined, nothing: one event and a journal line.   *)
terminalHandler ==
  /\ up
  /\ mem.at \in Closers
  /\ mem.began
  /\ Proceed("completed")
  /\ UNCHANGED <<ledger, effects, child, gate, signals, crashes>>

(* A death inside a handler, after some of its ledger writes and before    *)
(* the effect ledger recorded its output.                                  *)
CrashInHandler ==
  /\ mem.began
  /\ Die
  /\ \/ /\ mem.at = "intake" /\ effects.intake[mem.attempt] = "none"
        /\ RecordDraft(mem.attempt)
     \/ /\ mem.at = "audit" /\ effects.intake[mem.attempt] = "drafted"
        /\ effects.review[mem.attempt] = "none"
        /\ \E v \in {"cleared", "blocked"} : RecordVerdict(mem.attempt, v)
     \/ /\ mem.at = "decide" /\ effects.decision = "none"
        /\ HasCleared(mem.heard.rec) /\ mem.heard.verb = "approve"
        /\ SignApproval(mem.heard.rec)
        /\ UNCHANGED <<drafted, life, verdict, instr, lapsed>>
        /\ EmitDecided(mem.heard) \/ UNCHANGED decided
     \/ /\ mem.at = "decide" /\ effects.decision = "none"
        /\ HasCleared(mem.heard.rec) /\ mem.heard.verb = "reject"
        /\ EmitDecided(mem.heard)
        /\ UNCHANGED <<drafted, life, verdict, approval, instr, lapsed>>
     \/ /\ mem.at = "prepare" /\ approval[mem.heard.rec] # "none"
        /\ AppendInstruction(mem.heard.rec)
        /\ UNCHANGED <<drafted, life, verdict, approval, decided, lapsed>>
     \/ /\ mem.at = "expired"
        /\ EmitExpired
        /\ UNCHANGED <<drafted, life, verdict, approval, instr, decided>>

-----------------------------------------------------------------------------
(* The operator, the inbox and the clock.                                  *)

(* decideRecommendation: the run is recovered from the id alone, and the   *)
(* decision is written to the inbox, host or no host.                      *)
decideRecommendation(a, v) ==
  /\ Len(inbox) < MaxSignals
  /\ inbox' = Append(inbox, [rec |-> a, verb |-> v])
  /\ UNCHANGED <<ledger, effects, child, host, gate, swept, taken, crashes>>

(* The poller dispatches the inbox files it has not dispatched yet.        *)
Sweep ==
  /\ up
  /\ mem.at \notin Terminal
  /\ swept < Len(inbox)
  /\ swept' = Len(inbox)
  /\ UNCHANGED <<ledger, effects, child, host, gate, inbox, taken, crashes>>

revokeInstruction(a) ==
  /\ instr[a] = "prepared"
  /\ instr' = [instr EXCEPT ![a] = "revoked"]
  /\ UNCHANGED <<drafted, life, verdict, approval, decided, lapsed>>
  /\ UNCHANGED <<effects, child, host, gate, signals, crashes>>

(* Mutant of Less: a window that has lapsed goes on counting.               *)
LessPastZero(n) == n - 1

(* What is left of a window a day later.                                   *)
Less(n) == IF n > 0 THEN n - 1 ELSE 0

(* Time passes, with or without a host.                                    *)
Tick ==
  /\ gate > 0 \/ \E a \in Attempts : life[a] > 0
  /\ gate' = Less(gate)
  /\ life' = [a \in Attempts |-> Less(life[a])]
  /\ UNCHANGED <<drafted, verdict, approval, instr, decided, lapsed>>
  /\ UNCHANGED <<effects, child, host, signals, crashes>>

-----------------------------------------------------------------------------
HostStep == \/ marketDrift \/ propose \/ auditIntake \/ auditReview
            \/ governSettle \/ Park \/ Receive \/ TimerFires
            \/ governDecision \/ executionPrepare
            \/ governExpired \/ terminalHandler

Next == \/ Begin \/ HostStep
        \/ Flush \/ Crash \/ CrashInHandler \/ Restart
        \/ Sweep \/ Tick
        \/ \E a \in Attempts : revokeInstruction(a)
        \/ \E a \in Attempts, v \in Verbs : decideRecommendation(a, v)

Spec == Init /\ [][Next]_vars

(* The host makes progress while it is up, is started again after a death, *)
(* its pollers run, and time passes.  The operator owes nothing.           *)
Fairness == /\ WF_vars(Begin) /\ WF_vars(HostStep)
            /\ WF_vars(Restart) /\ WF_vars(Sweep) /\ WF_vars(Tick)

FairSpec == Spec /\ Fairness

-----------------------------------------------------------------------------
(* The queue the operator sees.                                            *)

approvalQueue == {a \in drafted : /\ life[a] > 0
                                  /\ a \notin UNION lapsed
                                  /\ [rec |-> a, verb |-> "reject"] \notin decided
                                  /\ approval[a] = "none"
                                  /\ verdict[a] = "cleared"}

-----------------------------------------------------------------------------
(* Properties.                                                             *)

(* An instruction exists only behind the whole chain: the auditor cleared  *)
(* that very recommendation, an approval row was signed for it, and the    *)
(* operator's own signal, the first the run was ever sent, approved it.    *)
(* governance.ts: "awaitSignal -- the only path".                          *)
SignedChain ==
  \A a \in Attempts :
    instr[a] # "none" => /\ a \in drafted /\ verdict[a] = "cleared"
                         /\ approval[a] # "none"
                         /\ inbox # <<>>
                         /\ inbox[1] = [rec |-> a, verb |-> "approve"]

(* A run decides once: over crashes, replays of the inbox and resumed      *)
(* handlers, approval row, event and instruction all tell one decision,    *)
(* and none of them stands beside an expiry.                               *)
OneDecision ==
  /\ \A a, b \in Attempts :
       approval[a] # "none" /\ approval[b] # "none" => a = b
  /\ \A a \in Attempts, s \in decided :
       approval[a] # "none" => s = [rec |-> a, verb |-> "approve"]
  /\ lapsed # {} => decided = {} /\ \A a \in Attempts : approval[a] = "none"

(* The human gate is armed for a cleared draft, or by the loop failure the *)
(* host reports in startProposalRun ("a failed loop can still arm the      *)
(* gate"); a decline, an exhausted loop and a balanced drift never arm it. *)
GateHasSubject ==
  mem.at = "approve" =>
    \/ \E a \in Attempts : HasCleared(a)
    \/ \E a \in Attempts : child[a] = "failed"

(* When no host died, a run that completed leaves nothing in the queue:    *)
(* whichever way it ended, its draft is decided, expired or blocked.       *)
QueueDrained ==
  crashes = 0 /\ mem.at = "completed" => approvalQueue = {}

(* The ledger rows follow the abstract chain through every crash: this     *)
(* maps them to the stage ApprovalChain gives a recommendation.            *)
stageOf(a) ==
  CASE instr[a] # "none" -> instr[a]
    [] instr[a] = "none" /\ approval[a] # "none" -> "approved"
    [] [rec |-> a, verb |-> "reject"] \in decided -> "rejected"
    [] OTHER -> IF verdict[a] # "none" THEN verdict[a]
                ELSE IF a \in drafted THEN "drafted" ELSE "absent"

Chain == INSTANCE ApprovalChain
           WITH Recs <- Attempts,
                stage <- [a \in Attempts |-> stageOf(a)],
                lapsed <- (lapsed # {})

(* The workflow implements the chain.                                      *)
ImplementsChain == Chain!Spec

(* Every run ends: the gate has a timeout, so no answer is an answer too,  *)
(* and a run a dead host left behind is resumed to an end.                 *)
Settles == <>[](up /\ mem.at \in Terminal)

(* A signed approval becomes an instruction unless a host died on the way: *)
(* then the at-most-once rule may fail the run between the two.            *)
ApprovalIsPrepared ==
  \A a \in Attempts :
    approval[a] # "none" ~> (instr[a] # "none" \/ crashes > 0)

(* Whatever dies and comes back, the run decides once, asks only about     *)
(* what may be decided, and leaves nothing undecided behind it.            *)
Custody == OneDecision /\ GateHasSubject /\ QueueDrained
=============================================================================
