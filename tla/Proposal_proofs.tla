-------------------------- MODULE Proposal_proofs ---------------------------
(***************************************************************************)
(* Proofs about Proposal, for every number of attempts, window, crash and  *)
(* signal bound.                                                           *)
(***************************************************************************)
EXTENDS Proposal, TLAPS

(* A step of the run, the clock or the operator leaves every variable in   *)
(* its type: the facts later proofs need about the ranges of rows.         *)
LEMMA TypeInit == Init => TypeOK
  <1>1. 1 \in Attempts
    BY BoundsAssumption DEF Attempts
  <1> QED
    BY <1>1, BoundsAssumption
    DEF Init, TypeOK, Fresh, RunStates, EffectStates, Steps, Handlers,
        Terminal, NoSignal

(* Where Proceed leads is well typed.                                      *)
LEMMA ProceedType ==
  ASSUME TypeOK, NEW s \in Steps, Proceed(s)
  PROVE  mem' \in RunStates /\ disk' \in RunStates /\ up' \in BOOLEAN
  BY DEF TypeOK, Proceed, Goto, RunStates

LEMMA IterationType ==
  ASSUME TypeOK, NEW o \in {"cleared", "blocked", "declined", "failed"},
         EndIteration(o)
  PROVE  /\ mem' \in RunStates /\ disk' \in RunStates /\ up' \in BOOLEAN
         /\ child' \in [Attempts -> {"none", "cleared", "blocked", "declined", "failed"}]
  <1>0. mem.attempt \in Attempts
    BY DEF TypeOK, RunStates
  <1>1. child' \in [Attempts -> {"none", "cleared", "blocked", "declined", "failed"}]
    BY <1>0 DEF TypeOK, EndIteration
  <1>2. PICK s \in AfterIteration(o) :
          IF s = "propose"
          THEN /\ mem' = [Goto(s) EXCEPT !.attempt = @ + 1]
               /\ UNCHANGED <<disk, up>>
          ELSE Proceed(s)
    BY DEF EndIteration
  <1>3. /\ s \in Steps
        /\ s = "propose" => mem.attempt < MaxAttempts
    BY <1>2 DEF AfterIteration, Steps, Handlers, Terminal
  <1>4. CASE s = "propose"
    <2>1. mem.attempt + 1 \in Attempts
      BY <1>0, <1>3, <1>4, BoundsAssumption DEF Attempts
    <2> QED
      BY <1>1, <1>2, <1>3, <1>4, <2>1 DEF TypeOK, RunStates, Goto
  <1>5. CASE s # "propose"
    BY <1>1, <1>2, <1>3, <1>5, ProceedType
  <1> QED
    BY <1>4, <1>5

LEMMA WritesType ==
  ASSUME TypeOK, NEW a \in Attempts
  PROVE  /\ RecordDraft(a) => drafted' \in SUBSET Attempts /\ life' \in [Attempts -> 0..Window]
         /\ \A v \in {"cleared", "blocked"} :
              RecordVerdict(a, v) => verdict' \in [Attempts -> {"none", "cleared", "blocked"}]
         /\ SignApproval(a) => approval' \in [Attempts -> {"none", "live", "stale"}]
         /\ AppendInstruction(a) => instr' \in [Attempts -> {"none", "prepared", "revoked"}]
         /\ \A s \in Signals : EmitDecided(s) => decided' \in SUBSET Signals
         /\ EmitExpired => lapsed' \in SUBSET (SUBSET Attempts)
  <1>1. RecordDraft(a) => drafted' \in SUBSET Attempts /\ life' \in [Attempts -> 0..Window]
    BY BoundsAssumption DEF TypeOK, RecordDraft
  <1>2. ASSUME NEW v \in {"cleared", "blocked"}, RecordVerdict(a, v)
        PROVE  verdict' \in [Attempts -> {"none", "cleared", "blocked"}]
    BY <1>2 DEF TypeOK, RecordVerdict
  <1>3. SignApproval(a) => approval' \in [Attempts -> {"none", "live", "stale"}]
    BY DEF TypeOK, SignApproval
  <1>4. AppendInstruction(a) => instr' \in [Attempts -> {"none", "prepared", "revoked"}]
    BY DEF TypeOK, AppendInstruction
  <1>5. ASSUME NEW s \in Signals, EmitDecided(s) PROVE decided' \in SUBSET Signals
    BY <1>5 DEF TypeOK, EmitDecided
  <1>6. EmitExpired => lapsed' \in SUBSET (SUBSET Attempts)
    BY DEF TypeOK, EmitExpired
  <1> QED
    BY <1>1, <1>2, <1>3, <1>4, <1>5, <1>6

(* Recording an output keeps the effect ledger in its type.                *)
LEMMA EffectsType ==
  ASSUME TypeOK, NEW a \in Attempts
  PROVE  /\ \A v \in {"none", "drafted", "declined"} :
              [effects EXCEPT !.intake[a] = v] \in EffectStates
         /\ \A v \in {"none", "cleared", "blocked"} :
              [effects EXCEPT !.review[a] = v] \in EffectStates
         /\ \A v \in {"none", "approved", "rejected"} :
              [effects EXCEPT !.decision = v] \in EffectStates
  <1>1. ASSUME NEW v \in {"none", "drafted", "declined"}
        PROVE  [effects EXCEPT !.intake[a] = v] \in EffectStates
    <2>1. [effects.intake EXCEPT ![a] = v] \in [Attempts -> {"none", "drafted", "declined"}]
      BY DEF TypeOK, EffectStates
    <2>2. [effects EXCEPT !.intake = [effects.intake EXCEPT ![a] = v]] \in EffectStates
      BY <2>1 DEF TypeOK, EffectStates
    <2> QED
      BY <2>2, Zenon
  <1>2. ASSUME NEW v \in {"none", "cleared", "blocked"}
        PROVE  [effects EXCEPT !.review[a] = v] \in EffectStates
    <2>1. [effects.review EXCEPT ![a] = v] \in [Attempts -> {"none", "cleared", "blocked"}]
      BY DEF TypeOK, EffectStates
    <2>2. [effects EXCEPT !.review = [effects.review EXCEPT ![a] = v]] \in EffectStates
      BY <2>1 DEF TypeOK, EffectStates
    <2> QED
      BY <2>2, Zenon
  <1>3. ASSUME NEW v \in {"none", "approved", "rejected"}
        PROVE  [effects EXCEPT !.decision = v] \in EffectStates
    BY DEF TypeOK, EffectStates
  <1> QED
    BY <1>1, <1>2, <1>3

(* The decision step is only reached with a signal in hand.                *)
HeardAfterGate(s) == s.at \in {"decide", "prepare", "rejected"} => s.heard # NoSignal

Heard == HeardAfterGate(mem) /\ HeardAfterGate(disk)

LEMMA SignalsNotNone == NoSignal \notin Signals
  BY DEF NoSignal, Signals, Attempts

(* No iteration ends past the gate.                                        *)
LEMMA IterationHeard ==
  ASSUME TypeOK, Heard, NEW o, EndIteration(o)
  PROVE  Heard'
  <1>1. PICK s \in AfterIteration(o) :
          IF s = "propose"
          THEN /\ mem' = [Goto(s) EXCEPT !.attempt = @ + 1]
               /\ UNCHANGED <<disk, up>>
          ELSE Proceed(s)
    BY DEF EndIteration
  <1>2. s \in {"settle", "propose", "exhausted", "approve", "failed"}
    BY <1>1 DEF AfterIteration
  <1> QED
    BY <1>1, <1>2 DEF Heard, HeardAfterGate, Proceed, Goto, Terminal, TypeOK, RunStates

LEMMA TypeNext == TypeOK /\ Heard /\ [Next]_vars => TypeOK' /\ Heard'
  <1> SUFFICES ASSUME TypeOK, Heard, [Next]_vars PROVE TypeOK' /\ Heard'
    OBVIOUS
  <1>a. mem.attempt \in Attempts
    BY DEF TypeOK, RunStates
  <1>1. CASE Begin
    BY <1>1 DEF Begin, TypeOK, Heard, HeardAfterGate, RunStates, ledger, signals
  <1>2. CASE Flush
    BY <1>2 DEF Flush, Flushed, TypeOK, Heard, HeardAfterGate, RunStates, ledger,
                signals, Body, Steps
  <1>3. CASE marketDrift
    <2>1. PICK d \in {"candidates", "balanced"} :
            /\ effects' = [effects EXCEPT !.drift = d]
            /\ Proceed(IF d = "candidates" THEN "propose" ELSE "nothing")
      BY <1>3 DEF marketDrift
    <2>2. effects' \in EffectStates
      BY <2>1 DEF TypeOK, EffectStates
    <2>3. mem' \in RunStates /\ disk' \in RunStates /\ up' \in BOOLEAN
      BY <2>1, ProceedType DEF Steps, Handlers
    <2>4. Heard'
      BY <1>3, <2>1 DEF Heard, HeardAfterGate, Proceed, Goto, Terminal, TypeOK, RunStates
    <2> QED
      BY <1>3, <2>2, <2>3, <2>4 DEF marketDrift, TypeOK, ledger, signals
  <1>4. CASE propose
    <2>1. mem' \in RunStates /\ disk' \in RunStates /\ up' \in BOOLEAN
      <3>1. CASE Proceed("intake")
        BY <3>1, ProceedType DEF Steps, Handlers
      <3>2. CASE EndIteration("failed")
        BY <3>2, IterationType
      <3>3. CASE child[mem.attempt] # "none" /\ EndIteration(child[mem.attempt])
        <4>1. child[mem.attempt] \in {"cleared", "blocked", "declined", "failed"}
          BY <1>a, <3>3 DEF TypeOK
        <4> QED
          BY <3>3, <4>1, IterationType
      <3> QED
        BY <1>4, <3>1, <3>2, <3>3 DEF propose
    <2>2. child' \in [Attempts -> {"none", "cleared", "blocked", "declined", "failed"}]
      BY <1>4, <1>a DEF propose, EndIteration, TypeOK
    <2>3. mem.at = "propose" /\ up
      BY <1>4 DEF propose, At
    <2>4. Heard'
      <3>1. CASE Proceed("intake")
        BY <3>1, <2>3 DEF Heard, HeardAfterGate, Proceed, Goto, Terminal, TypeOK, RunStates
      <3>2. CASE \E o : EndIteration(o)
        BY <3>2, IterationHeard
      <3> QED
        BY <1>4, <3>1, <3>2 DEF propose
    <2> QED
      BY <1>4, <2>1, <2>2, <2>4 DEF propose, TypeOK, ledger, signals
  <1>5. CASE auditIntake
    <2>1. Running("intake")
      BY <1>5 DEF auditIntake
    <2>2. CASE Proceed("audit") /\ UNCHANGED child
      <3>1. mem' \in RunStates /\ disk' \in RunStates /\ up' \in BOOLEAN
        BY <2>2, ProceedType DEF Steps, Handlers
      <3>2. Heard'
        BY <2>2 DEF Heard, HeardAfterGate, Proceed, Goto, Terminal, TypeOK, RunStates
      <3>3. effects' \in EffectStates
        BY <1>5, <1>a, EffectsType DEF auditIntake, TypeOK
      <3>4. drafted' \in SUBSET Attempts /\ life' \in [Attempts -> 0..Window]
        BY <1>5, <1>a, WritesType DEF auditIntake, TypeOK, ledger
      <3> QED
        BY <1>5, <2>2, <3>1, <3>2, <3>3, <3>4
        DEF auditIntake, RecordDraft, TypeOK, ledger, signals
    <2>3. CASE EndIteration("failed") /\ UNCHANGED <<ledger, effects>>
      BY <1>5, <2>3, IterationType, IterationHeard DEF auditIntake, TypeOK, ledger, signals
    <2> QED
      BY <1>5, <2>2, <2>3 DEF auditIntake
  <1>6. CASE auditReview
    <2>1. PICK o \in {"cleared", "blocked", "declined", "failed"} : EndIteration(o)
      BY <1>6, <1>a DEF auditReview, TypeOK, EffectStates
    <2>2. /\ mem' \in RunStates /\ disk' \in RunStates /\ up' \in BOOLEAN
          /\ child' \in [Attempts -> {"none", "cleared", "blocked", "declined", "failed"}]
      BY <2>1, IterationType
    <2>3. Heard'
      BY <2>1, IterationHeard
    <2>4. effects' \in EffectStates
      <3>1. CASE UNCHANGED effects
        BY <3>1 DEF TypeOK
      <3>2. CASE \E v \in {"cleared", "blocked"} :
                   effects' = [effects EXCEPT !.review[mem.attempt] = v]
        BY <3>2, <1>a, EffectsType
      <3> QED
        BY <1>6, <3>1, <3>2 DEF auditReview
    <2>5. verdict' \in [Attempts -> {"none", "cleared", "blocked"}]
      BY <1>6, <1>a DEF auditReview, RecordVerdict, TypeOK, ledger
    <2> QED
      BY <1>6, <2>2, <2>3, <2>4, <2>5 DEF auditReview, RecordVerdict, TypeOK, ledger, signals
  <1>7. CASE governSettle
    <2>1. mem' \in RunStates /\ disk' \in RunStates /\ up' \in BOOLEAN
      BY <1>7, ProceedType DEF governSettle, Steps, Handlers
    <2>2. Heard'
      BY <1>7 DEF governSettle, Heard, HeardAfterGate, Proceed, Goto, Terminal, TypeOK, RunStates
    <2> QED
      BY <1>7, <2>1, <2>2 DEF governSettle, TypeOK, ledger, signals
  <1>8. CASE Park
    <2>1. mem' \in RunStates /\ disk' \in RunStates
      BY <1>8 DEF Park, TypeOK, RunStates
    <2>2. Heard'
      BY <1>8 DEF Park, At, TypeOK, Heard, HeardAfterGate, RunStates
    <2>3. gate' \in 0..Window
      BY <1>8, BoundsAssumption DEF Park
    <2> QED
      BY <1>8, <2>1, <2>2, <2>3 DEF Park, TypeOK, ledger, signals
  <1>9. CASE Receive
    <2>1. inbox[taken + 1] \in Signals
      BY <1>9 DEF Receive, TypeOK
    <2>2. mem' \in RunStates /\ Heard'
      BY <1>9, <2>1, SignalsNotNone
      DEF Receive, TypeOK, Heard, HeardAfterGate, RunStates, Steps, Handlers
    <2>3. taken' \in 0..swept
      BY <1>9 DEF Receive, TypeOK
    <2> QED
      BY <1>9, <2>2, <2>3 DEF Receive, TypeOK, ledger
  <1>10. CASE TimerFires
    BY <1>10 DEF TimerFires, Goto, TypeOK, Heard, HeardAfterGate, RunStates,
                 Steps, Handlers, ledger, signals
  <1>11. CASE governDecision
    <2>1. PICK s \in {"prepare", "rejected", "failed"} : Proceed(s)
      BY <1>11 DEF governDecision
    <2>2. mem' \in RunStates /\ disk' \in RunStates /\ up' \in BOOLEAN
      BY <2>1, ProceedType DEF Steps, Handlers, Terminal
    <2>3. mem.heard \in Signals
      BY <1>11 DEF governDecision, Running, At, Heard, HeardAfterGate, TypeOK, RunStates
    <2>4. Heard'
      BY <2>1, <2>3, SignalsNotNone DEF Heard, HeardAfterGate, Proceed, Goto, Terminal, TypeOK, RunStates
    <2>5. mem.heard.rec \in Attempts
      BY <2>3 DEF Signals
    <2>6. effects' \in EffectStates
      BY <1>11, <1>a, EffectsType DEF governDecision, TypeOK
    <2>7. decided' \in SUBSET Signals /\ approval' \in [Attempts -> {"none", "live", "stale"}]
      BY <1>11, <2>3, <2>5, WritesType DEF governDecision, TypeOK, ledger
    <2> QED
      BY <1>11, <2>2, <2>4, <2>6, <2>7 DEF governDecision, TypeOK, ledger, signals
  <1>12. CASE executionPrepare
    <2>1. PICK s \in Terminal : Proceed(s)
      BY <1>12 DEF executionPrepare, Terminal
    <2>2. mem' \in RunStates /\ disk' \in RunStates /\ up' \in BOOLEAN
      BY <2>1, ProceedType DEF Steps
    <2>3. Heard'
      BY <2>1 DEF Heard, HeardAfterGate, Proceed, Goto, Terminal, TypeOK, RunStates
    <2>4. mem.heard.rec \in Attempts
      BY <1>12 DEF executionPrepare, Running, At, Heard, HeardAfterGate, TypeOK, RunStates, Signals
    <2>5. instr' \in [Attempts -> {"none", "prepared", "revoked"}]
      BY <1>12, <2>4, WritesType DEF executionPrepare, TypeOK
    <2> QED
      BY <1>12, <2>2, <2>3, <2>5 DEF executionPrepare, TypeOK, signals
  <1>13. CASE governExpired \/ terminalHandler
    <2>1. Proceed("completed") /\ up
      BY <1>13 DEF governExpired, terminalHandler, Running, At
    <2>2. mem' \in RunStates /\ disk' \in RunStates /\ up' \in BOOLEAN
      BY <2>1, ProceedType DEF Steps, Terminal
    <2>3. Heard'
      BY <2>1 DEF Heard, HeardAfterGate, Proceed, Goto, Terminal, TypeOK, RunStates
    <2>4. lapsed' \in SUBSET (SUBSET Attempts)
      BY <1>13 DEF governExpired, terminalHandler, EmitExpired, TypeOK, ledger
    <2> QED
      BY <1>13, <2>2, <2>3, <2>4 DEF governExpired, terminalHandler, TypeOK, ledger, signals
  <1>14. CASE Crash \/ CrashInHandler
    <2>1. Die
      BY <1>14 DEF Crash, CrashInHandler
    <2>2. /\ mem' \in RunStates /\ swept' \in 0..Len(inbox') /\ taken' \in 0..swept'
          /\ crashes' \in Nat /\ up' \in BOOLEAN
      <3>1. 1 \in Attempts
        BY BoundsAssumption DEF Attempts
      <3>2. mem' \in RunStates
        BY <2>1, <3>1 DEF Die, Fresh, RunStates, Steps, Handlers
      <3>3. /\ swept' \in 0..Len(inbox') /\ taken' \in 0..swept'
            /\ crashes' \in Nat /\ up' \in BOOLEAN
        <4>1. Len(inbox') \in Nat
          BY <2>1 DEF Die, TypeOK
        <4>2. swept' \in 0..Len(inbox') /\ taken' \in 0..swept'
          BY <2>1, <4>1 DEF Die
        <4>3. crashes' \in Nat
          BY <2>1 DEF Die, TypeOK
        <4>4. up' \in BOOLEAN
          BY <2>1 DEF Die
        <4> QED
          BY <4>2, <4>3, <4>4
      <3> QED
        BY <3>2, <3>3
    <2>3. Heard'
      BY <2>1 DEF Die, Fresh, Heard, HeardAfterGate
    <2>4. CASE UNCHANGED ledger
      BY <2>1, <2>2, <2>3, <2>4 DEF Die, TypeOK, ledger
    <2>5. CASE CrashInHandler
      <3>1. mem.at \in {"decide", "prepare"} => mem.heard \in Signals /\ mem.heard.rec \in Attempts
        BY DEF Heard, HeardAfterGate, TypeOK, RunStates, Signals
      <3>2. /\ drafted' \in SUBSET Attempts /\ life' \in [Attempts -> 0..Window]
            /\ verdict' \in [Attempts -> {"none", "cleared", "blocked"}]
            /\ approval' \in [Attempts -> {"none", "live", "stale"}]
            /\ instr' \in [Attempts -> {"none", "prepared", "revoked"}]
            /\ decided' \in SUBSET Signals
            /\ lapsed' \in SUBSET (SUBSET Attempts)
        <4>1. CASE RecordDraft(mem.attempt)
          BY <4>1, <1>a, WritesType DEF RecordDraft, TypeOK
        <4>2. CASE \E v \in {"cleared", "blocked"} : RecordVerdict(mem.attempt, v)
          BY <4>2, <1>a, WritesType DEF RecordVerdict, TypeOK
        <4>3. CASE /\ mem.at = "decide" /\ SignApproval(mem.heard.rec)
                   /\ UNCHANGED <<drafted, life, verdict, instr, lapsed>>
                   /\ EmitDecided(mem.heard) \/ UNCHANGED decided
          BY <4>3, <3>1, <1>a, WritesType DEF TypeOK
        <4>4. CASE /\ mem.at = "decide" /\ EmitDecided(mem.heard)
                   /\ UNCHANGED <<drafted, life, verdict, approval, instr, lapsed>>
          BY <4>4, <3>1, <1>a, WritesType DEF TypeOK
        <4>5. CASE /\ mem.at = "prepare" /\ AppendInstruction(mem.heard.rec)
                   /\ UNCHANGED <<drafted, life, verdict, approval, decided, lapsed>>
          BY <4>5, <3>1, <1>a, WritesType DEF TypeOK
        <4>6. CASE EmitExpired /\ UNCHANGED <<drafted, life, verdict, approval, instr, decided>>
          BY <4>6, <1>a, WritesType DEF TypeOK
        <4> QED
          BY <2>5, <4>1, <4>2, <4>3, <4>4, <4>5, <4>6 DEF CrashInHandler
      <3> QED
        BY <2>1, <2>2, <2>3, <3>2 DEF Die, TypeOK
    <2> QED
      BY <1>14, <2>4, <2>5 DEF Crash
  <1>15. CASE Restart
    <2>1. mem' \in RunStates /\ disk' \in RunStates /\ Heard'
      <3>1. CASE disk.at \in Handlers /\ disk.began
        BY <1>15, <3>1 DEF Restart, TypeOK, Heard, HeardAfterGate, RunStates, Steps, Terminal
      <3>2. CASE ~(disk.at \in Handlers /\ disk.began)
        BY <1>15, <3>2 DEF Restart, TypeOK, Heard, HeardAfterGate
      <3> QED
        BY <3>1, <3>2
    <2>2. swept' \in 0..Len(inbox') /\ taken' \in 0..swept' /\ inbox' \in Seq(Signals)
      BY <1>15 DEF Restart, TypeOK
    <2> QED
      BY <1>15, <2>1, <2>2 DEF Restart, TypeOK, ledger
  <1>16. CASE Sweep
    BY <1>16 DEF Sweep, TypeOK, Heard, HeardAfterGate, ledger, host
  <1>17. CASE Tick
    <2>1. gate' \in 0..Window
      BY <1>17, BoundsAssumption DEF Tick, Less, TypeOK
    <2>2. life' \in [Attempts -> 0..Window]
      BY <1>17, BoundsAssumption DEF Tick, Less, TypeOK
    <2>3. Heard'
      BY <1>17 DEF Tick, Heard, HeardAfterGate, host
    <2> QED
      BY <1>17, <2>1, <2>2, <2>3 DEF Tick, TypeOK, host, signals
  <1>18. ASSUME NEW a \in Attempts, revokeInstruction(a) PROVE TypeOK' /\ Heard'
    BY <1>18 DEF revokeInstruction, TypeOK, Heard, HeardAfterGate, host, signals
  <1>19. ASSUME NEW a \in Attempts, NEW v \in Verbs, decideRecommendation(a, v)
         PROVE  TypeOK' /\ Heard'
    <2>1. [rec |-> a, verb |-> v] \in Signals
      BY DEF Signals
    <2> QED
      BY <1>19, <2>1 DEF decideRecommendation, TypeOK, Heard, HeardAfterGate, ledger, host
  <1>20. CASE UNCHANGED vars
    BY <1>20 DEF vars, TypeOK, Heard, HeardAfterGate, ledger, host, signals
  <1> QED
    BY <1>1, <1>2, <1>3, <1>4, <1>5, <1>6, <1>7, <1>8, <1>9, <1>10, <1>11, <1>12,
       <1>13, <1>14, <1>15, <1>16, <1>17, <1>18, <1>19, <1>20
    DEF Next, HostStep

(* Type correctness: every reachable state is well typed.                  *)
THEOREM TypeCorrect == Spec => []TypeOK
  <1>1. Init => TypeOK /\ Heard
    BY TypeInit DEF Init, Fresh, Heard, HeardAfterGate
  <1>2. TypeOK /\ Heard /\ [Next]_vars => (TypeOK /\ Heard)'
    BY TypeNext
  <1> QED
    BY <1>1, <1>2, PTL DEF Spec

-----------------------------------------------------------------------------
(* What one step may do to the rows and to the inbox.                      *)

(* Rows are only ever added, and the first signal stays the first.         *)
RowsGrow ==
  /\ drafted \subseteq drafted'
  /\ \A a \in Attempts : verdict[a] = "cleared" => verdict'[a] = "cleared"
  /\ inbox # <<>> => inbox' # <<>> /\ inbox'[1] = inbox[1]

(* An approval row appears only in the decision step, for the cleared      *)
(* recommendation the run heard about; an instruction only behind it.      *)
RowsJustified ==
  /\ \A a \in Attempts : approval'[a] # approval[a] =>
       /\ approval[a] = "none"
       /\ mem.heard = [rec |-> a, verb |-> "approve"]
       /\ a \in drafted /\ verdict[a] = "cleared"
  /\ \A a \in Attempts : instr'[a] # "none" => instr[a] # "none" \/ approval[a] # "none"

LEMMA UnchangedRows ==
  ASSUME TypeOK, UNCHANGED <<approval, instr>>
  PROVE  RowsJustified
  BY DEF RowsJustified

LEMMA SignedRow ==
  ASSUME TypeOK, mem.heard \in Signals, mem.heard.verb = "approve",
         HasCleared(mem.heard.rec), SignApproval(mem.heard.rec), UNCHANGED instr
  PROVE  RowsJustified
  <1>1. mem.heard = [rec |-> mem.heard.rec, verb |-> "approve"]
    BY DEF Signals
  <1>2. ASSUME NEW a \in Attempts, approval'[a] # approval[a]
        PROVE  a = mem.heard.rec /\ approval[a] = "none"
    BY <1>2 DEF SignApproval, TypeOK
  <1> QED
    BY <1>1, <1>2 DEF RowsJustified, HasCleared

LEMMA PreparedRow ==
  ASSUME TypeOK, NEW r \in Attempts, approval[r] # "none", AppendInstruction(r),
         UNCHANGED approval
  PROVE  RowsJustified
  BY DEF RowsJustified, AppendInstruction, TypeOK

LEMMA RowSteps ==
  ASSUME TypeOK, Heard, [Next]_vars
  PROVE  RowsGrow /\ RowsJustified
  <1>a. mem.at \in {"decide", "prepare"} => mem.heard \in Signals /\ mem.heard.rec \in Attempts
    BY DEF Heard, HeardAfterGate, TypeOK, RunStates, Signals
  <1>b. mem.attempt \in Attempts
    BY DEF TypeOK, RunStates
  <1>c. ASSUME NEW r \in Attempts, NEW v \in {"cleared", "blocked"}, RecordVerdict(r, v), UNCHANGED inbox
        PROVE  RowsGrow /\ RowsJustified
    BY <1>c DEF RecordVerdict, RowsGrow, RowsJustified, TypeOK
  <1>d. ASSUME NEW r \in Attempts, RecordDraft(r), UNCHANGED inbox
        PROVE  RowsGrow /\ RowsJustified
    BY <1>d DEF RecordDraft, RowsGrow, RowsJustified, TypeOK
  <1>e. UNCHANGED <<drafted, verdict, inbox>> => RowsGrow
    BY DEF RowsGrow
  <1>1. CASE \/ Begin \/ Flush \/ marketDrift \/ propose \/ governSettle \/ Park \/ Receive
             \/ TimerFires \/ terminalHandler \/ Restart \/ Sweep \/ Crash \/ UNCHANGED vars
    BY <1>1, <1>e, UnchangedRows
    DEF Begin, Flush, marketDrift, propose, governSettle, Park, Receive, TimerFires,
        terminalHandler, Restart, Sweep, Crash, Die, vars, ledger, signals
  <1>2. CASE auditIntake
    BY <1>2, <1>b, <1>d, <1>e, UnchangedRows DEF auditIntake, ledger, signals
  <1>3. CASE auditReview
    BY <1>3, <1>b, <1>c, <1>e, UnchangedRows DEF auditReview, ledger, signals
  <1>4. CASE governDecision
    <2>1. mem.heard \in Signals
      BY <1>4, <1>a DEF governDecision, Running, At
    <2>2. RowsGrow
      BY <1>4, <1>e DEF governDecision, ledger, signals
    <2> QED
      BY <1>4, <2>1, <2>2, UnchangedRows, SignedRow DEF governDecision, ledger
  <1>5. CASE executionPrepare
    <2>1. mem.heard.rec \in Attempts
      BY <1>5, <1>a DEF executionPrepare, Running, At
    <2> QED
      BY <1>5, <2>1, <1>e, UnchangedRows, PreparedRow DEF executionPrepare, signals
  <1>6. CASE governExpired
    BY <1>6, <1>e, UnchangedRows DEF governExpired, signals
  <1>7. CASE CrashInHandler
    <2>1. UNCHANGED inbox
      BY <1>7 DEF CrashInHandler, Die
    <2>2. CASE RecordDraft(mem.attempt) \/ \E v \in {"cleared", "blocked"} : RecordVerdict(mem.attempt, v)
      BY <2>1, <2>2, <1>b, <1>c, <1>d
    <2>3. CASE /\ mem.at = "decide" /\ HasCleared(mem.heard.rec) /\ mem.heard.verb = "approve"
               /\ SignApproval(mem.heard.rec)
               /\ UNCHANGED <<drafted, life, verdict, instr, lapsed>>
      BY <2>1, <2>3, <1>a, <1>e, SignedRow
    <2>4. CASE /\ mem.at = "prepare" /\ approval[mem.heard.rec] # "none"
               /\ AppendInstruction(mem.heard.rec)
               /\ UNCHANGED <<drafted, life, verdict, approval, decided, lapsed>>
      BY <2>1, <2>4, <1>a, <1>e, PreparedRow
    <2>5. CASE UNCHANGED <<drafted, verdict, approval, instr>>
      BY <2>1, <2>5, <1>e, UnchangedRows
    <2> QED
      BY <1>7, <2>2, <2>3, <2>4, <2>5 DEF CrashInHandler
  <1>8. ASSUME NEW a \in Attempts, revokeInstruction(a)
        PROVE  RowsGrow /\ RowsJustified
    BY <1>8, <1>e DEF revokeInstruction, RowsJustified, TypeOK, signals
  <1>9. ASSUME NEW a \in Attempts, NEW v \in Verbs, decideRecommendation(a, v)
        PROVE  RowsGrow /\ RowsJustified
    <2>1. RowsJustified
      BY <1>9, UnchangedRows DEF decideRecommendation, ledger
    <2>2. inbox # <<>> => inbox' # <<>> /\ inbox'[1] = inbox[1]
      BY <1>9 DEF decideRecommendation, TypeOK
    <2> QED
      BY <1>9, <2>1, <2>2 DEF decideRecommendation, ledger, RowsGrow
  <1>10. CASE Tick
    BY <1>10, <1>e, UnchangedRows DEF Tick, signals
  <1> QED
    BY <1>1, <1>2, <1>3, <1>4, <1>5, <1>6, <1>7, <1>8, <1>9, <1>10 DEF Next, HostStep

-----------------------------------------------------------------------------
(* The run hears the first signal of its inbox or none.                    *)

HearsFirst(s) == s.heard # NoSignal => inbox # <<>> /\ s.heard = inbox[1]

AfterGate == {"decide", "prepare", "rejected"} \cup Terminal

Hearing == /\ HearsFirst(mem) /\ HearsFirst(disk)
           /\ mem.at \notin AfterGate => taken = 0

(* How a step moves the run: it stays, it takes the first signal, it goes  *)
(* to another step with the same signal, or its memory is gone.            *)
LEMMA HearingNext ==
  ASSUME TypeOK, Heard, Hearing, [Next]_vars
  PROVE  Hearing'
  <1>a. inbox # <<>> => inbox' # <<>> /\ inbox'[1] = inbox[1]
    BY RowSteps DEF RowsGrow
  <1>b. ASSUME mem'.heard = mem.heard \/ mem'.heard = NoSignal,
               disk'.heard \in {disk.heard, mem.heard},
               mem'.at \notin AfterGate => taken' = 0
        PROVE  Hearing'
    BY <1>a, <1>b DEF Hearing, HearsFirst
  <1>p. ASSUME NEW s \in Steps, Proceed(s)
        PROVE  mem'.heard = mem.heard /\ disk'.heard \in {disk.heard, mem.heard} /\ mem'.at = s
    BY <1>p DEF Proceed, Goto, TypeOK, RunStates
  <1>i. ASSUME NEW o, EndIteration(o)
        PROVE  mem'.heard = mem.heard /\ disk'.heard \in {disk.heard, mem.heard}
    <2>1. PICK s \in AfterIteration(o) :
            IF s = "propose"
            THEN /\ mem' = [Goto(s) EXCEPT !.attempt = @ + 1]
                 /\ UNCHANGED <<disk, up>>
            ELSE Proceed(s)
      BY <1>i DEF EndIteration
    <2> QED
      BY <2>1 DEF Proceed, Goto, TypeOK, RunStates
  <1>1. CASE Begin
    BY <1>1, <1>b DEF Begin, Hearing, TypeOK, RunStates, signals
  <1>2. CASE Flush
    BY <1>2, <1>b DEF Flush, Flushed, Hearing, TypeOK, RunStates, signals
  <1>3. CASE marketDrift \/ governSettle
    BY <1>3, <1>b, <1>p
    DEF marketDrift, governSettle, Running, At, Hearing, AfterGate, Terminal, Steps, Handlers, signals
  <1>4. CASE propose \/ auditIntake \/ auditReview
    <2>1. taken' = 0
      BY <1>4 DEF propose, auditIntake, auditReview, Running, At, Hearing, AfterGate, Terminal, signals
    <2>2. mem'.heard = mem.heard /\ disk'.heard \in {disk.heard, mem.heard}
      BY <1>4, <1>p, <1>i DEF propose, auditIntake, auditReview, Steps, Handlers
    <2> QED
      BY <1>b, <2>1, <2>2
  <1>5. CASE Park
    BY <1>5, <1>b DEF Park, At, Hearing, AfterGate, Terminal, TypeOK, RunStates, signals
  <1>6. CASE Receive
    <2>1. taken = 0 /\ inbox # <<>>
      BY <1>6 DEF Receive, Running, At, Hearing, AfterGate, Terminal, TypeOK
    <2>2. mem'.heard = inbox[1] /\ mem'.at = "decide"
      BY <1>6, <2>1 DEF Receive, TypeOK, RunStates
    <2> QED
      BY <1>6, <2>1, <2>2 DEF Receive, Hearing, HearsFirst, AfterGate
  <1>7. CASE TimerFires
    BY <1>7, <1>b DEF TimerFires, Running, At, Goto, Hearing, AfterGate, Terminal, TypeOK, RunStates, signals
  <1>8. CASE governDecision \/ executionPrepare
    BY <1>8, <1>b, <1>p
    DEF governDecision, executionPrepare, AfterGate, Terminal, Steps, Handlers
  <1>9. CASE governExpired \/ terminalHandler
    BY <1>9, <1>b, <1>p DEF governExpired, terminalHandler, AfterGate, Terminal, Steps
  <1>10. CASE Crash \/ CrashInHandler
    BY <1>10, <1>b DEF Crash, CrashInHandler, Die, Fresh, NoSignal
  <1>11. CASE Restart
    <2>1. mem'.heard = disk.heard /\ disk'.heard = disk.heard /\ UNCHANGED inbox
      BY <1>11 DEF Restart, TypeOK, RunStates
    <2> QED
      BY <1>11, <2>1 DEF Restart, Hearing, HearsFirst
  <1>12. CASE Sweep \/ Tick
    BY <1>12, <1>b DEF Sweep, Tick, Hearing, host, signals
  <1>13. ASSUME NEW a \in Attempts, revokeInstruction(a) PROVE Hearing'
    BY <1>13, <1>b DEF revokeInstruction, Hearing, host, signals
  <1>14. ASSUME NEW a \in Attempts, NEW v \in Verbs, decideRecommendation(a, v) PROVE Hearing'
    BY <1>14, <1>b DEF decideRecommendation, Hearing, host
  <1>15. CASE UNCHANGED vars
    BY <1>15, <1>b DEF vars, Hearing, host, signals
  <1> QED
    BY <1>1, <1>2, <1>3, <1>4, <1>5, <1>6, <1>7, <1>8, <1>9, <1>10, <1>11, <1>12,
       <1>13, <1>14, <1>15 DEF Next, HostStep
-----------------------------------------------------------------------------
(* The signed chain.                                                       *)

SignedRows ==
  \A a \in Attempts :
    /\ approval[a] # "none" => /\ a \in drafted /\ verdict[a] = "cleared"
                               /\ inbox # <<>>
                               /\ inbox[1] = [rec |-> a, verb |-> "approve"]
    /\ instr[a] # "none" => approval[a] # "none"

(* The inductive invariant: SignedChain alone does not say that the signal *)
(* a decision acts on is the inbox's first, nor that a resumed run hears   *)
(* the same one again.                                                     *)
ChainInv == TypeOK /\ Heard /\ Hearing /\ SignedRows

LEMMA ChainInit == Init => ChainInv
  BY TypeInit
  DEF Init, ChainInv, Fresh, Heard, HeardAfterGate, Hearing, HearsFirst, SignedRows,
      AfterGate, Terminal

LEMMA ChainNext == ChainInv /\ [Next]_vars => ChainInv'
  <1> SUFFICES ASSUME ChainInv, [Next]_vars PROVE ChainInv'
    OBVIOUS
  <1>1. TypeOK' /\ Heard' /\ Hearing'
    BY TypeNext, HearingNext DEF ChainInv
  <1>2. RowsGrow /\ RowsJustified
    BY RowSteps DEF ChainInv
  <1>3. ASSUME NEW a \in Attempts, approval'[a] # "none"
        PROVE  /\ a \in drafted' /\ verdict'[a] = "cleared"
               /\ inbox' # <<>>
               /\ inbox'[1] = [rec |-> a, verb |-> "approve"]
    <2>1. /\ a \in drafted /\ verdict[a] = "cleared"
          /\ inbox # <<>> /\ inbox[1] = [rec |-> a, verb |-> "approve"]
      <3>1. CASE approval'[a] = approval[a]
        BY <1>3, <3>1 DEF ChainInv, SignedRows
      <3>2. CASE approval'[a] # approval[a]
        <4>1. /\ mem.heard = [rec |-> a, verb |-> "approve"]
              /\ a \in drafted /\ verdict[a] = "cleared"
          BY <1>2, <3>2 DEF RowsJustified
        <4>2. mem.heard # NoSignal
          BY <4>1 DEF NoSignal
        <4> QED
          BY <4>1, <4>2 DEF ChainInv, Hearing, HearsFirst
      <3> QED
        BY <3>1, <3>2
    <2> QED
      BY <1>2, <2>1 DEF RowsGrow
  <1>4. ASSUME NEW a \in Attempts, instr'[a] # "none"
        PROVE  approval'[a] # "none"
    <2>1. approval[a] # "none"
      BY <1>2, <1>4 DEF RowsJustified, ChainInv, SignedRows
    <2> QED
      BY <1>2, <2>1 DEF RowsJustified
  <1> QED
    BY <1>1, <1>3, <1>4 DEF ChainInv, SignedRows

(* Every instruction stands on the whole chain, whatever crashes, replays  *)
(* and races the run met.                                                  *)
THEOREM InstructionsAreSigned == Spec => []SignedChain
  <1>1. Init => ChainInv
    BY ChainInit
  <1>2. ChainInv /\ [Next]_vars => ChainInv'
    BY ChainNext
  <1>3. ChainInv => SignedChain
    BY DEF ChainInv, SignedRows, SignedChain, TypeOK
  <1> QED
    BY <1>1, <1>2, <1>3, PTL DEF Spec

-----------------------------------------------------------------------------
(* What one step writes, told over the rows alone: the eight things a step *)
(* of the run, a death inside a handler or the operator can do to them.    *)

NothingWritten == UNCHANGED <<drafted, verdict, approval, instr, decided, lapsed>>

DraftWritten ==
  /\ Running("intake")
  /\ drafted' = drafted \cup {mem.attempt}
  /\ UNCHANGED <<verdict, approval, instr, decided, lapsed>>

VerdictWritten ==
  /\ Running("audit")
  /\ effects.intake[mem.attempt] = "drafted"
  /\ \E v \in {"cleared", "blocked"} : RecordVerdict(mem.attempt, v)

ApprovalWritten ==
  /\ Running("decide")
  /\ HasCleared(mem.heard.rec)
  /\ mem.heard.verb = "approve"
  /\ SignApproval(mem.heard.rec)
  /\ EmitDecided(mem.heard) \/ UNCHANGED decided
  /\ UNCHANGED <<drafted, verdict, instr, lapsed>>

RejectionWritten ==
  /\ Running("decide")
  /\ HasCleared(mem.heard.rec)
  /\ mem.heard.verb = "reject"
  /\ EmitDecided(mem.heard)
  /\ UNCHANGED <<drafted, verdict, approval, instr, lapsed>>

InstructionWritten ==
  /\ Running("prepare")
  /\ approval[mem.heard.rec] # "none"
  /\ AppendInstruction(mem.heard.rec)
  /\ UNCHANGED <<drafted, verdict, approval, decided, lapsed>>

ExpiryWritten ==
  /\ Running("expired")
  /\ EmitExpired
  /\ UNCHANGED <<drafted, verdict, approval, instr, decided>>

RevocationWritten ==
  /\ \E a \in Attempts : instr[a] = "prepared" /\ instr' = [instr EXCEPT ![a] = "revoked"]
  /\ UNCHANGED <<drafted, verdict, approval, decided, lapsed>>

Written == \/ NothingWritten \/ DraftWritten \/ VerdictWritten \/ ApprovalWritten
           \/ RejectionWritten \/ InstructionWritten \/ ExpiryWritten
           \/ RevocationWritten

LEMMA StepWrites == [Next]_vars => Written
  <1> SUFFICES ASSUME [Next]_vars PROVE Written
    OBVIOUS
  <1> USE DEF Written
  <1>1. CASE \/ Begin \/ Flush \/ marketDrift \/ propose \/ governSettle \/ Park \/ Receive
             \/ TimerFires \/ terminalHandler \/ Restart \/ Sweep \/ Crash \/ Tick
             \/ UNCHANGED vars
    BY <1>1
    DEF Begin, Flush, marketDrift, propose, governSettle, Park, Receive, TimerFires, Tick,
        terminalHandler, Restart, Sweep, Crash, Die, vars, ledger, NothingWritten
  <1>2. CASE auditIntake
    BY <1>2 DEF auditIntake, RecordDraft, ledger, NothingWritten, DraftWritten
  <1>3. CASE auditReview
    BY <1>3 DEF auditReview, ledger, NothingWritten, VerdictWritten
  <1>4. CASE governDecision
    BY <1>4 DEF governDecision, ledger, NothingWritten, ApprovalWritten, RejectionWritten
  <1>5. CASE executionPrepare
    BY <1>5 DEF executionPrepare, NothingWritten, InstructionWritten
  <1>6. CASE governExpired
    BY <1>6 DEF governExpired, ExpiryWritten
  <1>7. CASE CrashInHandler
    <2>1. mem.began /\ up
      BY <1>7 DEF CrashInHandler, Die
    <2> QED
      BY <1>7, <2>1
      DEF CrashInHandler, Running, At, RecordDraft, DraftWritten, VerdictWritten,
          ApprovalWritten, RejectionWritten, InstructionWritten, ExpiryWritten
  <1>8. ASSUME NEW a \in Attempts, revokeInstruction(a) PROVE Written
    BY <1>8 DEF revokeInstruction, RevocationWritten
  <1>9. ASSUME NEW a \in Attempts, NEW v \in Verbs, decideRecommendation(a, v)
        PROVE  Written
    BY <1>9 DEF decideRecommendation, ledger, NothingWritten
  <1> QED
    BY <1>1, <1>2, <1>3, <1>4, <1>5, <1>6, <1>7, <1>8, <1>9 DEF Next, HostStep

(* What one step records in the effect ledger: an output is recorded once, *)
(* with the row it stands for.                                             *)
OutputsRecorded ==
  /\ \A a \in Attempts :
       effects'.intake[a] = "drafted" => effects.intake[a] = "drafted" \/ a \in drafted'
  /\ effects'.decision = effects.decision \/ effects.decision = "none"
  /\ effects'.decision = "rejected" /\ effects.decision # "rejected" =>
       /\ mem.heard.verb = "reject"
       /\ Running("decide") /\ HasCleared(mem.heard.rec) /\ EmitDecided(mem.heard)

LEMMA StepRecords == TypeOK /\ [Next]_vars => OutputsRecorded
  <1> SUFFICES ASSUME TypeOK, [Next]_vars PROVE OutputsRecorded
    OBVIOUS
  <1>a. UNCHANGED effects => OutputsRecorded
    BY DEF OutputsRecorded
  <1>b. mem.attempt \in Attempts
    BY DEF TypeOK, RunStates
  <1>1. CASE marketDrift
    BY <1>1 DEF marketDrift, OutputsRecorded, TypeOK, EffectStates
  <1>2. CASE auditIntake
    BY <1>2, <1>a, <1>b DEF auditIntake, RecordDraft, OutputsRecorded, TypeOK, EffectStates
  <1>3. CASE auditReview
    BY <1>3, <1>a, <1>b DEF auditReview, OutputsRecorded, TypeOK, EffectStates
  <1>4. CASE governDecision
    BY <1>4, <1>a DEF governDecision, OutputsRecorded, TypeOK, EffectStates
  <1>5. ~(marketDrift \/ auditIntake \/ auditReview \/ governDecision) => UNCHANGED effects
    BY DEF Next, HostStep, Begin, Flush, propose, governSettle, Park, Receive, TimerFires,
           executionPrepare, governExpired, terminalHandler, Restart, Sweep, Tick, Crash,
           CrashInHandler, Die, revokeInstruction, decideRecommendation, vars
  <1> QED
    BY <1>1, <1>2, <1>3, <1>4, <1>5, <1>a

-----------------------------------------------------------------------------
(* Custody of a run.  Its inductive invariant says where a run that wrote  *)
(* a row can be, in memory and in its durable log.                         *)

Asked == {"approve"} \cup AfterGate

Decision == decided # {} \/ \E a \in Attempts : approval[a] # "none"

Rejected(r) == HasCleared(r) /\ [rec |-> r, verb |-> "reject"] \in decided

(* A verdict stands on a draft, the event tells the first signal, and a    *)
(* recorded rejection has its event.                                       *)
RowsBacked ==
  /\ \A a \in Attempts :
       effects.intake[a] = "drafted" \/ verdict[a] # "none" => a \in drafted
  /\ \A s \in decided : inbox # <<>> /\ s = inbox[1] /\ HasCleared(s.rec)
  /\ effects.decision = "rejected" => \E r \in Attempts : Rejected(r)

(* How far the durable log may lag behind the memory of the host.          *)
Tracked ==
  /\ disk.at \notin {"intake", "audit"}
  /\ up /\ mem.at \in {"intake", "audit"} => child[mem.attempt] = "none"
  /\ Running("approve") => disk = mem
  /\ up /\ mem.at \in {"decide", "prepare", "rejected"} =>
       disk.at \in {"approve", "decide", "prepare", "rejected"}
  /\ up /\ mem.at = "expired" => disk.at = "expired"
  /\ mem.at = "rejected" \/ disk.at = "rejected" => effects.decision = "rejected"

(* Once a decision left a row, the run never gets past its gate without    *)
(* the signal that made it: a resumed host swept the inbox before it       *)
(* parked again.                                                           *)
DecisionKept ==
  Decision => /\ disk.at \in Asked
              /\ up => mem.at \in Asked
              /\ up /\ mem.at = "approve" => swept > 0

(* Once the window lapsed, the run only ends.                              *)
LapseKept ==
  lapsed # {} => /\ ~Decision
                 /\ disk.at \in {"expired"} \cup Terminal
                 /\ up => mem.at \in {"expired"} \cup Terminal

Subject(s) ==
  s.at = "approve" => \/ \E a \in Attempts : HasCleared(a)
                      \/ \E a \in Attempts : child[a] = "failed"

(* While no host died, the one cleared draft is the loop's last, and the   *)
(* run goes from it to its gate and to an end that takes it off the queue. *)
Unbroken ==
  crashes = 0 =>
    /\ up
    /\ mem.at = "expired" => lapsed = {}
    /\ \A a \in Attempts : verdict[a] = "cleared" =>
         /\ a = mem.attempt
         /\ mem.at \in {"settle", "expired"} \cup Asked
         /\ mem.at = "completed" =>
              a \in UNION lapsed \/ Rejected(a) \/ approval[a] # "none"

CustodyInv == /\ ChainInv
              /\ RowsBacked /\ Tracked /\ DecisionKept /\ LapseKept
              /\ Subject(mem) /\ Subject(disk)
              /\ Unbroken

LEMMA CustodyInit == Init => CustodyInv
  BY ChainInit
  DEF CustodyInv, Init, Fresh, RowsBacked, Tracked, Running, At, DecisionKept, LapseKept,
      Decision, Subject, Unbroken, Asked, AfterGate

(* A cleared draft stays one, and the signal in hand is the inbox's first. *)
LEMMA HeardFirst ==
  ASSUME ChainInv, Running("decide") \/ Running("prepare")
  PROVE  /\ mem.heard \in Signals /\ mem.heard.rec \in Attempts
         /\ inbox # <<>> /\ mem.heard = inbox[1]
  BY SignalsNotNone
  DEF ChainInv, Running, At, Heard, HeardAfterGate, Hearing, HearsFirst, TypeOK, RunStates, Signals

LEMMA RowsBackedNext == CustodyInv /\ [Next]_vars => RowsBacked'
  <1> SUFFICES ASSUME CustodyInv, [Next]_vars PROVE RowsBacked'
    OBVIOUS
  <1> USE DEF CustodyInv
  <1>a. TypeOK /\ RowsBacked /\ ChainInv
    BY DEF ChainInv
  <1>b. Written /\ OutputsRecorded /\ RowsGrow
    BY <1>a, StepWrites, StepRecords, RowSteps DEF ChainInv
  <1>c. \A r : HasCleared(r) /\ r \in Attempts => HasCleared(r)'
    BY <1>b DEF RowsGrow, HasCleared
  <1>d. mem.attempt \in Attempts
    BY <1>a DEF TypeOK, RunStates
  <1>1. ASSUME NEW a \in Attempts, effects'.intake[a] = "drafted" \/ verdict'[a] # "none"
        PROVE  a \in drafted'
    <2>1. CASE effects'.intake[a] = "drafted"
      BY <1>a, <1>b, <2>1 DEF OutputsRecorded, RowsBacked, RowsGrow
    <2>2. CASE verdict'[a] # "none"
      <3>1. verdict[a] # "none" \/ (a = mem.attempt /\ effects.intake[mem.attempt] = "drafted")
        BY <1>a, <1>b, <1>d, <2>2
        DEF Written, NothingWritten, DraftWritten, VerdictWritten, RecordVerdict, ApprovalWritten,
            RejectionWritten, InstructionWritten, ExpiryWritten, RevocationWritten, TypeOK
      <3> QED
        BY <1>a, <1>b, <3>1 DEF RowsBacked, RowsGrow
    <2> QED
      BY <1>1, <2>1, <2>2
  <1>2. ASSUME NEW s \in decided'
        PROVE  inbox' # <<>> /\ s = inbox'[1] /\ HasCleared(s.rec)'
    <2>1. s \in decided \/ (Running("decide") /\ s = mem.heard /\ HasCleared(mem.heard.rec))
      BY <1>b, <1>2
      DEF Written, NothingWritten, DraftWritten, VerdictWritten, RecordVerdict, ApprovalWritten,
          RejectionWritten, InstructionWritten, ExpiryWritten, RevocationWritten, EmitDecided
    <2>2. inbox # <<>> /\ s = inbox[1] /\ HasCleared(s.rec) /\ s.rec \in Attempts
      <3>1. CASE s \in decided
        BY <1>a, <3>1 DEF RowsBacked, TypeOK, Signals
      <3>2. CASE Running("decide") /\ s = mem.heard /\ HasCleared(mem.heard.rec)
        BY <3>2, <1>a, HeardFirst
      <3> QED
        BY <2>1, <3>1, <3>2
    <2> QED
      BY <1>b, <1>c, <2>2 DEF RowsGrow
  <1>3. ASSUME effects'.decision = "rejected"
        PROVE  \E r \in Attempts : Rejected(r)'
    <2>1. CASE effects.decision = "rejected"
      <3>1. PICK r \in Attempts : Rejected(r)
        BY <1>a, <2>1 DEF RowsBacked
      <3>2. decided \subseteq decided'
        BY <1>b
        DEF Written, NothingWritten, DraftWritten, VerdictWritten, RecordVerdict, ApprovalWritten,
            RejectionWritten, InstructionWritten, ExpiryWritten, RevocationWritten, EmitDecided
      <3>3. Rejected(r)'
        BY <1>c, <3>1, <3>2 DEF Rejected
      <3> QED
        BY <3>3
    <2>2. CASE effects.decision # "rejected"
      <3>1. /\ mem.heard.verb = "reject" /\ Running("decide")
            /\ HasCleared(mem.heard.rec) /\ EmitDecided(mem.heard)
        BY <1>3, <1>b, <2>2 DEF OutputsRecorded
      <3>2. mem.heard \in Signals /\ mem.heard.rec \in Attempts /\ mem.heard = inbox[1]
        BY <3>1, <1>a, HeardFirst
      <3>3. mem.heard \in decided'
        BY <3>1, <3>2, <1>a DEF EmitDecided, RowsBacked
      <3>4. PICK r \in Attempts : r = mem.heard.rec
        BY <3>2
      <3>5. mem.heard = [rec |-> r, verb |-> "reject"]
        BY <3>1, <3>2, <3>4 DEF Signals
      <3>6. Rejected(r)'
        BY <1>c, <3>1, <3>3, <3>4, <3>5 DEF Rejected
      <3> QED
        BY <3>6
    <2> QED
      BY <2>1, <2>2
  <1> QED
    BY <1>1, <1>2, <1>3 DEF RowsBacked

(* An iteration goes round again, or leaves the loop for one of four steps. *)
LEMMA IterationMoves ==
  ASSUME TypeOK, NEW o, EndIteration(o)
  PROVE  /\ child' = [child EXCEPT ![mem.attempt] = o]
         /\ \/ /\ o = "blocked"
               /\ mem'.at = "propose" /\ ~mem'.began /\ UNCHANGED <<disk, up>>
            \/ \E s \in {"settle", "exhausted", "approve", "failed"} :
                 /\ Proceed(s)
                 /\ o \in {"cleared", "declined"} => s = "settle"
                 /\ s = "approve" => o \notin {"cleared", "declined", "blocked"}
  <1>1. PICK s \in AfterIteration(o) :
          IF s = "propose"
          THEN /\ mem' = [Goto(s) EXCEPT !.attempt = @ + 1]
               /\ UNCHANGED <<disk, up>>
          ELSE Proceed(s)
    BY DEF EndIteration
  <1>2. CASE s = "propose"
    BY <1>1, <1>2 DEF AfterIteration, EndIteration, Goto, TypeOK, RunStates
  <1>3. CASE s # "propose"
    <2>1. /\ s \in {"settle", "exhausted", "approve", "failed"} /\ Proceed(s)
          /\ o \in {"cleared", "declined"} => s = "settle"
          /\ s = "approve" => o \notin {"cleared", "declined", "blocked"}
      BY <1>1, <1>3 DEF AfterIteration
    <2> QED
      BY <2>1 DEF EndIteration
  <1> QED
    BY <1>2, <1>3

LEMMA ProceedMoves ==
  ASSUME TypeOK, NEW s \in Steps, Proceed(s)
  PROVE  /\ mem'.at = s /\ ~mem'.began /\ UNCHANGED up
         /\ mem'.attempt = mem.attempt /\ mem'.heard = mem.heard
         /\ disk' = IF s \in Terminal THEN mem' ELSE disk
  BY DEF Proceed, Goto, TypeOK, RunStates

LEMMA TrackedNext == CustodyInv /\ [Next]_vars => Tracked'
  <1> SUFFICES ASSUME CustodyInv, [Next]_vars PROVE Tracked'
    OBVIOUS
  <1>a. TypeOK /\ Tracked /\ Hearing /\ Heard
    BY DEF CustodyInv, ChainInv
  <1>b. OutputsRecorded
    BY <1>a, StepRecords
  <1>d. mem.attempt \in Attempts
    BY <1>a DEF TypeOK, RunStates
  <1>s. {"settle", "exhausted", "approve", "failed", "propose", "nothing", "intake", "audit",
         "declined", "prepare", "rejected", "completed", "decide", "expired"} \subseteq Steps
    BY DEF Steps, Handlers, Terminal
  <1> USE DEF Running, At
  <1>1. CASE Begin
    BY <1>1, <1>a DEF Begin, Tracked, TypeOK, RunStates, Handlers
  <1>2. CASE Flush
    BY <1>2, <1>a DEF Flush, Flushed, Tracked, TypeOK, RunStates, Body
  <1>3. CASE marketDrift
    <2>1. PICK s \in {"propose", "nothing"} : Proceed(s)
      BY <1>3 DEF marketDrift
    <2> QED
      BY <1>3, <2>1, <1>a, <1>b, <1>s, ProceedMoves DEF marketDrift, Tracked, Terminal, OutputsRecorded
  <1>4. CASE \E o : EndIteration(o) /\ mem.at \in Body
    <2>1. PICK o : EndIteration(o)
      BY <1>4
    <2> QED
      BY <1>4, <2>1, <1>a, <1>b, <1>s, IterationMoves, ProceedMoves
      DEF Tracked, Terminal, Body, OutputsRecorded
  <1>5. CASE propose
    <2>1. CASE child[mem.attempt] = "none" /\ Proceed("intake") /\ UNCHANGED child
      BY <1>5, <2>1, <1>a, <1>s, ProceedMoves DEF propose, Tracked, Terminal
    <2> QED
      BY <1>5, <2>1, <1>4 DEF propose, Body
  <1>6. CASE auditIntake
    <2>1. CASE Proceed("audit") /\ UNCHANGED child
      BY <1>6, <2>1, <1>a, <1>b, <1>s, ProceedMoves DEF auditIntake, Tracked, Terminal, OutputsRecorded
    <2> QED
      BY <1>6, <2>1, <1>4 DEF auditIntake, Body
  <1>7. CASE auditReview
    BY <1>7, <1>4 DEF auditReview, Body
  <1>8. CASE governSettle
    <2>1. PICK s \in {"approve", "declined"} : Proceed(s)
      BY <1>8 DEF governSettle
    <2> QED
      BY <1>8, <2>1, <1>a, <1>s, ProceedMoves DEF governSettle, Tracked, Terminal
  <1>9. CASE Park
    BY <1>9, <1>a DEF Park, Tracked, TypeOK, RunStates
  <1>10. CASE Receive
    BY <1>10, <1>a DEF Receive, Tracked, TypeOK, RunStates
  <1>11. CASE TimerFires
    BY <1>11, <1>a DEF TimerFires, Goto, Tracked, TypeOK, RunStates
  <1>12. CASE governDecision
    <2>1. PICK s \in {"prepare", "rejected", "failed"} :
            Proceed(s) /\ (s = "rejected" => effects'.decision = "rejected")
      <3>1. CASE effects.decision # "none" /\ UNCHANGED effects
              /\ Proceed(IF effects.decision = "approved" THEN "prepare" ELSE "rejected")
        BY <3>1, <1>a DEF TypeOK, EffectStates
      <3>2. CASE Proceed("rejected") /\ effects' = [effects EXCEPT !.decision = "rejected"]
        BY <3>2, <1>a DEF TypeOK, EffectStates
      <3> QED
        BY <1>12, <3>1, <3>2 DEF governDecision
    <2> QED
      BY <1>12, <2>1, <1>a, <1>b, <1>s, ProceedMoves
      DEF governDecision, Tracked, Terminal, OutputsRecorded
  <1>13. CASE executionPrepare \/ governExpired \/ terminalHandler
    <2>1. PICK s \in Terminal : Proceed(s)
      BY <1>13 DEF executionPrepare, governExpired, terminalHandler, Terminal
    <2> QED
      BY <1>13, <2>1, <1>a, ProceedMoves
      DEF executionPrepare, governExpired, terminalHandler, Tracked, Terminal, Steps
  <1>14. CASE Crash \/ CrashInHandler
    BY <1>14, <1>a DEF Crash, CrashInHandler, Die, Fresh, Tracked
  <1>15. CASE Restart
    BY <1>15, <1>a DEF Restart, Tracked, TypeOK, RunStates, Handlers
  <1>16. CASE \/ Sweep \/ Tick \/ UNCHANGED vars
              \/ \E a \in Attempts : revokeInstruction(a)
              \/ \E a \in Attempts, v \in Verbs : decideRecommendation(a, v)
    <2>1. UNCHANGED <<mem, disk, up, child, effects>>
      BY <1>16 DEF Sweep, Tick, revokeInstruction, decideRecommendation, host, vars
    <2> QED
      BY <2>1, <1>a DEF Tracked
  <1> QED
    BY <1>1, <1>2, <1>3, <1>5, <1>6, <1>7, <1>8, <1>9, <1>10, <1>11, <1>12, <1>13, <1>14,
       <1>15, <1>16 DEF Next, HostStep

(* A decision or an expiry enters the rows in its own step and no other.   *)
LEMMA DecisionSteps ==
  ASSUME CustodyInv, [Next]_vars
  PROVE  /\ Decision' => Decision \/ Running("decide")
         /\ lapsed' # {} => lapsed # {} \/ Running("expired")
         /\ Decision \/ Running("decide") => inbox # <<>>
  <1>1. TypeOK /\ ChainInv /\ RowsBacked
    BY DEF CustodyInv, ChainInv
  <1>2. Decision' => Decision \/ Running("decide")
    BY <1>1, StepWrites
    DEF Decision, Written, NothingWritten, DraftWritten, VerdictWritten, RecordVerdict,
        ApprovalWritten, RejectionWritten, InstructionWritten, ExpiryWritten, RevocationWritten
  <1>3. lapsed' # {} => lapsed # {} \/ Running("expired")
    BY StepWrites
    DEF Written, NothingWritten, DraftWritten, VerdictWritten, RecordVerdict,
        ApprovalWritten, RejectionWritten, InstructionWritten, ExpiryWritten, RevocationWritten
  <1>4. Decision \/ Running("decide") => inbox # <<>>
    BY <1>1, HeardFirst DEF Decision, RowsBacked, ChainInv, SignedRows
  <1> QED
    BY <1>2, <1>3, <1>4

LEMMA DecisionKeptNext == CustodyInv /\ [Next]_vars => DecisionKept'
  <1> SUFFICES ASSUME CustodyInv, [Next]_vars, Decision'
               PROVE  /\ disk'.at \in Asked
                      /\ up' => mem'.at \in Asked
                      /\ up' /\ mem'.at = "approve" => swept' > 0
    BY DEF DecisionKept
  <1>a. TypeOK /\ Tracked
    BY DEF CustodyInv, ChainInv
  <1>b. /\ disk.at \in Asked
        /\ up => mem.at \in Asked
        /\ up /\ mem.at = "approve" => swept > 0
    BY <1>a, DecisionSteps DEF CustodyInv, DecisionKept, Tracked, Running, At, Asked, AfterGate
  <1>c. inbox # <<>> /\ Len(inbox) > 0
    <2>1. inbox # <<>> /\ inbox \in Seq(Signals)
      BY <1>a, DecisionSteps DEF TypeOK
    <2> QED
      BY <2>1
  <1>s. Terminal \cup {"prepare", "rejected"} \subseteq Steps
    BY DEF Steps, Handlers
  <1> USE DEF Asked, AfterGate
  <1>1. CASE Begin \/ Flush
    BY <1>1, <1>a, <1>b
    DEF Begin, Flush, Flushed, TypeOK, RunStates, Body, Terminal, signals
  <1>2. CASE marketDrift \/ propose \/ auditIntake \/ auditReview \/ governSettle
    <2>1. up /\ mem.at \in {"drift", "propose", "intake", "audit", "settle"}
      BY <1>2
      DEF marketDrift, propose, auditIntake, auditReview, governSettle, Running, At
    <2> QED
      BY <2>1, <1>b DEF Terminal
  <1>3. CASE Park \/ Receive
    <2>1. CASE Park
      BY <2>1, <1>a, <1>b DEF Park, At, TypeOK, RunStates, signals
    <2>2. CASE Receive
      <3>1. mem'.at = "decide" /\ disk' = disk
        BY <2>2, <1>a DEF Receive, TypeOK, RunStates
      <3> QED
        BY <3>1, <1>b
    <2> QED
      BY <1>3, <2>1, <2>2
  <1>4. CASE TimerFires
    <2>1. swept > 0 /\ taken = swept
      BY <1>4, <1>b DEF TimerFires, Running, At
    <2>2. taken = 0
      BY <1>4 DEF TimerFires, Running, At, CustodyInv, ChainInv, Hearing, Terminal
    <2> QED
      BY <2>1, <2>2
  <1>5. CASE governDecision \/ executionPrepare \/ governExpired \/ terminalHandler
    <2>1. PICK s \in Terminal \cup {"prepare", "rejected"} : Proceed(s)
      BY <1>5 DEF governDecision, executionPrepare, governExpired, terminalHandler, Terminal
    <2> QED
      BY <2>1, <1>a, <1>b, <1>s, ProceedMoves DEF Terminal
  <1>6. CASE Crash \/ CrashInHandler
    BY <1>6, <1>b DEF Crash, CrashInHandler, Die
  <1>7. CASE Restart
    BY <1>7, <1>a, <1>b, <1>c DEF Restart, TypeOK, RunStates, Terminal
  <1>8. CASE \/ Sweep \/ Tick \/ UNCHANGED vars
             \/ \E a \in Attempts : revokeInstruction(a)
             \/ \E a \in Attempts, v \in Verbs : decideRecommendation(a, v)
    <2>1. UNCHANGED <<mem, disk, up>> /\ (swept' = swept \/ swept' = Len(inbox))
      BY <1>8 DEF Sweep, Tick, revokeInstruction, decideRecommendation, host, vars, signals
    <2> QED
      BY <2>1, <1>b, <1>c
  <1> QED
    BY <1>1, <1>2, <1>3, <1>4, <1>5, <1>6, <1>7, <1>8 DEF Next, HostStep

LEMMA LapseKeptNext == CustodyInv /\ [Next]_vars => LapseKept'
  <1> SUFFICES ASSUME CustodyInv, [Next]_vars, lapsed' # {}
               PROVE  /\ ~Decision'
                      /\ disk'.at \in {"expired"} \cup Terminal
                      /\ up' => mem'.at \in {"expired"} \cup Terminal
    BY DEF LapseKept
  <1>a. TypeOK /\ Tracked /\ LapseKept /\ DecisionKept
    BY DEF CustodyInv, ChainInv
  <1>b. /\ ~Decision
        /\ disk.at \in {"expired"} \cup Terminal
        /\ up => mem.at \in {"expired"} \cup Terminal
    <2>1. CASE lapsed # {}
      BY <2>1, <1>a DEF LapseKept
    <2>2. CASE Running("expired")
      BY <2>2, <1>a DEF Running, At, Tracked, DecisionKept, Asked, AfterGate, Terminal
    <2> QED
      BY <2>1, <2>2, DecisionSteps
  <1>c. ~Decision'
    BY <1>b, DecisionSteps DEF Running, At, Terminal
  <1>1. CASE Begin \/ Flush
    BY <1>1, <1>a, <1>b, <1>c DEF Begin, Flush, Flushed, TypeOK, RunStates, Body, Terminal
  <1>2. CASE \/ marketDrift \/ propose \/ auditIntake \/ auditReview \/ governSettle
             \/ Park \/ Receive \/ TimerFires \/ governDecision \/ executionPrepare
    BY <1>2, <1>b
    DEF marketDrift, propose, auditIntake, auditReview, governSettle, Park, Receive,
        TimerFires, governDecision, executionPrepare, Running, At, Terminal
  <1>3. CASE governExpired \/ terminalHandler
    BY <1>3, <1>a, <1>b, <1>c, ProceedMoves
    DEF governExpired, terminalHandler, Terminal, Steps
  <1>4. CASE Crash \/ CrashInHandler
    BY <1>4, <1>b, <1>c DEF Crash, CrashInHandler, Die
  <1>5. CASE Restart
    BY <1>5, <1>a, <1>b, <1>c DEF Restart, TypeOK, RunStates, Terminal
  <1>6. CASE \/ Sweep \/ Tick \/ UNCHANGED vars
             \/ \E a \in Attempts : revokeInstruction(a)
             \/ \E a \in Attempts, v \in Verbs : decideRecommendation(a, v)
    <2>1. UNCHANGED <<mem, disk, up>>
      BY <1>6 DEF Sweep, Tick, revokeInstruction, decideRecommendation, host, vars
    <2> QED
      BY <2>1, <1>b, <1>c
  <1> QED
    BY <1>1, <1>2, <1>3, <1>4, <1>5, <1>6 DEF Next, HostStep

(* A failed iteration stays failed.                                        *)
LEMMA FailedStays ==
  ASSUME CustodyInv, [Next]_vars, NEW a \in Attempts, child[a] = "failed"
  PROVE  child'[a] = "failed"
  <1>a. TypeOK /\ Tracked
    BY DEF CustodyInv, ChainInv
  <1>1. CASE propose \/ auditIntake \/ auditReview
    <2>1. CASE UNCHANGED child
      BY <2>1
    <2>2. CASE \E o : EndIteration(o) /\ (mem.attempt = a => o = "failed")
      BY <2>2, <1>a DEF EndIteration, TypeOK
    <2> QED
      BY <1>1, <1>a, <2>1, <2>2 DEF propose, auditIntake, auditReview, Tracked, Running, At
  <1>2. ~(propose \/ auditIntake \/ auditReview) => UNCHANGED child
    BY DEF Next, HostStep, Begin, Flush, marketDrift, governSettle, Park, Receive, TimerFires,
           governDecision, executionPrepare, governExpired, terminalHandler, Restart, Sweep, Tick,
           Crash, CrashInHandler, Die, revokeInstruction, decideRecommendation, vars
  <1> QED
    BY <1>1, <1>2

LEMMA SubjectsNext == CustodyInv /\ [Next]_vars => Subject(mem)' /\ Subject(disk)'
  <1> SUFFICES ASSUME CustodyInv, [Next]_vars PROVE Subject(mem)' /\ Subject(disk)'
    OBVIOUS
  <1> DEFINE Grounds == \/ \E a \in Attempts : HasCleared(a)
                        \/ \E a \in Attempts : child[a] = "failed"
  <1>a. TypeOK /\ (mem.at = "approve" => Grounds) /\ (disk.at = "approve" => Grounds)
    BY DEF CustodyInv, ChainInv, Subject
  <1>b. RowsGrow
    BY RowSteps DEF CustodyInv, ChainInv
  <1>c. Grounds => Grounds'
    <2>1. ASSUME NEW a \in Attempts, HasCleared(a) PROVE Grounds'
      BY <1>b, <2>1 DEF HasCleared, RowsGrow
    <2>2. ASSUME NEW a \in Attempts, child[a] = "failed" PROVE Grounds'
      BY <2>2, FailedStays
    <2> QED
      BY <2>1, <2>2
  <1>d. SUFFICES mem'.at = "approve" \/ disk'.at = "approve" => Grounds \/ Grounds'
    BY <1>c DEF Subject
  <1>s. {"settle", "exhausted", "approve", "failed"} \subseteq Steps
    BY DEF Steps, Handlers, Terminal
  <1> HIDE DEF Grounds
  <1>1. CASE Begin \/ Flush \/ Park \/ Receive \/ TimerFires
    BY <1>1, <1>a
    DEF Begin, Flush, Flushed, Park, Receive, TimerFires, Goto, At, Running, TypeOK, RunStates, Body
  <1>2. CASE \E s \in Steps \ {"approve"} : Proceed(s)
    BY <1>2, <1>a, ProceedMoves DEF Terminal
  <1>3. ASSUME NEW o \in {"cleared", "blocked", "declined", "failed"}, EndIteration(o)
        PROVE  mem'.at = "approve" \/ disk'.at = "approve" => Grounds \/ Grounds'
    <2>1. CASE mem'.at = "propose" /\ UNCHANGED <<disk, up>>
      BY <2>1, <1>a
    <2>2. ASSUME NEW s \in {"settle", "exhausted", "approve", "failed"}, Proceed(s),
                 s = "approve" => o \notin {"cleared", "declined", "blocked"}
          PROVE  mem'.at = "approve" \/ disk'.at = "approve" => Grounds \/ Grounds'
      <3>1. CASE s # "approve"
        BY <2>2, <3>1, <1>a, <1>s, ProceedMoves DEF Terminal
      <3>2. CASE s = "approve"
        <4>1. mem.attempt \in Attempts /\ child'[mem.attempt] = "failed"
          BY <1>3, <2>2, <3>2, <1>a DEF EndIteration, TypeOK, RunStates
        <4>2. \E a \in Attempts : child'[a] = "failed"
          BY <4>1
        <4> QED
          BY <4>2 DEF Grounds
      <3> QED
        BY <3>1, <3>2
    <2> QED
      BY <1>3, <1>a, <2>1, <2>2, IterationMoves
  <1>4. CASE propose \/ auditIntake \/ auditReview
    <2>1. mem.attempt \in Attempts
      BY <1>a DEF TypeOK, RunStates
    <2>2. \/ Proceed("intake") \/ Proceed("audit") \/ EndIteration("failed")
          \/ EndIteration("declined")
          \/ child[mem.attempt] # "none" /\ EndIteration(child[mem.attempt])
          \/ \E v \in {"cleared", "blocked"} : EndIteration(v)
          \/ effects.review[mem.attempt] # "none" /\ EndIteration(effects.review[mem.attempt])
      BY <1>4 DEF propose, auditIntake, auditReview
    <2>3. \/ \E s \in Steps \ {"approve"} : Proceed(s)
          \/ \E o \in {"cleared", "blocked", "declined", "failed"} : EndIteration(o)
      <3>1. {"intake", "audit"} \subseteq Steps \ {"approve"}
        BY DEF Steps, Handlers
      <3>2. child[mem.attempt] \in {"none", "cleared", "blocked", "declined", "failed"}
        BY <2>1, <1>a DEF TypeOK
      <3>3. effects.review[mem.attempt] \in {"none", "cleared", "blocked"}
        BY <2>1, <1>a DEF TypeOK, EffectStates
      <3> QED
        BY <2>2, <3>1, <3>2, <3>3
    <2> QED
      BY <2>3, <1>2, <1>3
  <1>5. CASE governSettle
    <2>1. CASE Proceed("declined")
      BY <2>1, <1>2 DEF Steps, Handlers
    <2>2. CASE \E a \in Attempts : HasCleared(a)
      BY <2>2 DEF Grounds
    <2> QED
      BY <1>5, <2>1, <2>2 DEF governSettle
  <1>6. CASE marketDrift \/ governDecision \/ executionPrepare \/ governExpired \/ terminalHandler
    <2>1. \E s \in Steps \ {"approve"} : Proceed(s)
      BY <1>6
      DEF marketDrift, governDecision, executionPrepare, governExpired, terminalHandler,
          Steps, Handlers, Terminal
    <2> QED
      BY <2>1, <1>2
  <1>7. CASE Crash \/ CrashInHandler
    BY <1>7, <1>a DEF Crash, CrashInHandler, Die, Fresh
  <1>8. CASE Restart
    BY <1>8, <1>a DEF Restart, TypeOK, RunStates
  <1>9. CASE \/ Sweep \/ Tick \/ UNCHANGED vars
             \/ \E a \in Attempts : revokeInstruction(a)
             \/ \E a \in Attempts, v \in Verbs : decideRecommendation(a, v)
    <2>1. UNCHANGED <<mem, disk, up>>
      BY <1>9 DEF Sweep, Tick, revokeInstruction, decideRecommendation, host, vars
    <2> QED
      BY <2>1, <1>a
  <1> QED
    BY <1>1, <1>4, <1>5, <1>6, <1>7, <1>8, <1>9 DEF Next, HostStep

(* Only the audit step clears a draft, and it clears the loop's current    *)
(* one.                                                                    *)
LEMMA ClearedSteps ==
  ASSUME CustodyInv, [Next]_vars, NEW a \in Attempts, verdict'[a] = "cleared"
  PROVE  verdict[a] = "cleared" \/ (Running("audit") /\ a = mem.attempt)
  <1>1. TypeOK /\ mem.attempt \in Attempts
    BY DEF CustodyInv, ChainInv, TypeOK, RunStates
  <1> QED
    BY <1>1, StepWrites
    DEF Written, NothingWritten, DraftWritten, VerdictWritten, RecordVerdict, ApprovalWritten,
        RejectionWritten, InstructionWritten, ExpiryWritten, RevocationWritten, TypeOK

LEMMA UnbrokenNext == CustodyInv /\ [Next]_vars => Unbroken'
  <1> SUFFICES ASSUME CustodyInv, [Next]_vars, crashes' = 0 PROVE Unbroken'
    BY DEF Unbroken
  <1> DEFINE Done(a) == a \in UNION lapsed \/ Rejected(a) \/ approval[a] # "none"
             Good(a) == /\ a = mem.attempt
                        /\ mem.at \in {"settle", "expired"} \cup Asked
                        /\ mem.at = "completed" => Done(a)
  <1>a. TypeOK /\ Tracked /\ LapseKept /\ RowsBacked /\ ChainInv
    BY DEF CustodyInv, ChainInv
  <1>b. crashes = 0 /\ ~Crash /\ ~CrashInHandler
    <2>1. ~Die
      BY <1>a DEF Die, TypeOK
    <2>2. ~Crash /\ ~CrashInHandler
      BY <2>1 DEF Crash, CrashInHandler
    <2>3. UNCHANGED crashes
      BY <2>2
      DEF Next, HostStep, Begin, Flush, marketDrift, propose, auditIntake, auditReview,
          governSettle, Park, Receive, TimerFires, governDecision, executionPrepare,
          governExpired, terminalHandler, Restart, Sweep, Tick, revokeInstruction,
          decideRecommendation, vars
    <2> QED
      BY <2>2, <2>3
  <1>c. /\ up
        /\ mem.at = "expired" => lapsed = {}
        /\ \A a \in Attempts : verdict[a] = "cleared" => Good(a)
    BY <1>b DEF CustodyInv, Unbroken
  <1>g. SUFFICES /\ up'
                 /\ mem'.at = "expired" => lapsed' = {}
                 /\ \A a \in Attempts : verdict'[a] = "cleared" => Good(a)'
    BY DEF Unbroken
  <1>s. Steps = Handlers \cup {"propose", "approve"} \cup Terminal
    BY DEF Steps
  <1>m. mem.attempt \in Attempts
    BY <1>a DEF TypeOK, RunStates
  <1> HIDE DEF Done
  <1> USE DEF Asked, AfterGate
  <1>1. CASE /\ UNCHANGED <<mem, up, drafted, verdict, approval, decided, lapsed>>
    BY <1>1, <1>c DEF Done, Rejected, HasCleared
  <1>2. CASE Begin
    BY <1>2, <1>a, <1>c DEF Begin, TypeOK, RunStates, Handlers, Terminal, ledger, Done, Rejected, HasCleared
  <1>3. ASSUME mem.at \in Body \cup {"drift"}, up' = up,
               mem'.at # "expired", ~Running("audit")
        PROVE  <1>g!1
    <2>1. \A a \in Attempts : verdict[a] # "cleared"
      BY <1>3, <1>c DEF Body, Terminal
    <2> QED
      BY <1>3, <1>c, <2>1, ClearedSteps
  <1>4. CASE marketDrift \/ propose \/ auditIntake
    <2>1. mem.at \in Body \cup {"drift"} /\ ~Running("audit")
      BY <1>4 DEF marketDrift, propose, auditIntake, Running, At, Body
    <2>2. \/ \E s \in {"propose", "nothing", "intake", "audit"} : Proceed(s)
          \/ \E o : EndIteration(o)
      BY <1>4 DEF marketDrift, propose, auditIntake
    <2>3. up' = up /\ mem'.at # "expired"
      <3>1. CASE \E s \in {"propose", "nothing", "intake", "audit"} : Proceed(s)
        BY <3>1, <1>a, <1>s, ProceedMoves DEF Handlers
      <3>2. CASE \E o : EndIteration(o)
        BY <3>2, <1>a, <1>s, IterationMoves, ProceedMoves DEF Handlers, Terminal
      <3> QED
        BY <2>2, <3>1, <3>2
    <2> QED
      BY <1>3, <2>1, <2>3
  <1>5. CASE auditReview
    <2>1. \A a \in Attempts : verdict[a] # "cleared"
      BY <1>5, <1>c DEF auditReview, Running, At, Terminal
    <2>2. PICK o : EndIteration(o) /\ (verdict' # verdict => verdict'[mem.attempt] = o)
      BY <1>5, <1>a, <1>m DEF auditReview, RecordVerdict, ledger, TypeOK
    <2>3. \A a \in Attempts : verdict'[a] = "cleared" => a = mem.attempt /\ o = "cleared"
      BY <2>1, <2>2, ClearedSteps
    <2>4. up' /\ mem'.at # "expired"
      BY <2>2, <1>a, <1>c, <1>s, IterationMoves, ProceedMoves DEF Handlers, Terminal
    <2>5. o = "cleared" => mem'.at = "settle" /\ mem'.attempt = mem.attempt
      BY <2>2, <1>a, <1>s, IterationMoves, ProceedMoves DEF Handlers
    <2> QED
      BY <2>3, <2>4, <2>5
  <1>6. CASE governSettle
    <2>1. UNCHANGED verdict
      BY <1>6 DEF governSettle, ledger
    <2>2. ASSUME NEW a \in Attempts, verdict[a] = "cleared" PROVE Proceed("approve")
      BY <1>6, <2>2, <1>a DEF governSettle, RowsBacked, HasCleared
    <2>3. \E s \in {"approve", "declined"} : Proceed(s)
      BY <1>6 DEF governSettle
    <2>4. up' /\ mem'.at \in {"approve", "declined"} /\ mem'.attempt = mem.attempt
      BY <2>3, <1>a, <1>c, <1>s, ProceedMoves DEF Handlers
    <2>5. Proceed("approve") => mem'.at = "approve"
      BY <1>a, <1>s, ProceedMoves
    <2> QED
      BY <1>c, <2>1, <2>2, <2>4, <2>5
  <1>7. CASE Park \/ Receive
    <2>1. /\ mem'.at \in {"approve", "decide"} /\ mem'.attempt = mem.attempt
          /\ UNCHANGED <<up, verdict>>
      BY <1>7, <1>a DEF Park, Receive, At, Running, TypeOK, RunStates, ledger
    <2> QED
      BY <2>1, <1>c
  <1>8. CASE TimerFires
    <2>1. mem'.at = "expired" /\ mem'.attempt = mem.attempt /\ UNCHANGED <<up, verdict, lapsed>>
      BY <1>8, <1>a DEF TimerFires, Goto, TypeOK, RunStates, ledger
    <2>2. lapsed = {}
      BY <1>8, <1>a DEF TimerFires, LapseKept, Running, At, Terminal
    <2> QED
      BY <2>1, <2>2, <1>c
  <1>9. CASE governDecision
    <2>1. UNCHANGED verdict /\ \E s \in {"prepare", "rejected", "failed"} : Proceed(s)
      BY <1>9 DEF governDecision, ledger
    <2>2. up' /\ mem'.at \in {"prepare", "rejected", "failed"} /\ mem'.attempt = mem.attempt
      BY <2>1, <1>a, <1>c, <1>s, ProceedMoves DEF Handlers, Terminal
    <2> QED
      BY <2>1, <2>2, <1>c DEF Terminal
  <1>10. CASE executionPrepare
    <2>1. UNCHANGED <<verdict, approval>> /\ \E s \in Terminal : Proceed(s)
      BY <1>10 DEF executionPrepare, Terminal
    <2>2. up' /\ mem'.at \in Terminal /\ mem'.attempt = mem.attempt
      BY <2>1, <1>a, <1>c, <1>s, ProceedMoves
    <2>3. ASSUME NEW a \in Attempts, verdict[a] = "cleared", mem'.at = "completed"
          PROVE  approval[a] # "none"
      <3>1. approval[mem.heard.rec] # "none"
        <4>1. Proceed("failed") => mem'.at = "failed"
          BY <1>a, <1>s, ProceedMoves DEF Terminal
        <4> QED
          BY <1>10, <2>3, <4>1 DEF executionPrepare
      <3>2. mem.heard.rec \in Attempts
        BY <1>10, <1>a, HeardFirst DEF executionPrepare
      <3>3. verdict[mem.heard.rec] = "cleared"
        BY <3>1, <3>2, <1>a DEF ChainInv, SignedRows
      <3> QED
        BY <2>3, <3>1, <3>2, <3>3, <1>c
    <2> QED
      BY <2>1, <2>2, <2>3, <1>c DEF Terminal, Done
  <1>11. CASE governExpired
    <2>1. UNCHANGED verdict /\ Proceed("completed") /\ lapsed = {} /\ lapsed' = {drafted}
      BY <1>11, <1>c DEF governExpired, EmitExpired, Running, At
    <2>2. up' /\ mem'.at = "completed" /\ mem'.attempt = mem.attempt
      BY <2>1, <1>a, <1>c, <1>s, ProceedMoves DEF Terminal
    <2>3. ASSUME NEW a \in Attempts, verdict[a] = "cleared" PROVE a \in UNION lapsed'
      BY <2>1, <2>3, <1>a DEF RowsBacked
    <2> QED
      BY <2>1, <2>2, <2>3, <1>c DEF Done, Terminal
  <1>12. CASE terminalHandler
    <2>1. Proceed("completed") /\ UNCHANGED <<drafted, verdict, decided>> /\ mem.at \in Closers
      BY <1>12 DEF terminalHandler, ledger
    <2>2. up' /\ mem'.at = "completed" /\ mem'.attempt = mem.attempt
      BY <2>1, <1>a, <1>c, <1>s, ProceedMoves DEF Terminal
    <2>3. ASSUME NEW a \in Attempts, verdict[a] = "cleared" PROVE Rejected(a)'
      <3>1. mem.at = "rejected"
        BY <2>1, <2>3, <1>c DEF Closers, Terminal
      <3>2. PICK r \in Attempts : Rejected(r)
        BY <3>1, <1>a DEF Tracked, RowsBacked
      <3>3. r = a
        BY <2>3, <3>2, <1>c DEF Rejected, HasCleared
      <3> QED
        BY <2>1, <3>2, <3>3 DEF Rejected, HasCleared
    <2> QED
      BY <2>1, <2>2, <2>3, <1>c DEF Done, Terminal
  <1>13. CASE Flush \/ Sweep \/ Tick \/ UNCHANGED vars
    BY <1>13, <1>1 DEF Flush, Sweep, Tick, host, vars, ledger
  <1>14. ASSUME NEW a \in Attempts, revokeInstruction(a) PROVE <1>g!1
    BY <1>14, <1>1 DEF revokeInstruction, host
  <1>15. ASSUME NEW a \in Attempts, NEW v \in Verbs, decideRecommendation(a, v) PROVE <1>g!1
    BY <1>15, <1>1 DEF decideRecommendation, host, ledger
  <1>16. ~Restart
    BY <1>c DEF Restart
  <1> QED
    BY <1>2, <1>4, <1>5, <1>6, <1>7, <1>8, <1>9, <1>10, <1>11, <1>12, <1>13, <1>14, <1>15,
       <1>16, <1>b DEF Next, HostStep

LEMMA CustodyNext == CustodyInv /\ [Next]_vars => CustodyInv'
  BY ChainNext, RowsBackedNext, TrackedNext, DecisionKeptNext, LapseKeptNext, SubjectsNext,
     UnbrokenNext DEF CustodyInv

LEMMA CustodyInvariant == Spec => []CustodyInv
  BY CustodyInit, CustodyNext, PTL DEF Spec

(* However hosts die, decisions are replayed and the timer races them: the *)
(* run decides once and not beside its expiry, asks only about what may be *)
(* decided, and an unbroken run leaves nothing in the operator's queue.    *)
THEOREM RunKeepsCustody == Spec => []Custody
  <1>1. CustodyInv => OneDecision
    <2> SUFFICES ASSUME CustodyInv PROVE OneDecision
      OBVIOUS
    <2>1. ChainInv /\ SignedRows /\ RowsBacked /\ LapseKept
      BY DEF CustodyInv, ChainInv
    <2>2. ASSUME NEW a \in Attempts, NEW b \in Attempts, approval[a] # "none", approval[b] # "none"
          PROVE  a = b
      <3>1. inbox[1] = [rec |-> a, verb |-> "approve"] /\ inbox[1] = [rec |-> b, verb |-> "approve"]
        BY <2>1, <2>2 DEF SignedRows
      <3>2. inbox[1].rec = a /\ inbox[1].rec = b
        BY <3>1
      <3> QED
        BY <3>2
    <2>3. ASSUME NEW a \in Attempts, NEW s \in decided, approval[a] # "none"
          PROVE  s = [rec |-> a, verb |-> "approve"]
      BY <2>1, <2>3 DEF SignedRows, RowsBacked
    <2>4. lapsed # {} => decided = {} /\ \A a \in Attempts : approval[a] = "none"
      BY <2>1 DEF LapseKept, Decision
    <2> QED
      BY <2>2, <2>3, <2>4 DEF OneDecision
  <1>2. CustodyInv => GateHasSubject
    BY DEF CustodyInv, Subject, GateHasSubject
  <1>3. CustodyInv => QueueDrained
    BY DEF CustodyInv, Unbroken, Rejected, QueueDrained, approvalQueue, ChainInv, TypeOK
  <1> QED
    BY <1>1, <1>2, <1>3, CustodyInvariant, PTL DEF Custody

-----------------------------------------------------------------------------
(* The run implements the approval chain: each of the eight ways a step    *)
(* writes rows is one move of a recommendation, a lapse, or no move.       *)

(* An undecided recommendation is where its draft and verdict rows put it. *)
LEMMA UndecidedStage ==
  ASSUME CustodyInv, NEW a \in Attempts, approval[a] = "none",
         [rec |-> a, verb |-> "reject"] \notin decided
  PROVE  stageOf(a) = IF verdict[a] # "none" THEN verdict[a]
                      ELSE IF a \in drafted THEN "drafted" ELSE "absent"
  BY DEF CustodyInv, ChainInv, SignedRows, stageOf

LEMMA NoDecisionYet ==
  ASSUME CustodyInv, ~Decision
  PROVE  Chain!Undecided
  <1>1. ASSUME NEW a \in Attempts PROVE stageOf(a) \notin Chain!Decided
    <2>1. approval[a] = "none" /\ [rec |-> a, verb |-> "reject"] \notin decided
      BY DEF Decision
    <2>2. verdict[a] \in {"none", "cleared", "blocked"}
      BY DEF CustodyInv, ChainInv, TypeOK
    <2> QED
      BY <2>1, <2>2, UndecidedStage DEF Chain!Decided
  <1> QED
    BY <1>1 DEF Chain!Undecided

(* The other rows of a decision in its own step: none, for the first       *)
(* signal is the only one a row can tell.                                  *)
LEMMA FirstDecision ==
  ASSUME CustodyInv, Running("decide"),
         IF mem.heard.verb = "approve" THEN approval[mem.heard.rec] = "none" ELSE decided = {}
  PROVE  Chain!Undecided /\ lapsed = {}
  <1>a. /\ mem.heard \in Signals /\ mem.heard.rec \in Attempts
        /\ inbox # <<>> /\ mem.heard = inbox[1]
    BY HeardFirst DEF CustodyInv
  <1>1. \A a \in Attempts : approval[a] = "none"
    <2> SUFFICES ASSUME NEW a \in Attempts, approval[a] # "none" PROVE FALSE
      OBVIOUS
    <2>1. mem.heard = [rec |-> a, verb |-> "approve"]
      BY <1>a DEF CustodyInv, ChainInv, SignedRows
    <2>2. mem.heard.verb = "approve" /\ mem.heard.rec = a
      BY <2>1
    <2> QED
      BY <2>2
  <1>2. ASSUME NEW a \in Attempts PROVE [rec |-> a, verb |-> "reject"] \notin decided
    <2>1. CASE mem.heard.verb = "approve"
      <3>1. \A s \in decided : s.verb = "approve"
        BY <1>a, <2>1 DEF CustodyInv, RowsBacked
      <3> QED
        BY <3>1
    <2>2. CASE mem.heard.verb # "approve"
      BY <2>2
    <2> QED
      BY <2>1, <2>2
  <1>3. ASSUME NEW a \in Attempts PROVE stageOf(a) \notin Chain!Decided
    <2>1. verdict[a] \in {"none", "cleared", "blocked"}
      BY DEF CustodyInv, ChainInv, TypeOK
    <2> QED
      BY <1>1, <1>2, <2>1, UndecidedStage DEF Chain!Decided
  <1>4. lapsed = {}
    BY DEF CustodyInv, LapseKept, Running, At, Terminal
  <1> QED
    BY <1>3, <1>4 DEF Chain!Undecided

(* One recommendation moves and the others stay.                           *)
LEMMA OneMoves ==
  ASSUME NEW a \in Attempts,
         \A b \in Attempts \ {a} : stageOf(b)' = stageOf(b),
         NEW from, NEW to, stageOf(a) = from, stageOf(a)' = to
  PROVE  Chain!Move(a, from, to)
  BY DEF Chain!Move

LEMMA ChainStep == CustodyInv /\ [Next]_vars => [Chain!Next]_(Chain!vars)
  <1> SUFFICES ASSUME CustodyInv, [Next]_vars PROVE [Chain!Next]_(Chain!vars)
    OBVIOUS
  <1>a. CustodyInv' /\ Written
    BY CustodyNext, StepWrites
  <1>b. TypeOK /\ ChainInv /\ SignedRows /\ RowsBacked /\ TypeOK' /\ SignedRows' /\ RowsBacked'
    BY <1>a DEF CustodyInv, ChainInv
  <1>c. mem.attempt \in Attempts
    BY <1>b DEF TypeOK, RunStates
  <1>d. Running("decide") \/ Running("prepare") =>
          /\ mem.heard \in Signals /\ mem.heard.rec \in Attempts
          /\ inbox # <<>> /\ mem.heard = inbox[1]
    BY <1>b, HeardFirst
  <1>e. ASSUME \A a \in Attempts : stageOf(a)' = stageOf(a), UNCHANGED lapsed
        PROVE  UNCHANGED Chain!vars
    BY <1>e DEF Chain!vars
  <1>f. ASSUME NEW a \in Attempts, approval[a] = "none"
        PROVE  instr[a] = "none"
    BY <1>f, <1>b DEF SignedRows
  <1>g. ASSUME NEW a \in Attempts, approval[a] # "none"
        PROVE  [rec |-> a, verb |-> "reject"] \notin decided
    <2>1. inbox[1] = [rec |-> a, verb |-> "approve"]
      BY <1>g, <1>b DEF SignedRows
    <2>2. \A s \in decided : s.verb = "approve"
      BY <2>1, <1>b DEF RowsBacked
    <2> QED
      BY <2>2
  <1>1. CASE NothingWritten
    BY <1>1, <1>e DEF NothingWritten, stageOf
  <1>2. CASE DraftWritten
    <2>0. PICK a \in Attempts : a = mem.attempt
      BY <1>c
    <2> USE <2>0
    <2>1. \A b \in Attempts \ {a} : stageOf(b)' = stageOf(b)
      BY <1>2 DEF DraftWritten, stageOf
    <2>2. CASE a \in drafted
      BY <1>2, <2>2, <1>e DEF DraftWritten, stageOf
    <2>3. CASE a \notin drafted
      <3>1. verdict[a] = "none" /\ approval[a] = "none" /\ instr[a] = "none"
        BY <2>3, <1>b, <1>c, <1>f DEF RowsBacked, SignedRows
      <3>2. [rec |-> a, verb |-> "reject"] \notin decided
        BY <2>3, <1>b DEF RowsBacked, HasCleared
      <3>3. stageOf(a) = "absent" /\ stageOf(a)' = "drafted"
        BY <1>2, <2>3, <3>1, <3>2 DEF DraftWritten, stageOf
      <3>4. Chain!Draft(a)
        BY <1>2, <1>c, <2>1, <3>3, OneMoves DEF Chain!Draft, DraftWritten
      <3> QED
        BY <3>4, <1>c DEF Chain!Next
    <2> QED
      BY <2>2, <2>3
  <1>3. CASE VerdictWritten
    <2>0. PICK a \in Attempts : a = mem.attempt
      BY <1>c
    <2> USE <2>0
    <2>1. PICK v \in {"cleared", "blocked"} : RecordVerdict(a, v)
      BY <1>3 DEF VerdictWritten
    <2>2. \A b \in Attempts \ {a} : stageOf(b)' = stageOf(b)
      BY <2>1, <1>b, <1>c DEF RecordVerdict, stageOf, TypeOK
    <2>3. CASE verdict[a] # "none"
      BY <2>1, <2>3, <1>e DEF RecordVerdict, stageOf
    <2>4. CASE verdict[a] = "none"
      <3>1. a \in drafted
        BY <1>3, <1>b, <1>c DEF VerdictWritten, RowsBacked
      <3>2. approval[a] = "none" /\ instr[a] = "none" /\ [rec |-> a, verb |-> "reject"] \notin decided
        BY <2>4, <1>b, <1>c, <1>f DEF SignedRows, RowsBacked, HasCleared
      <3>3. stageOf(a) = "drafted" /\ stageOf(a)' = v
        BY <2>1, <2>4, <3>1, <3>2, <1>b, <1>c DEF RecordVerdict, stageOf, TypeOK
      <3>4. Chain!Audit(a)
        BY <2>1, <1>c, <2>2, <3>3, OneMoves DEF Chain!Audit, RecordVerdict
      <3> QED
        BY <3>4, <1>c DEF Chain!Next
    <2> QED
      BY <2>3, <2>4
  <1>4. CASE ApprovalWritten
    <2>0. PICK a \in Attempts : a = mem.heard.rec
      BY <1>4, <1>d DEF ApprovalWritten
    <2> USE <2>0
    <2>1. a \in Attempts /\ HasCleared(a)
      BY <1>4, <1>d DEF ApprovalWritten
    <2>2. \A b \in Attempts : [rec |-> b, verb |-> "reject"] \notin decided'
      <3>1. \A s \in decided' : s.verb = "approve"
        BY <1>4, <1>b, <1>d DEF ApprovalWritten, EmitDecided, RowsBacked
      <3> QED
        BY <3>1
    <2>3. decided \subseteq decided'
      BY <1>4 DEF ApprovalWritten, EmitDecided
    <2>4. \A b \in Attempts \ {a} : stageOf(b)' = stageOf(b)
      BY <1>4, <2>2, <2>3, <1>b DEF ApprovalWritten, SignApproval, stageOf, TypeOK
    <2>5. CASE approval[a] # "none"
      <3>1. UNCHANGED approval
        BY <1>4, <2>5 DEF ApprovalWritten, SignApproval
      <3> QED
        BY <1>4, <2>2, <2>3, <3>1, <1>e DEF ApprovalWritten, stageOf
    <2>6. CASE approval[a] = "none"
      <3>1. stageOf(a) = "cleared" /\ stageOf(a)' = "approved"
        BY <1>4, <2>1, <2>2, <2>3, <2>6, <1>b, <1>f
        DEF ApprovalWritten, SignApproval, stageOf, HasCleared, TypeOK
      <3>2. Chain!Undecided /\ lapsed = {}
        BY <1>4, <2>6, FirstDecision DEF ApprovalWritten
      <3>3. Chain!Decide(a)
        BY <1>4, <2>1, <2>4, <3>1, <3>2, OneMoves DEF Chain!Decide, ApprovalWritten
      <3> QED
        BY <3>3, <2>1 DEF Chain!Next
    <2> QED
      BY <2>5, <2>6
  <1>5. CASE RejectionWritten
    <2>0. PICK a \in Attempts : a = mem.heard.rec
      BY <1>5, <1>d DEF RejectionWritten
    <2> USE <2>0
    <2>1. a \in Attempts /\ HasCleared(a) /\ mem.heard = [rec |-> a, verb |-> "reject"]
      BY <1>5, <1>d DEF RejectionWritten, Signals
    <2>2. CASE decided # {}
      <3>1. UNCHANGED decided
        BY <1>5, <2>2 DEF RejectionWritten, EmitDecided
      <3> QED
        BY <1>5, <3>1, <1>e DEF RejectionWritten, stageOf
    <2>3. CASE decided = {}
      <3>1. decided' = {[rec |-> a, verb |-> "reject"]}
        BY <1>5, <2>1, <2>3 DEF RejectionWritten, EmitDecided
      <3>2. \A b \in Attempts \ {a} : [rec |-> b, verb |-> "reject"] \notin decided'
        <4>1. \A s \in decided' : s.rec = a
          BY <3>1
        <4> QED
          BY <4>1
      <3>3. \A b \in Attempts \ {a} : stageOf(b)' = stageOf(b)
        BY <1>5, <2>3, <3>2 DEF RejectionWritten, stageOf
      <3>4. Chain!Undecided /\ lapsed = {}
        BY <1>5, <2>3, FirstDecision DEF RejectionWritten
      <3>5. approval[a] = "none"
        <4>1. CASE approval[a] # "none"
          <5>1. mem.heard = [rec |-> a, verb |-> "approve"]
            BY <4>1, <2>1, <1>5, <1>b, <1>d DEF SignedRows, RejectionWritten
          <5> QED
            BY <5>1, <1>5 DEF RejectionWritten
        <4> QED
          BY <4>1
      <3>6. stageOf(a) = "cleared" /\ stageOf(a)' = "rejected"
        BY <1>5, <2>1, <2>3, <3>1, <3>5, <1>f DEF RejectionWritten, stageOf, HasCleared
      <3>7. Chain!Decide(a)
        BY <1>5, <2>1, <3>3, <3>4, <3>6, OneMoves DEF Chain!Decide, RejectionWritten
      <3> QED
        BY <3>7, <2>1 DEF Chain!Next
    <2> QED
      BY <2>2, <2>3
  <1>6. CASE InstructionWritten
    <2>0. PICK a \in Attempts : a = mem.heard.rec
      BY <1>6, <1>d DEF InstructionWritten
    <2> USE <2>0
    <2>1. a \in Attempts
      BY <1>6, <1>d DEF InstructionWritten
    <2>2. \A b \in Attempts \ {a} : stageOf(b)' = stageOf(b)
      BY <1>6, <1>b DEF InstructionWritten, AppendInstruction, stageOf, TypeOK
    <2>3. CASE instr[a] # "none"
      BY <1>6, <2>3, <1>e DEF InstructionWritten, AppendInstruction, stageOf
    <2>4. CASE instr[a] = "none"
      <3>1. stageOf(a) = "approved" /\ stageOf(a)' = "prepared"
        BY <1>6, <2>1, <2>4, <1>b, <1>g DEF InstructionWritten, AppendInstruction, stageOf, TypeOK
      <3>2. Chain!Prepare(a)
        BY <1>6, <2>1, <2>2, <3>1, OneMoves DEF Chain!Prepare, InstructionWritten
      <3> QED
        BY <3>2, <2>1 DEF Chain!Next
    <2> QED
      BY <2>3, <2>4
  <1>7. CASE ExpiryWritten
    <2>1. \A a \in Attempts : stageOf(a)' = stageOf(a)
      BY <1>7 DEF ExpiryWritten, stageOf
    <2>2. CASE lapsed # {}
      BY <1>7, <2>1, <2>2, <1>e DEF ExpiryWritten, EmitExpired
    <2>3. CASE lapsed = {}
      <3>1. ~Decision
        BY <1>7 DEF CustodyInv, DecisionKept, ExpiryWritten, Running, At, Asked, AfterGate, Terminal
      <3>2. Chain!Undecided /\ lapsed' # {}
        BY <1>7, <2>3, <3>1, NoDecisionYet DEF ExpiryWritten, EmitExpired
      <3>3. Chain!Lapse
        BY <2>1, <3>2 DEF Chain!Lapse
      <3> QED
        BY <3>3 DEF Chain!Next
    <2> QED
      BY <2>2, <2>3
  <1>8. CASE RevocationWritten
    <2>1. PICK a \in Attempts : instr[a] = "prepared" /\ instr' = [instr EXCEPT ![a] = "revoked"]
      BY <1>8 DEF RevocationWritten
    <2>2. \A b \in Attempts \ {a} : stageOf(b)' = stageOf(b)
      BY <1>8, <2>1, <1>b DEF RevocationWritten, stageOf, TypeOK
    <2>3. stageOf(a) = "prepared" /\ stageOf(a)' = "revoked"
      BY <1>8, <2>1, <1>b, <1>g DEF RevocationWritten, SignedRows, stageOf, TypeOK
    <2>4. Chain!Revoke(a)
      BY <1>8, <2>2, <2>3, OneMoves DEF Chain!Revoke, RevocationWritten
    <2> QED
      BY <2>4 DEF Chain!Next
  <1> QED
    BY <1>a, <1>1, <1>2, <1>3, <1>4, <1>5, <1>6, <1>7, <1>8 DEF Written

(* The whole workflow, with its effects, inbox, timer, flushes and deaths, *)
(* implements the chain of governance.ts: each recommendation only moves   *)
(* forward, the run decides at most once, and never after the lapse.       *)
THEOREM RunImplementsChain == Spec => ImplementsChain
  <1>1. Init => Chain!Init
    BY DEF Init, Chain!Init, stageOf
  <1>2. CustodyInv /\ [Next]_vars => [Chain!Next]_(Chain!vars)
    BY ChainStep
  <1> QED
    BY <1>1, <1>2, CustodyInvariant, PTL DEF Spec, ImplementsChain, Chain!Spec
=============================================================================
