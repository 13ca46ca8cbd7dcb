--------------------------- MODULE Nightly_proofs ---------------------------
(***************************************************************************)
(* Proofs about Nightly, for any set of runs, accounts, dates and          *)
(* processes that answer, any overlap of them and any bound on deaths.     *)
(***************************************************************************)
EXTENDS Nightly, TLAPS

(* Going to a step leaves everything else about the runs alone.            *)
LEMMA GotoType ==
  ASSUME TypeOK, NEW r \in Runs, NEW step \in Steps
  PROVE  /\ Goto(r, step) \in [Runs -> RunStates]
         /\ Goto(r, step)[r] = [run[r] EXCEPT !.at = step]
         /\ \A q \in Runs \ {r} : Goto(r, step)[q] = run[q]
  BY DEF TypeOK, Goto, RunStates

(* A host death fails every run that had a step under way.                 *)
LEMMA SettledType ==
  ASSUME TypeOK
  PROVE  /\ Settled \in [Runs -> RunStates]
         /\ \A r \in Runs : \/ Settled[r] = run[r] /\ run[r].at \notin InFlight \ {"fetch"}
                            \/ Settled[r] = [run[r] EXCEPT !.at = "failed"]
  BY DEF TypeOK, Settled, RunStates, Steps

LEMMA DetectedType ==
  ASSUME NEW scope \in SUBSET Subjects, NEW as_of \in [scope -> {0} \cup Dates],
         NEW twice \in SUBSET Subjects
  PROVE  suppressKnown(Detected(as_of, twice)) \in SUBSET Fingerprints
  <1>1. Detected(as_of, twice) \in SUBSET Fingerprints
    BY DEF Detected, Fingerprints
  <1> QED
    BY <1>1 DEF suppressKnown

LEMMA BatchType ==
  ASSUME TypeOK, NEW r \in Runs, NEW w \in Writers, NEW subjects \in SUBSET Subjects,
         fact' = [fact EXCEPT ![r][w] = Batch(r, w, subjects)]
  PROVE  /\ fact' \in [Runs -> [Writers -> [Subjects -> Statuses]]]
         /\ \A q \in Runs, v \in Writers, s \in Subjects :
              fact'[q][v][s] = IF q = r /\ v = w /\ s \in subjects
                               THEN IF s \in Held(r) THEN "provisional" ELSE "clean"
                               ELSE fact[q][v][s]
  <1>1. Batch(r, w, subjects) \in [Subjects -> Statuses]
    BY DEF Batch, TypeOK, Statuses
  <1>2. fact' \in [Runs -> [Writers -> [Subjects -> Statuses]]]
    BY <1>1 DEF TypeOK
  <1>3. ASSUME NEW q \in Runs, NEW v \in Writers, NEW s \in Subjects
        PROVE  fact'[q][v][s] = IF q = r /\ v = w /\ s \in subjects
                                THEN IF s \in Held(r) THEN "provisional" ELSE "clean"
                                ELSE fact[q][v][s]
    BY DEF TypeOK, Batch
  <1> QED
    BY <1>2, <1>3

(* The fact a finding disputes is a fact.                                  *)
LEMMA DisputedType ==
  ASSUME NEW f \in Findings
  PROVE  f.run \in Runs /\ f.of \in Fingerprints /\ f.of.subject \in Subjects
         /\ WriterOf(f.of) \in Writers
  BY DEF Findings, Fingerprints, WriterOf, Writers

(* Answering changes at most the disputed fact, and only if provisional.   *)
LEMMA AnswerType ==
  ASSUME TypeOK, NEW f \in Findings, NEW d \in Answers, AnswerFact(f, d)
  PROVE  /\ fact' \in [Runs -> [Writers -> [Subjects -> Statuses]]]
         /\ \A q \in Runs, v \in Writers, s \in Subjects :
              \/ fact'[q][v][s] = fact[q][v][s]
              \/ fact[q][v][s] = "provisional" /\ fact'[q][v][s] \in {"accepted", "kept"}
  <1>1. /\ f.run \in Runs /\ f.of.subject \in Subjects /\ WriterOf(f.of) \in Writers
    BY DisputedType
  <1>2. CASE Disputed(f) = "provisional"
    <2> DEFINE n == IF d = "keep_prior" THEN "kept" ELSE "accepted"
    <2>1. fact' = [fact EXCEPT ![f.run][WriterOf(f.of)][f.of.subject] = n]
      BY <1>2 DEF AnswerFact
    <2>2. n \in {"accepted", "kept"}
      OBVIOUS
    <2>3. fact[f.run][WriterOf(f.of)][f.of.subject] = "provisional"
      BY <1>2 DEF Disputed
    <2> HIDE DEF n
    <2> QED
      BY <1>1, <2>1, <2>2, <2>3 DEF TypeOK, Statuses
  <1>3. CASE Disputed(f) # "provisional"
    BY <1>3 DEF AnswerFact, TypeOK
  <1> QED
    BY <1>2, <1>3

(* Releasing an account leaves none of its facts provisional that no batch *)
(* of this answer's released before.                                       *)
LEMMA ReleaseType ==
  ASSUME TypeOK, NEW f \in Findings, ReleaseSubject(f)
  PROVE  /\ fact' \in [Runs -> [Writers -> [Subjects -> Statuses]]]
         /\ \A q \in Runs, v \in Writers, t \in Subjects :
              fact'[q][v][t] = IF /\ t = f.of.subject
                                  /\ fact[q][v][t] = "provisional" /\ ~Replayed(f, v)
                               THEN "accepted" ELSE fact[q][v][t]
  <1> DEFINE free(q, v, x) == IF x = "provisional" /\ ~Replayed(f, v) THEN "accepted" ELSE x
  <1>1. f.of.subject \in Subjects
    BY DisputedType
  <1>2. fact' = [q \in Runs |-> [v \in Writers |->
                  [fact[q][v] EXCEPT ![f.of.subject] = free(q, v, @)]]]
    BY DEF ReleaseSubject
  <1>3. \A q, v, x : free(q, v, x) \in {x, "accepted"}
    OBVIOUS
  <1>4. ASSUME NEW q \in Runs, NEW v \in Writers, NEW t \in Subjects
        PROVE  fact'[q][v][t] = IF t = f.of.subject THEN free(q, v, fact[q][v][t])
                                ELSE fact[q][v][t]
    <2> HIDE DEF free
    <2> QED
      BY <1>1, <1>2 DEF TypeOK
  <1>5. fact' \in [Runs -> [Writers -> [Subjects -> Statuses]]]
    <2> HIDE DEF free
    <2> QED
      BY <1>1, <1>2, <1>3 DEF TypeOK, Statuses
  <1> QED
    BY <1>4, <1>5

(* What is behind is runs.                                                 *)
LEMMA BehindType ==
  ASSUME TypeOK, NEW q \in Runs, NEW steps
  PROVE  /\ Behind(q, steps) \in [Runs -> SUBSET Runs]
         /\ \A r \in Runs : /\ meantime[r] \subseteq Behind(q, steps)[r]
                            /\ r # q /\ run[r].at \in steps => q \in Behind(q, steps)[r]
                            /\ Behind(q, steps)[q] = meantime[q]
  BY DEF Behind, TypeOK

LEMMA TypeInit == Init => TypeOK
  BY DEF Init, TypeOK, Idle, RunStates, Steps, Statuses

LEMMA TypeNext == TypeOK /\ [Next]_vars => TypeOK'
  <1> SUFFICES ASSUME TypeOK, [Next]_vars PROVE TypeOK'
    OBVIOUS
  <1>1. ASSUME NEW r \in Runs, Start(r) PROVE TypeOK'
    BY <1>1, GotoType DEF Start, TypeOK, rows, answers, Steps, InFlight
  <1>2. ASSUME NEW r \in Runs, reconcile(r) PROVE TypeOK'
    <2>1. PICK scope \in (SUBSET Subjects) \ {{}} :
          \E as_of \in [scope -> {0} \cup Dates], moves \in SUBSET Subjects :
          \E twice \in SUBSET moves :
            run' = [run EXCEPT ![r] = [at |-> "commit_assets", scope |-> scope, moves |-> moves,
                                       drafts |-> suppressKnown(Detected(as_of, twice))]]
      BY <1>2 DEF reconcile
    <2>2. PICK as_of \in [scope -> {0} \cup Dates], moves \in SUBSET Subjects,
               twice \in SUBSET Subjects :
            run' = [run EXCEPT ![r] = [at |-> "commit_assets", scope |-> scope, moves |-> moves,
                                       drafts |-> suppressKnown(Detected(as_of, twice))]]
      BY <2>1
    <2>3. suppressKnown(Detected(as_of, twice)) \in SUBSET Fingerprints
      BY <2>1, <2>2, DetectedType
    <2>4. run' \in [Runs -> RunStates]
      BY <2>1, <2>2, <2>3 DEF TypeOK, RunStates, Steps, InFlight
    <2> QED
      BY <1>2, <2>4 DEF reconcile, TypeOK, rows, answers
  <1>3. ASSUME NEW r \in Runs, commit_assets(r) PROVE TypeOK'
    <2>1. run[r].scope \in SUBSET Subjects
      BY DEF TypeOK, RunStates
    <2> QED
      BY <1>3, <2>1, BatchType, GotoType, BehindType
      DEF commit_assets, TypeOK, answers, Steps, InFlight, Writers
  <1>4. ASSUME NEW r \in Runs, commit_flows(r) PROVE TypeOK'
    <2>1. run[r].moves \in SUBSET Subjects
      BY DEF TypeOK, RunStates
    <2> QED
      BY <1>4, <2>1, BatchType, GotoType, BehindType
      DEF commit_flows, TypeOK, answers, Steps, InFlight, Writers
  <1>5. ASSUME NEW r \in Runs
        PROVE  Recorded(r) \in SUBSET Findings /\ Moot(r) \in SUBSET Findings
    BY DEF Recorded, Findings, TypeOK, RunStates, Moot, Open
  <1>6. ASSUME NEW r \in Runs, record_findings(r) PROVE TypeOK'
    <2>1. AfterGate(r) \in Steps
      BY DEF AfterGate, Steps, InFlight
    <2>2. run' \in [Runs -> RunStates]
      BY <1>6, <2>1, GotoType DEF record_findings
    <2>3. finding' \in SUBSET Findings /\ resolution' \in SUBSET Findings
      BY <1>5, <1>6 DEF record_findings, TypeOK
    <2> QED
      BY <1>6, <2>2, <2>3, BehindType DEF record_findings, TypeOK, answers
  <1>7. ASSUME NEW r \in Runs, notify(r) PROVE TypeOK'
    <2>1. (IF Refused(r) THEN "failed" ELSE "emit") \in Steps
      BY DEF Steps, InFlight
    <2>2. run' \in [Runs -> RunStates]
      BY <1>7, <2>1, GotoType DEF notify
    <2> QED
      BY <1>7, <2>2 DEF notify, TypeOK, rows, answers
  <1>8. ASSUME NEW r \in Runs, emit(r) \/ hold(r) PROVE TypeOK'
    <2>1. run' = Goto(r, "completed") /\ "completed" \in Steps
      BY <1>8 DEF emit, hold, Steps
    <2>2. run' \in [Runs -> RunStates]
      BY <2>1, GotoType
    <2> QED
      BY <1>8, <2>2 DEF emit, hold, TypeOK, rows, answers
  <1>9. ASSUME Crash PROVE TypeOK'
    BY <1>9, SettledType DEF Crash, Die, TypeOK, answers
  <1>10. ASSUME NEW r \in Runs, CrashInHandler(r) PROVE TypeOK'
    <2>1. /\ finding' \in SUBSET Findings /\ awake' \in SUBSET Runs
          /\ resolution' \in SUBSET Findings
      BY <1>5, <1>10 DEF CrashInHandler, TypeOK
    <2>2. meantime' \in [Runs -> SUBSET Runs]
      BY <1>10, BehindType DEF CrashInHandler, TypeOK
    <2> QED
      BY <1>10, <2>1, <2>2, SettledType DEF CrashInHandler, Die, TypeOK, answers
  <1>11. ASSUME NEW s \in Subjects, Upgrade(s) PROVE TypeOK'
    BY <1>11 DEF Upgrade, TypeOK, rows, answers
  <1>12. ASSUME NEW p \in Answerers, NEW f \in finding, NEW d \in Answers, resolveFinding(p, f, d) PROVE TypeOK'
    <2>1. f \in Findings
      BY DEF TypeOK
    <2>2. fact' \in [Runs -> [Writers -> [Subjects -> Statuses]]]
      BY <1>12, <2>1, AnswerType DEF resolveFinding
    <2>3. answering' \in SUBSET Calls
      BY <1>12, <2>1 DEF resolveFinding, Calls, TypeOK
    <2>4. tangled' \in SUBSET Subjects
      BY <1>12, <2>1, DisputedType DEF resolveFinding, TypeOK
    <2> QED
      BY <1>12, <2>2, <2>3, <2>4 DEF resolveFinding, TypeOK
  <1>13. ASSUME NEW c \in answering, release(c) PROVE TypeOK'
    <2>1. c \in Calls /\ c.finding \in Findings
      BY DEF TypeOK, Calls
    <2>2. fact' \in [Runs -> [Writers -> [Subjects -> Statuses]]]
      BY <1>13, <2>1, ReleaseType DEF release, TypeOK
    <2>3. answering' \in SUBSET Calls
      BY <1>13, <2>1 DEF release, Calls, TypeOK
    <2>4. released' \in SUBSET [finding : Findings, writer : Writers]
      BY <1>13, <2>1 DEF release, Releases, TypeOK
    <2> QED
      BY <1>13, <2>2, <2>3, <2>4 DEF release, TypeOK
  <1>14. ASSUME NEW c \in answering, appendResolution(c) PROVE TypeOK'
    BY <1>14 DEF appendResolution, TypeOK, Calls
  <1>15. ASSUME NEW c \in answering, AbortAnswer(c) PROVE TypeOK'
    BY <1>15 DEF AbortAnswer, TypeOK, rows
  <1>16. ASSUME UNCHANGED vars PROVE TypeOK'
    BY <1>16 DEF vars, rows, answers, TypeOK
  <1> QED
    BY <1>1, <1>2, <1>3, <1>4, <1>6, <1>7, <1>8, <1>9, <1>10, <1>11, <1>12, <1>13, <1>14,
       <1>15, <1>16
    DEF Next, NightlyStep

(* Every reachable state is well typed.                                    *)
THEOREM TypeCorrect == Spec => []TypeOK
  BY TypeInit, TypeNext, PTL DEF Spec

-----------------------------------------------------------------------------
(* Settled facts stay.                                                     *)

(* A run has written nothing of a writer before that writer's step.        *)
Unwritten ==
  \A r \in Runs, s \in Subjects :
    /\ run[r].at \in {"idle", "fetch", "commit_assets"} => fact[r]["assets_manager"][s] = "none"
    /\ run[r].at \in {"idle", "fetch", "commit_assets", "commit_flows"}
         => fact[r]["cash_flow"][s] = "none"

(* What a step may do to a fact: first write, or settle what is in dispute.*)
FactsMove ==
  \A r \in Runs, w \in Writers, s \in Subjects :
    \/ fact'[r][w][s] = fact[r][w][s]
    \/ fact[r][w][s] = "none"
    \/ fact[r][w][s] = "provisional" /\ fact'[r][w][s] \in {"accepted", "kept"}

LEMMA FactsNext == TypeOK /\ Unwritten /\ [Next]_vars => FactsMove
  <1> SUFFICES ASSUME TypeOK, Unwritten, [Next]_vars PROVE FactsMove
    OBVIOUS
  <1>1. CASE UNCHANGED fact
    BY <1>1 DEF FactsMove
  <1>2. ASSUME NEW r \in Runs, commit_assets(r) PROVE FactsMove
    <2>1. run[r].scope \in SUBSET Subjects /\ run[r].at = "commit_assets"
      BY <1>2 DEF TypeOK, RunStates, commit_assets, At
    <2> QED
      BY <1>2, <2>1, BatchType DEF commit_assets, Writers, Unwritten, FactsMove
  <1>3. ASSUME NEW r \in Runs, commit_flows(r) PROVE FactsMove
    <2>1. run[r].moves \in SUBSET Subjects /\ run[r].at = "commit_flows"
      BY <1>3 DEF TypeOK, RunStates, commit_flows, At
    <2> QED
      BY <1>3, <2>1, BatchType DEF commit_flows, Writers, Unwritten, FactsMove
  <1>4. ASSUME NEW p \in Answerers, NEW f \in finding, NEW d \in Answers, resolveFinding(p, f, d) PROVE FactsMove
    <2>1. f \in Findings
      BY DEF TypeOK
    <2> QED
      BY <1>4, <2>1, AnswerType DEF resolveFinding, FactsMove
  <1>5. ASSUME NEW c \in answering, release(c) PROVE FactsMove
    <2>1. c.finding \in Findings
      BY DEF TypeOK, Calls
    <2> QED
      BY <1>5, <2>1, ReleaseType DEF release, FactsMove
  <1> QED
    BY <1>1, <1>2, <1>3, <1>4, <1>5
    DEF Next, vars, rows, answers, NightlyStep, Start, reconcile, record_findings, notify,
        emit, hold, Crash, CrashInHandler, Die, Upgrade, appendResolution, AbortAnswer

(* Which runs a step moves, and from where to where.                       *)
Moves(r, from, to) ==
  run[r].at \in from /\ run'[r].at \in to /\ run'[r].drafts = run[r].drafts

RunsMove ==
  \A r \in Runs :
    \/ run'[r] = run[r]
    \/ Moves(r, {"idle"}, {"fetch"})
    \/ run[r].at = "fetch" /\ run'[r].at = "commit_assets"
    \/ Moves(r, {"commit_assets"}, {"commit_flows"})
    \/ Moves(r, {"commit_flows"}, {"record_findings"})
    \/ /\ Moves(r, {"record_findings"}, {"notify", "hold"})
       /\ run[r].drafts # {} => run'[r].at = "hold"
    \/ Moves(r, {"notify"}, {"emit", "failed"})
    \/ Moves(r, {"emit", "hold"}, {"completed"})
    \/ crashes' = crashes + 1 /\ run'[r].at = "failed"

LEMMA GotoMoves ==
  ASSUME TypeOK, NEW r \in Runs, NEW from \in SUBSET Steps, NEW to \in SUBSET Steps,
         NEW step \in to, run[r].at \in from, run' = Goto(r, step)
  PROVE  Moves(r, from, to) /\ \A q \in Runs \ {r} : run'[q] = run[q]
  <1>1. run'[r] = [run[r] EXCEPT !.at = step] /\ \A q \in Runs \ {r} : run'[q] = run[q]
    BY GotoType
  <1>2. run[r] \in RunStates
    BY DEF TypeOK
  <1> QED
    BY <1>1, <1>2 DEF Moves, RunStates

LEMMA RunsNext == TypeOK /\ [Next]_vars => RunsMove
  <1> SUFFICES ASSUME TypeOK, [Next]_vars PROVE RunsMove
    OBVIOUS
  <1> USE DEF Steps, InFlight
  <1>1. CASE UNCHANGED run
    BY <1>1 DEF RunsMove
  <1>2. ASSUME NEW r \in Runs, Start(r) PROVE RunsMove
    <2>1. Moves(r, {"idle"}, {"fetch"}) /\ \A q \in Runs \ {r} : run'[q] = run[q]
      BY <1>2, GotoMoves DEF Start, At
    <2> QED
      BY <2>1 DEF RunsMove
  <1>3. ASSUME NEW r \in Runs, reconcile(r) PROVE RunsMove
    <2>1. \A q \in Runs \ {r} : run'[q] = run[q]
      BY <1>3 DEF reconcile, TypeOK
    <2>2. run[r].at = "fetch" /\ run'[r].at = "commit_assets"
      BY <1>3 DEF reconcile, At, TypeOK
    <2> QED
      BY <2>1, <2>2 DEF RunsMove
  <1>4. ASSUME NEW r \in Runs, commit_assets(r) PROVE RunsMove
    <2>1. /\ Moves(r, {"commit_assets"}, {"commit_flows"})
          /\ \A q \in Runs \ {r} : run'[q] = run[q]
      BY <1>4, GotoMoves DEF commit_assets, At
    <2> QED
      BY <2>1 DEF RunsMove
  <1>5. ASSUME NEW r \in Runs, commit_flows(r) PROVE RunsMove
    <2>1. /\ Moves(r, {"commit_flows"}, {"record_findings"})
          /\ \A q \in Runs \ {r} : run'[q] = run[q]
      BY <1>5, GotoMoves DEF commit_flows, At
    <2> QED
      BY <2>1 DEF RunsMove
  <1>6. ASSUME NEW r \in Runs, record_findings(r) PROVE RunsMove
    <2>1. /\ Moves(r, {"record_findings"}, {"notify", "hold"})
          /\ run[r].drafts # {} => run'[r].at = "hold"
          /\ \A q \in Runs \ {r} : run'[q] = run[q]
      <3>1. AfterGate(r) \in {"notify", "hold"}
        BY DEF AfterGate
      <3>2. run' = Goto(r, AfterGate(r)) /\ run[r].at = "record_findings"
        BY <1>6 DEF record_findings, At
      <3>3. run'[r].at = AfterGate(r)
        <4>1. AfterGate(r) \in Steps /\ run[r] \in RunStates
          BY <3>1 DEF TypeOK
        <4>2. run'[r] = [run[r] EXCEPT !.at = AfterGate(r)]
          BY <3>2, <4>1, GotoType
        <4> QED
          BY <4>1, <4>2 DEF RunStates
      <3>4. run[r].drafts # {} => run'[r].at = "hold"
        BY <3>3 DEF AfterGate
      <3> QED
        BY <3>1, <3>2, <3>4, GotoMoves
    <2> QED
      BY <2>1 DEF RunsMove
  <1>7. ASSUME NEW r \in Runs, notify(r) \/ emit(r) \/ hold(r) PROVE RunsMove
    <2>1. CASE notify(r)
      <3>1. Moves(r, {"notify"}, {"emit", "failed"}) /\ \A q \in Runs \ {r} : run'[q] = run[q]
        BY <2>1, GotoMoves DEF notify, At
      <3> QED
        BY <3>1 DEF RunsMove
    <2>2. CASE emit(r) \/ hold(r)
      <3>1. /\ Moves(r, {"emit", "hold"}, {"completed"})
            /\ \A q \in Runs \ {r} : run'[q] = run[q]
        BY <2>2, GotoMoves DEF emit, hold, At
      <3> QED
        BY <3>1 DEF RunsMove
    <2> QED
      BY <1>7, <2>1, <2>2
  <1>8. ASSUME Die PROVE RunsMove
    <2> SUFFICES ASSUME NEW r \in Runs
                 PROVE  run'[r] = run[r] \/ (crashes' = crashes + 1 /\ run'[r].at = "failed")
      BY DEF RunsMove
    <2>1. run' = Settled /\ crashes' = crashes + 1
      BY <1>8 DEF Die
    <2>2. run[r] \in RunStates
      BY DEF TypeOK
    <2> QED
      BY <2>1, <2>2, SettledType DEF RunStates
  <1>9. ASSUME NEW r \in Runs, Start(r) \/ NightlyStep(r) \/ CrashInHandler(r)
        PROVE  RunsMove
    BY <1>2, <1>3, <1>4, <1>5, <1>6, <1>7, <1>8, <1>9 DEF NightlyStep, CrashInHandler
  <1>10. CASE \/ \E c \in answering : release(c) \/ appendResolution(c) \/ AbortAnswer(c)
             \/ UNCHANGED vars
    BY <1>1, <1>10 DEF AbortAnswer, release, appendResolution, vars
  <1>11. CASE \E s \in Subjects : Upgrade(s)
    BY <1>1, <1>11 DEF Upgrade
  <1>12. CASE \E p \in Answerers, f \in finding, d \in Answers : resolveFinding(p, f, d)
    BY <1>1, <1>12 DEF resolveFinding
  <1> QED
    BY <1>8, <1>9, <1>10, <1>11, <1>12 DEF Next, Crash

LEMMA UnwrittenNext == TypeOK /\ Unwritten /\ [Next]_vars => Unwritten'
  <1> SUFFICES ASSUME TypeOK, Unwritten, [Next]_vars PROVE Unwritten'
    OBVIOUS
  <1>1. RunsMove
    BY RunsNext
  <1>2. ASSUME NEW r \in Runs, commit_assets(r) PROVE Unwritten'
    <2>1. run[r].scope \in SUBSET Subjects /\ run[r].at = "commit_assets"
      BY <1>2 DEF TypeOK, RunStates, commit_assets, At
    <2>2. /\ Moves(r, {"commit_assets"}, {"commit_flows"})
          /\ \A q \in Runs \ {r} : run'[q] = run[q]
      BY <1>2, <2>1, GotoMoves DEF commit_assets, Steps, InFlight
    <2> QED
      BY <1>2, <2>1, <2>2, BatchType DEF commit_assets, Writers, Unwritten, Moves
  <1>3. ASSUME NEW r \in Runs, commit_flows(r) PROVE Unwritten'
    <2>1. run[r].moves \in SUBSET Subjects /\ run[r].at = "commit_flows"
      BY <1>3 DEF TypeOK, RunStates, commit_flows, At
    <2>2. /\ Moves(r, {"commit_flows"}, {"record_findings"})
          /\ \A q \in Runs \ {r} : run'[q] = run[q]
      <3>1. run' = Goto(r, "record_findings")
        BY <1>3 DEF commit_flows
      <3> QED
        BY <2>1, <3>1, GotoMoves DEF Steps, InFlight
    <2>3. \A q \in Runs, s \in Subjects :
            /\ fact'[q]["assets_manager"][s] = fact[q]["assets_manager"][s]
            /\ q # r => fact'[q]["cash_flow"][s] = fact[q]["cash_flow"][s]
      BY <1>3, <2>1, BatchType DEF commit_flows, Writers
    <2> QED
      BY <2>2, <2>3 DEF Unwritten, Moves
  <1>4. ASSUME \A r \in Runs : ~commit_assets(r) /\ ~commit_flows(r) PROVE Unwritten'
    <2>1. \A r \in Runs, w \in Writers, s \in Subjects :
            fact[r][w][s] = "none" => fact'[r][w][s] = "none"
      <3>1. CASE UNCHANGED fact
        BY <3>1
      <3>2. ASSUME NEW p \in Answerers, NEW f \in finding, NEW d \in Answers, resolveFinding(p, f, d)
            PROVE  \A r \in Runs, w \in Writers, s \in Subjects :
                     fact[r][w][s] = "none" => fact'[r][w][s] = "none"
        <4>1. f \in Findings
          BY DEF TypeOK
        <4> QED
          BY <3>2, <4>1, AnswerType DEF resolveFinding
      <3>3. ASSUME NEW c \in answering, release(c)
            PROVE  \A r \in Runs, w \in Writers, s \in Subjects :
                     fact[r][w][s] = "none" => fact'[r][w][s] = "none"
        <4>1. c.finding \in Findings
          BY DEF TypeOK, Calls
        <4> QED
          BY <3>3, <4>1, ReleaseType DEF release
      <3> QED
        BY <1>4, <3>1, <3>2, <3>3
        DEF Next, vars, rows, answers, NightlyStep, Start, reconcile, record_findings,
            notify, emit, hold, Crash, CrashInHandler, Die, Upgrade, appendResolution,
            AbortAnswer
    <2>2. ASSUME NEW r \in Runs, Moves(r, {"commit_assets"}, {"commit_flows"})
          PROVE  \A s \in Subjects : fact[r]["cash_flow"][s] = "none"
      BY <2>2 DEF Unwritten, Moves
    <2> QED
      BY <1>1, <2>1 DEF RunsMove, Moves, Unwritten, Writers
  <1> QED
    BY <1>2, <1>3, <1>4

(* No fact is changed after it settled.                                    *)
THEOREM SettledFactsStay == Spec => SettledStays
  <1>1. Init => Unwritten
    BY DEF Init, Unwritten, Writers
  <1>2. TypeOK /\ Unwritten /\ [Next]_vars =>
          [\A r \in Runs, w \in Writers, s \in Subjects :
             fact[r][w][s] \in {"clean", "accepted", "kept"}
               => fact'[r][w][s] = fact[r][w][s]]_vars
    BY FactsNext DEF FactsMove
  <1> QED
    BY <1>1, <1>2, TypeInit, TypeNext, UnwrittenNext, PTL DEF Spec, SettledStays

-----------------------------------------------------------------------------
(* What is held has a question.                                            *)

(* Rows refer to rows that exist, and a run's findings are written when it *)
(* has left record_findings.                                               *)
Asking == {"idle", "fetch", "commit_assets", "commit_flows", "record_findings"}

RowsKnown ==
  /\ \A f \in finding : run[f.run].at \notin Asking
  /\ resolution \subseteq finding
  /\ \A c \in answering : c.finding \in finding

LEMMA RowsKnownNext == TypeOK /\ RowsKnown /\ [Next]_vars => RowsKnown'
  <1> SUFFICES ASSUME TypeOK, RowsKnown, [Next]_vars PROVE RowsKnown'
    OBVIOUS
  <1>1. \A r \in Runs : run[r].at \notin Asking => run'[r].at \notin Asking
    BY RunsNext DEF RunsMove, Moves, Asking
  <1>2. \A f \in finding : f.run \in Runs
    BY DEF TypeOK, Findings
  <1>3. \A f \in finding : run'[f.run].at \notin Asking
    BY <1>1, <1>2 DEF RowsKnown
  <1>4. CASE UNCHANGED <<finding, resolution>> /\ answering' \in SUBSET answering
    BY <1>3, <1>4 DEF RowsKnown
  <1>5. ASSUME NEW r \in Runs, finding' = finding \cup Recorded(r),
               NEW fs \in SUBSET Moot(r), resolution' = resolution \cup fs,
               answering' = answering, run'[r].at \notin Asking
        PROVE  RowsKnown'
    <2>1. \A f \in Recorded(r) : f.run = r
      BY DEF Recorded
    <2>2. fs \subseteq finding
      BY DEF Moot, Open
    <2>3. \A f \in finding' : run'[f.run].at \notin Asking
      BY <1>3, <1>5, <2>1
    <2> QED
      BY <1>5, <2>2, <2>3 DEF RowsKnown
  <1>6. ASSUME NEW r \in Runs, record_findings(r) PROVE RowsKnown'
    <2>1. run'[r].at \in {"notify", "hold"}
      <3>1. AfterGate(r) \in {"notify", "hold"}
        BY DEF AfterGate
      <3>2. run' = Goto(r, AfterGate(r))
        BY <1>6 DEF record_findings
      <3>3. AfterGate(r) \in Steps /\ run[r] \in RunStates
        BY <3>1 DEF TypeOK, Steps, InFlight
      <3>4. run'[r] = [run[r] EXCEPT !.at = AfterGate(r)]
        BY <3>2, <3>3, GotoType
      <3> QED
        BY <3>1, <3>3, <3>4 DEF RunStates
    <2>2. /\ finding' = finding \cup Recorded(r) /\ resolution' = resolution \cup Moot(r)
          /\ answering' = answering
      BY <1>6 DEF record_findings, answers
    <2> QED
      BY <1>5, <2>1, <2>2 DEF Asking
  <1>7. ASSUME NEW r \in Runs, CrashInHandler(r) PROVE RowsKnown'
    <2>1. CASE At(r, "record_findings") /\ finding' = finding \cup Recorded(r)
      <3>1. run' = Settled /\ run[r].at \in InFlight \ {"fetch"} /\ run[r] \in RunStates
        BY <1>7, <2>1 DEF CrashInHandler, Die, At, TypeOK, InFlight
      <3>2. run'[r].at = "failed"
        <4>1. run'[r] = [run[r] EXCEPT !.at = "failed"]
          BY <3>1, SettledType
        <4> QED
          BY <3>1, <4>1 DEF RunStates
      <3>3. answering' = answering
        BY <1>7 DEF CrashInHandler, Die, answers
      <3>4. PICK fs \in SUBSET Moot(r) : resolution' = resolution \cup fs
        BY <1>7, <2>1 DEF CrashInHandler, At
      <3> QED
        BY <1>5, <2>1, <3>2, <3>3, <3>4 DEF Asking
    <2>2. CASE UNCHANGED <<finding, resolution>>
      BY <1>4, <1>7, <2>2 DEF CrashInHandler, Die, answers
    <2> QED
      BY <1>7, <2>1, <2>2 DEF CrashInHandler
  <1>8. ASSUME NEW p \in Answerers, NEW f \in finding, NEW d \in Answers, resolveFinding(p, f, d) PROVE RowsKnown'
    BY <1>3, <1>8 DEF resolveFinding, RowsKnown
  <1>9. ASSUME NEW c \in answering, release(c) \/ appendResolution(c) PROVE RowsKnown'
    BY <1>3, <1>9 DEF release, appendResolution, RowsKnown, TypeOK, Calls
  <1> QED
    BY <1>4, <1>6, <1>7, <1>8, <1>9
    DEF Next, vars, rows, answers, NightlyStep, Start, reconcile, commit_assets,
        commit_flows, notify, emit, hold, Crash, Die, Upgrade, AbortAnswer

(* The strengthening of HeldHasQuestion: between a release withheld for    *)
(* another question and the end of the answer, that question stays open.   *)
Quiet == crashes = 0 /\ \A s \in Subjects : kind[s] = "feed"

HasOpen(s) == \E f \in Open : f.of.subject = s

(* About an account no answers tangled there is one answer at most, and    *)
(* before its release no batch of its finding's.                           *)
Tidy ==
  \A c \in answering : c.finding.of.subject \notin tangled =>
    /\ \A d \in answering : d.finding.of.subject = c.finding.of.subject => d = c
    /\ c.phase = "release" => \A w \in Writers : ~Replayed(c.finding, w)

Asked ==
  Quiet => \A s \in Subjects \ tangled : isProvisional(s) =>
             /\ Waiting(s) \/ HasOpen(s)
             /\ \A c \in answering : c.phase = "close" /\ c.finding.of.subject = s
                                       => Waiting(s) \/ StillHeld(c.finding)

LEMMA TidyNext == TypeOK /\ Tidy /\ [Next]_vars => Tidy'
  <1> SUFFICES ASSUME TypeOK, Tidy, [Next]_vars PROVE Tidy'
    OBVIOUS
  <1>1. CASE UNCHANGED <<answering, released, tangled>>
    BY <1>1 DEF Tidy, Replayed
  <1>2. ASSUME NEW p \in Answerers, NEW f \in finding, NEW d \in Answers, resolveFinding(p, f, d)
        PROVE  Tidy'
    <2> DEFINE new == [by |-> p, phase |-> "release", finding |-> f]
    <2>1. /\ answering' = answering \cup {new} /\ released' = released
          /\ tangled' = IF Tangles(f) THEN tangled \cup {f.of.subject} ELSE tangled
          /\ new.finding = f
      BY <1>2 DEF resolveFinding
    <2> HIDE DEF new
    <2> SUFFICES ASSUME NEW c \in answering', c.finding.of.subject \notin tangled'
                 PROVE  /\ \A e \in answering' :
                             e.finding.of.subject = c.finding.of.subject => e = c
                        /\ c.phase = "release" => \A w \in Writers : ~Replayed(c.finding, w)
      BY <2>1 DEF Tidy, Replayed
    <2>2. CASE c.finding.of.subject = f.of.subject
      <3>1. ~Tangles(f)
        BY <2>1, <2>2
      <3>2. \A e \in answering : e.finding.of.subject # f.of.subject
        BY <3>1 DEF Tangles
      <3>3. \A w \in Writers : ~Replayed(f, w)
        BY <3>1 DEF Tangles, Replayed
      <3> QED
        BY <2>1, <2>2, <3>2, <3>3
    <2>3. CASE c.finding.of.subject # f.of.subject
      BY <2>1, <2>3 DEF Tidy
    <2> QED
      BY <2>2, <2>3
  <1>3. ASSUME NEW c \in answering, release(c) PROVE Tidy'
    <2> DEFINE next == [c EXCEPT !.phase = "close"]
    <2>1. /\ answering' = (answering \ {c}) \cup {next} /\ tangled' = tangled
          /\ released' \subseteq released \cup Releases(c.finding)
      BY <1>3 DEF release
    <2>2. next.finding = c.finding /\ next.phase = "close"
      BY DEF TypeOK, Calls
    <2> HIDE DEF next
    <2>3. ASSUME NEW d \in answering', d.finding.of.subject \notin tangled,
                 NEW e \in answering', e.finding.of.subject = d.finding.of.subject
          PROVE  e = d
      BY <2>1, <2>2, <2>3 DEF Tidy
    <2>4. ASSUME NEW d \in answering', d.finding.of.subject \notin tangled,
                 d.phase = "release", NEW w \in Writers
          PROVE  [finding |-> d.finding, writer |-> w] \notin released'
      <3>1. d \in answering /\ d # c
        BY <2>1, <2>2, <2>4
      <3>2. d.finding # c.finding
        BY <2>4, <3>1 DEF Tidy
      <3>3. [finding |-> d.finding, writer |-> w] \notin Releases(c.finding)
        BY <3>2 DEF Releases
      <3> QED
        BY <2>1, <2>4, <3>1, <3>3 DEF Tidy, Replayed
    <2> QED
      BY <2>1, <2>3, <2>4 DEF Tidy, Replayed
  <1>4. ASSUME NEW c \in answering, appendResolution(c) \/ AbortAnswer(c) PROVE Tidy'
    BY <1>4 DEF appendResolution, AbortAnswer, Tidy, Replayed
  <1> QED
    BY <1>1, <1>2, <1>3, <1>4
    DEF Next, vars, rows, answers, NightlyStep, Start, reconcile, commit_assets, commit_flows,
        record_findings, notify, emit, hold, Crash, CrashInHandler, Die, Upgrade

(* Without a death a run waits on until it has left record_findings.       *)
LEMMA WaitingStays ==
  ASSUME TypeOK, RunsMove, crashes' = 0, NEW s \in Subjects, Waiting(s),
         \A r \in Runs : run[r].at = "record_findings" => run'[r] = run[r]
  PROVE  Waiting(s)'
  <1>1. PICK r \in Runs : run[r].at \in {"commit_flows", "record_findings"} /\ s \in Held(r)
    BY DEF Waiting
  <1>2. run'[r].at \in {"commit_flows", "record_findings"} /\ run'[r].drafts = run[r].drafts
    BY <1>1 DEF RunsMove, Moves, TypeOK
  <1>3. Held(r)' = Held(r)
    BY <1>2 DEF Held
  <1> QED
    BY <1>1, <1>2, <1>3 DEF Waiting

(* A step that adds no provisional fact, closes no finding and records no  *)
(* finding of a waiting run keeps what is asked.                           *)
LEMMA AskedKept ==
  ASSUME TypeOK, RunsMove, Asked, UNCHANGED <<finding, resolution, kind>>,
         tangled \subseteq tangled',
         crashes' = 0 => crashes = 0,
         \A s \in Subjects : isProvisional(s)' => isProvisional(s) \/ Waiting(s)',
         \A r \in Runs : run[r].at = "record_findings" => run'[r] = run[r],
         \A c \in answering' : c.phase = "close" => c \in answering
  PROVE  Asked'
  <1> SUFFICES ASSUME Quiet', NEW s \in Subjects, s \notin tangled', isProvisional(s)'
               PROVE  /\ Waiting(s)' \/ HasOpen(s)'
                      /\ \A c \in answering' : c.phase = "close" /\ c.finding.of.subject = s
                                           => Waiting(s)' \/ StillHeld(c.finding)'
    BY DEF Asked
  <1>1. Quiet
    BY DEF Quiet
  <1>2. Open' = Open
    BY DEF Open
  <1>3. Waiting(s) => Waiting(s)'
    BY WaitingStays DEF Quiet
  <1>4. CASE Waiting(s)'
    BY <1>4
  <1>5. CASE isProvisional(s)
    <2>1. HasOpen(s)' = HasOpen(s)
      BY <1>2 DEF HasOpen
    <2>2. \A f : StillHeld(f)' = StillHeld(f)
      BY <1>2 DEF StillHeld
    <2> QED
      BY <1>1, <1>3, <1>5, <2>1, <2>2 DEF Asked
  <1> QED
    BY <1>4, <1>5

(* A committed batch holds exactly what its run then waits to ask about.   *)
LEMMA AskedBatch ==
  ASSUME TypeOK, RunsMove, Asked, NEW r \in Runs, NEW w \in Writers,
         NEW subjects \in SUBSET Subjects,
         fact' = [fact EXCEPT ![r][w] = Batch(r, w, subjects)],
         run'[r].at \in {"commit_flows", "record_findings"},
         run'[r].drafts = run[r].drafts, run[r].at # "record_findings",
         \A q \in Runs \ {r} : run'[q] = run[q],
         UNCHANGED <<finding, resolution, kind, answering, crashes, tangled>>
  PROVE  Asked'
  <1>1. Held(r)' = Held(r)
    BY DEF Held
  <1>2. ASSUME NEW s \in Subjects, isProvisional(s)'
        PROVE  isProvisional(s) \/ Waiting(s)'
    <2>1. PICK q \in Runs, v \in Writers : fact'[q][v][s] = "provisional"
      BY <1>2 DEF isProvisional
    <2>2. CASE fact[q][v][s] = "provisional"
      BY <2>2 DEF isProvisional
    <2>3. CASE s \in Held(r)
      BY <1>1, <2>3 DEF Waiting
    <2>4. fact[q][v][s] = "provisional" \/ s \in Held(r)
      <3>1. fact'[q][v][s] = IF q = r /\ v = w /\ s \in subjects
                             THEN IF s \in Held(r) THEN "provisional" ELSE "clean"
                             ELSE fact[q][v][s]
        BY DEF Batch, TypeOK
      <3> QED
        BY <2>1, <3>1
    <2> QED
      BY <2>2, <2>3, <2>4
  <1> QED
    BY <1>2, AskedKept

(* Recording asks about every account the run holds; while every account   *)
(* is a feed no finding is moot.                                           *)
LEMMA AskedRecord ==
  ASSUME TypeOK, RowsKnown, Asked, RunsMove, NEW r \in Runs, record_findings(r)
  PROVE  Asked'
  <1> SUFFICES ASSUME Quiet', NEW s \in Subjects, s \notin tangled', isProvisional(s)'
               PROVE  /\ Waiting(s)' \/ HasOpen(s)'
                      /\ \A c \in answering' : c.phase = "close" /\ c.finding.of.subject = s
                                           => Waiting(s)' \/ StillHeld(c.finding)'
    BY DEF Asked
  <1>1. /\ finding' = finding \cup Recorded(r) /\ resolution' = resolution \cup Moot(r)
        /\ run' = Goto(r, AfterGate(r)) /\ run[r].at = "record_findings"
        /\ UNCHANGED <<fact, kind, answering, crashes, tangled>>
    BY DEF record_findings, At, answers
  <1>2. Quiet /\ isProvisional(s)
    BY <1>1 DEF Quiet, isProvisional
  <1>3. Moot(r) = {}
    <2>1. \A f \in Open : f.of.subject \in Subjects
      BY DisputedType DEF Open, TypeOK
    <2> QED
      BY <1>2, <2>1 DEF Moot, Quiet
  <1>4. resolution' = resolution
    BY <1>1, <1>3
  <1>5. \A f \in finding : f.run # r
    BY <1>1 DEF RowsKnown, Asking
  <1>6. Recorded(r) \cap finding = {}
    BY <1>5 DEF Recorded
  <1>7. Open' = Open \cup Recorded(r)
    BY <1>1, <1>4, <1>6 DEF Open, RowsKnown
  <1>8. CASE s \in Held(r)
    <2>1. PICK g \in Recorded(r) : g.of.subject = s
      <3>1. PICK d \in run[r].drafts : d.subject = s
        BY <1>8 DEF Held
      <3>2. [run |-> r, of |-> d] \in Recorded(r)
        BY DEF Recorded
      <3> QED
        BY <3>1, <3>2
    <2>2. HasOpen(s)'
      BY <1>7, <2>1 DEF HasOpen
    <2>3. ASSUME NEW c \in answering', c.finding.of.subject = s PROVE StillHeld(c.finding)'
      <3>1. c.finding # g
        BY <1>1, <1>6, <2>1, <2>3 DEF RowsKnown
      <3> QED
        BY <1>7, <2>1, <2>3, <3>1 DEF StillHeld
    <2> QED
      BY <2>2, <2>3
  <1>9. CASE s \notin Held(r)
    <2>1. Waiting(s) => Waiting(s)'
      <3> SUFFICES ASSUME Waiting(s) PROVE Waiting(s)'
        OBVIOUS
      <3>1. PICK q \in Runs : run[q].at \in {"commit_flows", "record_findings"} /\ s \in Held(q)
        BY DEF Waiting
      <3>2. q # r
        BY <1>9, <3>1
      <3>3. AfterGate(r) \in Steps
        BY DEF AfterGate, Steps, InFlight
      <3>4. run'[q] = run[q]
        BY <1>1, <3>2, <3>3, GotoType
      <3>5. Held(q)' = Held(q)
        BY <3>4 DEF Held
      <3> QED
        BY <3>1, <3>4, <3>5 DEF Waiting
    <2>2. HasOpen(s) => HasOpen(s)'
      BY <1>7 DEF HasOpen
    <2>3. \A f : StillHeld(f) => StillHeld(f)'
      BY <1>7 DEF StillHeld
    <2> QED
      BY <1>1, <1>2, <2>1, <2>2, <2>3 DEF Asked
  <1> QED
    BY <1>8, <1>9

(* An account is released when no other finding holds it, else that        *)
(* finding is still there when the answer is closed.                       *)
LEMMA AskedRelease ==
  ASSUME TypeOK, Asked, Tidy, NEW c \in answering, release(c)
  PROVE  Asked'
  <1> SUFFICES ASSUME Quiet', NEW s \in Subjects, s \notin tangled', isProvisional(s)'
               PROVE  /\ Waiting(s)' \/ HasOpen(s)'
                      /\ \A d \in answering' : d.phase = "close" /\ d.finding.of.subject = s
                                           => Waiting(s)' \/ StillHeld(d.finding)'
    BY DEF Asked
  <1> DEFINE next == [c EXCEPT !.phase = "close"]
  <1>1. /\ answering' = (answering \ {c}) \cup {next} /\ c.phase = "release"
        /\ UNCHANGED <<run, finding, resolution, kind, crashes, tangled>>
    BY DEF release
  <1>2. c \in Calls /\ c.finding \in Findings /\ next.finding = c.finding
    BY DEF TypeOK, Calls
  <1> HIDE DEF next
  <1>3. Open' = Open /\ Waiting(s)' = Waiting(s)
    BY <1>1 DEF Open, Waiting, Held
  <1>4. isProvisional(s)
    <2>1. CASE UNCHANGED fact
      BY <2>1 DEF isProvisional
    <2>2. CASE ReleaseSubject(c.finding)
      BY <1>2, <2>2, ReleaseType DEF isProvisional
    <2> QED
      BY <2>1, <2>2 DEF release
  <1>5. s = c.finding.of.subject => StillHeld(c.finding)
    <2> SUFFICES ASSUME s = c.finding.of.subject, ~StillHeld(c.finding) PROVE FALSE
      OBVIOUS
    <2>1. ReleaseSubject(c.finding) /\ \A w \in Writers : ~Replayed(c.finding, w)
      BY <1>1 DEF release, Tidy
    <2>2. PICK r \in Runs, w \in Writers : fact'[r][w][s] = "provisional"
      BY DEF isProvisional
    <2>3. fact'[r][w][s] = IF /\ s = c.finding.of.subject
                              /\ fact[r][w][s] = "provisional" /\ ~Replayed(c.finding, w)
                           THEN "accepted" ELSE fact[r][w][s]
      BY <1>2, <2>1, ReleaseType
    <2>4. ~Replayed(c.finding, w)
      BY <2>1
    <2> QED
      BY <2>2, <2>3, <2>4
  <1>6. Quiet
    BY <1>1 DEF Quiet
  <1>7. \A f : StillHeld(f)' = StillHeld(f)
    BY <1>3 DEF StillHeld
  <1>8. Waiting(s)' \/ HasOpen(s)'
    BY <1>1, <1>3, <1>4, <1>6 DEF Asked, HasOpen
  <1>9. ASSUME NEW d \in answering', d.phase = "close", d.finding.of.subject = s
        PROVE  Waiting(s)' \/ StillHeld(d.finding)'
    <2>1. CASE d = next
      BY <1>2, <1>5, <1>7, <1>9, <2>1
    <2>2. CASE d \in answering
      BY <1>1, <1>3, <1>4, <1>6, <1>7, <1>9, <2>2 DEF Asked
    <2> QED
      BY <1>1, <2>1, <2>2
  <1> QED
    BY <1>8, <1>9

(* Closing a finding leaves the account it did not release with another.   *)
LEMMA AskedClose ==
  ASSUME TypeOK, Asked, Tidy, NEW c \in answering, appendResolution(c)
  PROVE  Asked'
  <1> SUFFICES ASSUME Quiet', NEW s \in Subjects, s \notin tangled', isProvisional(s)'
               PROVE  /\ Waiting(s)' \/ HasOpen(s)'
                      /\ \A d \in answering' : d.phase = "close" /\ d.finding.of.subject = s
                                           => Waiting(s)' \/ StillHeld(d.finding)'
    BY DEF Asked
  <1>1. /\ c.phase = "close"
        /\ resolution' = resolution \cup {c.finding} /\ answering' = answering \ {c}
        /\ UNCHANGED <<run, fact, finding, kind, crashes, tangled>>
    BY DEF appendResolution
  <1>2. Quiet /\ isProvisional(s) /\ Waiting(s)' = Waiting(s) /\ s \notin tangled
    BY <1>1 DEF Quiet, isProvisional, Waiting, Held
  <1>3. Open' = Open \ {c.finding}
    BY <1>1 DEF Open
  <1>4. CASE c.finding.of.subject = s
    <2>1. Waiting(s)' \/ HasOpen(s)'
      BY <1>1, <1>2, <1>3, <1>4 DEF Asked, StillHeld, HasOpen
    <2>2. \A d \in answering' : d.finding.of.subject # s
      BY <1>1, <1>2, <1>4 DEF Tidy
    <2> QED
      BY <2>1, <2>2
  <1>5. CASE c.finding.of.subject # s
    <2>1. HasOpen(s) => HasOpen(s)'
      BY <1>3, <1>5 DEF HasOpen
    <2>2. ASSUME NEW f, f.of.subject = s, StillHeld(f) PROVE StillHeld(f)'
      BY <1>3, <1>5, <2>2 DEF StillHeld
    <2> QED
      BY <1>1, <1>2, <2>1, <2>2 DEF Asked
  <1> QED
    BY <1>4, <1>5

LEMMA AskedNext == TypeOK /\ RowsKnown /\ Tidy /\ Asked /\ [Next]_vars => Asked'
  <1> SUFFICES ASSUME TypeOK, RowsKnown, Tidy, Asked, [Next]_vars PROVE Asked'
    OBVIOUS
  <1>1. RunsMove
    BY RunsNext
  <1>2. ASSUME NEW r \in Runs, commit_assets(r) PROVE Asked'
    <2>1. /\ run[r].scope \in SUBSET Subjects /\ run[r].at = "commit_assets"
          /\ run' = Goto(r, "commit_flows")
      BY <1>2 DEF TypeOK, RunStates, commit_assets, At
    <2>2. /\ Moves(r, {"commit_assets"}, {"commit_flows"})
          /\ \A q \in Runs \ {r} : run'[q] = run[q]
      BY <2>1, GotoMoves DEF Steps, InFlight
    <2> QED
      BY <1>1, <1>2, <2>1, <2>2, AskedBatch DEF commit_assets, Moves, Writers, answers
  <1>3. ASSUME NEW r \in Runs, commit_flows(r) PROVE Asked'
    <2>1. /\ run[r].moves \in SUBSET Subjects /\ run[r].at = "commit_flows"
          /\ run' = Goto(r, "record_findings")
      BY <1>3 DEF TypeOK, RunStates, commit_flows, At
    <2>2. /\ Moves(r, {"commit_flows"}, {"record_findings"})
          /\ \A q \in Runs \ {r} : run'[q] = run[q]
      BY <2>1, GotoMoves DEF Steps, InFlight
    <2> QED
      BY <1>1, <1>3, <2>1, <2>2, AskedBatch DEF commit_flows, Moves, Writers, answers
  <1>4. ASSUME NEW r \in Runs, record_findings(r) PROVE Asked'
    BY <1>1, <1>4, AskedRecord
  <1>5. ASSUME NEW r \in Runs,
               Start(r) \/ reconcile(r) \/ notify(r) \/ emit(r) \/ hold(r)
        PROVE  Asked'
    <2>1. /\ UNCHANGED <<fact, finding, resolution, kind, answering, crashes, tangled>>
          /\ run[r].at # "record_findings"
      BY <1>5 DEF Start, reconcile, notify, emit, hold, At, rows, answers
    <2>2. \A q \in Runs \ {r} : run'[q] = run[q]
      BY <1>5 DEF Start, reconcile, notify, emit, hold, Goto, TypeOK
    <2>3. \A s \in Subjects : isProvisional(s)' => isProvisional(s)
      BY <2>1 DEF isProvisional
    <2> QED
      BY <1>1, <2>1, <2>2, <2>3, AskedKept
  <1>6. ASSUME NEW p \in Answerers, NEW f \in finding, NEW d \in Answers, resolveFinding(p, f, d) PROVE Asked'
    <2>1. f \in Findings
      BY DEF TypeOK
    <2>2. \A s \in Subjects : isProvisional(s)' => isProvisional(s)
      BY <1>6, <2>1, AnswerType DEF resolveFinding, isProvisional
    <2> QED
      BY <1>1, <1>6, <2>2, AskedKept DEF resolveFinding
  <1>7. ASSUME (\E c \in answering : AbortAnswer(c)) \/ UNCHANGED vars PROVE Asked'
    <2>1. /\ UNCHANGED <<run, fact, finding, resolution, kind, crashes, tangled>>
          /\ answering' \in SUBSET answering
      BY <1>7 DEF AbortAnswer, vars, rows, answers
    <2>2. \A s \in Subjects : isProvisional(s)' => isProvisional(s)
      BY <2>1 DEF isProvisional
    <2> QED
      BY <1>1, <2>1, <2>2, AskedKept
  <1>8. ASSUME Die PROVE Asked'
    BY <1>8 DEF Die, Asked, Quiet, TypeOK
  <1>9. ASSUME NEW s \in Subjects, Upgrade(s) PROVE Asked'
    <2>1. kind'[s] # "feed"
      BY <1>9, KindsAssumption DEF Upgrade, TypeOK
    <2> QED
      BY <2>1 DEF Asked, Quiet
  <1> QED
    BY <1>2, <1>3, <1>4, <1>5, <1>6, <1>7, <1>8, <1>9, AskedRelease, AskedClose
    DEF Next, NightlyStep, Crash, CrashInHandler

(* While no host died and every account is a feed, what is held has an     *)
(* open question or a run about to ask it.                                 *)
THEOREM HeldFactsHaveQuestions == Spec => []HeldHasQuestion
  <1>1. Init => RowsKnown /\ Tidy /\ Asked
    BY DEF Init, RowsKnown, Tidy, Asked, isProvisional
  <1>2. Asked => HeldHasQuestion
    BY DEF Asked, HeldHasQuestion, Quiet, HasOpen, Questioned
  <1> QED
    BY <1>1, <1>2, TypeInit, TypeNext, RowsKnownNext, TidyNext, AskedNext, PTL DEF Spec

-----------------------------------------------------------------------------
(* A disputed fact waits for its own answer.                               *)

(* A run asks one question of each sort about an account.                  *)
OneOfASort(drafts) ==
  \A d, e \in drafts : d.code = e.code /\ d.subject = e.subject => d = e

OneEach ==
  /\ \A r \in Runs : OneOfASort(run[r].drafts)
  /\ \A f, g \in finding :
       f.run = g.run /\ f.of.code = g.of.code /\ f.of.subject = g.of.subject => f = g

LEMMA DetectedOnce ==
  ASSUME NEW scope, NEW as_of \in [scope -> {0} \cup Dates], NEW twice
  PROVE  OneOfASort(suppressKnown(Detected(as_of, twice)))
  <1>1. OneOfASort(Detected(as_of, twice))
    BY DEF OneOfASort, Detected
  <1> QED
    BY <1>1 DEF OneOfASort, suppressKnown

LEMMA OneEachNext == TypeOK /\ RowsKnown /\ OneEach /\ [Next]_vars => OneEach'
  <1> SUFFICES ASSUME TypeOK, RowsKnown, OneEach, [Next]_vars PROVE OneEach'
    OBVIOUS
  <1>1. ASSUME NEW r \in Runs PROVE OneOfASort(run'[r].drafts)
    <2>1. CASE \E q \in Runs : reconcile(q)
      <3>1. PICK q \in Runs : reconcile(q)
        BY <2>1
      <3>2. PICK scope \in SUBSET Subjects :
              \E as_of \in [scope -> {0} \cup Dates], moves \in SUBSET Subjects :
              \E twice \in SUBSET moves :
                run' = [run EXCEPT ![q] =
                          [at |-> "commit_assets", scope |-> scope, moves |-> moves,
                           drafts |-> suppressKnown(Detected(as_of, twice))]]
        BY <3>1 DEF reconcile
      <3>3. PICK as_of \in [scope -> {0} \cup Dates], moves \in SUBSET Subjects,
                 twice \in SUBSET Subjects :
              run' = [run EXCEPT ![q] =
                        [at |-> "commit_assets", scope |-> scope, moves |-> moves,
                         drafts |-> suppressKnown(Detected(as_of, twice))]]
        BY <3>2
      <3>4. run'[r].drafts = run[r].drafts
              \/ run'[r].drafts = suppressKnown(Detected(as_of, twice))
        BY <3>3 DEF TypeOK
      <3> QED
        BY <3>4, DetectedOnce DEF OneEach
    <2>2. CASE \A q \in Runs : ~reconcile(q)
      <3>1. run'[r].drafts = run[r].drafts
        <4>1. run[r] \in RunStates
          BY DEF TypeOK
        <4>2. CASE UNCHANGED run
          BY <4>2
        <4>3. ASSUME NEW q \in Runs, NEW step, run' = Goto(q, step)
              PROVE  run'[r].drafts = run[r].drafts
          BY <4>1, <4>3 DEF Goto, TypeOK, RunStates
        <4>4. CASE run' = Settled
          BY <4>1, <4>4 DEF Settled, RunStates
        <4>5. ASSUME NEW q \in Runs, Start(q) \/ NightlyStep(q) \/ CrashInHandler(q)
              PROVE  run'[r].drafts = run[r].drafts
          BY <2>2, <4>3, <4>4, <4>5
          DEF NightlyStep, Start, commit_assets, commit_flows, record_findings, notify, emit,
              hold, CrashInHandler, Die
        <4> QED
          BY <4>2, <4>4, <4>5
          DEF Next, vars, rows, answers, Crash, Die, AbortAnswer, release,
              appendResolution, Upgrade, resolveFinding
      <3> QED
        BY <3>1 DEF OneEach
    <2> QED
      BY <2>1, <2>2
  <1>2. ASSUME NEW f \in finding', NEW g \in finding',
               f.run = g.run, f.of.code = g.of.code, f.of.subject = g.of.subject
        PROVE  f = g
    <2>1. ASSUME NEW r \in Runs, At(r, "record_findings"), finding' = finding \cup Recorded(r)
          PROVE  f = g
      <3>1. \A h \in finding : h.run # r
        BY <2>1 DEF RowsKnown, Asking, At
      <3>2. \A h \in Recorded(r) : h.run = r /\ h.of \in run[r].drafts
                                     /\ h = [run |-> r, of |-> h.of]
        BY DEF Recorded
      <3>3. CASE f \in finding
        BY <1>2, <2>1, <3>1, <3>2, <3>3 DEF OneEach
      <3>4. CASE f \in Recorded(r)
        <4>1. g \in Recorded(r)
          BY <1>2, <2>1, <3>1, <3>2, <3>4
        <4>2. f.of = g.of
          BY <1>2, <3>2, <3>4, <4>1 DEF OneEach, OneOfASort
        <4> QED
          BY <3>2, <3>4, <4>1, <4>2
      <3> QED
        BY <2>1, <3>3, <3>4
    <2>2. CASE UNCHANGED finding
      BY <1>2, <2>2 DEF OneEach
    <2> QED
      BY <2>1, <2>2
      DEF Next, vars, rows, answers, NightlyStep, Start, reconcile, commit_assets,
          commit_flows, record_findings, notify, emit, hold, Crash, CrashInHandler, Upgrade,
          resolveFinding, release, appendResolution, AbortAnswer
  <1> QED
    BY <1>1, <1>2 DEF OneEach

LEMMA OwnAnswerNext ==
  ASSUME TypeOK, RowsKnown, OneEach, [Next]_vars, NEW f \in Open,
         Disputed(f) = "provisional", Disputed(f)' # "provisional"
  PROVE  \E c \in answering \cup answering' : c.finding = f
  <1>1. /\ f \in finding /\ f \in Findings /\ f.run \in Runs /\ f.of.subject \in Subjects
        /\ WriterOf(f.of) \in Writers /\ run[f.run].at \notin Asking
    BY DisputedType DEF Open, TypeOK, RowsKnown
  <1>2. ~UNCHANGED fact
    BY DEF Disputed
  <1>3. ASSUME NEW r \in Runs, NEW w \in Writers, NEW subjects \in SUBSET Subjects,
               fact' = [fact EXCEPT ![r][w] = Batch(r, w, subjects)], run[r].at \in Asking
        PROVE  FALSE
    <2>1. f.run # r
      BY <1>1, <1>3
    <2> QED
      BY <1>1, <1>3, <2>1 DEF Disputed, TypeOK
  <1>4. ASSUME NEW r \in Runs, commit_assets(r) \/ commit_flows(r) PROVE FALSE
    <2>1. /\ run[r].at \in Asking
          /\ run[r].scope \in SUBSET Subjects /\ run[r].moves \in SUBSET Subjects
      BY <1>4 DEF commit_assets, commit_flows, At, Asking, TypeOK, RunStates
    <2> QED
      BY <1>3, <1>4, <2>1 DEF commit_assets, commit_flows, Writers
  <1>5. ASSUME NEW p \in Answerers, NEW g \in finding, NEW d \in Answers, resolveFinding(p, g, d)
        PROVE  \E c \in answering \cup answering' : c.finding = f
    <2>1. g \in Findings /\ g.of \in Fingerprints /\ f.of \in Fingerprints
      BY <1>1, DisputedType DEF TypeOK
    <2>2. g.run = f.run /\ WriterOf(g.of) = WriterOf(f.of) /\ g.of.subject = f.of.subject
      <3>1. AnswerFact(g, d)
        BY <1>5 DEF resolveFinding
      <3>2. g.run \in Runs /\ g.of.subject \in Subjects /\ WriterOf(g.of) \in Writers
        BY <2>1, DisputedType
      <3> DEFINE n == IF d = "keep_prior" THEN "kept" ELSE "accepted"
      <3>3. fact' = [fact EXCEPT ![g.run][WriterOf(g.of)][g.of.subject] = n]
        BY <1>2, <3>1 DEF AnswerFact
      <3> HIDE DEF n
      <3> QED
        BY <1>1, <3>2, <3>3 DEF Disputed, TypeOK
    <2>3. g.of.code = f.of.code
      BY <2>1, <2>2 DEF WriterOf, Fingerprints
    <2>4. g = f
      BY <1>1, <2>2, <2>3 DEF OneEach
    <2>5. [by |-> p, phase |-> "release", finding |-> g] \in answering'
      BY <1>5 DEF resolveFinding
    <2> QED
      BY <2>4, <2>5
  <1>6. ASSUME NEW c \in answering, release(c)
        PROVE  \E d \in answering \cup answering' : d.finding = f
    <2>1. c.finding \in Findings
      BY DEF TypeOK, Calls
    <2>2. ~StillHeld(c.finding) /\ ReleaseSubject(c.finding)
      BY <1>2, <1>6 DEF release
    <2>3. c.finding.of.subject = f.of.subject
      BY <1>1, <2>1, <2>2, ReleaseType DEF Disputed
    <2>4. c.finding = f
      BY <2>2, <2>3 DEF StillHeld
    <2> QED
      BY <2>4
  <1> QED
    BY <1>2, <1>4, <1>5, <1>6
    DEF Next, vars, rows, answers, NightlyStep, Start, reconcile, record_findings, notify,
        emit, hold, Crash, CrashInHandler, Die, Upgrade, appendResolution, AbortAnswer

(* Only the answer to its own question settles a disputed fact.            *)
THEOREM OwnAnswerSettlesIt == Spec => OwnAnswerSettles
  <1>1. Init => RowsKnown /\ OneEach
    BY DEF Init, RowsKnown, OneEach, OneOfASort, Idle
  <1>2. TypeOK /\ RowsKnown /\ OneEach /\ [Next]_vars =>
          [\A f \in Open :
             Disputed(f) = "provisional" /\ Disputed(f)' # "provisional"
               => \E c \in answering \cup answering' : c.finding = f]_vars
    BY OwnAnswerNext
  <1> QED
    BY <1>1, <1>2, TypeInit, TypeNext, RowsKnownNext, OneEachNext, PTL
    DEF Spec, OwnAnswerSettles

(* The operator's answers stand, for any nightlies, answers and deaths.    *)
THEOREM AnswersAlwaysStand == Spec => AnswersStand
  BY OwnAnswerSettlesIt, SettledFactsStay DEF AnswersStand

-----------------------------------------------------------------------------
(* Nights that overlap.                                                    *)

LEMMA GotoKeeps ==
  ASSUME TypeOK, NEW r \in Runs, NEW step \in Steps, run' = Goto(r, step)
  PROVE  /\ run'[r].at = step
         /\ run'[r].scope = run[r].scope /\ run'[r].drafts = run[r].drafts
         /\ \A q \in Runs \ {r} : run'[q] = run[q]
  <1>1. run[r] \in RunStates
    BY DEF TypeOK
  <1>2. run'[r] = [run[r] EXCEPT !.at = step] /\ \A q \in Runs \ {r} : run'[q] = run[q]
    BY GotoType
  <1> QED
    BY <1>1, <1>2 DEF RunStates

(* A step moves one run, or a death moves those under way, or none.        *)
LEMMA OneRunMoves ==
  ASSUME TypeOK, [Next]_vars
  PROVE  \/ UNCHANGED run
         \/ \A q \in Runs : \/ run'[q] = run[q]
                            \/ run'[q] = [run[q] EXCEPT !.at = "failed"]
         \/ \E r \in Runs : /\ Start(r) \/ NightlyStep(r)
                            /\ \A q \in Runs \ {r} : run'[q] = run[q]
  <1>1. ASSUME NEW r \in Runs, Start(r) \/ NightlyStep(r)
        PROVE  \A q \in Runs \ {r} : run'[q] = run[q]
    <2>1. (\E step \in Steps : run' = Goto(r, step)) \/ reconcile(r)
      BY <1>1 DEF Start, NightlyStep, commit_assets, commit_flows, record_findings, AfterGate,
                  notify, emit, hold, Steps, InFlight
    <2>2. CASE \E step \in Steps : run' = Goto(r, step)
      BY <2>2, GotoKeeps
    <2>3. CASE reconcile(r)
      BY <2>3 DEF reconcile, TypeOK
    <2> QED
      BY <2>1, <2>2, <2>3
  <1>2. CASE run' = Settled
    BY <1>2, SettledType
  <1> QED
    BY <1>1, <1>2
    DEF Next, vars, rows, answers, Crash, CrashInHandler, Die, AbortAnswer, release,
        appendResolution, Upgrade, resolveFinding

(* What happens to the open questions: a run asks its own, or some close.  *)
LEMMA OpenNext ==
  ASSUME TypeOK, [Next]_vars
  PROVE  \/ Open' \subseteq Open /\ finding' = finding
         \/ \E r \in Runs : /\ At(r, "record_findings")
                            /\ run'[r].at \notin Asking
                            /\ finding' = finding \cup Recorded(r)
                            /\ Open' \subseteq Open \cup Recorded(r)
                            /\ meantime' = Behind(r, ToAsk)
                            /\ \A q \in Runs \ {r} : run'[q] = run[q] \/ run'[q].at = "failed"
  <1>1. ASSUME finding' = finding, resolution \subseteq resolution' PROVE Open' \subseteq Open
    BY <1>1 DEF Open
  <1>2. ASSUME NEW r \in Runs, record_findings(r) \/ (CrashInHandler(r) /\ At(r, "record_findings"))
        PROVE  /\ run'[r].at \notin Asking
               /\ Open' \subseteq Open \cup Recorded(r)
               /\ finding' = finding \cup Recorded(r) /\ meantime' = Behind(r, ToAsk)
               /\ \A q \in Runs \ {r} : run'[q] = run[q] \/ run'[q].at = "failed"
    <2>1. /\ Open' \subseteq Open \cup Recorded(r)
          /\ finding' = finding \cup Recorded(r) /\ meantime' = Behind(r, ToAsk)
      BY <1>2 DEF record_findings, CrashInHandler, At, Open
    <2>2. CASE record_findings(r)
      <3>1. AfterGate(r) \in Steps /\ AfterGate(r) \notin Asking
        BY DEF AfterGate, Steps, InFlight, Asking
      <3> QED
        BY <2>1, <2>2, <3>1, GotoKeeps DEF record_findings
    <2>3. CASE CrashInHandler(r) /\ At(r, "record_findings")
      <3>1. run' = Settled /\ run[r].at \in InFlight \ {"fetch"} /\ run[r] \in RunStates
        BY <2>3 DEF CrashInHandler, Die, At, InFlight, TypeOK
      <3>2. run'[r] = [run[r] EXCEPT !.at = "failed"]
        BY <3>1, SettledType
      <3>3. \A q \in Runs \ {r} : run'[q] = run[q] \/ run'[q].at = "failed"
        BY <3>1, SettledType DEF TypeOK, RunStates
      <3> QED
        BY <2>1, <3>1, <3>2, <3>3 DEF RunStates, Asking
    <2> QED
      BY <1>2, <2>1, <2>2, <2>3
  <1>3. ASSUME NEW r \in Runs, CrashInHandler(r), ~At(r, "record_findings")
        PROVE  finding' = finding /\ resolution' = resolution
    BY <1>3 DEF CrashInHandler
  <1>4. ASSUME \A r \in Runs : /\ ~record_findings(r)
                               /\ ~(CrashInHandler(r) /\ At(r, "record_findings"))
        PROVE  finding' = finding /\ resolution \subseteq resolution'
    BY <1>3, <1>4
    DEF Next, vars, rows, answers, NightlyStep, Start, reconcile, commit_assets, commit_flows,
        notify, emit, hold, Crash, Die, Upgrade, resolveFinding, release, appendResolution,
        AbortAnswer
  <1>5. ASSUME NEW r \in Runs, record_findings(r) PROVE At(r, "record_findings")
    BY <1>5 DEF record_findings
  <1> QED
    BY <1>1, <1>2, <1>4, <1>5

(* What was written behind a run is forgotten only when it reads again.    *)
LEMMA MeantimeNext ==
  ASSUME TypeOK, [Next]_vars, NEW r \in Runs, run[r].at # "notify"
  PROVE  meantime[r] \subseteq meantime'[r]
  <1>1. ASSUME NEW q \in Runs, NEW steps, meantime' = Behind(q, steps)
        PROVE  meantime[r] \subseteq meantime'[r]
    BY <1>1, BehindType
  <1>2. ASSUME NEW q \in Runs, notify(q) PROVE meantime'[r] = meantime[r]
    BY <1>2 DEF notify, At, TypeOK
  <1> QED
    BY <1>1, <1>2
    DEF Next, vars, rows, answers, NightlyStep, Start, reconcile, commit_assets, commit_flows,
        record_findings, emit, hold, Crash, CrashInHandler, Die, Upgrade, resolveFinding, release,
        appendResolution, AbortAnswer

(* A run that asked holds: it never comes to notify.                       *)
AskersHold == \A f \in finding : run[f.run].at \in {"hold", "completed", "failed"}

LEMMA AskersHoldNext ==
  ASSUME TypeOK, AskersHold, [Next]_vars
  PROVE  AskersHold'
  <1>1. RunsMove
    BY RunsNext
  <1>2. \A r \in Runs : run[r].at \in {"hold", "completed", "failed"}
                          => run'[r].at \in {"hold", "completed", "failed"}
    BY <1>1 DEF RunsMove, Moves
  <1>3. \A f \in finding : f.run \in Runs
    BY DEF TypeOK, Findings
  <1>4. CASE finding' = finding
    BY <1>2, <1>3, <1>4 DEF AskersHold
  <1>5. ASSUME NEW r \in Runs, At(r, "record_findings"), run'[r].at \notin Asking,
               finding' = finding \cup Recorded(r)
        PROVE  AskersHold'
    <2>1. \A f \in Recorded(r) : f.run = r /\ run[r].drafts # {}
      BY DEF Recorded
    <2>2. run[r].drafts # {} => run'[r].at \in {"hold", "failed"}
      BY <1>1, <1>5 DEF RunsMove, Moves, At, Asking
    <2> QED
      BY <1>2, <1>3, <1>5, <2>1, <2>2 DEF AskersHold
  <1> QED
    BY <1>4, <1>5, OpenNext

(* What a run is about to ask is not open, but by a run that recorded it   *)
(* since this one looked.                                                  *)
NotYetAsked ==
  \A r \in Runs : run[r].at \in ToAsk =>
    \A d \in run[r].drafts, f \in Open : f.of = d => f.run \in meantime[r]

QuestionInv == TypeOK /\ AskersHold /\ NotYetAsked /\ OneQuestion

LEMMA NotYetAskedNext ==
  ASSUME QuestionInv, [Next]_vars
  PROVE  NotYetAsked'
  <1>0. TypeOK /\ RunsMove
    BY RunsNext DEF QuestionInv
  <1>1. ASSUME NEW r \in Runs, reconcile(r)
        PROVE  \A d \in run'[r].drafts, f \in Open : f.of # d
    <2>1. PICK drafts : run'[r].drafts = suppressKnown(drafts)
      BY <1>1 DEF reconcile, QuestionInv, TypeOK
    <2> QED
      BY <2>1 DEF suppressKnown, Open
  <1>2. ASSUME NEW r \in Runs, run[r].at = "fetch", run'[r].at = "commit_assets"
        PROVE  reconcile(r)
    <2>1. run'[r] # run[r] /\ run'[r] # [run[r] EXCEPT !.at = "failed"]
      BY <1>0, <1>2 DEF TypeOK, RunStates
    <2>2. Start(r) \/ NightlyStep(r)
      BY <1>0, <2>1, OneRunMoves
    <2>3. ~Start(r) /\ ~commit_assets(r) /\ ~commit_flows(r) /\ ~record_findings(r)
          /\ ~notify(r) /\ ~emit(r) /\ ~hold(r)
      BY <1>2 DEF Start, commit_assets, commit_flows, record_findings, notify, emit, hold, At
    <2> QED
      BY <2>2, <2>3 DEF NightlyStep
  <1> SUFFICES ASSUME NEW r \in Runs, run'[r].at \in ToAsk,
                      NEW d \in run'[r].drafts, NEW f \in Open', f.of = d
               PROVE  f.run \in meantime'[r]
    BY DEF NotYetAsked, ToAsk
  <1>3. CASE Open' \subseteq Open
    <2>1. ~(run[r].at = "fetch" /\ run'[r].at = "commit_assets")
      BY <1>1, <1>2, <1>3
    <2>2. run'[r].drafts = run[r].drafts /\ run[r].at \in ToAsk
      BY <1>0, <2>1 DEF RunsMove, Moves, ToAsk
    <2> QED
      BY <1>0, <1>3, <2>2, MeantimeNext DEF QuestionInv, NotYetAsked, ToAsk
  <1>4. ASSUME NEW q \in Runs, run'[q].at \notin Asking, Open' \subseteq Open \cup Recorded(q),
               meantime' = Behind(q, ToAsk),
               \A p \in Runs \ {q} : run'[p] = run[p] \/ run'[p].at = "failed"
        PROVE  f.run \in meantime'[r]
    <2>1. r # q
      BY <1>4 DEF ToAsk, Asking
    <2>2. run'[r] = run[r]
      BY <1>4, <2>1 DEF ToAsk
    <2>3. q \in meantime'[r] /\ meantime[r] \subseteq meantime'[r]
      BY <1>0, <1>4, <2>1, <2>2, BehindType
    <2>4. f \in Recorded(q) => f.run = q
      BY DEF Recorded
    <2>5. f \in Open => f.run \in meantime[r]
      BY <2>2 DEF QuestionInv, NotYetAsked
    <2> QED
      BY <1>4, <2>3, <2>4, <2>5
  <1> QED
    BY <1>0, <1>3, <1>4, OpenNext

LEMMA QuestionNext ==
  ASSUME QuestionInv, [Next]_vars
  PROVE  QuestionInv'
  <1>1. TypeOK' /\ AskersHold' /\ NotYetAsked'
    BY TypeNext, AskersHoldNext, NotYetAskedNext DEF QuestionInv
  <1>2. \A f \in Open : f.run \in Runs /\ meantime[f.run] \subseteq meantime'[f.run]
    <2> TAKE f \in Open
    <2>1. f.run \in Runs /\ run[f.run].at # "notify"
      BY DEF QuestionInv, AskersHold, TypeOK, Findings, Open
    <2> QED
      BY <2>1, MeantimeNext DEF QuestionInv
  <1>3. ASSUME NEW f \in Open, NEW g \in Open, f.of = g.of
        PROVE  f = g \/ f.run \in meantime'[g.run] \/ g.run \in meantime'[f.run]
    BY <1>2, <1>3 DEF QuestionInv, OneQuestion
  <1>4. CASE Open' \subseteq Open
    BY <1>1, <1>3, <1>4 DEF QuestionInv, OneQuestion
  <1>5. ASSUME NEW r \in Runs, At(r, "record_findings"), Open' \subseteq Open \cup Recorded(r),
               meantime' = Behind(r, ToAsk)
        PROVE  QuestionInv'
    <2>1. \A h \in Recorded(r) : h = [run |-> r, of |-> h.of] /\ h.run = r
                                    /\ h.of \in run[r].drafts
      BY DEF Recorded
    <2>2. \A h \in Open, d \in run[r].drafts : h.of = d => h.run \in meantime'[r]
      BY <1>5, BehindType DEF QuestionInv, NotYetAsked, At, ToAsk
    <2>3. ASSUME NEW f \in Open', NEW g \in Open', f.of = g.of
          PROVE  f = g \/ f.run \in meantime'[g.run] \/ g.run \in meantime'[f.run]
      <3>1. CASE f \in Open /\ g \in Open
        BY <1>3, <2>3, <3>1
      <3>2. CASE f \in Recorded(r) /\ g \in Recorded(r)
        BY <2>1, <2>3, <3>2
      <3>3. CASE f \in Open /\ g \in Recorded(r)
        BY <2>1, <2>2, <2>3, <3>3
      <3>4. CASE f \in Recorded(r) /\ g \in Open
        BY <2>1, <2>2, <2>3, <3>4
      <3> QED
        BY <1>5, <3>1, <3>2, <3>3, <3>4
    <2> QED
      BY <1>1, <2>3 DEF QuestionInv, OneQuestion
  <1> QED
    BY <1>4, <1>5, OpenNext DEF QuestionInv

(* Two open questions are about one thing only when the run of one wrote   *)
(* it behind the other's back, whatever is answered, upgraded and killed.  *)
THEOREM QuestionsAreOne == Spec => []OneQuestion
  <1>1. Init => QuestionInv
    BY TypeInit DEF Init, Idle, QuestionInv, AskersHold, NotYetAsked, ToAsk, OneQuestion, Open
  <1>2. QuestionInv /\ [Next]_vars => QuestionInv'
    BY QuestionNext
  <1>3. QuestionInv => OneQuestion
    BY DEF QuestionInv
  <1> QED
    BY <1>1, <1>2, <1>3, PTL DEF Spec

-----------------------------------------------------------------------------
(* Waking.                                                                 *)

(* A run that was let through the gate has nothing of its accounts held    *)
(* but by runs that committed since.                                       *)
Cleared ==
  \A r \in Runs : At(r, "emit") =>
    \A s \in run[r].scope, q \in Runs, w \in Writers :
      fact[q][w][s] = "provisional" => q \in meantime[r]

(* A new provisional fact comes with the run that commits it.              *)
LEMMA ProvisionalNext ==
  ASSUME TypeOK, [Next]_vars, NEW q \in Runs, NEW w \in Writers, NEW s \in Subjects,
         fact'[q][w][s] = "provisional", fact[q][w][s] # "provisional"
  PROVE  commit_assets(q) \/ commit_flows(q)
  <1>1. CASE UNCHANGED fact
    BY <1>1
  <1>2. ASSUME NEW p \in Answerers, NEW f \in finding, NEW d \in Answers, resolveFinding(p, f, d)
        PROVE  FALSE
    <2>1. f \in Findings /\ AnswerFact(f, d)
      BY <1>2 DEF resolveFinding, TypeOK
    <2> QED
      BY <2>1, AnswerType
  <1>3. ASSUME NEW c \in answering, release(c) PROVE FALSE
    <2>1. c.finding \in Findings
      BY DEF TypeOK, Calls
    <2> QED
      BY <1>3, <2>1, ReleaseType DEF release
  <1>4. ASSUME NEW r \in Runs, commit_assets(r) \/ commit_flows(r) PROVE r = q
    BY <1>4 DEF commit_assets, commit_flows, TypeOK
  <1> QED
    BY <1>1, <1>2, <1>3, <1>4
    DEF Next, vars, rows, answers, NightlyStep, Start, reconcile, record_findings, notify, emit,
        hold, Crash, CrashInHandler, Die, Upgrade, appendResolution, AbortAnswer

LEMMA ClearedNext ==
  ASSUME TypeOK, Cleared, [Next]_vars
  PROVE  Cleared'
  <1> SUFFICES ASSUME NEW r \in Runs, run'[r].at = "emit", NEW s \in run'[r].scope,
                      NEW q \in Runs, NEW w \in Writers, fact'[q][w][s] = "provisional"
               PROVE  q \in meantime'[r]
    BY DEF Cleared, At
  <1>0. run[r] \in RunStates
    BY DEF TypeOK
  <1>1. CASE run'[r] = run[r]
    <2>1. At(r, "emit") /\ s \in Subjects /\ meantime[r] \subseteq meantime'[r]
      BY <1>0, <1>1, MeantimeNext DEF At, RunStates
    <2>2. CASE fact[q][w][s] = "provisional"
      BY <1>1, <2>1, <2>2 DEF Cleared
    <2>3. CASE fact[q][w][s] # "provisional"
      <3>1. commit_assets(q) \/ commit_flows(q)
        BY <2>1, <2>3, ProvisionalNext
      <3>2. q # r /\ meantime' = Behind(q, {"emit"})
        BY <2>1, <3>1 DEF commit_assets, commit_flows, At
      <3> QED
        BY <2>1, <3>2, BehindType DEF At
    <2> QED
      BY <2>2, <2>3
  <1>2. CASE notify(r)
    <2>1. ~Refused(r) /\ UNCHANGED fact
      <3>1. Refused(r) => run'[r].at = "failed"
        BY <1>2, GotoKeeps DEF notify, Steps
      <3> QED
        BY <1>2, <3>1 DEF notify, rows
    <2>2. run'[r].scope = run[r].scope
      BY <1>2, GotoKeeps DEF notify, Steps, InFlight
    <2> QED
      BY <2>1, <2>2 DEF Refused, isProvisional
  <1>3. CASE run'[r] # run[r]
    <2>1. Start(r) \/ NightlyStep(r)
      BY <1>0, <1>3, OneRunMoves DEF RunStates
    <2>2. ASSUME NEW step \in Steps \ {"emit"}, run' = Goto(r, step) PROVE FALSE
      BY <2>2, GotoKeeps
    <2>3. ~reconcile(r)
      BY DEF reconcile, TypeOK
    <2> QED
      BY <1>2, <2>1, <2>2, <2>3
      DEF Start, NightlyStep, commit_assets, commit_flows, record_findings, AfterGate, emit, hold,
          Steps, InFlight
  <1> QED
    BY <1>1, <1>3

(* A run wakes the others only when nothing of its accounts is held but    *)
(* what other runs committed while its effect was awaited.                 *)
THEOREM WakesOnSettled == Spec => WakeOnSettled
  <1>1. Init => TypeOK /\ Cleared
    BY TypeInit DEF Init, Idle, Cleared, At
  <1>2. TypeOK /\ Cleared /\ [Next]_vars => TypeOK' /\ Cleared'
    BY TypeNext, ClearedNext
  <1>3. TypeOK /\ Cleared /\ [Next]_vars =>
          [\A r \in awake' \ awake, s \in Subjects, q \in Runs, w \in Writers :
             s \in run[r].scope /\ fact[q][w][s] = "provisional" => q \in meantime[r]]_vars
    <2> SUFFICES ASSUME TypeOK, Cleared, [Next]_vars, NEW r \in awake' \ awake,
                        NEW s \in Subjects, NEW q \in Runs, NEW w \in Writers,
                        s \in run[r].scope, fact[q][w][s] = "provisional"
                 PROVE  q \in meantime[r]
      OBVIOUS
    <2>1. ASSUME NEW p \in Runs, At(p, "emit"), awake' = awake \cup {p}
          PROVE  q \in meantime[r]
      BY <2>1 DEF Cleared
    <2>2. \/ UNCHANGED awake
          \/ \E p \in Runs : At(p, "emit") /\ awake' = awake \cup {p}
      BY DEF Next, vars, rows, answers, NightlyStep, Start, reconcile, commit_assets,
             commit_flows, record_findings, notify, emit, hold, Crash, CrashInHandler, Die,
             Upgrade, resolveFinding, release, appendResolution, AbortAnswer
    <2> QED
      BY <2>1, <2>2
  <1> QED
    BY <1>1, <1>2, <1>3, PTL DEF Spec, WakeOnSettled
=============================================================================
