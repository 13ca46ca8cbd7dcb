--------------------------------- MODULE Chat ---------------------------------
(***************************************************************************)
(* Conversations with the advisory agents (apps/host/src/app.ts, sendChat  *)
(* and its helpers; fs-host/step-invoker.ts).  Each agent has a standing   *)
(* run whose one step parks between turns on an input channel, a new one   *)
(* per park; a message is delivered on the channel the log shows open.  A  *)
(* run keeps the engine it was built with, so an engine change retires it. *)
(* Everything is awaited, so senders interleave at every step.             *)
(***************************************************************************)
EXTENDS Naturals, FiniteSets

CONSTANTS Messages,
          AgentOf,    \* [Messages -> Agents]
          Engines,
          Runs,       \* run ids; as many bound how many are started
          MaxParks,   \* bound on a run's turns
          MaxFaults,  \* bound on engine changes, failures, timeouts and deaths
          Nobody      \* no message, no run, no engine, no turn

ASSUME NobodyAssumption == Nobody \notin Messages \cup Runs \cup Engines \cup BOOLEAN
ASSUME EnginesAssumption == Engines # {}   \* the demo host, when nothing is configured
ASSUME ParksAssumption == MaxParks \in Nat

Agents == {AgentOf[m] : m \in Messages}

VARIABLES
  run,       \* per run id: the run in memory and what its log shows
  chatInbox, \* delivered messages: inbox files
  sending,   \* per message: where its sendChat is, and the run it found
  engine,    \* the engine now configured
  engines,   \* per message: the engines configured since its sendChat began
  collector, \* the invoker's one collector: does it hold tool results?
  turns,     \* the outbox: per message its chat.turn, with results or not, or Nobody
  resuming,  \* runs the log shows running and this process has not resumed
  raced,     \* agents two of whose sends overlapped, or one that overlapped a
             \* resumption, or began before the log had caught up
  faults

ChatVars == <<run, chatInbox, sending, engine, engines, collector, turns, resuming, raced, faults>>

NoRun == [phase |-> "none", agent |-> Nobody, message |-> Nobody, channel |-> 0,
          engine |-> Nobody, driven |-> FALSE, log |-> "none"]
Unsent == [at |-> "unsent", run |-> Nobody]

ChatTypeOK ==
  /\ \A r \in Runs :
       /\ run[r].phase \in {"none", "turn", "recorded", "parked", "ended"}
       /\ run[r].log \in {"none", "running", "parked", "ended"}
       /\ run[r].message \in Messages \cup {Nobody} /\ run[r].channel \in 0 .. MaxParks
  /\ \A m \in Messages :
       sending[m].at \in {"unsent", "looking", "found", "retired", "polling", "waiting", "answered", "refused"}
  /\ collector \in BOOLEAN /\ resuming \subseteq Runs /\ raced \subseteq Agents

ChatInit ==
  /\ run = [r \in Runs |-> NoRun]
  /\ chatInbox = {}
  /\ sending = [m \in Messages |-> Unsent]
  /\ engine = CHOOSE e \in Engines : TRUE
  /\ engines = [m \in Messages |-> {}]
  /\ collector = FALSE
  /\ turns = [m \in Messages |-> Nobody]
  /\ resuming = {}
  /\ raced = {}
  /\ faults = 0

Of(a) == {m \in Messages : AgentOf[m] = a}
InTheAir(m) == sending[m].at \in {"looking", "found", "retired", "polling", "waiting"}
Fault == faults < MaxFaults /\ faults' = faults + 1
Step(m, at, r) == sending' = [sending EXCEPT ![m] = [at |-> at, run |-> r]]

-----------------------------------------------------------------------------
(* sendChat.                                                               *)

(* For half a second at most the log may not show the turn that is on.     *)
Behind(r) ==
  \/ run[r].phase \in {"turn", "recorded"} /\ run[r].log # "running"
  \/ run[r].log = "parked" /\ \E x \in chatInbox : x.run = r /\ x.channel = run[r].channel

sendChat(m) ==
  /\ sending[m].at = "unsent"
  /\ Step(m, "looking", Nobody)
  /\ engines' = [engines EXCEPT ![m] = {engine}]
  /\ raced' = IF \/ resuming # {}
                 \/ \E n \in Of(AgentOf[m]) : InTheAir(n)
                 \/ \E r \in Runs : run[r].agent = AgentOf[m] /\ Behind(r)
              THEN raced \cup {AgentOf[m]} ELSE raced
  /\ UNCHANGED <<run, chatInbox, engine, collector, turns, resuming, faults>>

(* A run of the agent whose log has no end; the first in name order, and   *)
(* names are random.                                                       *)
activeChatRun(m) ==
  LET running == {r \in Runs : run[r].agent = AgentOf[m] /\ run[r].log \in {"running", "parked"}} IN
  /\ sending[m].at = "looking"
  /\ IF running = {} THEN Step(m, "found", Nobody) ELSE \E r \in running : Step(m, "found", r)
  /\ UNCHANGED <<run, chatInbox, engine, engines, collector, turns, resuming, raced, faults>>

(* Mutant of Fits: any running run will do.                                *)
FitsAny(r) == r # Nobody

(* The engine this process built the run for, if it did.                   *)
Fits(r) == r # Nobody /\ run[r].driven /\ run[r].engine = engine

Join(m) ==
  /\ sending[m].at = "found" /\ Fits(sending[m].run)
  /\ Step(m, "polling", sending[m].run)
  /\ UNCHANGED <<run, chatInbox, engine, engines, collector, turns, resuming, raced, faults>>

(* Mutant of Retire: the run of the other engine is left to itself.        *)
RetireLeaving(m) ==
  /\ sending[m].at = "found" /\ sending[m].run # Nobody /\ ~Fits(sending[m].run)
  /\ Step(m, "retired", Nobody)
  /\ UNCHANGED <<run, chatInbox, engine, engines, collector, turns, resuming, raced, faults>>

(* A run of another engine is cancelled, if this process drives it.        *)
Retire(m) ==
  LET r == sending[m].run IN
  /\ sending[m].at = "found" /\ r # Nobody /\ ~Fits(r)
  /\ run' = IF run[r].driven
            THEN [run EXCEPT ![r].phase = "ended", ![r].log = "ended", ![r].driven = FALSE]
            ELSE run
  /\ Step(m, "retired", Nobody)
  /\ UNCHANGED <<chatInbox, engine, engines, collector, turns, resuming, raced, faults>>

(* The first message of a new run; its first turn is under way at once.    *)
Start(m) ==
  LET fresh == {r \in Runs : run[r].phase = "none"}
      r == CHOOSE x \in fresh : TRUE     \* an id nobody has
  IN
  /\ \/ sending[m].at = "retired"
     \/ sending[m].at = "found" /\ sending[m].run = Nobody
  /\ fresh # {}
  /\ run' = [run EXCEPT ![r] = [NoRun EXCEPT !.phase = "turn", !.agent = AgentOf[m],
                                  !.message = m, !.engine = engine, !.driven = TRUE]]
  /\ Step(m, "waiting", r)
  /\ collector' = FALSE
  /\ UNCHANGED <<chatInbox, engine, engines, turns, resuming, raced, faults>>

(* Mutant of OpenChannel: the run's first input park.                      *)
OpenChannelFirst(r) == IF run[r].channel > 0 THEN 1 ELSE 0

(* The newest input park the log does not show consumed; 0: none.          *)
OpenChannel(r) == IF run[r].log = "parked" THEN run[r].channel ELSE 0

Deliver(m) ==
  LET r == sending[m].run  c == OpenChannel(r) IN
  /\ sending[m].at = "polling" /\ c > 0
  /\ chatInbox' = chatInbox \cup {[message |-> m, run |-> r, channel |-> c]}
  /\ Step(m, "waiting", r)
  /\ UNCHANGED <<run, engine, engines, collector, turns, resuming, raced, faults>>

(* waitForTurn: the turn is in the outbox, or the run is over.             *)
waitForTurn(m) ==
  /\ sending[m].at = "waiting"
  /\ \/ turns[m] # Nobody /\ Step(m, "answered", sending[m].run)
     \/ turns[m] = Nobody /\ run[sending[m].run].log = "ended" /\ Step(m, "refused", sending[m].run)
  /\ UNCHANGED <<run, chatInbox, engine, engines, collector, turns, resuming, raced, faults>>

(* No open channel, or no reply, in time.                                  *)
TimesOut(m) ==
  /\ sending[m].at \in {"polling", "waiting"} /\ Fault
  /\ Step(m, "refused", sending[m].run)
  /\ UNCHANGED <<run, chatInbox, engine, engines, collector, turns, resuming, raced>>

-----------------------------------------------------------------------------
(* The runs.                                                               *)

(* A parked run takes a message off its channel and starts a turn.         *)
Consume(r) ==
  /\ run[r].phase = "parked" /\ run[r].driven
  /\ \E x \in {x \in chatInbox : x.run = r /\ x.channel = run[r].channel} :
       run' = [run EXCEPT ![r].phase = "turn", ![r].message = x.message]
  /\ collector' = FALSE
  /\ UNCHANGED <<chatInbox, sending, engine, engines, turns, resuming, raced, faults>>

(* The buffered events reach the log: the start, or the message's receipt. *)
FlushChat(r) ==
  /\ run[r].driven /\ run[r].phase \in {"turn", "recorded"} /\ run[r].log # "running"
  /\ run' = [run EXCEPT ![r].log = "running"]
  /\ UNCHANGED <<chatInbox, sending, engine, engines, collector, turns, resuming, raced, faults>>

(* A tool's result goes to the collector there is.                         *)
ToolCall(r) ==
  /\ run[r].phase = "turn" /\ run[r].driven
  /\ collector' = TRUE
  /\ UNCHANGED <<run, chatInbox, sending, engine, engines, turns, resuming, raced, faults>>

(* Mutant of EmitTurn: a turn that is answered again is written over.      *)
EmitTurnAgain(m, evidence) == turns' = [turns EXCEPT ![m] = evidence]

(* emitEvent: idempotent by the message's id.                              *)
EmitTurn(m, evidence) == turns' = IF turns[m] = Nobody THEN [turns EXCEPT ![m] = evidence] ELSE turns

(* onTurn.                                                                 *)
TurnEnds(r) ==
  /\ run[r].phase = "turn" /\ run[r].driven
  /\ EmitTurn(run[r].message, collector)
  /\ run' = [run EXCEPT ![r].phase = "recorded"]
  /\ UNCHANGED <<chatInbox, sending, engine, engines, collector, resuming, raced, faults>>

(* The step parks on its next channel, which flushes the segment.          *)
Parks(r) ==
  /\ run[r].phase = "recorded" /\ run[r].driven /\ run[r].channel < MaxParks
  /\ run' = [run EXCEPT ![r].phase = "parked", ![r].channel = @ + 1, ![r].log = "parked",
                        ![r].message = Nobody]
  /\ UNCHANGED <<chatInbox, sending, engine, engines, collector, turns, resuming, raced, faults>>

TurnFails(r) ==
  /\ run[r].phase = "turn" /\ run[r].driven /\ Fault
  /\ run' = [run EXCEPT ![r].phase = "ended", ![r].log = "ended", ![r].driven = FALSE]
  /\ UNCHANGED <<chatInbox, sending, engine, engines, collector, turns, resuming, raced>>

SwitchEngine ==
  /\ Fault
  /\ engine' \in Engines \ {engine}
  /\ engines' = [m \in Messages |-> IF InTheAir(m) THEN engines[m] \cup {engine'} ELSE engines[m]]
  /\ UNCHANGED <<run, chatInbox, sending, collector, turns, resuming, raced>>

(* A run that never reached the disk is gone with its message.             *)
CrashChat ==
  /\ Fault
  /\ run' = [r \in Runs |->
               IF run[r].log = "none" /\ run[r].phase # "none" THEN [NoRun EXCEPT !.phase = "ended"]
               ELSE [run[r] EXCEPT !.driven = FALSE, !.engine = Nobody]]
  /\ sending' = [m \in Messages |-> IF InTheAir(m) THEN [sending[m] EXCEPT !.at = "refused"] ELSE sending[m]]
  /\ collector' = FALSE
  /\ resuming' = {r \in Runs : run[r].log \in {"running", "parked"}}
  /\ UNCHANGED <<chatInbox, engine, engines, turns, raced>>

(* resumeInFlight: one run after another, on the engine of the day.  A     *)
(* turn the log shows begun is not begun again: the run fails.             *)
ResumeChat(r) ==
  /\ r \in resuming
  /\ resuming' = resuming \ {r}
  /\ run' = IF run[r].log = "parked"
            THEN [run EXCEPT ![r].phase = "parked", ![r].message = Nobody, ![r].engine = engine, ![r].driven = TRUE]
            ELSE [run EXCEPT ![r].phase = "ended", ![r].log = "ended"]
  /\ UNCHANGED <<chatInbox, sending, engine, engines, collector, turns, raced, faults>>

ChatNext ==
  \/ \E m \in Messages :
       \/ sendChat(m) \/ activeChatRun(m) \/ Join(m) \/ Retire(m) \/ Start(m)
       \/ Deliver(m) \/ waitForTurn(m) \/ TimesOut(m)
  \/ \E r \in Runs :
       \/ Consume(r) \/ FlushChat(r) \/ ToolCall(r) \/ TurnEnds(r) \/ Parks(r) \/ TurnFails(r)
       \/ ResumeChat(r)
  \/ SwitchEngine \/ CrashChat

-----------------------------------------------------------------------------
(* Properties.                                                             *)

(* No message reaches a run built for an engine that was given up before   *)
(* the message was sent, whatever was resumed or changed meanwhile.        *)
EngineOfTheDay ==
  [][\A m \in Messages :
       sending[m].at = "polling" /\ sending'[m].at = "waiting" =>
         run[sending[m].run].engine \in engines[m]]_ChatVars

(* Where an agent's senders wait for one another, for its log to catch up  *)
(* and for its resumption, it has one standing run (chat.ts:1).            *)
OneStandingRun ==
  \A a \in Agents \ raced :
    Cardinality({r \in Runs : run[r].agent = a /\ (run[r].driven \/ run[r].log \in {"running", "parked"})}) <= 1

(* ... and no delivered message is left on a channel the run has moved     *)
(* past, not even one sent while the turn of a sender who gave up goes on. *)
NotStranded ==
  \A x \in chatInbox :
    AgentOf[x.message] \in raced \/ turns[x.message] # Nobody
      \/ x.channel >= run[x.run].channel \/ run[x.run].message = x.message

(* A recorded turn stands: its answer is never recorded twice, not even    *)
(* when a death makes the run take the turn again.                         *)
TurnStands == [][\A m \in Messages : turns[m] # Nobody => turns'[m] = turns[m]]_ChatVars
=============================================================================
