------------------------------- MODULE RunLog -------------------------------
(***************************************************************************)
(* One workflow run on disk: its event log (apps/host/src/fs-host/         *)
(* repo-store.ts), its signal inbox (signal-channel.ts), and the host      *)
(* processes that drive it (host.ts).                                      *)
(*                                                                         *)
(* The run parks gates that wait side by side, as the tax year's deadlines *)
(* do; each is opened by one signal and then runs one action.  Anyone may  *)
(* put a signal in the inbox at any time, twice if he likes.  A host keeps *)
(* the log in memory and writes it back whole; the runtime's events wait   *)
(* in the chain buffer until they are flushed.                             *)
(***************************************************************************)
EXTENDS Naturals, Sequences, SequencesExt

CONSTANTS Hosts,          \* processes that may drive the run
          Gates,          \* signal names the run awaits
          Answers,        \* what a signal may say
          Shared,         \* may a command drive the run beside the server?
          MaxDeliveries,  \* bound on inbox files
          MaxCrashes      \* bound on host deaths

ASSUME SharedAssumption == Shared \in BOOLEAN
ASSUME BoundsAssumption == MaxDeliveries \in Nat /\ MaxCrashes \in Nat

EventKinds == {"SignalReceived", "StepStarted", "StepCompleted", "RunFailed"}
Phases == {"parked", "received", "started", "completed"}

(* A signal, told from others by its id: an id is of one gate.             *)
Signals == [gate : Gates, answer : Answers]

Events == [kind : EventKinds \ {"RunFailed"}, signal : Signals] \cup [kind : {"RunFailed"}]

VARIABLES
  disk,     \* events.jsonl
  inbox,    \* inbox files, in the order of their names
  up,       \* hosts that drive the run
  cache,    \* a host's copy of the log
  buffer,   \* a host's events not yet in the log
  swept,    \* how many inbox files a host has dispatched
  queued,   \* inbox files dispatched and not yet taken by their gates
  phase,    \* where a host has brought each gate
  handled,  \* how often a gate's action has run
  crashes

memory == <<cache, buffer, swept, queued, phase>>
vars == <<disk, inbox, up, memory, handled, crashes>>

TypeOK ==
  /\ disk \in Seq(Events)
  /\ inbox \in Seq(Signals)
  /\ up \in SUBSET Hosts
  /\ cache \in [Hosts -> Seq(Events)]
  /\ buffer \in [Hosts -> Seq(Events)]
  /\ swept \in [Hosts -> 0 .. Len(inbox)]
  /\ queued \in [Hosts -> SUBSET (1 .. Len(inbox))]
  /\ phase \in [Hosts -> [Gates -> Phases]]
  /\ handled \in [Gates -> Nat]
  /\ crashes \in Nat

Init ==
  /\ disk = <<>> /\ inbox = <<>> /\ up = {}
  /\ cache = [h \in Hosts |-> <<>>]
  /\ buffer = [h \in Hosts |-> <<>>]
  /\ swept = [h \in Hosts |-> 0]
  /\ queued = [h \in Hosts |-> {}]
  /\ phase = [h \in Hosts |-> [g \in Gates |-> "parked"]]
  /\ handled = [g \in Gates |-> 0]
  /\ crashes = 0

-----------------------------------------------------------------------------
(* The log.                                                                *)

Happened(log, kind, g) ==
  \E i \in DOMAIN log : log[i].kind = kind /\ log[i].signal.gate = g

Failed(log) == \E i \in DOMAIN log : log[i].kind = "RunFailed"

receivedIds(log) ==
  {log[i].signal : i \in {j \in DOMAIN log : log[j].kind = "SignalReceived"}}

Event(kind, s) == [kind |-> kind, signal |-> s]

(* The signal a host's gate was opened by.                                 *)
Taken(h, g) ==
  LET log == cache[h] \o buffer[h]
      i == CHOOSE j \in DOMAIN log : log[j].kind = "SignalReceived" /\ log[j].signal.gate = g
  IN  log[i].signal

(* Mutant of PhaseIn: an action in flight gets a standing of its own.       *)
CrashedIn(log, g) ==
  CASE Happened(log, "StepCompleted", g) -> "completed"
    [] ~Happened(log, "StepCompleted", g) /\ Happened(log, "StepStarted", g) -> "crashed"
    [] ~Happened(log, "StepStarted", g) /\ Happened(log, "SignalReceived", g) -> "received"
    [] OTHER -> "parked"

(* Where a gate stands, by its log.                                        *)
PhaseIn(log, g) ==
  CASE Happened(log, "StepCompleted", g) -> "completed"
    [] ~Happened(log, "StepCompleted", g) /\ Happened(log, "StepStarted", g) -> "started"
    [] ~Happened(log, "StepStarted", g) /\ Happened(log, "SignalReceived", g) -> "received"
    [] OTHER -> "parked"

(* Mutant of Written: the file is rewritten from what is new.               *)
OnlyTheNew(h, events) == events

(* What persist writes: the host's own copy of the log and what is new.    *)
Written(h, events) == cache[h] \o events

(* The chain buffer and what follows it go to disk in one rename.          *)
appendBatch(h, more) ==
  /\ disk' = Written(h, buffer[h] \o more)
  /\ cache' = [cache EXCEPT ![h] = Written(h, buffer[h] \o more)]
  /\ buffer' = [buffer EXCEPT ![h] = <<>>]

(* The interval flush, and the runtime's own when the run parks or ends.   *)
Flush(h) ==
  /\ h \in up /\ buffer[h] # <<>>
  /\ appendBatch(h, <<>>)
  /\ UNCHANGED <<inbox, up, swept, queued, phase, handled, crashes>>

-----------------------------------------------------------------------------
(* The inbox.                                                              *)

writeInboxSignal(s) ==
  /\ Len(inbox) < MaxDeliveries
  /\ inbox' = Append(inbox, s)
  /\ UNCHANGED <<disk, up, memory, handled, crashes>>

(* Files not yet dispatched, without signals the log has received.         *)
Fresh(log, from) == {i \in from + 1 .. Len(inbox) : inbox[i] \notin receivedIds(log)}

sweep(h) ==
  /\ h \in up /\ swept[h] < Len(inbox)
  /\ queued' = [queued EXCEPT ![h] = @ \cup Fresh(cache[h], swept[h])]
  /\ swept' = [swept EXCEPT ![h] = Len(inbox)]
  /\ UNCHANGED <<disk, inbox, up, cache, buffer, phase, handled, crashes>>

-----------------------------------------------------------------------------
(* A gate and its action.                                                  *)

At(h, g, p) == h \in up /\ phase[h][g] = p

(* Mutant of Oldest: the latest answer first.                               *)
Newest(i, files) == \A j \in files : j <= i

Oldest(i, files) == \A j \in files : i <= j

(* A parked gate takes the first of its files; later ones stay queued.     *)
awaitNext(h, g) ==
  /\ At(h, g, "parked")
  /\ \E i \in queued[h] :
       /\ inbox[i].gate = g
       /\ Oldest(i, {j \in queued[h] : inbox[j].gate = g})
       /\ buffer' = [buffer EXCEPT ![h] = Append(@, Event("SignalReceived", inbox[i]))]
       /\ queued' = [queued EXCEPT ![h] = @ \ {i}]
  /\ phase' = [phase EXCEPT ![h][g] = "received"]
  /\ UNCHANGED <<disk, inbox, up, cache, swept, handled, crashes>>

(* The action's start is durable before its handler runs.                  *)
StartStep(h, g) ==
  /\ At(h, g, "received")
  /\ appendBatch(h, <<Event("StepStarted", Taken(h, g))>>)
  /\ phase' = [phase EXCEPT ![h][g] = "started"]
  /\ UNCHANGED <<inbox, up, swept, queued, handled, crashes>>

invokeAction(h, g) ==
  /\ At(h, g, "started")
  /\ handled' = [handled EXCEPT ![g] = @ + 1]
  /\ buffer' = [buffer EXCEPT ![h] = Append(@, Event("StepCompleted", Taken(h, g)))]
  /\ phase' = [phase EXCEPT ![h][g] = "completed"]
  /\ UNCHANGED <<disk, inbox, up, cache, swept, queued, crashes>>

-----------------------------------------------------------------------------
(* Hosts come and go.                                                      *)

(* Mutant of InFlight: an action under way is run again.                    *)
NeverInFlight(log) == FALSE

InFlight(log) == \E g \in Gates : PhaseIn(log, g) = "started"

(* Mutant of Resumed: the poller looks at files that come from now on.      *)
ResumedWithoutReplay(h) ==
  /\ swept' = [swept EXCEPT ![h] = Len(inbox)]
  /\ queued' = [queued EXCEPT ![h] = {}]

(* The channel replays the inbox before the run is driven.                 *)
Resumed(h) ==
  /\ swept' = [swept EXCEPT ![h] = Len(inbox)]
  /\ queued' = [queued EXCEPT ![h] = Fresh(disk, 0)]

(* host.run on a log that has not ended.  An action in flight when the     *)
(* last host died is settled as crashed and fails the run.                 *)
run(h) ==
  /\ h \notin up
  /\ Shared \/ up = {}
  /\ ~Failed(disk)
  /\ IF InFlight(disk)
     THEN /\ disk' = Append(disk, [kind |-> "RunFailed"])
          /\ UNCHANGED <<up, memory>>
     ELSE /\ up' = up \cup {h}
          /\ cache' = [cache EXCEPT ![h] = disk]
          /\ buffer' = [buffer EXCEPT ![h] = <<>>]
          /\ phase' = [phase EXCEPT ![h] = [g \in Gates |-> PhaseIn(disk, g)]]
          /\ Resumed(h)
          /\ UNCHANGED disk
  /\ UNCHANGED <<inbox, handled, crashes>>

(* A death, or the exit of a command: what is in memory is gone.           *)
Crash(h) ==
  /\ h \in up /\ crashes < MaxCrashes
  /\ up' = up \ {h}
  /\ cache' = [cache EXCEPT ![h] = <<>>]
  /\ buffer' = [buffer EXCEPT ![h] = <<>>]
  /\ swept' = [swept EXCEPT ![h] = 0]
  /\ queued' = [queued EXCEPT ![h] = {}]
  /\ phase' = [phase EXCEPT ![h] = [g \in Gates |-> "parked"]]
  /\ crashes' = crashes + 1
  /\ UNCHANGED <<disk, inbox, handled>>

HostStep(h) == \/ Flush(h) \/ sweep(h)
               \/ \E g \in Gates : awaitNext(h, g) \/ StartStep(h, g) \/ invokeAction(h, g)

Next == \/ \E s \in Signals : writeInboxSignal(s)
        \/ \E h \in Hosts : HostStep(h) \/ run(h) \/ Crash(h)

Spec == Init /\ [][Next]_vars

(* The poller and the flusher run on intervals, a started chain goes on,   *)
(* and the server is started again.  Nobody has to send a signal.          *)
FairSpec == /\ Spec
            /\ \A h \in Hosts : WF_vars(HostStep(h))
            /\ WF_vars(\E h \in Hosts : run(h))

-----------------------------------------------------------------------------
(* Properties.                                                             *)

(* repo-store.ts: "one append-only JSONL log per run".  What is on disk is *)
(* never rewritten to something else, across hosts, flushes and deaths.    *)
AppendOnly == [][IsPrefix(disk, disk')]_disk

(* A gate's action runs at most once, however often the run is resumed and *)
(* its signal is delivered, replayed or delivered again.                   *)
HandledOnce == \A g \in Gates : handled[g] <= 1

(* The first signal in the inbox opens the gate: a gate that was opened    *)
(* stays opened by the same signal when the inbox is replayed, and an      *)
(* answer that came later never overtakes it.                              *)
FirstOpens ==
  \A i \in DOMAIN disk : disk[i].kind = "SignalReceived" =>
    \E k \in DOMAIN inbox : /\ inbox[k] = disk[i].signal
                            /\ \A l \in 1 .. k - 1 : inbox[l].gate # inbox[k].gate

(* A signal in the inbox opens its gate, whichever host wrote it and       *)
(* whenever: it is not lost between a sweep, a queue and a death, unless   *)
(* the run has failed.                                                     *)
Delivered ==
  \A g \in Gates :
    (\E k \in DOMAIN inbox : inbox[k].gate = g)
      ~> (Happened(disk, "StepCompleted", g) \/ Failed(disk))

(* A gate opens once: by the first signal it was sent, however often that  *)
(* and later ones are replayed, and with its action run at most once.      *)
OpensOnce == FirstOpens /\ HandledOnce
=============================================================================
