-------------------------------- MODULE Timers --------------------------------
(***************************************************************************)
(* The host's timers (apps/host/src/fs-host/scheduler.ts).  setTimeout     *)
(* waits no longer than its clamp, so a far deadline is approached in      *)
(* chunks, each of which reads the clock again; deadlines that passed      *)
(* while nobody was looking fire one at a time.  The machine may sleep     *)
(* (the clock goes on, setTimeout does not), the clock may be set back,    *)
(* and the host may die: the runtime then arms the parked timers anew.     *)
(***************************************************************************)
EXTENDS Integers, FiniteSets

CONSTANTS Timers,      \* timer ids
          CHUNK_MS,    \* the longest leg
          Clamp,       \* setTimeout's longest delay: beyond it, it fires at once
          OVERDUE_STAGGER_MS,
          Deadlines,   \* when timers may be due
          Horizon,     \* the clock's bound
          MaxJumps     \* bound on sleeps, set-backs and deaths

ASSUME ChunkAssumption == Clamp \in Nat /\ CHUNK_MS \in 1 .. Clamp
ASSUME StaggerAssumption == OVERDUE_STAGGER_MS \in Nat \ {0}
ASSUME TimesAssumption == Deadlines \subseteq Nat /\ Horizon \in Nat /\ MaxJumps \in Nat

VARIABLES
  fireAt,
  leg,              \* what a timer waits for, and how long still, awake
  nextOverdueSlot,
  clock,
  due,              \* when a timer became due, or was armed overdue
  late,             \* how long the host has been awake since, with it unfired
  gap,              \* since the last overdue firing
  wentBack,         \* timers in whose present leg the clock was set back
  jumps

TimersVars == <<fireAt, leg, nextOverdueSlot, clock, due, late, gap, wentBack, jumps>>

Legs == {"idle", "chunk", "slot", "last", "fired", "cancelled"}
Armed == {t \in Timers : leg[t].kind \in {"chunk", "slot", "last"}}

TimersTypeOK ==
  /\ \A t \in Timers : leg[t].kind \in Legs /\ leg[t].left \in 0 .. Clamp
  /\ clock \in 0 .. Horizon /\ gap \in 0 .. OVERDUE_STAGGER_MS
  /\ wentBack \subseteq Timers /\ jumps \in 0 .. MaxJumps

NoLeg(kind) == [kind |-> kind, left |-> 0]

TimersInit ==
  /\ fireAt \in [Timers -> Deadlines]
  /\ leg = [t \in Timers |-> NoLeg("idle")]
  /\ nextOverdueSlot = 0
  /\ clock = 0
  /\ due = [t \in Timers |-> 0] /\ late = [t \in Timers |-> 0]
  /\ gap = OVERDUE_STAGGER_MS
  /\ wentBack = {}
  /\ jumps = 0

Later(a, b) == IF a > b THEN a ELSE b
setTimeout(delay) == IF delay > Clamp THEN 0 ELSE delay

-----------------------------------------------------------------------------
(* arm, at the present clock.                                              *)

remaining(t) == fireAt[t] - clock

(* Mutant of Slot: even the first one waits its turn.                      *)
SlotAfter == Later(nextOverdueSlot, clock) + OVERDUE_STAGGER_MS

Slot == Later(nextOverdueSlot, clock)

(* Mutant of NextLeg: the whole delay in one go.                           *)
NextLegWhole(t) ==
  IF remaining(t) <= 0
  THEN [kind |-> "slot", left |-> setTimeout(Slot - clock)]
  ELSE [kind |-> "last", left |-> setTimeout(remaining(t))]

NextLeg(t) ==
  IF remaining(t) <= 0
  THEN [kind |-> "slot", left |-> setTimeout(Slot - clock)]
  ELSE IF remaining(t) <= CHUNK_MS
  THEN [kind |-> "last", left |-> setTimeout(remaining(t))]
  ELSE [kind |-> "chunk", left |-> setTimeout(CHUNK_MS)]

(* Mutant of TakeSlot: overdue timers all fire now.                        *)
TakeSlotNow(t) == UNCHANGED nextOverdueSlot

(* An overdue timer takes the next slot from those that come after it.     *)
TakeSlot(t) ==
  nextOverdueSlot' = IF remaining(t) <= 0 THEN Slot + OVERDUE_STAGGER_MS ELSE nextOverdueSlot

arm(t) ==
  /\ leg' = [leg EXCEPT ![t] = NextLeg(t)]
  /\ TakeSlot(t)
  /\ wentBack' = wentBack \ {t}

scheduleIn(t) ==
  /\ leg[t].kind = "idle"
  /\ arm(t)
  /\ due' = [due EXCEPT ![t] = Later(fireAt[t], clock)]
  /\ late' = [late EXCEPT ![t] = 0]
  /\ UNCHANGED <<fireAt, clock, gap, jumps>>

Elapsed(t, kind) == leg[t].kind = kind /\ leg[t].left = 0

ChunkWakes(t) ==
  /\ Elapsed(t, "chunk")
  /\ arm(t)
  /\ UNCHANGED <<fireAt, clock, due, late, gap, jumps>>

(* The inner scheduler commits TimerFired; an overdue timer's slot comes.  *)
Fires(t) ==
  /\ Elapsed(t, "last") \/ Elapsed(t, "slot")
  /\ leg' = [leg EXCEPT ![t] = NoLeg("fired")]
  /\ gap' = IF leg[t].kind = "slot" THEN 0 ELSE gap
  /\ late' = [late EXCEPT ![t] = 0]
  /\ UNCHANGED <<fireAt, nextOverdueSlot, clock, due, wentBack, jumps>>

(* The gate's signal came first.                                           *)
CancelTimer(t) ==
  /\ t \in Armed
  /\ leg' = [leg EXCEPT ![t] = NoLeg("cancelled")]
  /\ late' = [late EXCEPT ![t] = 0]
  /\ UNCHANGED <<fireAt, nextOverdueSlot, clock, due, gap, wentBack, jumps>>

(* Time passes, but never past a timeout that has come.                    *)
Tick ==
  /\ clock < Horizon
  /\ \A t \in Armed : leg[t].left > 0
  /\ clock' = clock + 1
  /\ leg' = [t \in Timers |-> IF t \in Armed THEN [leg[t] EXCEPT !.left = @ - 1] ELSE leg[t]]
  /\ late' = [t \in Timers |-> IF t \in Armed /\ clock >= due[t] THEN late[t] + 1 ELSE late[t]]
  /\ gap' = IF gap < OVERDUE_STAGGER_MS THEN gap + 1 ELSE gap
  /\ UNCHANGED <<fireAt, nextOverdueSlot, due, wentBack, jumps>>

Jump == jumps < MaxJumps /\ jumps' = jumps + 1

Sleep ==
  /\ Jump
  /\ \E n \in {1, CHUNK_MS} : clock + n <= Horizon /\ clock' = clock + n
  /\ UNCHANGED <<fireAt, leg, nextOverdueSlot, due, late, gap, wentBack>>

SetBack ==
  /\ Jump /\ clock > 0
  /\ clock' = clock - 1
  /\ wentBack' = Armed
  /\ UNCHANGED <<fireAt, leg, nextOverdueSlot, due, late, gap>>

(* The host dies and comes back: every gate that parks arms its timer.     *)
Restart ==
  /\ Jump
  /\ leg' = [t \in Timers |-> IF t \in Armed THEN NoLeg("idle") ELSE leg[t]]
  /\ nextOverdueSlot' = 0
  /\ gap' = OVERDUE_STAGGER_MS
  /\ wentBack' = {}
  /\ UNCHANGED <<fireAt, clock, due, late>>

TimersNext ==
  \/ \E t \in Timers : scheduleIn(t) \/ ChunkWakes(t) \/ Fires(t) \/ CancelTimer(t)
  \/ Tick \/ Sleep \/ SetBack \/ Restart

-----------------------------------------------------------------------------
(* Properties.                                                             *)

(* No deadline fires before its time, however far it was when armed and    *)
(* however the machine slept on the way -- unless the clock was set back   *)
(* in its last leg, which nothing reads the clock after (scheduler.ts:11). *)
NeverEarly ==
  [][\A t \in Timers :
       leg[t].kind # "fired" /\ leg'[t].kind = "fired" =>
         clock >= fireAt[t] \/ t \in wentBack]_TimersVars

(* A timer that is due fires when the slots of those overdue before it     *)
(* have passed; one that came due while the machine slept, at the latest a *)
(* chunk of the host's waking hours after that (scheduler.ts:10-11, :53).  *)
WithinAChunk ==
  \A t \in Armed :
    late[t] <= OVERDUE_STAGGER_MS * (Cardinality(Timers) - 1)
                 + IF jumps = 0 THEN 0 ELSE CHUNK_MS + jumps

(* While the clock keeps time, overdue timers fire a stagger apart, so that *)
(* their chains do not complete together (scheduler.ts:50-54).             *)
OneAtATime ==
  [][jumps = 0 =>
       \A t \in Timers :
         leg[t].kind = "slot" /\ leg'[t].kind = "fired" => gap = OVERDUE_STAGGER_MS]_TimersVars
=============================================================================
