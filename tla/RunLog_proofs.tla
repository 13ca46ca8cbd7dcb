---------------------------- MODULE RunLog_proofs ----------------------------
(***************************************************************************)
(* Proofs about RunLog, for any set of hosts, gates and answers and any    *)
(* number of deliveries and deaths.                                        *)
(***************************************************************************)
EXTENDS RunLog, SequenceTheorems, TLAPS

StepKinds == EventKinds \ {"RunFailed"}

-----------------------------------------------------------------------------
(* Logs.                                                                   *)

LEMMA EventType ==
  ASSUME NEW kind \in StepKinds, NEW s \in Signals
  PROVE  /\ Event(kind, s) \in Events
         /\ Event(kind, s).kind = kind
         /\ Event(kind, s).signal = s
  BY DEF Event, Events, StepKinds

LEMMA AppendLog ==
  ASSUME NEW log \in Seq(Events), NEW e \in Events
  PROVE  /\ Append(log, e) = log \o <<e>>
         /\ <<e>> \in Seq(Events)
  OBVIOUS

LEMMA Concat ==
  ASSUME NEW s \in Seq(Events), NEW t \in Seq(Events), NEW u \in Seq(Events)
  PROVE  s \o t \in Seq(Events) /\ (s \o t) \o u = s \o (t \o u)
  <1>1. s \o t \in Seq(Events)
    BY ConcatProperties
  <1>2. t \o u \in Seq(Events)
    BY ConcatProperties
  <1>3. (s \o t) \o u = s \o (t \o u)
    BY <1>1, <1>2
  <1> QED
    BY <1>1, <1>3

(* A log and what follows it tell what either tells.                       *)
LEMMA HappenedConcat ==
  ASSUME NEW log \in Seq(Events), NEW more \in Seq(Events), NEW kind, NEW g
  PROVE  Happened(log \o more, kind, g) <=> Happened(log, kind, g) \/ Happened(more, kind, g)
  <1> DEFINE L == log \o more
  <1>1. /\ DOMAIN L = 1 .. Len(log) + Len(more)
        /\ \A i \in 1 .. Len(log) : L[i] = log[i]
        /\ \A i \in 1 .. Len(more) : L[i + Len(log)] = more[i]
    BY ConcatProperties, LenProperties
  <1>2. ASSUME Happened(L, kind, g)
        PROVE  Happened(log, kind, g) \/ Happened(more, kind, g)
    <2>1. PICK i \in DOMAIN L : L[i].kind = kind /\ L[i].signal.gate = g
      BY <1>2 DEF Happened
    <2>2. CASE i \in 1 .. Len(log)
      BY <1>1, <2>1, <2>2 DEF Happened
    <2>3. CASE i \notin 1 .. Len(log)
      <3>1. i - Len(log) \in 1 .. Len(more) /\ (i - Len(log)) + Len(log) = i
        BY <1>1, <2>3
      <3>2. more[i - Len(log)] = L[i]
        BY <1>1, <3>1
      <3> QED
        BY <2>1, <3>1, <3>2 DEF Happened
    <2> QED
      BY <2>2, <2>3
  <1>3. ASSUME Happened(log, kind, g)
        PROVE  Happened(L, kind, g)
    BY <1>1, <1>3 DEF Happened
  <1>4. ASSUME Happened(more, kind, g)
        PROVE  Happened(L, kind, g)
    <2>1. PICK i \in 1 .. Len(more) : more[i].kind = kind /\ more[i].signal.gate = g
      BY <1>4 DEF Happened
    <2>2. i + Len(log) \in DOMAIN L
      BY <1>1
    <2> QED
      BY <1>1, <2>1, <2>2 DEF Happened
  <1> QED
    BY <1>2, <1>3, <1>4

LEMMA HappenedOne ==
  ASSUME NEW e \in Events, NEW kind, NEW g
  PROVE  Happened(<<e>>, kind, g) <=> e.kind = kind /\ e.signal.gate = g
  BY DEF Happened

LEMMA HappenedAfter ==
  ASSUME NEW log \in Seq(Events), NEW e \in Events, NEW next, next = log \o <<e>>
  PROVE  \A kind, g : Happened(next, kind, g)
                        <=> Happened(log, kind, g) \/ (e.kind = kind /\ e.signal.gate = g)
  <1>1. <<e>> \in Seq(Events)
    OBVIOUS
  <1>2. ASSUME NEW kind, NEW g
        PROVE  Happened(next, kind, g)
                 <=> Happened(log, kind, g) \/ (e.kind = kind /\ e.signal.gate = g)
    <2>1. Happened(log \o <<e>>, kind, g) <=> Happened(log, kind, g) \/ Happened(<<e>>, kind, g)
      BY <1>1, HappenedConcat
    <2>2. Happened(<<e>>, kind, g) <=> e.kind = kind /\ e.signal.gate = g
      BY HappenedOne
    <2> QED
      BY <2>1, <2>2
  <1> QED
    BY <1>2

-----------------------------------------------------------------------------
(* The types, and with them that a gate a host has opened was opened by a  *)
(* signal in that host's log: StartStep reads it back from there.          *)

Log(h) == cache[h] \o buffer[h]

Opened ==
  \A h \in up, g \in Gates :
    phase[h][g] \in {"received", "started"} => Happened(Log(h), "SignalReceived", g)

LEMMA TakenType ==
  ASSUME TypeOK, NEW h \in Hosts, NEW g \in Gates, Happened(Log(h), "SignalReceived", g)
  PROVE  Taken(h, g) \in Signals /\ Taken(h, g).gate = g
  <1> DEFINE L == Log(h)
             P(j) == L[j].kind = "SignalReceived" /\ L[j].signal.gate = g
             i == CHOOSE j \in DOMAIN L : P(j)
  <1>1. L \in Seq(Events)
    BY ConcatProperties DEF TypeOK, Log
  <1>2. i \in DOMAIN L /\ P(i)
    <2>1. \E j \in DOMAIN L : P(j)
      BY DEF Happened
    <2> QED
      BY <2>1
  <1>3. L[i] \in Events
    BY <1>1, <1>2
  <1>4. Taken(h, g) = L[i].signal
    BY DEF Taken, Log
  <1>5. L[i].signal \in Signals
    BY <1>2, <1>3 DEF Events
  <1> QED
    BY <1>2, <1>4, <1>5

LEMMA WrittenType ==
  ASSUME TypeOK, NEW h \in Hosts, NEW more \in Seq(Events)
  PROVE  /\ Written(h, buffer[h] \o more) \in Seq(Events)
         /\ Written(h, buffer[h] \o more) = Log(h) \o more
  <1>1. cache[h] \in Seq(Events) /\ buffer[h] \in Seq(Events)
    BY DEF TypeOK
  <1> QED
    BY <1>1, Concat DEF Written, Log

LEMMA TypeInit == Init => TypeOK /\ Opened
  BY DEF Init, TypeOK, Opened, Phases

(* Opened after a step, told over the next state's logs.                   *)
LEMMA OpenedNext ==
  ASSUME \A k \in up', q \in Gates :
           phase'[k][q] \in {"received", "started"} => Happened(Log(k)', "SignalReceived", q)
  PROVE  Opened'
  BY DEF Opened

(* A host writes its log back with what follows it.                        *)
LEMMA AppendType ==
  ASSUME TypeOK, NEW h \in Hosts, NEW more \in Seq(Events), appendBatch(h, more)
  PROVE  /\ disk' \in Seq(Events) /\ disk' = Log(h) \o more
         /\ cache' \in [Hosts -> Seq(Events)] /\ buffer' \in [Hosts -> Seq(Events)]
         /\ cache'[h] = disk' /\ buffer'[h] = <<>>
         /\ \A k \in Hosts \ {h} : cache'[k] = cache[k] /\ buffer'[k] = buffer[k]
         /\ Log(h)' = disk'
  <1>1. disk' \in Seq(Events) /\ disk' = Log(h) \o more
    BY WrittenType DEF appendBatch
  <1>2. cache' = [cache EXCEPT ![h] = disk'] /\ buffer' = [buffer EXCEPT ![h] = <<>>]
    BY DEF appendBatch
  <1>3. cache'[h] = disk' /\ buffer'[h] = <<>>
    BY <1>2 DEF TypeOK
  <1>4. Log(h)' = disk'
    BY <1>1, <1>3, ConcatEmptySeq DEF Log
  <1>5. <<>> \in Seq(Events)
    OBVIOUS
  <1> QED
    BY <1>1, <1>2, <1>3, <1>4, <1>5 DEF TypeOK

LEMMA StartStepAppends ==
  ASSUME TypeOK, Opened, NEW h \in Hosts, NEW g \in Gates, StartStep(h, g)
  PROVE  /\ h \in up /\ Event("StepStarted", Taken(h, g)) \in Events
         /\ <<Event("StepStarted", Taken(h, g))>> \in Seq(Events)
         /\ Taken(h, g).gate = g
         /\ Event("StepStarted", Taken(h, g)).signal = Taken(h, g)
         /\ Event("StepStarted", Taken(h, g)).kind = "StepStarted"
         /\ appendBatch(h, <<Event("StepStarted", Taken(h, g))>>)
  <1>1. h \in up /\ Happened(Log(h), "SignalReceived", g)
    BY DEF StartStep, At, Opened
  <1>2. Taken(h, g) \in Signals /\ Taken(h, g).gate = g
    BY <1>1, TakenType
  <1>3. "StepStarted" \in StepKinds
    BY DEF StepKinds, EventKinds
  <1> QED
    BY <1>1, <1>2, <1>3, EventType DEF StartStep

LEMMA StepBuffers ==
  ASSUME TypeOK, NEW h \in Hosts, NEW e \in Events,
         buffer' = [buffer EXCEPT ![h] = Append(@, e)], UNCHANGED cache
  PROVE  /\ buffer' \in [Hosts -> Seq(Events)]
         /\ buffer'[h] = buffer[h] \o <<e>>
         /\ Log(h)' = Log(h) \o <<e>>
         /\ \A k \in Hosts \ {h} : buffer'[k] = buffer[k] /\ Log(k)' = Log(k)
  <1>1. buffer[h] \in Seq(Events) /\ cache[h] \in Seq(Events) /\ <<e>> \in Seq(Events)
    BY DEF TypeOK
  <1>2. buffer'[h] = buffer[h] \o <<e>> /\ buffer'[h] \in Seq(Events)
    BY <1>1, AppendLog, ConcatProperties DEF TypeOK
  <1>3. Log(h)' = Log(h) \o <<e>>
    <2>1. Log(h)' = cache[h] \o (buffer[h] \o <<e>>)
      BY <1>2 DEF Log
    <2>2. cache[h] \o (buffer[h] \o <<e>>) = (cache[h] \o buffer[h]) \o <<e>>
      BY <1>1, Concat
    <2> QED
      BY <2>1, <2>2 DEF Log
  <1> QED
    BY <1>2, <1>3 DEF TypeOK, Log

LEMMA PhaseMove ==
  ASSUME TypeOK, NEW h \in Hosts, NEW g \in Gates, NEW p \in Phases,
         phase' = [phase EXCEPT ![h][g] = p]
  PROVE  /\ phase' \in [Hosts -> [Gates -> Phases]]
         /\ phase'[h][g] = p
         /\ \A k \in Hosts, q \in Gates : (k # h \/ q # g) => phase'[k][q] = phase[k][q]
  <1>1. phase \in [Hosts -> [Gates -> Phases]] /\ phase[h] \in [Gates -> Phases]
    BY DEF TypeOK
  <1>2. phase' = [phase EXCEPT ![h] = [phase[h] EXCEPT ![g] = p]]
    OBVIOUS
  <1> QED
    BY <1>1, <1>2

(* A step of one gate that writes one event.                               *)
LEMMA OpenedGrows ==
  ASSUME TypeOK, Opened, UNCHANGED up, NEW h \in up, NEW g \in Gates, NEW p \in Phases,
         phase' = [phase EXCEPT ![h][g] = p], NEW e \in Events,
         Log(h) \in Seq(Events), Log(h)' = Log(h) \o <<e>>,
         \A k \in Hosts \ {h} : Log(k)' = Log(k),
         \/ p = "completed"
         \/ Happened(Log(h), "SignalReceived", g)
         \/ e.kind = "SignalReceived" /\ e.signal.gate = g
  PROVE  Opened'
  <1>1. h \in Hosts /\ up \subseteq Hosts
    BY DEF TypeOK
  <1>2. \A kind, q : Happened(Log(h)', kind, q)
                      <=> Happened(Log(h), kind, q) \/ (e.kind = kind /\ e.signal.gate = q)
    BY HappenedAfter
  <1>3. /\ phase'[h][g] = p
        /\ \A k \in Hosts, q \in Gates : (k # h \/ q # g) => phase'[k][q] = phase[k][q]
    <2>1. h \in Hosts
      BY <1>1
    <2> QED
      BY <2>1, PhaseMove
  <1>4. ASSUME NEW k \in up', NEW q \in Gates, phase'[k][q] \in {"received", "started"}
        PROVE  Happened(Log(k)', "SignalReceived", q)
    <2>1. CASE k = h /\ q = g
      BY <1>2, <1>3, <1>4, <2>1
    <2>2. CASE k # h \/ q # g
      <3>1. k \in up /\ k \in Hosts /\ phase[k][q] \in {"received", "started"}
        BY <1>1, <1>3, <1>4, <2>2
      <3>2. Happened(Log(k), "SignalReceived", q)
        BY <3>1 DEF Opened
      <3>3. CASE k = h
        BY <1>2, <3>2, <3>3
      <3>4. CASE k # h
        BY <3>1, <3>2, <3>4
      <3> QED
        BY <3>3, <3>4
    <2> QED
      BY <2>1, <2>2
  <1> QED
    BY <1>4, OpenedNext

LEMMA PhaseInType ==
  ASSUME NEW log, NEW g
  PROVE  /\ PhaseIn(log, g) \in Phases
         /\ PhaseIn(log, g) = "received" => Happened(log, "SignalReceived", g)
         /\ PhaseIn(log, g) = "parked" => ~Happened(log, "SignalReceived", g)
         /\ Happened(log, "StepStarted", g) => PhaseIn(log, g) \in {"started", "completed"}
  BY DEF PhaseIn, Phases

(* A host that takes the run over stands where the log stands.             *)
LEMMA RunEffect ==
  ASSUME TypeOK, NEW h \in Hosts, run(h)
  PROVE  \/ /\ disk' = disk \o <<[kind |-> "RunFailed"]>> /\ disk' \in Seq(Events)
            /\ UNCHANGED <<inbox, up, memory, handled, crashes>>
         \/ /\ ~InFlight(disk)
            /\ up' = up \cup {h}
            /\ cache' = [cache EXCEPT ![h] = disk]
            /\ buffer' = [buffer EXCEPT ![h] = <<>>]
            /\ Log(h)' = disk
            /\ phase' = [phase EXCEPT ![h] = [g \in Gates |-> PhaseIn(disk, g)]]
            /\ phase'[h] = [g \in Gates |-> PhaseIn(disk, g)]
            /\ Resumed(h)
            /\ UNCHANGED <<disk, inbox, handled, crashes>>
  <1>1. CASE InFlight(disk)
    <2>1. [kind |-> "RunFailed"] \in Events
      BY DEF Events
    <2>2. Append(disk, [kind |-> "RunFailed"]) = disk \o <<[kind |-> "RunFailed"]>>
      BY <2>1, AppendLog DEF TypeOK
    <2>3. disk \o <<[kind |-> "RunFailed"]>> \in Seq(Events)
      BY <2>1, AppendLog, ConcatProperties DEF TypeOK
    <2> QED
      BY <1>1, <2>2, <2>3 DEF run
  <1>2. CASE ~InFlight(disk)
    <2>1. /\ cache' = [cache EXCEPT ![h] = disk]
          /\ buffer' = [buffer EXCEPT ![h] = <<>>]
      BY <1>2 DEF run
    <2>2. cache'[h] = disk /\ buffer'[h] = <<>>
      BY <2>1 DEF TypeOK
    <2>3. Log(h)' = disk
      BY <2>2, ConcatEmptySeq DEF Log, TypeOK
    <2> QED
      BY <1>2, <2>1, <2>3 DEF run, TypeOK
  <1> QED
    BY <1>1, <1>2

LEMMA TypeNext == TypeOK /\ Opened /\ [Next]_vars => TypeOK' /\ Opened'
  <1> SUFFICES ASSUME TypeOK, Opened, [Next]_vars
               PROVE  TypeOK' /\ Opened'
    OBVIOUS
  <1>0. up \subseteq Hosts /\ \A h \in Hosts : Log(h) \in Seq(Events)
    BY Concat DEF TypeOK, Log
  <1>1. ASSUME NEW s \in Signals, writeInboxSignal(s)
        PROVE  TypeOK' /\ Opened'
    <2>1. Len(inbox') = Len(inbox) + 1 /\ inbox' \in Seq(Signals) /\ Len(inbox) \in Nat
      BY <1>1 DEF writeInboxSignal, TypeOK
    <2>2. 0 .. Len(inbox) \subseteq 0 .. Len(inbox') /\ 1 .. Len(inbox) \subseteq 1 .. Len(inbox')
      BY <2>1
    <2>3. swept \in [Hosts -> 0 .. Len(inbox')]
      BY <2>2 DEF TypeOK
    <2>4. queued \in [Hosts -> SUBSET (1 .. Len(inbox'))]
      BY <2>2 DEF TypeOK
    <2> QED
      BY <1>1, <2>1, <2>3, <2>4 DEF writeInboxSignal, TypeOK, Opened, Log, memory
  <1>2. ASSUME NEW h \in Hosts, Flush(h)
        PROVE  TypeOK' /\ Opened'
    <2>1. <<>> \in Seq(Events) /\ appendBatch(h, <<>>) /\ Log(h) \o <<>> = Log(h)
      BY <1>0, <1>2, ConcatEmptySeq DEF Flush
    <2>2. Log(h)' = Log(h) /\ \A k \in Hosts \ {h} : Log(k)' = Log(k)
      BY <2>1, AppendType DEF Log
    <2>3. Opened'
      BY <1>0, <1>2, <2>2 DEF Flush, Opened
    <2>4. TypeOK'
      BY <1>2, <2>1, AppendType DEF Flush, TypeOK
    <2> QED
      BY <2>3, <2>4
  <1>3. ASSUME NEW h \in Hosts, sweep(h)
        PROVE  TypeOK' /\ Opened'
    <2>1. Fresh(cache[h], swept[h]) \subseteq 1 .. Len(inbox) /\ Len(inbox) \in 0 .. Len(inbox)
      BY DEF Fresh, TypeOK
    <2> QED
      BY <1>3, <2>1 DEF sweep, TypeOK, Opened, Log
  <1>4. ASSUME NEW h \in Hosts, NEW g \in Gates, awaitNext(h, g)
        PROVE  TypeOK' /\ Opened'
    <2>1. PICK i \in queued[h] :
            /\ inbox[i].gate = g
            /\ buffer' = [buffer EXCEPT ![h] = Append(@, Event("SignalReceived", inbox[i]))]
            /\ queued' = [queued EXCEPT ![h] = @ \ {i}]
      BY <1>4 DEF awaitNext
    <2>2. inbox[i] \in Signals /\ "SignalReceived" \in StepKinds
      BY DEF TypeOK, StepKinds, EventKinds
    <2> DEFINE e == Event("SignalReceived", inbox[i])
    <2>3. e \in Events /\ e.kind = "SignalReceived" /\ e.signal.gate = g /\ <<e>> \in Seq(Events)
      BY <2>1, <2>2, EventType
    <2> HIDE DEF e
    <2>4. /\ buffer' \in [Hosts -> Seq(Events)]
          /\ Log(h)' = Log(h) \o <<e>>
          /\ \A k \in Hosts \ {h} : Log(k)' = Log(k)
      <3>1. buffer' = [buffer EXCEPT ![h] = Append(@, e)] /\ UNCHANGED cache
        BY <1>4, <2>1 DEF awaitNext, e
      <3> QED
        BY <2>3, <3>1, StepBuffers
    <2>6. phase' \in [Hosts -> [Gates -> Phases]]
          /\ \A k \in Hosts, q \in Gates : (k # h \/ q # g) => phase'[k][q] = phase[k][q]
      <3>1. phase' = [phase EXCEPT ![h][g] = "received"] /\ "received" \in Phases
        BY <1>4 DEF awaitNext, Phases
      <3> QED
        BY <3>1, PhaseMove
    <2>7. Opened'
      <3>1. h \in up /\ UNCHANGED up /\ phase' = [phase EXCEPT ![h][g] = "received"]
            /\ "received" \in Phases
        BY <1>4 DEF awaitNext, At, Phases
      <3> QED
        BY <1>0, <2>3, <2>4, <3>1, OpenedGrows
    <2> QED
      BY <1>4, <2>1, <2>4, <2>6, <2>7 DEF awaitNext, TypeOK
  <1>5. ASSUME NEW h \in Hosts, NEW g \in Gates, StartStep(h, g)
        PROVE  TypeOK' /\ Opened'
    <2> DEFINE e == Event("StepStarted", Taken(h, g))
    <2>1. /\ e \in Events /\ <<e>> \in Seq(Events) /\ appendBatch(h, <<e>>)
          /\ Happened(Log(h), "SignalReceived", g)
      BY <1>5, StartStepAppends DEF Opened, StartStep, At
    <2> HIDE DEF e
    <2>2. Log(h)' = Log(h) \o <<e>> /\ \A k \in Hosts \ {h} : Log(k)' = Log(k)
      BY <2>1, AppendType DEF Log
    <2>4. phase' \in [Hosts -> [Gates -> Phases]]
          /\ \A k \in Hosts, q \in Gates : (k # h \/ q # g) => phase'[k][q] = phase[k][q]
      <3>1. phase' = [phase EXCEPT ![h][g] = "started"] /\ "started" \in Phases
        BY <1>5 DEF StartStep, Phases
      <3> QED
        BY <3>1, PhaseMove
    <2>5. Opened'
      <3>1. h \in up /\ UNCHANGED up /\ phase' = [phase EXCEPT ![h][g] = "started"]
            /\ "started" \in Phases
        BY <1>5 DEF StartStep, At, Phases
      <3> QED
        BY <1>0, <2>1, <2>2, <3>1, OpenedGrows
    <2>6. TypeOK'
      BY <1>5, <2>1, <2>4, AppendType DEF StartStep, TypeOK
    <2> QED
      BY <2>5, <2>6
  <1>6. ASSUME NEW h \in Hosts, NEW g \in Gates, invokeAction(h, g)
        PROVE  TypeOK' /\ Opened'
    <2>1. Taken(h, g) \in Signals /\ "StepCompleted" \in StepKinds
      BY <1>6, TakenType DEF invokeAction, At, Opened, StepKinds, EventKinds
    <2> DEFINE e == Event("StepCompleted", Taken(h, g))
    <2>2. e \in Events /\ <<e>> \in Seq(Events)
      BY <2>1, EventType
    <2> HIDE DEF e
    <2>3. /\ buffer' \in [Hosts -> Seq(Events)]
          /\ Log(h)' = Log(h) \o <<e>>
          /\ \A k \in Hosts \ {h} : Log(k)' = Log(k)
      <3>1. buffer' = [buffer EXCEPT ![h] = Append(@, e)] /\ UNCHANGED cache
        BY <1>6 DEF invokeAction, e
      <3> QED
        BY <2>2, <3>1, StepBuffers
    <2>5. phase' \in [Hosts -> [Gates -> Phases]]
          /\ phase'[h][g] = "completed"
          /\ \A k \in Hosts, q \in Gates : (k # h \/ q # g) => phase'[k][q] = phase[k][q]
      <3>1. phase' = [phase EXCEPT ![h][g] = "completed"] /\ "completed" \in Phases
        BY <1>6 DEF invokeAction, Phases
      <3> QED
        BY <3>1, PhaseMove
    <2>6. Opened'
      <3>1. h \in up /\ UNCHANGED up /\ phase' = [phase EXCEPT ![h][g] = "completed"]
            /\ "completed" \in Phases
        BY <1>6 DEF invokeAction, At, Phases
      <3> QED
        BY <1>0, <2>2, <2>3, <3>1, OpenedGrows
    <2> QED
      BY <1>6, <2>3, <2>5, <2>6 DEF invokeAction, TypeOK
  <1>7. ASSUME NEW h \in Hosts, run(h)
        PROVE  TypeOK' /\ Opened'
    <2>1. CASE /\ disk' = disk \o <<[kind |-> "RunFailed"]>> /\ disk' \in Seq(Events)
               /\ UNCHANGED <<inbox, up, memory, handled, crashes>>
      BY <2>1 DEF TypeOK, Opened, Log, memory
    <2>2. CASE /\ ~InFlight(disk)
               /\ up' = up \cup {h}
               /\ cache' = [cache EXCEPT ![h] = disk]
               /\ buffer' = [buffer EXCEPT ![h] = <<>>]
               /\ Log(h)' = disk
               /\ phase' = [phase EXCEPT ![h] = [g \in Gates |-> PhaseIn(disk, g)]]
               /\ phase'[h] = [g \in Gates |-> PhaseIn(disk, g)]
               /\ Resumed(h)
               /\ UNCHANGED <<disk, inbox, handled, crashes>>
      <3>1. Fresh(disk, 0) \subseteq 1 .. Len(inbox) /\ Len(inbox) \in 0 .. Len(inbox)
        BY DEF Fresh, TypeOK
      <3>2. <<>> \in Seq(Events)
        OBVIOUS
      <3>3. [g \in Gates |-> PhaseIn(disk, g)] \in [Gates -> Phases]
        BY PhaseInType
      <3>4. TypeOK'
        BY <2>2, <3>1, <3>2, <3>3 DEF Resumed, TypeOK
      <3>5. \A g \in Gates : phase'[h][g] \in {"received", "started"}
                               => Happened(Log(h)', "SignalReceived", g)
        BY <2>2, PhaseInType DEF InFlight
      <3>6. \A k \in Hosts \ {h} : Log(k)' = Log(k) /\ phase'[k] = phase[k]
        BY <2>2 DEF Log, TypeOK
      <3>7. Opened'
        BY <1>0, <2>2, <3>5, <3>6 DEF Opened
      <3> QED
        BY <3>4, <3>7
    <2> QED
      BY <1>7, <2>1, <2>2, RunEffect
  <1>8. ASSUME NEW h \in Hosts, Crash(h)
        PROVE  TypeOK' /\ Opened'
    <2>1. <<>> \in Seq(Events) /\ [g \in Gates |-> "parked"] \in [Gates -> Phases]
          /\ 0 \in 0 .. Len(inbox)
      BY DEF Phases, TypeOK
    <2>2. TypeOK'
      BY <1>8, <2>1 DEF Crash, TypeOK
    <2>3. \A k \in Hosts \ {h} : Log(k)' = Log(k) /\ phase'[k] = phase[k]
      BY <1>8 DEF Crash, Log, TypeOK
    <2>4. Opened'
      BY <1>0, <1>8, <2>3 DEF Crash, Opened
    <2> QED
      BY <2>2, <2>4
  <1>9. CASE UNCHANGED vars
    BY <1>9 DEF vars, memory, TypeOK, Opened, Log
  <1> QED
    BY <1>1, <1>2, <1>3, <1>4, <1>5, <1>6, <1>7, <1>8, <1>9 DEF Next, HostStep

(* Every reachable state is well typed, whatever the bounds and however    *)
(* many hosts share the run.                                               *)
THEOREM TypeCorrect == Spec => []TypeOK
  <1> QED
    BY TypeInit, TypeNext, PTL DEF Spec

-----------------------------------------------------------------------------
(* The log only grows while one host at a time drives the run: that host's *)
(* copy is what is on disk.                                                *)

Owned == \A h, k \in up : h = k /\ cache[h] = disk

Grows == \E more \in Seq(Events) : disk' = disk \o more

LEMMA OwnAppend ==
  ASSUME TypeOK, Owned, NEW h \in up, NEW more \in Seq(Events), appendBatch(h, more),
         UNCHANGED up
  PROVE  Owned' /\ Grows
  <1>1. h \in Hosts /\ cache[h] = disk /\ buffer[h] \in Seq(Events) /\ disk \in Seq(Events)
    BY DEF Owned, TypeOK
  <1>2. disk' = Log(h) \o more /\ cache'[h] = disk'
    BY <1>1, AppendType
  <1>3. disk' = disk \o (buffer[h] \o more)
    BY <1>1, <1>2, Concat DEF Log
  <1>4. buffer[h] \o more \in Seq(Events)
    BY <1>1, Concat
  <1> QED
    BY <1>2, <1>3, <1>4 DEF Owned, Grows

LEMMA DiskStays ==
  ASSUME TypeOK, disk' = disk
  PROVE  Grows
  <1>1. disk = disk \o <<>> /\ <<>> \in Seq(Events)
    BY ConcatEmptySeq DEF TypeOK
  <1> QED
    BY <1>1 DEF Grows

LEMMA OwnedNext ==
  ASSUME ~Shared, TypeOK, Opened, Owned, [Next]_vars
  PROVE  Owned' /\ Grows
  <1>1. ASSUME NEW h \in Hosts, Flush(h)
        PROVE  Owned' /\ Grows
    <2>1. h \in up /\ <<>> \in Seq(Events) /\ appendBatch(h, <<>>) /\ UNCHANGED up
      BY <1>1 DEF Flush
    <2> QED
      BY <2>1, OwnAppend
  <1>2. ASSUME NEW h \in Hosts, NEW g \in Gates, StartStep(h, g)
        PROVE  Owned' /\ Grows
    <2>1. h \in up /\ UNCHANGED up
          /\ <<Event("StepStarted", Taken(h, g))>> \in Seq(Events)
          /\ appendBatch(h, <<Event("StepStarted", Taken(h, g))>>)
      BY <1>2, StartStepAppends DEF StartStep
    <2> QED
      BY <2>1, OwnAppend
  <1>3. ASSUME NEW h \in Hosts, run(h)
        PROVE  Owned' /\ Grows
    <2>1. up = {}
      BY <1>3 DEF run
    <2>2. CASE disk' = disk \o <<[kind |-> "RunFailed"]>> /\ UNCHANGED up
      <3>1. <<[kind |-> "RunFailed"]>> \in Seq(Events)
        BY DEF Events
      <3> QED
        BY <2>1, <2>2, <3>1 DEF Owned, Grows
    <2>3. CASE up' = up \cup {h} /\ cache' = [cache EXCEPT ![h] = disk] /\ disk' = disk
      <3>1. cache'[h] = disk' /\ up' = {h}
        BY <2>1, <2>3 DEF TypeOK
      <3> QED
        BY <2>3, <3>1, DiskStays DEF Owned
    <2> QED
      BY <1>3, <2>2, <2>3, RunEffect
  <1>4. ASSUME NEW h \in Hosts, Crash(h)
        PROVE  Owned' /\ Grows
    <2>1. up' = {} /\ disk' = disk
      BY <1>4 DEF Crash, Owned
    <2> QED
      BY <2>1, DiskStays DEF Owned
  <1>5. ASSUME UNCHANGED <<disk, up, cache>>
        PROVE  Owned' /\ Grows
    BY <1>5, DiskStays DEF Owned
  <1>6. ASSUME NEW s \in Signals, writeInboxSignal(s)
        PROVE  UNCHANGED <<disk, up, cache>>
    BY <1>6 DEF writeInboxSignal, memory
  <1>7. ASSUME NEW h \in Hosts, sweep(h)
        PROVE  UNCHANGED <<disk, up, cache>>
    BY <1>7 DEF sweep
  <1>8. ASSUME NEW h \in Hosts, NEW g \in Gates, awaitNext(h, g) \/ invokeAction(h, g)
        PROVE  UNCHANGED <<disk, up, cache>>
    BY <1>8 DEF awaitNext, invokeAction
  <1>9. CASE UNCHANGED vars
    BY <1>5, <1>9 DEF vars, memory
  <1> QED
    BY <1>1, <1>2, <1>3, <1>4, <1>5, <1>6, <1>7, <1>8, <1>9 DEF Next, HostStep

LEMMA PrefixOfLonger ==
  ASSUME NEW s \in Seq(Events), NEW t \in Seq(Events)
  PROVE  IsPrefix(s, s \o t)
  <1>1. /\ Len(s) \in Nat /\ Len(t) \in Nat
        /\ Len(s \o t) = Len(s) + Len(t)
        /\ \A i \in 1 .. Len(s) : (s \o t)[i] = s[i] /\ s[i] \in Events
    BY ConcatProperties, LenProperties
  <1>2. SubSeq(s, 1, Len(s)) = s
    BY SubSeqFull
  <1>3. SubSeq(s \o t, 1, Len(s)) = s
    <2>1. /\ SubSeq(s \o t, 1, Len(s)) \in Seq(Events)
          /\ Len(SubSeq(s \o t, 1, Len(s))) = Len(s)
          /\ \A i \in 1 .. Len(s) : SubSeq(s \o t, 1, Len(s))[i] = s[i]
      BY <1>1, SubSeqProperties
    <2> QED
      BY <2>1, SeqEqual
  <1> QED
    BY <1>1, <1>2, <1>3 DEF IsPrefix

(* While hosts take turns, what a run's log says stays said: no flush,     *)
(* death or resumption loses or rewrites an event that is on disk.         *)
THEOREM LogOnlyGrows ==
  ASSUME ~Shared
  PROVE  Spec => AppendOnly
  <1>1. Init => Owned
    BY DEF Init, Owned
  <1>2. TypeOK /\ Opened /\ Owned /\ [Next]_vars => Owned' /\ [IsPrefix(disk, disk')]_disk
    <2> SUFFICES ASSUME TypeOK, Opened, Owned, [Next]_vars
                 PROVE  Owned' /\ [IsPrefix(disk, disk')]_disk
      OBVIOUS
    <2>1. Owned' /\ Grows
      BY OwnedNext
    <2>2. PICK more \in Seq(Events) : disk' = disk \o more
      BY <2>1 DEF Grows
    <2>3. IsPrefix(disk, disk')
      BY <2>2, PrefixOfLonger DEF TypeOK
    <2> QED
      BY <2>1, <2>3
  <1> QED
    BY <1>1, <1>2, TypeInit, TypeNext, PTL DEF Spec, AppendOnly

-----------------------------------------------------------------------------
(* An action's start is on disk before its handler runs, so whoever takes  *)
(* the run over afterwards knows of it.                                    *)

Started ==
  \A h \in up, g \in Gates :
    phase[h][g] = "started" => Happened(disk, "StepStarted", g)

Once ==
  \A g \in Gates :
    /\ handled[g] <= 1
    /\ handled[g] # 0 => /\ Happened(disk, "StepStarted", g)
                         /\ \A h \in up : phase[h][g] = "completed"

LEMMA StaysHappened ==
  ASSUME TypeOK, Grows, NEW kind, NEW g, Happened(disk, kind, g)
  PROVE  Happened(disk', kind, g)
  <1>1. PICK more \in Seq(Events) : disk' = disk \o more
    BY DEF Grows
  <1>2. Happened(disk \o more, kind, g)
    BY HappenedConcat DEF TypeOK
  <1> QED
    BY <1>1, <1>2

(* A step of one gate that does not run its action.                        *)
LEMMA OnceMove ==
  ASSUME TypeOK, Started, Once, Grows, UNCHANGED <<up, handled>>,
         NEW h \in up, NEW g \in Gates, NEW p \in Phases,
         phase[h][g] # "completed", phase' = [phase EXCEPT ![h][g] = p],
         p = "started" => Happened(disk', "StepStarted", g)
  PROVE  Started' /\ Once'
  <1>1. up \subseteq Hosts /\ h \in Hosts
    BY DEF TypeOK
  <1>2. /\ phase'[h][g] = p
        /\ \A k \in Hosts, q \in Gates : (k # h \/ q # g) => phase'[k][q] = phase[k][q]
    BY <1>1, PhaseMove
  <1>3. \A q \in Gates : Happened(disk, "StepStarted", q) => Happened(disk', "StepStarted", q)
    BY StaysHappened
  <1>4. Started'
    BY <1>1, <1>2, <1>3 DEF Started
  <1>5. \A q \in Gates : handled[q] # 0 => q # g
    BY DEF Once
  <1>6. Once'
    BY <1>1, <1>2, <1>3, <1>5 DEF Once
  <1> QED
    BY <1>4, <1>6

LEMMA OnceNext ==
  ASSUME ~Shared, TypeOK, Opened, Owned, Started, Once, [Next]_vars
  PROVE  Started' /\ Once'
  <1>0. /\ Grows
        /\ \A q \in Gates : Happened(disk, "StepStarted", q) => Happened(disk', "StepStarted", q)
        /\ up \subseteq Hosts
    BY OwnedNext, StaysHappened DEF TypeOK
  <1>1. ASSUME NEW h \in Hosts, NEW g \in Gates, awaitNext(h, g)
        PROVE  Started' /\ Once'
    <2>1. /\ UNCHANGED <<up, handled>> /\ h \in up /\ "received" \in Phases
          /\ phase[h][g] # "completed" /\ phase' = [phase EXCEPT ![h][g] = "received"]
      BY <1>1 DEF awaitNext, At, Phases
    <2> QED
      BY <1>0, <2>1, OnceMove
  <1>2. ASSUME NEW h \in Hosts, NEW g \in Gates, StartStep(h, g)
        PROVE  Started' /\ Once'
    <2>1. /\ UNCHANGED <<up, handled>> /\ h \in up /\ "started" \in Phases
          /\ phase[h][g] # "completed" /\ phase' = [phase EXCEPT ![h][g] = "started"]
      BY <1>2 DEF StartStep, At, Phases
    <2> DEFINE e == Event("StepStarted", Taken(h, g))
    <2>2. /\ e \in Events /\ <<e>> \in Seq(Events) /\ appendBatch(h, <<e>>)
          /\ e.kind = "StepStarted" /\ e.signal.gate = g
      BY <1>2, StartStepAppends
    <2> HIDE DEF e
    <2>3. disk' = Log(h) \o <<e>> /\ Log(h) \in Seq(Events)
      BY <2>2, AppendType, Concat DEF Log, TypeOK
    <2>4. Happened(disk', "StepStarted", g)
      <3>1. Happened(Log(h) \o <<e>>, "StepStarted", g)
              <=> Happened(Log(h), "StepStarted", g) \/ Happened(<<e>>, "StepStarted", g)
        BY <2>2, <2>3, HappenedConcat
      <3>2. Happened(<<e>>, "StepStarted", g)
        BY <2>2, HappenedOne
      <3> QED
        BY <2>3, <3>1, <3>2
    <2> QED
      BY <1>0, <2>1, <2>4, OnceMove
  <1>3. ASSUME NEW h \in Hosts, NEW g \in Gates, invokeAction(h, g)
        PROVE  Started' /\ Once'
    <2>1. /\ UNCHANGED <<up, disk>> /\ h \in up /\ phase[h][g] = "started"
          /\ "completed" \in Phases /\ phase' = [phase EXCEPT ![h][g] = "completed"]
          /\ handled' = [handled EXCEPT ![g] = handled[g] + 1]
      BY <1>3 DEF invokeAction, At, Phases
    <2>2. /\ phase'[h][g] = "completed"
          /\ \A k \in Hosts, q \in Gates : (k # h \/ q # g) => phase'[k][q] = phase[k][q]
      BY <2>1, PhaseMove
    <2>3. handled[g] = 0 /\ Happened(disk, "StepStarted", g)
      BY <2>1 DEF Once, Started
    <2>4. handled'[g] = 1 /\ \A q \in Gates \ {g} : handled'[q] = handled[q]
      BY <2>1, <2>3 DEF TypeOK
    <2>5. \A k \in up : k = h
      BY <2>1 DEF Owned
    <2>6. Started'
      BY <1>0, <2>1, <2>2 DEF Started
    <2>7. ASSUME NEW q \in Gates
          PROVE  /\ handled'[q] <= 1
                 /\ handled'[q] # 0 => /\ Happened(disk', "StepStarted", q)
                                       /\ \A k \in up' : phase'[k][q] = "completed"
      <3>1. CASE q = g
        BY <2>1, <2>2, <2>3, <2>4, <2>5, <3>1
      <3>2. CASE q # g
        BY <1>0, <2>1, <2>2, <2>4, <3>2 DEF Once
      <3> QED
        BY <3>1, <3>2
    <2> QED
      BY <2>6, <2>7 DEF Once
  <1>4. ASSUME NEW h \in Hosts, run(h)
        PROVE  Started' /\ Once'
    <2>1. up = {} /\ handled' = handled
      BY <1>4 DEF run
    <2>2. CASE up' = up
      BY <1>0, <2>1, <2>2 DEF Started, Once
    <2>3. CASE /\ ~InFlight(disk)
               /\ up' = up \cup {h} /\ disk' = disk
               /\ phase'[h] = [g \in Gates |-> PhaseIn(disk, g)]
      <3>1. \A g \in Gates : PhaseIn(disk, g) # "started"
        BY <2>3 DEF InFlight
      <3>2. \A g \in Gates : phase'[h][g] # "started"
        BY <2>3, <3>1
      <3>3. \A g \in Gates : Happened(disk, "StepStarted", g) => phase'[h][g] = "completed"
        BY <2>3, <3>1, PhaseInType
      <3>4. \A k \in up' : k = h
        BY <2>1, <2>3
      <3>5. Started'
        BY <3>2, <3>4 DEF Started
      <3>6. Once'
        BY <2>1, <2>3, <3>3, <3>4 DEF Once
      <3> QED
        BY <3>5, <3>6
    <2> QED
      BY <1>4, <2>2, <2>3, RunEffect
  <1>5. ASSUME NEW h \in Hosts, Crash(h)
        PROVE  Started' /\ Once'
    <2>1. up' = {} /\ UNCHANGED <<disk, handled>>
      BY <1>5 DEF Crash, Owned
    <2> QED
      BY <2>1 DEF Started, Once
  <1>6. ASSUME UNCHANGED <<up, phase, handled>>
        PROVE  Started' /\ Once'
    BY <1>0, <1>6 DEF Started, Once
  <1>7. ASSUME NEW s \in Signals, writeInboxSignal(s)
        PROVE  UNCHANGED <<up, phase, handled>>
    BY <1>7 DEF writeInboxSignal, memory
  <1>8. ASSUME NEW h \in Hosts, Flush(h) \/ sweep(h)
        PROVE  UNCHANGED <<up, phase, handled>>
    BY <1>8 DEF Flush, sweep
  <1>9. CASE UNCHANGED vars
    BY <1>6, <1>9 DEF vars, memory
  <1> QED
    BY <1>1, <1>2, <1>3, <1>4, <1>5, <1>6, <1>7, <1>8, <1>9 DEF Next, HostStep

(* While hosts take turns, no action runs twice: not when its signal is    *)
(* delivered again, and not when a host dies under it.                     *)
THEOREM ActionsRunOnce ==
  ASSUME ~Shared
  PROVE  Spec => []HandledOnce
  <1>1. Init => Owned /\ Started /\ Once
    BY DEF Init, Owned, Started, Once
  <1>2. TypeOK /\ Opened /\ Owned /\ Started /\ Once /\ [Next]_vars
          => Owned' /\ Started' /\ Once'
    BY OwnedNext, OnceNext
  <1>3. Once => HandledOnce
    BY DEF Once, HandledOnce
  <1> QED
    BY <1>1, <1>2, <1>3, TypeInit, TypeNext, PTL DEF Spec

-----------------------------------------------------------------------------
(* The first signal of the inbox opens the gate, however many hosts drive  *)
(* the run: a host never leaves a dispatched signal out of its queue while *)
(* the signal's gate is parked.                                            *)

First(box, s) ==
  \E k \in DOMAIN box : box[k] = s /\ \A l \in 1 .. k - 1 : box[l].gate # s.gate

LogFirst(box, log) ==
  \A i \in DOMAIN log : log[i].kind = "SignalReceived" => First(box, log[i].signal)

Firsts == LogFirst(inbox, disk) /\ \A h \in Hosts : LogFirst(inbox, cache[h]) /\ LogFirst(inbox, buffer[h])

WaitingAt(h, g) ==
  phase[h][g] = "parked" =>
    /\ ~Happened(Log(h), "SignalReceived", g)
    /\ \A k \in 1 .. swept[h] : inbox[k].gate = g => k \in queued[h]

Waiting == \A h \in up : queued[h] \subseteq 1 .. swept[h] /\ \A g \in Gates : WaitingAt(h, g)

LEMMA LogFirstConcat ==
  ASSUME NEW box, NEW s \in Seq(Events), NEW t \in Seq(Events),
         LogFirst(box, s), LogFirst(box, t)
  PROVE  LogFirst(box, s \o t)
  <1> DEFINE L == s \o t
  <1>1. /\ DOMAIN L = 1 .. Len(s) + Len(t)
        /\ \A i \in 1 .. Len(s) : L[i] = s[i]
        /\ \A i \in 1 .. Len(t) : L[i + Len(s)] = t[i]
        /\ DOMAIN s = 1 .. Len(s) /\ DOMAIN t = 1 .. Len(t)
        /\ Len(s) \in Nat /\ Len(t) \in Nat
    BY ConcatProperties, LenProperties
  <1>2. ASSUME NEW i \in DOMAIN L
        PROVE  \/ i \in DOMAIN s /\ L[i] = s[i]
               \/ \E j \in DOMAIN t : L[i] = t[j]
    <2>1. CASE i \in 1 .. Len(s)
      BY <1>1, <2>1
    <2>2. CASE i \notin 1 .. Len(s)
      <3>1. i - Len(s) \in 1 .. Len(t) /\ (i - Len(s)) + Len(s) = i
        BY <1>1, <2>2
      <3> QED
        BY <1>1, <3>1
    <2> QED
      BY <2>1, <2>2
  <1> QED
    BY <1>2 DEF LogFirst

LEMMA LogFirstOne ==
  ASSUME NEW box, NEW e, e.kind = "SignalReceived" => First(box, e.signal)
  PROVE  LogFirst(box, <<e>>)
  BY DEF LogFirst

LEMMA LogFirstEmpty == ASSUME NEW box PROVE LogFirst(box, <<>>)
  BY DEF LogFirst

LEMMA FirstStays ==
  ASSUME NEW box \in Seq(Signals), NEW s \in Signals, NEW log, LogFirst(box, log)
  PROVE  LogFirst(Append(box, s), log)
  <1>1. /\ Len(box) \in Nat /\ DOMAIN box = 1 .. Len(box)
        /\ DOMAIN Append(box, s) = 1 .. Len(box) + 1
        /\ \A i \in 1 .. Len(box) : Append(box, s)[i] = box[i]
    BY AppendProperties, LenProperties
  <1>2. ASSUME NEW t, First(box, t)
        PROVE  First(Append(box, s), t)
    <2>1. PICK k \in 1 .. Len(box) : box[k] = t /\ \A l \in 1 .. k - 1 : box[l].gate # t.gate
      BY <1>1, <1>2 DEF First
    <2>2. k \in DOMAIN Append(box, s) /\ Append(box, s)[k] = t
      BY <1>1, <2>1
    <2>3. \A l \in 1 .. k - 1 : Append(box, s)[l].gate # t.gate
      BY <1>1, <2>1
    <2> QED
      BY <2>2, <2>3 DEF First
  <1> QED
    BY <1>2 DEF LogFirst

(* A host's own log is written back with an event that opens no gate.      *)
LEMMA FirstsAppend ==
  ASSUME TypeOK, Firsts, NEW h \in Hosts, NEW more \in Seq(Events), appendBatch(h, more),
         UNCHANGED inbox, LogFirst(inbox, more)
  PROVE  Firsts'
  <1>1. LogFirst(inbox, Log(h) \o more)
    <2>1. cache[h] \in Seq(Events) /\ buffer[h] \in Seq(Events) /\ Log(h) \in Seq(Events)
      BY Concat DEF TypeOK, Log
    <2>2. LogFirst(inbox, Log(h))
      BY <2>1, LogFirstConcat DEF Firsts, Log
    <2> QED
      BY <2>1, <2>2, LogFirstConcat
  <1>2. /\ disk' = Log(h) \o more /\ cache'[h] = disk' /\ buffer'[h] = <<>>
        /\ \A k \in Hosts \ {h} : cache'[k] = cache[k] /\ buffer'[k] = buffer[k]
    BY AppendType
  <1> QED
    BY <1>1, <1>2, LogFirstEmpty DEF Firsts

(* A host buffers an event.                                                *)
LEMMA FirstsBuffer ==
  ASSUME TypeOK, Firsts, NEW h \in Hosts, NEW e \in Events,
         buffer' = [buffer EXCEPT ![h] = Append(@, e)], UNCHANGED <<cache, disk, inbox>>,
         e.kind = "SignalReceived" => First(inbox, e.signal)
  PROVE  Firsts'
  <1>1. LogFirst(inbox, buffer[h] \o <<e>>)
    <2>1. LogFirst(inbox, <<e>>) /\ LogFirst(inbox, buffer[h])
      BY LogFirstOne DEF Firsts
    <2>2. <<e>> \in Seq(Events) /\ buffer[h] \in Seq(Events)
      BY AppendLog DEF TypeOK
    <2> QED
      BY <2>1, <2>2, LogFirstConcat
  <1>2. buffer'[h] = buffer[h] \o <<e>> /\ \A k \in Hosts \ {h} : buffer'[k] = buffer[k]
    BY StepBuffers
  <1> QED
    BY <1>1, <1>2 DEF Firsts

LEMMA FirstsNext ==
  ASSUME TypeOK, Opened, Waiting, Firsts, [Next]_vars
  PROVE  Firsts'
  <1>1. ASSUME NEW s \in Signals, writeInboxSignal(s)
        PROVE  Firsts'
    <2>1. inbox' = Append(inbox, s) /\ UNCHANGED <<disk, cache, buffer>>
      BY <1>1 DEF writeInboxSignal, memory
    <2>2. inbox \in Seq(Signals)
      BY DEF TypeOK
    <2> QED
      BY <2>1, <2>2, FirstStays DEF Firsts
  <1>2. ASSUME NEW h \in Hosts, Flush(h)
        PROVE  Firsts'
    <2>1. <<>> \in Seq(Events) /\ appendBatch(h, <<>>) /\ UNCHANGED inbox
      BY <1>2 DEF Flush
    <2> QED
      BY <2>1, FirstsAppend, LogFirstEmpty
  <1>3. ASSUME NEW h \in Hosts, NEW g \in Gates, awaitNext(h, g)
        PROVE  Firsts'
    <2>1. PICK i \in queued[h] :
            /\ inbox[i].gate = g
            /\ Oldest(i, {j \in queued[h] : inbox[j].gate = g})
            /\ buffer' = [buffer EXCEPT ![h] = Append(@, Event("SignalReceived", inbox[i]))]
      BY <1>3 DEF awaitNext
    <2>2. /\ h \in up /\ i \in 1 .. swept[h] /\ swept[h] \in 0 .. Len(inbox) /\ Len(inbox) \in Nat
          /\ \A k \in 1 .. swept[h] : inbox[k].gate = g => k \in queued[h]
      BY <1>3 DEF awaitNext, At, Waiting, WaitingAt, TypeOK
    <2>3. \A l \in 1 .. i - 1 : inbox[l].gate # g
      <3>1. SUFFICES ASSUME NEW l \in 1 .. i - 1, inbox[l].gate = g PROVE FALSE
        OBVIOUS
      <3>2. l \in 1 .. swept[h] /\ ~(i <= l)
        BY <2>2
      <3>3. l \in queued[h]
        BY <2>2, <3>1, <3>2
      <3> QED
        BY <2>1, <3>1, <3>2, <3>3 DEF Oldest
    <2>4. i \in DOMAIN inbox /\ inbox[i] \in Signals
      BY <2>2 DEF TypeOK
    <2>5. First(inbox, inbox[i])
      BY <2>1, <2>3, <2>4 DEF First
    <2> DEFINE e == Event("SignalReceived", inbox[i])
    <2>6. e \in Events /\ e.signal = inbox[i]
      BY <2>4, EventType DEF StepKinds, EventKinds
    <2>7. buffer' = [buffer EXCEPT ![h] = Append(@, e)] /\ UNCHANGED <<cache, disk, inbox>>
      BY <1>3, <2>1 DEF awaitNext
    <2> HIDE DEF e
    <2>8. e.kind = "SignalReceived" => First(inbox, e.signal)
      BY <2>5, <2>6
    <2> QED
      BY <2>6, <2>7, <2>8, FirstsBuffer
  <1>4. ASSUME NEW h \in Hosts, NEW g \in Gates, StartStep(h, g)
        PROVE  Firsts'
    <2> DEFINE e == Event("StepStarted", Taken(h, g))
    <2>1. e \in Events /\ e.kind = "StepStarted" /\ <<e>> \in Seq(Events) /\ appendBatch(h, <<e>>)
      BY <1>4, StartStepAppends
    <2>2. UNCHANGED inbox
      BY <1>4 DEF StartStep
    <2> HIDE DEF e
    <2>3. LogFirst(inbox, <<e>>)
      BY <2>1, LogFirstOne
    <2> QED
      BY <2>1, <2>2, <2>3, FirstsAppend
  <1>5. ASSUME NEW h \in Hosts, NEW g \in Gates, invokeAction(h, g)
        PROVE  Firsts'
    <2>1. Taken(h, g) \in Signals /\ "StepCompleted" \in StepKinds
      BY <1>5, TakenType DEF invokeAction, At, Opened, StepKinds, EventKinds
    <2> DEFINE e == Event("StepCompleted", Taken(h, g))
    <2>2. e \in Events /\ e.kind # "SignalReceived"
      BY <2>1, EventType
    <2>3. buffer' = [buffer EXCEPT ![h] = Append(@, e)] /\ UNCHANGED <<cache, disk, inbox>>
      BY <1>5 DEF invokeAction
    <2> HIDE DEF e
    <2> QED
      BY <2>2, <2>3, FirstsBuffer
  <1>6. ASSUME NEW h \in Hosts, run(h)
        PROVE  Firsts'
    <2>1. CASE disk' = disk \o <<[kind |-> "RunFailed"]>> /\ UNCHANGED <<inbox, memory>>
      <3>1. <<[kind |-> "RunFailed"]>> \in Seq(Events) /\ disk \in Seq(Events)
        BY DEF Events, TypeOK
      <3>2. LogFirst(inbox, <<[kind |-> "RunFailed"]>>)
        BY LogFirstOne
      <3>3. LogFirst(inbox, disk')
        BY <2>1, <3>1, <3>2, LogFirstConcat DEF Firsts
      <3> QED
        BY <2>1, <3>3 DEF Firsts, memory
    <2>2. CASE /\ cache' = [cache EXCEPT ![h] = disk]
               /\ buffer' = [buffer EXCEPT ![h] = <<>>]
               /\ UNCHANGED <<disk, inbox>>
      BY <2>2, LogFirstEmpty DEF Firsts, TypeOK
    <2> QED
      BY <1>6, <2>1, <2>2, RunEffect
  <1>7. ASSUME NEW h \in Hosts, Crash(h)
        PROVE  Firsts'
    <2>1. /\ cache' = [cache EXCEPT ![h] = <<>>]
          /\ buffer' = [buffer EXCEPT ![h] = <<>>]
          /\ UNCHANGED <<disk, inbox>>
      BY <1>7 DEF Crash
    <2> QED
      BY <2>1, LogFirstEmpty DEF Firsts, TypeOK
  <1>8. ASSUME NEW h \in Hosts, sweep(h)
        PROVE  Firsts'
    BY <1>8 DEF sweep, Firsts
  <1>9. CASE UNCHANGED vars
    BY <1>9 DEF vars, memory, Firsts
  <1> QED
    BY <1>1, <1>2, <1>3, <1>4, <1>5, <1>6, <1>7, <1>8, <1>9 DEF Next, HostStep

(* A step of one gate that leaves no parked gate behind it and writes one  *)
(* event.                                                                  *)
LEMMA WaitingMove ==
  ASSUME TypeOK, Waiting, UNCHANGED <<up, inbox, swept>>,
         NEW h \in up, NEW g \in Gates, NEW p \in Phases, p # "parked",
         phase' = [phase EXCEPT ![h][g] = p],
         NEW e \in Events, e.kind = "SignalReceived" => e.signal.gate = g,
         Log(h) \in Seq(Events), Log(h)' = Log(h) \o <<e>>,
         \A k \in Hosts \ {h} : Log(k)' = Log(k) /\ queued'[k] = queued[k],
         queued'[h] \subseteq queued[h],
         \A i \in queued[h] : inbox[i].gate # g => i \in queued'[h]
  PROVE  Waiting'
  <1>1. h \in Hosts /\ up \subseteq Hosts
    BY DEF TypeOK
  <1>2. /\ phase'[h][g] = p
        /\ \A k \in Hosts, q \in Gates : (k # h \/ q # g) => phase'[k][q] = phase[k][q]
    <2>1. /\ phase \in [Hosts -> [Gates -> Phases]]
          /\ phase[h] \in [Gates -> Phases] /\ h \in Hosts
      BY <1>1 DEF TypeOK
    <2>2. phase'[h] = [phase[h] EXCEPT ![g] = p] /\ \A k \in Hosts \ {h} : phase'[k] = phase[k]
      BY <2>1
    <2> QED
      BY <2>1, <2>2
  <1>3. \A q : Happened(Log(h)', "SignalReceived", q) => q = g \/ Happened(Log(h), "SignalReceived", q)
    <2>1. ASSUME NEW q, Happened(Log(h)', "SignalReceived", q)
          PROVE  q = g \/ Happened(Log(h), "SignalReceived", q)
      <3>1. Happened(Log(h) \o <<e>>, "SignalReceived", q)
              <=> Happened(Log(h), "SignalReceived", q) \/ Happened(<<e>>, "SignalReceived", q)
        BY HappenedConcat, AppendLog
      <3>2. Happened(<<e>>, "SignalReceived", q) => q = g
        BY HappenedOne
      <3> QED
        BY <2>1, <3>1, <3>2
    <2> QED
      BY <2>1
  <1>4. ASSUME NEW k \in up
        PROVE  queued'[k] \subseteq 1 .. swept[k]
    BY <1>1 DEF Waiting
  <1>5. ASSUME NEW k \in up, NEW q \in Gates
        PROVE  WaitingAt(k, q)'
    <2>1. WaitingAt(k, q) /\ k \in Hosts
      BY <1>1 DEF Waiting
    <2>2. CASE k # h
      BY <1>2, <2>1, <2>2 DEF WaitingAt
    <2>3. CASE k = h /\ q # g
      BY <1>2, <1>3, <2>1, <2>3 DEF WaitingAt
    <2>4. CASE k = h /\ q = g
      BY <1>2, <2>4 DEF WaitingAt
    <2> QED
      BY <2>2, <2>3, <2>4
  <1> QED
    BY <1>4, <1>5 DEF Waiting

LEMMA ReceivedHappened ==
  ASSUME NEW log, NEW s, s \in receivedIds(log)
  PROVE  Happened(log, "SignalReceived", s.gate)
  BY DEF receivedIds, Happened

LEMMA WaitingNext ==
  ASSUME TypeOK, Opened, Waiting, [Next]_vars
  PROVE  Waiting'
  <1>0. up \subseteq Hosts /\ \A h \in Hosts : Log(h) \in Seq(Events)
    BY Concat DEF TypeOK, Log
  <1>1. ASSUME NEW s \in Signals, writeInboxSignal(s)
        PROVE  Waiting'
    <2>1. inbox' = Append(inbox, s) /\ inbox \in Seq(Signals) /\ Len(inbox) \in Nat
          /\ UNCHANGED <<up, cache, buffer, swept, queued, phase>>
      BY <1>1 DEF writeInboxSignal, memory, TypeOK
    <2>2. \A k \in 1 .. Len(inbox) : inbox'[k] = inbox[k]
      BY <2>1, AppendProperties
    <2>3. \A h \in up : swept[h] \in 0 .. Len(inbox)
      BY <1>0 DEF TypeOK
    <2>4. \A h \in up : \A k \in 1 .. swept[h] : inbox'[k] = inbox[k]
      BY <2>1, <2>2, <2>3
    <2> QED
      BY <2>1, <2>4 DEF Waiting, WaitingAt, Log
  <1>2. ASSUME NEW h \in Hosts, Flush(h)
        PROVE  Waiting'
    <2>1. <<>> \in Seq(Events) /\ appendBatch(h, <<>>) /\ Log(h) \o <<>> = Log(h)
      BY <1>0, <1>2, ConcatEmptySeq DEF Flush
    <2>2. Log(h)' = Log(h) /\ \A k \in Hosts \ {h} : Log(k)' = Log(k)
      BY <2>1, AppendType DEF Log
    <2>3. UNCHANGED <<up, inbox, swept, queued, phase>>
      BY <1>2 DEF Flush
    <2> QED
      BY <1>0, <2>2, <2>3 DEF Waiting, WaitingAt
  <1>3. ASSUME NEW h \in Hosts, sweep(h)
        PROVE  Waiting'
    <2>1. /\ UNCHANGED <<up, inbox, cache, buffer, phase>>
          /\ swept'[h] = Len(inbox) /\ queued'[h] = queued[h] \cup Fresh(cache[h], swept[h])
          /\ \A k \in Hosts \ {h} : swept'[k] = swept[k] /\ queued'[k] = queued[k]
          /\ h \in up /\ swept[h] \in 0 .. Len(inbox) /\ Len(inbox) \in Nat
          /\ cache[h] \in Seq(Events) /\ buffer[h] \in Seq(Events)
      BY <1>3 DEF sweep, TypeOK
    <2>2. queued'[h] \subseteq 1 .. swept'[h]
      BY <2>1 DEF Waiting, Fresh
    <2>3. ASSUME NEW g \in Gates, phase[h][g] = "parked",
                 NEW k \in 1 .. Len(inbox), inbox[k].gate = g
          PROVE  k \in queued'[h]
      <3>1. WaitingAt(h, g)
        BY <2>1 DEF Waiting
      <3>2. CASE k \in 1 .. swept[h]
        BY <2>1, <2>3, <3>1, <3>2 DEF WaitingAt
      <3>3. CASE k \notin 1 .. swept[h]
        <4>1. ~Happened(cache[h], "SignalReceived", g)
          BY <2>1, <2>3, <3>1, HappenedConcat DEF WaitingAt, Log
        <4>2. inbox[k] \notin receivedIds(cache[h])
          BY <2>3, <4>1, ReceivedHappened
        <4>3. k \in Fresh(cache[h], swept[h])
          BY <2>1, <3>3, <4>2 DEF Fresh
        <4> QED
          BY <2>1, <4>3
      <3> QED
        BY <3>2, <3>3
    <2>4. ASSUME NEW k \in up, NEW g \in Gates
          PROVE  WaitingAt(k, g)'
      <3>1. WaitingAt(k, g) /\ k \in Hosts /\ Log(k)' = Log(k)
        BY <1>0, <2>1 DEF Waiting, Log
      <3>2. CASE k = h
        BY <2>1, <2>3, <3>1, <3>2 DEF WaitingAt
      <3>3. CASE k # h
        BY <2>1, <3>1, <3>3 DEF WaitingAt
      <3> QED
        BY <3>2, <3>3
    <2> QED
      BY <1>0, <2>1, <2>2, <2>4 DEF Waiting
  <1>4. ASSUME NEW h \in Hosts, NEW g \in Gates, awaitNext(h, g)
        PROVE  Waiting'
    <2>1. PICK i \in queued[h] :
            /\ inbox[i].gate = g
            /\ buffer' = [buffer EXCEPT ![h] = Append(@, Event("SignalReceived", inbox[i]))]
            /\ queued' = [queued EXCEPT ![h] = @ \ {i}]
      BY <1>4 DEF awaitNext
    <2>2. inbox[i] \in Signals /\ "SignalReceived" \in StepKinds
      BY DEF TypeOK, StepKinds, EventKinds
    <2> DEFINE e == Event("SignalReceived", inbox[i])
    <2>3. e \in Events /\ e.signal.gate = g
      BY <2>1, <2>2, EventType
    <2>4. buffer' = [buffer EXCEPT ![h] = Append(@, e)] /\ UNCHANGED cache
      BY <1>4, <2>1 DEF awaitNext
    <2> HIDE DEF e
    <2>5. Log(h)' = Log(h) \o <<e>> /\ \A k \in Hosts \ {h} : Log(k)' = Log(k)
      BY <2>3, <2>4, StepBuffers
    <2>6. /\ queued'[h] \subseteq queued[h]
          /\ \A j \in queued[h] : inbox[j].gate # g => j \in queued'[h]
          /\ \A k \in Hosts \ {h} : queued'[k] = queued[k]
      BY <2>1 DEF TypeOK
    <2>7. /\ UNCHANGED <<up, inbox, swept>> /\ h \in up
          /\ "received" \in Phases /\ phase' = [phase EXCEPT ![h][g] = "received"]
      BY <1>4 DEF awaitNext, At, Phases
    <2>8. Log(h) \in Seq(Events)
      BY <1>0
    <2> QED
      BY <2>3, <2>5, <2>6, <2>7, <2>8, WaitingMove
  <1>5. ASSUME NEW h \in Hosts, NEW g \in Gates, StartStep(h, g)
        PROVE  Waiting'
    <2> DEFINE e == Event("StepStarted", Taken(h, g))
    <2>1. /\ e \in Events /\ e.kind = "StepStarted" /\ <<e>> \in Seq(Events) /\ appendBatch(h, <<e>>)
      BY <1>5, StartStepAppends
    <2> HIDE DEF e
    <2>2. Log(h)' = Log(h) \o <<e>> /\ \A k \in Hosts \ {h} : Log(k)' = Log(k)
      BY <2>1, AppendType DEF Log
    <2>3. /\ UNCHANGED <<up, inbox, swept, queued>> /\ h \in up
          /\ "started" \in Phases /\ phase' = [phase EXCEPT ![h][g] = "started"]
      BY <1>5 DEF StartStep, At, Phases
    <2>4. Log(h) \in Seq(Events)
      BY <1>0
    <2> QED
      BY <2>1, <2>2, <2>3, <2>4, WaitingMove
  <1>6. ASSUME NEW h \in Hosts, NEW g \in Gates, invokeAction(h, g)
        PROVE  Waiting'
    <2>1. Taken(h, g) \in Signals /\ "StepCompleted" \in StepKinds
      BY <1>6, TakenType DEF invokeAction, At, Opened, StepKinds, EventKinds
    <2> DEFINE e == Event("StepCompleted", Taken(h, g))
    <2>2. e \in Events /\ e.kind # "SignalReceived"
      BY <2>1, EventType
    <2>3. buffer' = [buffer EXCEPT ![h] = Append(@, e)] /\ UNCHANGED cache
      BY <1>6 DEF invokeAction
    <2> HIDE DEF e
    <2>4. Log(h)' = Log(h) \o <<e>> /\ \A k \in Hosts \ {h} : Log(k)' = Log(k)
      BY <2>2, <2>3, StepBuffers
    <2>5. /\ UNCHANGED <<up, inbox, swept, queued>> /\ h \in up
          /\ "completed" \in Phases /\ phase' = [phase EXCEPT ![h][g] = "completed"]
      BY <1>6 DEF invokeAction, At, Phases
    <2>6. Log(h) \in Seq(Events)
      BY <1>0
    <2> QED
      BY <2>2, <2>4, <2>5, <2>6, WaitingMove
  <1>7. ASSUME NEW h \in Hosts, run(h)
        PROVE  Waiting'
    <2>1. CASE UNCHANGED <<inbox, up, memory>>
      BY <2>1 DEF Waiting, WaitingAt, Log, memory
    <2>2. CASE /\ up' = up \cup {h} /\ UNCHANGED <<disk, inbox>>
               /\ cache' = [cache EXCEPT ![h] = disk]
               /\ buffer' = [buffer EXCEPT ![h] = <<>>]
               /\ Log(h)' = disk
               /\ phase' = [phase EXCEPT ![h] = [g \in Gates |-> PhaseIn(disk, g)]]
               /\ phase'[h] = [g \in Gates |-> PhaseIn(disk, g)]
               /\ Resumed(h)
      <3>1. /\ swept'[h] = Len(inbox) /\ queued'[h] = Fresh(disk, 0)
            /\ \A k \in Hosts \ {h} : /\ swept'[k] = swept[k] /\ queued'[k] = queued[k]
                                      /\ Log(k)' = Log(k) /\ phase'[k] = phase[k]
        BY <2>2 DEF Resumed, Log, TypeOK
      <3>2. queued'[h] \subseteq 1 .. swept'[h]
        BY <3>1 DEF Fresh
      <3>3. ASSUME NEW g \in Gates
            PROVE  WaitingAt(h, g)'
        <4>1. SUFFICES ASSUME PhaseIn(disk, g) = "parked"
                       PROVE  /\ ~Happened(disk, "SignalReceived", g)
                              /\ \A k \in 1 .. Len(inbox) : inbox[k].gate = g => k \in Fresh(disk, 0)
          BY <2>2, <3>1 DEF WaitingAt
        <4>2. ~Happened(disk, "SignalReceived", g)
          BY <4>1, PhaseInType
        <4>3. ASSUME NEW k \in 1 .. Len(inbox), inbox[k].gate = g
              PROVE  k \in Fresh(disk, 0)
          <5>1. inbox[k] \notin receivedIds(disk)
            BY <4>2, <4>3, ReceivedHappened
          <5> QED
            BY <5>1 DEF Fresh
        <4> QED
          BY <4>2, <4>3
      <3>4. ASSUME NEW k \in up' \ {h}, NEW g \in Gates
            PROVE  WaitingAt(k, g)'
        <4>1. WaitingAt(k, g) /\ k \in Hosts \ {h}
          BY <1>0, <2>2 DEF Waiting
        <4> QED
          BY <2>2, <3>1, <4>1 DEF WaitingAt
      <3>5. \A k \in up' \ {h} : queued'[k] \subseteq 1 .. swept'[k]
        BY <1>0, <2>2, <3>1 DEF Waiting
      <3> QED
        BY <3>2, <3>3, <3>4, <3>5 DEF Waiting
    <2> QED
      BY <1>7, <2>1, <2>2, RunEffect
  <1>8. ASSUME NEW h \in Hosts, Crash(h)
        PROVE  Waiting'
    <2>1. /\ up' = up \ {h} /\ UNCHANGED inbox
          /\ \A k \in Hosts \ {h} : /\ swept'[k] = swept[k] /\ queued'[k] = queued[k]
                                    /\ cache'[k] = cache[k] /\ buffer'[k] = buffer[k]
                                    /\ phase'[k] = phase[k]
      BY <1>8 DEF Crash, TypeOK
    <2> QED
      BY <1>0, <2>1 DEF Waiting, WaitingAt, Log
  <1>9. CASE UNCHANGED vars
    BY <1>9 DEF vars, memory, Waiting, WaitingAt, Log
  <1> QED
    BY <1>1, <1>2, <1>3, <1>4, <1>5, <1>6, <1>7, <1>8, <1>9 DEF Next, HostStep

(* The signal that opens a gate is the first the inbox holds for it, for   *)
(* every reader of the log, across replays, deaths and hosts.              *)
THEOREM FirstSignalOpens == Spec => []FirstOpens
  <1>1. Init => Waiting /\ Firsts
    BY LogFirstEmpty DEF Init, Waiting, Firsts
  <1>2. Firsts => FirstOpens
    BY DEF Firsts, LogFirst, First, FirstOpens
  <1>3. TypeOK /\ Opened /\ Waiting /\ Firsts /\ [Next]_vars => Waiting' /\ Firsts'
    BY WaitingNext, FirstsNext
  <1> QED
    BY <1>1, <1>2, <1>3, TypeInit, TypeNext, PTL DEF Spec

(* A gate opens by its first signal and acts once, while hosts take turns. *)
THEOREM GatesOpenOnce ==
  ASSUME ~Shared
  PROVE  Spec => []OpensOnce
  BY FirstSignalOpens, ActionsRunOnce, PTL DEF OpensOnce
=============================================================================
