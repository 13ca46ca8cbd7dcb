----------------------------- MODULE Subscriptions -----------------------------
(***************************************************************************)
(* Who follows a run's log in the process that writes it (apps/host/src/   *)
(* fs-host/repo-store.ts, subscribe): each has a buffer with a limit.      *)
(* Events are told by their seqs.                                          *)
(***************************************************************************)
EXTENDS Naturals, Sequences

CONSTANTS Subscribers,
          bufferLimit,
          MaxEvents     \* bound on the log's length

ASSUME LimitAssumption == bufferLimit \in Nat \ {0}
ASSUME EventsAssumption == MaxEvents \in Nat

VARIABLES
  logged,   \* how many events are on disk
  sub,      \* what the store holds for a subscriber
  got,      \* the events its iterator has given it
  first,    \* the first event it asked for
  told      \* how it learnt of its end

SubscriptionsVars == <<logged, sub, got, first, told>>

NoSub == [listed |-> FALSE, buffer |-> <<>>, closed |-> FALSE, error |-> FALSE, waiter |-> FALSE]

SubscriptionsTypeOK ==
  /\ logged \in 0 .. MaxEvents
  /\ \A s \in Subscribers :
       /\ Len(sub[s].buffer) <= bufferLimit
       /\ told[s] \in {"nothing", "threw", "aborted"} /\ first[s] \in 0 .. MaxEvents + 1
       /\ sub[s].waiter => sub[s].buffer = <<>> /\ ~sub[s].closed

SubscriptionsInit ==
  /\ logged = 0
  /\ sub = [s \in Subscribers |-> NoSub]
  /\ got = [s \in Subscribers |-> <<>>]
  /\ first = [s \in Subscribers |-> 0]
  /\ told = [s \in Subscribers |-> "nothing"]

(* Mutant of Full: one event late.                                         *)
FullPast(x) == Len(x.buffer) > bufferLimit

Full(x) == Len(x.buffer) >= bufferLimit
Overrun(x) == [x EXCEPT !.error = TRUE, !.closed = TRUE, !.waiter = FALSE]

(* The log from the wanted seq on, up to the limit: past it, an error.     *)
Replayed(events) ==
  IF Len(events) > bufferLimit
  THEN [NoSub EXCEPT !.listed = TRUE, !.buffer = SubSeq(events, 1, bufferLimit),
                     !.error = TRUE, !.closed = TRUE]
  ELSE [NoSub EXCEPT !.listed = TRUE, !.buffer = events]

(* n = logged + 1 is the head: nothing that is there already.              *)
subscribe(s, n) ==
  /\ ~sub[s].listed /\ first[s] = 0 /\ n <= logged + 1
  /\ first' = [first EXCEPT ![s] = n]
  /\ sub' = [sub EXCEPT ![s] = Replayed([i \in 1 .. logged + 1 - n |-> n + i - 1])]
  /\ UNCHANGED <<logged, got, told>>

(* Mutant of Notified: a full buffer makes room.                           *)
NotifiedDropping(x, n) ==
  IF x.closed THEN x
  ELSE IF x.waiter THEN [x EXCEPT !.waiter = FALSE]
  ELSE [x EXCEPT !.buffer = Append(IF Full(x) THEN Tail(@) ELSE @, n)]

(* An event reaches an open subscriber: its waiter, if it has one, else    *)
(* its buffer; a full buffer closes it with an error.                      *)
Notified(x, n) ==
  IF x.closed THEN x
  ELSE IF Full(x) THEN Overrun(x)
  ELSE IF x.waiter THEN [x EXCEPT !.waiter = FALSE]
  ELSE [x EXCEPT !.buffer = Append(@, n)]

(* An event on disk is made visible to everyone listed.                    *)
notify ==
  /\ logged < MaxEvents
  /\ logged' = logged + 1
  /\ sub' = [s \in Subscribers |-> IF sub[s].listed THEN Notified(sub[s], logged') ELSE sub[s]]
  /\ got' = [s \in Subscribers |->
               IF sub[s].listed /\ sub[s].waiter THEN Append(got[s], logged') ELSE got[s]]
  /\ UNCHANGED <<first, told>>

closeNow(x) == [x EXCEPT !.closed = TRUE, !.listed = FALSE, !.waiter = FALSE, !.error = FALSE]

(* The consumer asks for the next event: an error is thrown before what is *)
(* left in the buffer; without either it waits.                            *)
next(s) ==
  LET x == sub[s] IN
  /\ first[s] # 0 /\ ~x.waiter /\ told[s] = "nothing"
  /\ IF x.error
     THEN /\ told' = [told EXCEPT ![s] = "threw"]
          /\ sub' = [sub EXCEPT ![s] = closeNow(x)]
          /\ UNCHANGED got
     ELSE IF x.buffer # <<>>
     THEN /\ got' = [got EXCEPT ![s] = Append(@, Head(x.buffer))]
          /\ sub' = [sub EXCEPT ![s].buffer = Tail(@)]
          /\ UNCHANGED told
     ELSE /\ ~x.closed
          /\ sub' = [sub EXCEPT ![s].waiter = TRUE]
          /\ UNCHANGED <<got, told>>
  /\ UNCHANGED <<logged, first>>

(* The consumer's signal aborts, or it returns early.                      *)
abort(s) ==
  /\ first[s] # 0 /\ told[s] = "nothing"
  /\ sub' = [sub EXCEPT ![s] = closeNow(@)]
  /\ told' = [told EXCEPT ![s] = "aborted"]
  /\ UNCHANGED <<logged, got, first>>

SubscriptionsNext ==
  \/ notify
  \/ \E s \in Subscribers : next(s) \/ abort(s) \/ \E n \in 1 .. MaxEvents + 1 : subscribe(s, n)

-----------------------------------------------------------------------------
(* Properties.                                                             *)

(* What a subscriber has been given and what waits for it are the log from *)
(* the event it asked for, in order, none twice and none left out; unless  *)
(* it is about to be told, has been told, or has left (repo-store.ts:76).  *)
LossIsLoud ==
  \A s \in Subscribers :
    LET seen == got[s] \o sub[s].buffer IN
    /\ \A i \in 1 .. Len(seen) : seen[i] = first[s] + i - 1
    /\ first[s] # 0 /\ told[s] = "nothing" /\ ~sub[s].error =>
         Len(seen) = logged + 1 - first[s]
=============================================================================
