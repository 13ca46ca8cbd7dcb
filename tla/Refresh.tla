-------------------------------- MODULE Refresh --------------------------------
(***************************************************************************)
(* How a window keeps up with a ledger that others move (apps/desktop/src/ *)
(* watch.ts; AppBody and the pages of App.tsx).  Every tick asks for what  *)
(* is shown again, and the watcher makes a tick of each advance it sees.   *)
(* Answers take their time and may overtake each other; three ways of      *)
(* taking them are told apart: the header's (an answer belongs to the tick *)
(* that asked), the queue's (the newest load is the answer, a failed one   *)
(* keeps the list and says so) and a page's (every answer is taken).       *)
(***************************************************************************)
EXTENDS Integers, FiniteSets

CONSTANTS Loaders,    \* of {"header", "queue", "page"}
          MaxSeq,     \* bound on the ledger's events
          MaxAsks,    \* bound on the loads
          MaxFailures \* bound on requests that fail

ASSUME LoadersAssumption == Loaders \subseteq {"header", "queue", "page"}
ASSUME AsksAssumption == MaxSeq \in Nat /\ MaxAsks \in Nat \ {0} /\ MaxFailures \in Nat

Blank == -1      \* nothing to show
Failed == -2     \* the request failed
Unanswered == -3

VARIABLES
  loader,
  ledgerSeq,
  loads,       \* loads under way: which, and what the host answered
  asked,       \* queueLoad, or the tick: the newest load
  shown,       \* the ledger the screen shows
  loadError,   \* queueError
  lastShown,   \* the ledger it showed last
  seenSeq,     \* the cursor, Blank before its first answer
  headPoll,    \* inFlight: "none", or what the host answered
  loadsCrossed,     \* the newest load was asked for while another was under way
  overtaken,   \* the cursor began later than what was on its way to the screen
  failures

RefreshVars == <<loader, ledgerSeq, loads, asked, shown, loadError, lastShown,
                 seenSeq, headPoll, loadsCrossed, overtaken, failures>>

Seqs == 0 .. MaxSeq

RefreshTypeOK ==
  /\ loader \in Loaders
  /\ \A x \in loads : x.n \in 1 .. asked /\ x.answer \in Seqs \cup {Unanswered, Failed}
  /\ ledgerSeq \in Seqs /\ shown \in Seqs \cup {Blank} /\ lastShown \in Seqs
  /\ {loadError, loadsCrossed, overtaken} \subseteq BOOLEAN
  /\ seenSeq \in Seqs \cup {Blank}
  /\ headPoll.kind \in {"none", "asked"} /\ headPoll.answer \in Seqs \cup {Unanswered, Failed}
  /\ asked \in 1 .. MaxAsks /\ failures \in 0 .. MaxFailures

Load(n) == [n |-> n, answer |-> Unanswered]
NoPoll == [kind |-> "none", answer |-> Unanswered]

(* The window opens: everything is asked for, and where the ledger stands. *)
RefreshInit ==
  /\ loader \in Loaders
  /\ ledgerSeq = 0 /\ asked = 1
  /\ loads = {Load(1)}
  /\ shown = Blank /\ loadError = FALSE /\ lastShown = 0
  /\ seenSeq = Blank
  /\ headPoll = [kind |-> "asked", answer |-> Unanswered]
  /\ loadsCrossed = FALSE /\ overtaken = FALSE
  /\ failures = 0

LedgerMoves ==
  /\ ledgerSeq < MaxSeq
  /\ ledgerSeq' = ledgerSeq + 1
  /\ UNCHANGED <<loader, loads, asked, shown, loadError, lastShown, seenSeq, headPoll,
                 loadsCrossed, overtaken, failures>>

(* Mutant of Bump: no second load while one is under way.                  *)
BumpOnce ==
  IF loads # {} THEN UNCHANGED <<asked, loads, loadsCrossed>>
  ELSE /\ asked < MaxAsks /\ asked' = asked + 1
       /\ loads' = loads \cup {Load(asked + 1)}
       /\ loadsCrossed' = FALSE

(* setTick: every effect that hangs on the tick asks again.                *)
Bump ==
  /\ asked < MaxAsks
  /\ asked' = asked + 1
  /\ loads' = loads \cup {Load(asked + 1)}
  /\ loadsCrossed' = (loads # {})

(* A button's onChanged; for the queue also its page, opened, and "Try     *)
(* again".                                                                 *)
refresh ==
  /\ Bump
  /\ UNCHANGED <<loader, ledgerSeq, shown, loadError, lastShown, seenSeq, headPoll,
                 overtaken, failures>>

LoadFails == failures < MaxFailures /\ failures' = failures + 1

(* What the host answers: the ledger as it stands, or not at all.          *)
Replies(answer) ==
  \/ answer = ledgerSeq /\ UNCHANGED failures
  \/ answer = Failed /\ LoadFails

HostServes(x) ==
  /\ x.answer = Unanswered
  /\ \E answer \in {ledgerSeq, Failed} :
       /\ Replies(answer)
       /\ loads' = (loads \ {x}) \cup {[x EXCEPT !.answer = answer]}
  /\ UNCHANGED <<loader, ledgerSeq, asked, shown, loadError, lastShown, seenSeq, headPoll,
                 loadsCrossed, overtaken>>

(* Mutant of Taken: whatever comes is the answer.                          *)
TakenAny(n) == TRUE

(* live of the tick's effect; queueLoad's number; a page takes them all.   *)
Taken(n) == loader = "page" \/ n = asked

Lands(x) ==
  /\ x.answer # Unanswered
  /\ loads' = loads \ {x}
  /\ IF ~Taken(x.n) THEN UNCHANGED <<shown, loadError, lastShown>>
     ELSE IF x.answer = Failed
     THEN /\ shown' = IF loader = "queue" THEN shown ELSE Blank
          /\ loadError' = TRUE
          /\ UNCHANGED lastShown
     ELSE shown' = x.answer /\ lastShown' = x.answer /\ loadError' = FALSE
  /\ UNCHANGED <<loader, ledgerSeq, asked, seenSeq, headPoll, loadsCrossed, overtaken,
                 failures>>

-----------------------------------------------------------------------------
(* ledgerCursor.                                                           *)

(* The interval, the focus, the page in view; a poll under way is joined.  *)
pollHead ==
  /\ headPoll.kind = "none"
  /\ headPoll' = [kind |-> "asked", answer |-> Unanswered]
  /\ UNCHANGED <<loader, ledgerSeq, loads, asked, shown, loadError, lastShown, seenSeq,
                 loadsCrossed, overtaken, failures>>

HeadServed ==
  /\ headPoll.kind = "asked" /\ headPoll.answer = Unanswered
  /\ \E answer \in {ledgerSeq, Failed} :
       Replies(answer) /\ headPoll' = [headPoll EXCEPT !.answer = answer]
  /\ UNCHANGED <<loader, ledgerSeq, loads, asked, shown, loadError, lastShown, seenSeq,
                 loadsCrossed, overtaken>>

(* What the newest load has been answered with, wherever that answer is.   *)
NewestAnswer ==
  LET newest == {x \in loads : x.n = asked} IN
  IF newest = {} THEN shown ELSE (CHOOSE x \in newest : TRUE).answer

(* The first answer is only recorded; a later one that moved on is a tick; *)
(* a failure is ignored.                                                   *)
HeadLands ==
  LET seq == headPoll.answer IN
  /\ seq # Unanswered
  /\ headPoll' = NoPoll
  /\ IF seq = Failed \/ seq = seenSeq
     THEN UNCHANGED <<seenSeq, asked, loads, loadsCrossed, overtaken>>
     ELSE /\ seenSeq' = seq
          /\ IF seenSeq = Blank
             THEN /\ overtaken' = (NewestAnswer # Unanswered /\ NewestAnswer < seq)
                  /\ UNCHANGED <<asked, loads, loadsCrossed>>
             ELSE Bump /\ overtaken' = FALSE
  /\ UNCHANGED <<loader, ledgerSeq, shown, loadError, lastShown, failures>>

RefreshNext ==
  \/ LedgerMoves \/ refresh \/ pollHead \/ HeadServed \/ HeadLands
  \/ \E x \in loads : HostServes(x) \/ Lands(x)

-----------------------------------------------------------------------------
(* Properties.                                                             *)

(* The header and the queue never show an older ledger after a newer one   *)
(* (App.tsx:450-451); a page does only when its loads cross.              *)
NeverBackwards ==
  [][lastShown' # lastShown =>
       \/ lastShown' > lastShown
       \/ loader = "page" /\ loadsCrossed]_RefreshVars

(* Once everything asked for is answered, the header and the queue show at *)
(* least the ledger the watcher has seen, or say that the load failed      *)
(* (watch.ts:1-6) -- unless the cursor's first answer had already passed   *)
(* the ledger they were loaded from: that advance makes no tick.           *)
CaughtUp ==
  loads = {} /\ seenSeq # Blank /\ loader # "page" =>
    shown >= seenSeq \/ loadError \/ overtaken
=============================================================================
