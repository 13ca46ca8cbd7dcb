--------------------------- MODULE ApprovalChain ---------------------------
(***************************************************************************)
(* What the approval queue promises about the recommendations ONE proposal *)
(* run drafts, told over the ledger rows alone: the message chain          *)
(*                                                                         *)
(*   Recommendation -> verdict -> decision -> Instruction                  *)
(*                                                                         *)
(* of packages/ledger/src/governance.ts.  A recommendation moves forward   *)
(* through its stages, a run takes at most one decision, and the lapse of  *)
(* the window excludes a decision for ever.  Proposal.tla, the workflow    *)
(* with its effects, inbox, timer and crashes, is shown to implement it.   *)
(***************************************************************************)
CONSTANTS Recs

VARIABLES stage,    \* Recs -> how far the rows of the recommendation go
          lapsed    \* the run's "proposal.expired" event is in the outbox

vars == <<stage, lapsed>>

Stages == {"absent", "drafted", "cleared", "blocked",
           "approved", "rejected", "prepared", "revoked"}

Decided == {"approved", "rejected", "prepared", "revoked"}

TypeOK == /\ stage \in [Recs -> Stages]
          /\ lapsed \in BOOLEAN

Init == /\ stage = [r \in Recs |-> "absent"]
        /\ lapsed = FALSE

Move(r, from, to) == /\ stage[r] = from
                     /\ stage' = [stage EXCEPT ![r] = to]

Undecided == \A r \in Recs : stage[r] \notin Decided

Draft(r) == Move(r, "absent", "drafted") /\ UNCHANGED lapsed

Audit(r) == /\ \E v \in {"cleared", "blocked"} : Move(r, "drafted", v)
            /\ UNCHANGED lapsed

(* The decision is taken once in a run, on a cleared recommendation, and   *)
(* never after the window lapsed.                                          *)
Decide(r) == /\ Undecided /\ ~lapsed
             /\ \E d \in {"approved", "rejected"} : Move(r, "cleared", d)
             /\ UNCHANGED lapsed

Prepare(r) == Move(r, "approved", "prepared") /\ UNCHANGED lapsed

Revoke(r) == Move(r, "prepared", "revoked") /\ UNCHANGED lapsed

Lapse == /\ Undecided
         /\ lapsed' = TRUE
         /\ UNCHANGED stage

Next == \/ \E r \in Recs : Draft(r) \/ Audit(r) \/ Decide(r) \/ Prepare(r) \/ Revoke(r)
        \/ Lapse

Spec == Init /\ [][Next]_vars
=============================================================================
