------------------------------- MODULE Ledger -------------------------------
(***************************************************************************)
(* The ledger as its callers use it: batches committed, and committed again*)
(* by steps that are re-run, with what is read off the fact table at every *)
(* moment and as of every past one.                                        *)
(***************************************************************************)
EXTENDS Views

CONSTANTS Inputs,    \* what callers commit: batch, writer and facts, and the
                     \* batches it comes after
          Months,
          MaxFacts   \* bound on the fact table

ASSUME InputsAssumption ==
  \A in \in Inputs : in.batch \in Batches /\ in.writer \in Writers /\ in.facts \in Seq(Facts)

vars == <<fact, batch>>

TypeOK == FactsTypeOK

Init == NoFacts

(* A batch that is refused leaves the ledger as it was.                    *)
Commit(in) ==
  /\ in.after \subseteq DOMAIN batch
  /\ Replayed(in.batch) \/ Len(fact) + Len(in.facts) <= MaxFacts
  /\ ~Refuses(in.batch, in.writer, in.facts)
  /\ commit(in.batch, in.writer, in.facts)

Next == \E in \in Inputs : Commit(in)

Spec == Init /\ [][Next]_vars

-----------------------------------------------------------------------------
(* A row belongs to exactly one batch, whole and by its writer, however    *)
(* often the step that commits it is re-run.                               *)
BatchesPartition ==
  /\ \A i \in DOMAIN fact : \E b \in DOMAIN batch :
       /\ i \in ToSet(batch[b].ids) /\ batch[b].writer = fact[i].writer
       /\ \A c \in DOMAIN batch \ {b} : i \notin ToSet(batch[c].ids)
  /\ \A b \in DOMAIN batch : ToSet(batch[b].ids) \subseteq DOMAIN fact

(* Superseding hides a row only in favour of one that can be seen: a thing *)
(* once observed has an answer as of every later observation.              *)
Answered ==
  \A t \in Times : \A i \in DOMAIN fact :
    fact[i].observed <= t =>
      \E j \in asOf(Query(fact[i].kind, Latest, t)) : SameThing(fact[i], fact[j])

(* What was known at a time stands: a batch changes what the ledger says   *)
(* as of an observation only from the time its facts were observed on.     *)
PastStands ==
  [][\A t \in Times :
       fact' # fact /\ (\A i \in DOMAIN fact' \ DOMAIN fact : fact'[i].observed > t) =>
         \A k \in {fact'[i].kind : i \in DOMAIN fact'}, e \in Times :
           asOf(Query(k, e, t))' = asOf(Query(k, e, t))]_vars

Everything == [from |-> Min(Months), to |-> Max(Months), min |-> 0, max |-> 1000,
               include_internal |-> FALSE,
               types |-> {"debit", "credit", "buy", "sell", "swap", "other"}]

(* The cash flow bars and the analyst's monthly summary are coded apart and*)
(* agree on every month.                                                   *)
ReportsAgree ==
  \A m \in Months : \A b \in transactionSummary(Today, Everything, "month").buckets :
    b.key = m /\ b.currency = Display =>
      LET bar == cashFlow(Today, Cardinality(Months), Max(Months)).months[m]
      IN  bar.inflow - bar.outflow = b.total.net /\ bar.txns >= b.total.count

(* A reader that asks for the page after the last until none is announced  *)
(* has read every matching row once, and stops.                            *)
PagesCover ==
  \A limit \in 1 .. 2 :
    LET next(read, n) ==
          IF ~read.more THEN read
          ELSE LET page == transactionRows(Today, Everything, limit, Len(read.rows))
               IN  [rows |-> read.rows \o page.rows, more |-> page.truncated]
    IN  FoldLeftDomain(next, [rows |-> <<>>, more |-> TRUE], <<0>> \o fact)
          = [rows |-> NewestFirst(matchTransactions(Today, Everything).facts), more |-> FALSE]

(* The bundled positions come to what the lines of the net worth rest on,  *)
(* no more, as of every observation, though closing an account leaves its  *)
(* positions current.                                                      *)
BundlesAgree ==
  \A t \in Times :
    LET o == [effective |-> Latest, observed |-> t]
        stated == {b \in consolidatedPositions(o) : b.value # NotStated}
    IN  SumOver(stated, LAMBDA b : b.value)
          = SumOver(netWorth(o).lines, LAMBDA l : IF l.rests_on = PositionsOf(l.account, o) THEN l.value
                                                  ELSE SumOver(PositionsOf(l.account, o), Worth))
=============================================================================
