------------------------------ MODULE FactTable ------------------------------
(***************************************************************************)
(* The fact table of the household's ledger (packages/ledger/src/ledger.ts,*)
(* schema.ts): dated facts appended in batches and queried as of two times.*)
(*                                                                         *)
(* A row's id is its place in the table, and its batch is the one that     *)
(* lists it.  A payload is whatever the module that extends this one makes *)
(* of it; a writer may state a fact late, so observed and effective are    *)
(* chosen apart from the clock.                                            *)
(***************************************************************************)
EXTENDS Naturals, Sequences, FiniteSets

CONSTANTS Subjects, Keys, Payloads,
          Batches,   \* idempotency keys
          Times      \* instants, totally ordered

ASSUME TimesAssumption == Times \subseteq Nat /\ \E t \in Times : \A s \in Times : s <= t

(* FACT_WRITERS: one writer for each kind.                                 *)
Owner == [account |-> "assets_manager", balance |-> "assets_manager",
          position |-> "assets_manager", lot |-> "assets_manager",
          transaction |-> "cash_flow", tax_document |-> "document_vault",
          obligation |-> "liabilities", entity |-> "registry",
          titling |-> "registry"]
Kinds == DOMAIN Owner
Writers == {Owner[k] : k \in Kinds}

Facts == [kind : Kinds, subject : Subjects, key : Keys, payload : Payloads,
          observed : Times, effective : Times, supersedes : Nat,
          writer : Writers, provisional : BOOLEAN]

VARIABLES
  fact,   \* the fact table
  batch   \* the batches committed: writer and fact ids

FactsTypeOK ==
  /\ fact \in Seq(Facts)
  /\ \A i \in DOMAIN fact : fact[i].supersedes < i
  /\ DOMAIN batch \subseteq Batches
  /\ \A b \in DOMAIN batch : batch[b] \in [writer : Writers, ids : Seq(Nat)]

NoFacts == fact = <<>> /\ batch = [b \in {} |-> <<>>]

-----------------------------------------------------------------------------
(* Reads.                                                                  *)

SameThing(f, g) == f.kind = g.kind /\ f.subject = g.subject /\ f.key = g.key

(* Rows that supersede row i, as known at time o.                          *)
Successors(i, o) == {j \in DOMAIN fact : fact[j].supersedes = i /\ fact[j].observed <= o}
Superseded(i) == \E j \in DOMAIN fact : fact[j].supersedes = i

(* Mutant of Hidden: a row is hidden by a row that is not yet known.        *)
HiddenByAny(i, o) == Superseded(i)

Hidden(i, o) == Successors(i, o) # {}

Query(k, e, o) == [kind |-> k, effective |-> e, observed |-> o, provisional |-> TRUE]
Latest == CHOOSE t \in Times : \A s \in Times : s <= t
Current(k) == Query(k, Latest, Latest)

Candidates(q) ==
  {i \in DOMAIN fact : /\ fact[i].kind = q.kind
                       /\ fact[i].observed <= q.observed
                       /\ fact[i].effective <= q.effective
                       /\ q.provisional \/ ~fact[i].provisional
                       /\ ~Hidden(i, q.observed)}

Before(i, j) ==
  LET f == fact[i] g == fact[j]
  IN  \/ f.effective < g.effective
      \/ f.effective = g.effective /\ f.observed < g.observed
      \/ f.effective = g.effective /\ f.observed = g.observed /\ i < j

asOf(q) ==
  LET C == Candidates(q)
  IN  {i \in C : \A j \in C \ {i} : SameThing(fact[i], fact[j]) => Before(j, i)}

(* The current rows of one subject, and that of one thing, 0 for none.     *)
CurrentRows(k, s) ==
  LET C == {i \in DOMAIN fact : fact[i].kind = k /\ fact[i].subject = s /\ ~Superseded(i)}
  IN  {i \in C : \A j \in C \ {i} : fact[j].key = fact[i].key => Before(j, i)}
One(S) == IF S = {} THEN 0 ELSE CHOOSE i \in S : TRUE
CurrentOf(k, s, key) == One({i \in CurrentRows(k, s) : fact[i].key = key})

(* The rows a row stands on, and the rows that stand on it.                *)
history(id) ==
  LET Back[n \in 0 .. Len(fact)] ==
        IF n = 0 THEN {id}
        ELSE Back[n - 1] \cup ({fact[i].supersedes : i \in Back[n - 1]} \ {0})
      Forth[n \in 0 .. Len(fact)] ==
        IF n = 0 THEN {id}
        ELSE Forth[n - 1] \cup {j \in DOMAIN fact : fact[j].supersedes \in Forth[n - 1]}
  IN  Back[Len(fact)] \cup Forth[Len(fact)]

provisionalSubjects ==
  {fact[i].subject : i \in {j \in DOMAIN fact : fact[j].provisional /\ ~Superseded(j)}}

-----------------------------------------------------------------------------
(* Writes.                                                                 *)

(* Mutant of MaySupersede: the row superseded is not looked up.             *)
SupersedesUnknown(f) == TRUE

(* Mutant of MaySupersede: a row of another key is taken.                   *)
SupersedesAny(f) == f.supersedes \in {0} \cup DOMAIN fact

MaySupersede(f) ==
  \/ f.supersedes = 0
  \/ f.supersedes \in DOMAIN fact /\ SameThing(f, fact[f.supersedes])

Valid(w, facts) ==
  \A i \in DOMAIN facts : /\ facts[i].writer = w /\ Owner[facts[i].kind] = w
                          /\ MaySupersede(facts[i])

(* Mutant of Replayed: the batch id is not looked up.                       *)
NeverReplayed(b) == FALSE

Replayed(b) == b \in DOMAIN batch

Insert(b, w, facts) ==
  /\ fact' = fact \o facts
  /\ batch' = [c \in DOMAIN batch \cup {b} |->
                 IF c = b
                   THEN [writer |-> w, ids |-> [i \in DOMAIN facts |-> Len(fact) + i]]
                   ELSE batch[c]]

(* A batch id that is known returns the ids it was committed with, whatever*)
(* it is given now; a batch of somebody else, or one with a fact that is   *)
(* not the writer's or stands on another thing, is refused whole.          *)
commit(b, w, facts) ==
  IF Replayed(b) THEN UNCHANGED <<fact, batch>>
                 ELSE Valid(w, facts) /\ Insert(b, w, facts)

Refuses(b, w, facts) ==
  IF Replayed(b) THEN batch[b].writer # w ELSE ~Valid(w, facts)
=============================================================================
