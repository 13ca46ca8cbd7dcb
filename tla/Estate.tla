-------------------------------- MODULE Estate --------------------------------
(***************************************************************************)
(* The entity and estate registry (actions/registry, the estate-audit      *)
(* workflow): a run mirrors the operator's estate.json into entity and     *)
(* titling facts, then compares the plan on paper with the facts, the      *)
(* accounts and the vault, and asks about every gap.  The file may be      *)
(* edited between the two steps and between two attempts at one of them;   *)
(* runs may overlap, and a host may die after a step's write and before    *)
(* its effect is on record, so that the step is run again.                 *)
(***************************************************************************)
EXTENDS Naturals, Sequences, FiniteSets, SequencesExt, TLC

CONSTANTS EstateFiles,  \* what the operator may write
          EstateRuns,
          EstateAccounts,
          Shas,
          NoTrust, NoSha, NoFact, NoFile,
          EstateToday,  \* the day of every run, later than any verification
          MaxEstateEdits, MaxEstateCuts, MaxAnswers

(* What is registered and what is titled are facts of two kinds, so that   *)
(* no subject is both; of the household, two things may be named.          *)
ASSUME EstateFilesAssumption ==
  \A f \in EstateFiles :
    /\ IsFiniteSet(DOMAIN f.entities) /\ IsFiniteSet(DOMAIN f.observed)
    /\ DOMAIN f.entities \cap DOMAIN f.observed = {}
    /\ f.named \subseteq {"executors", "digital_access"}

VARIABLES
  estate,        \* estate.json
  estateFacts,   \* entity and titling facts, in the order committed
  booked,        \* accounts in the ledger, closed ones too
  vaulted,       \* documents in the vault
  gaps,          \* findings: fingerprint, batch, open
  estateRun,     \* per run: where it is
  mirrored,      \* the file the ledger was last brought up to
  compared,      \* nothing changed since an audit looked
  estateEdits, estateCuts, answers

EstateVars == <<estate, estateFacts, booked, vaulted, gaps, estateRun, mirrored, compared,
                estateEdits, estateCuts, answers>>

EstateTypeOK ==
  /\ estate \in EstateFiles /\ mirrored \in EstateFiles \cup {NoFile}
  /\ \A i \in DOMAIN estateFacts : estateFacts[i].supersedes \in 0 .. i - 1
  /\ booked \subseteq EstateAccounts /\ vaulted \subseteq Shas
  /\ \A g \in gaps : g.batch \in EstateRuns /\ g.open \in BOOLEAN
  /\ estateRun \in [EstateRuns -> {"sync_registry", "audit_estate", "completed"}]
  /\ compared \in BOOLEAN

EstateInit ==
  /\ estate \in EstateFiles /\ mirrored = NoFile
  /\ estateFacts = <<>> /\ gaps = {} /\ vaulted = {}
  /\ booked \in {{a} : a \in EstateAccounts}
  /\ estateRun = [r \in EstateRuns |-> "sync_registry"]
  /\ compared = FALSE /\ estateEdits = 0 /\ estateCuts = 0 /\ answers = 0

-----------------------------------------------------------------------------
(* The fact in force: not superseded, and of those the last in effect.     *)
InEffect(s) ==
  LET live == {i \in DOMAIN estateFacts :
                 /\ estateFacts[i].subject = s
                 /\ \A j \in DOMAIN estateFacts : estateFacts[j].supersedes # i}
  IN  IF live = {} THEN 0
      ELSE CHOOSE i \in live : \A j \in live :
             \/ estateFacts[j].effective < estateFacts[i].effective
             \/ estateFacts[j].effective = estateFacts[i].effective /\ j <= i

PayloadOf(s) == IF InEffect(s) = 0 THEN NoFact ELSE estateFacts[InEffect(s)].payload

Registered == {e \in UNION {DOMAIN f.entities : f \in EstateFiles} : InEffect(e) # 0}

(* What the file says that the facts in force do not.                      *)
Unsynced ==
  [s \in {e \in DOMAIN estate.entities : PayloadOf(e) # estate.entities[e]}
           \cup {a \in DOMAIN estate.observed : PayloadOf(a) # estate.observed[a]}
     |-> IF s \in DOMAIN estate.entities THEN estate.entities[s] ELSE estate.observed[s]]

(* A titling counts from the day the operator verified it.                 *)
CountsFrom(s, payload) == IF s \in EstateAccounts THEN payload.verified ELSE EstateToday

(* Mutant of FactOf: what it replaces is not named.                         *)
FactBeside(r, s, payload) ==
  [subject |-> s, payload |-> payload, effective |-> CountsFrom(s, payload), supersedes |-> 0, batch |-> r]

FactOf(r, s, payload) ==
  [subject |-> s, payload |-> payload, effective |-> CountsFrom(s, payload), supersedes |-> InEffect(s),
   batch |-> r]

(* One batch of a run, in any order: no two are about the same subject.    *)
syncRegistry(r) ==
  LET new == Unsynced
      batch == SetToSeq({FactOf(r, s, new[s]) : s \in DOMAIN new})
  IN  IF \E i \in DOMAIN estateFacts : estateFacts[i].batch = r
        THEN UNCHANGED <<estateFacts, mirrored, compared>>
        ELSE /\ estateFacts' = estateFacts \o batch
             /\ mirrored' = estate
             /\ compared' = (compared /\ batch = <<>>)

(* The effect is on record, and the run goes on, unless the host dies.     *)
EffectRecorded(r, next, cut) ==
  /\ cut => estateCuts < MaxEstateCuts
  /\ estateCuts' = estateCuts + (IF cut THEN 1 ELSE 0)
  /\ estateRun' = IF cut THEN estateRun ELSE [estateRun EXCEPT ![r] = next]

registrySync(r, cut) ==
  /\ estateRun[r] = "sync_registry"
  /\ syncRegistry(r) /\ EffectRecorded(r, "audit_estate", cut)
  /\ UNCHANGED <<estate, booked, vaulted, gaps, estateEdits, answers>>

-----------------------------------------------------------------------------
(* The audit.                                                              *)
Gap(code, s, identity) == [code |-> code, subject |-> s, identity |-> identity]

Unplanned   == {Gap("titling_gap", a, <<"plan", a>>) : a \in booked \ DOMAIN estate.plan}
Unobserved  == {Gap("titling_gap", a, <<"observed", a>>) : a \in {b \in booked : PayloadOf(b) = NoFact}}
Unbooked    == {Gap("titling_gap", a, <<"ledger", a>>) : a \in DOMAIN estate.plan \ booked}
UnknownTrusts ==
  {Gap("titling_gap", a, <<"entity", a, estate.plan[a].in_trust>>) :
     a \in {b \in DOMAIN estate.plan :
              estate.plan[b].in_trust \notin {NoTrust} \cup Registered \cup DOMAIN estate.entities}}

(* Mutant of Differs: only what the plan puts in a trust is compared.       *)
DiffersInTrust(a) ==
  /\ PayloadOf(a) # NoFact /\ estate.plan[a].in_trust # NoTrust
  /\ estate.plan[a].in_trust # PayloadOf(a).in_trust

Differs(a) == PayloadOf(a) # NoFact /\ estate.plan[a].in_trust # PayloadOf(a).in_trust

Misplaced ==
  {Gap("beneficiary_mismatch", a, <<"in_trust", estate.plan[a].in_trust, PayloadOf(a).in_trust>>) :
     a \in {b \in DOMAIN estate.plan : Differs(b)}}
OtherHeirs ==
  {Gap("beneficiary_mismatch", a, <<"beneficiaries", estate.plan[a].beneficiaries, PayloadOf(a).beneficiaries>>) :
     a \in {b \in DOMAIN estate.plan :
              PayloadOf(b) # NoFact /\ estate.plan[b].beneficiaries # PayloadOf(b).beneficiaries}}
Unvaulted ==
  {Gap("estate_doc_missing", "household.estate", <<d>>) :
     d \in {e \in DOMAIN estate.documents : estate.documents[e] \notin vaulted}}
Unattended ==
  {Gap("executor_gap", "household.estate", <<f>>) : f \in {"executors", "digital_access"} \ estate.named}

estateHygiene ==
  UNION {Unplanned, Unobserved, Unbooked, UnknownTrusts, Misplaced, OtherHeirs, Unvaulted, Unattended}

(* Mutant of Known: a run looks only at what it asked itself.               *)
KnownToRun(r) == {g.of : g \in {h \in gaps : h.open /\ h.batch = r}}

(* What is asked already is not asked again while it is open.              *)
Known(r) == {g.of : g \in {h \in gaps : h.open}}

(* Comparing, suppressing and writing are one step; a batch that is        *)
(* written already stands as it is.                                        *)
estateAudit(r, cut) ==
  /\ estateRun[r] = "audit_estate"
  /\ IF \E g \in gaps : g.batch = r
       THEN UNCHANGED <<gaps, compared>>
       ELSE /\ gaps' = gaps \cup {[of |-> d, batch |-> r, open |-> TRUE] : d \in estateHygiene \ Known(r)}
            /\ compared' = TRUE
  /\ EffectRecorded(r, "completed", cut)
  /\ UNCHANGED <<estate, estateFacts, booked, vaulted, mirrored, estateEdits, answers>>

-----------------------------------------------------------------------------
EditsEstate ==
  /\ estateEdits < MaxEstateEdits /\ estateEdits' = estateEdits + 1
  /\ estate' \in EstateFiles \ {estate} /\ compared' = FALSE
  /\ UNCHANGED <<estateFacts, booked, vaulted, gaps, estateRun, mirrored, estateCuts, answers>>

BookedElsewhere ==
  /\ booked' \in {booked \cup {a} : a \in EstateAccounts \ booked} /\ compared' = FALSE
  /\ UNCHANGED <<estate, estateFacts, vaulted, gaps, estateRun, mirrored, estateEdits, estateCuts, answers>>

Ingested ==
  /\ vaulted' \in {vaulted \cup {s} : s \in Shas \ vaulted} /\ compared' = FALSE
  /\ UNCHANGED <<estate, estateFacts, booked, gaps, estateRun, mirrored, estateEdits, estateCuts, answers>>

(* An answer closes the question, and changes nothing it asked about.      *)
AnswersGap(g) ==
  /\ g.open /\ answers < MaxAnswers /\ answers' = answers + 1
  /\ gaps' = (gaps \ {g}) \cup {[g EXCEPT !.open = FALSE]} /\ compared' = FALSE
  /\ UNCHANGED <<estate, estateFacts, booked, vaulted, estateRun, mirrored, estateEdits, estateCuts>>

EstateNext ==
  \/ \E r \in EstateRuns, cut \in BOOLEAN : registrySync(r, cut) \/ estateAudit(r, cut)
  \/ EditsEstate
  \/ BookedElsewhere
  \/ Ingested
  \/ \E g \in gaps : AnswersGap(g)

-----------------------------------------------------------------------------
(* The registry mirrors the file it last read, a correction verified       *)
(* earlier than what it corrects included, through deaths, re-runs and     *)
(* overlapping runs.                                                       *)
RegistryMirrors ==
  mirrored # NoFile =>
    /\ \A e \in DOMAIN mirrored.entities : PayloadOf(e) = mirrored.entities[e]
    /\ \A a \in DOMAIN mirrored.observed : PayloadOf(a) = mirrored.observed[a]

(* A gap is one question, however many runs audit it.                      *)
OneGapOneQuestion == \A g, h \in gaps : g.open /\ h.open /\ g.of = h.of => g = h

(* Right after an audit an empty queue means that plan and reality agree:  *)
(* every account is planned and observed, in the same trust and for the    *)
(* same heirs, every trust is registered, every document is in the vault,  *)
(* and someone is named.                                                   *)
CleanMeansMatched ==
  compared /\ (\A g \in gaps : ~g.open) =>
    /\ booked = DOMAIN estate.plan
    /\ \A a \in booked :
         /\ PayloadOf(a) # NoFact
         /\ PayloadOf(a).in_trust = estate.plan[a].in_trust
         /\ PayloadOf(a).beneficiaries = estate.plan[a].beneficiaries
         /\ PayloadOf(a).in_trust \in {NoTrust} \cup Registered \cup DOMAIN estate.entities
    /\ \A d \in DOMAIN estate.documents : estate.documents[d] \in vaulted
    /\ estate.named = {"executors", "digital_access"}
=============================================================================
