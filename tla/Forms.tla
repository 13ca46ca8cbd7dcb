--------------------------------- MODULE Forms ---------------------------------
(***************************************************************************)
(* What is typed and not yet saved (apps/desktop/src/App.tsx).  Four kinds *)
(* of form: the profile's, which reloads on a tick unless it holds edits;  *)
(* the AI providers', which reloads on every tick; the plan's, filled once *)
(* when it is opened; a key's, which opens empty.  Loads, saves and the    *)
(* model's extraction of fields from free text all take their time.        *)
(***************************************************************************)
EXTENDS Naturals, FiniteSets

CONSTANTS FormKinds,   \* of {"profile", "providers", "plan", "key"}
          Edits,       \* what may be typed, each once
          Extracted,   \* of Edits: what the model may find
          MaxRequests, \* bound on the requests
          MaxRefusals  \* bound on the requests that fail

ASSUME ExtractedAssumption == Extracted \subseteq Edits
ASSUME RequestsAssumption == MaxRequests \in Nat \ {0} /\ MaxRefusals \in Nat

VARIABLES
  form,
  draft,     \* [open, holds]: the fields on screen
  saved,     \* what the host has
  dirty,     \* dirty.current
  saving,    \* busy
  requests,  \* under way, with what they were asked with and answered
  made,      \* requests so far
  typed,     \* edits made so far
  waived,    \* edits given up by a reset
  stale,     \* a load served before a save was shown after it
  refusals,
  had        \* what the host has ever had

FormsVars == <<form, draft, saved, dirty, saving, requests, made, typed, waived, stale, refusals, had>>

Closed == [open |-> FALSE, holds |-> {}]
Holding(edits) == [open |-> TRUE, holds |-> edits]

FormsTypeOK ==
  /\ form \in FormKinds
  /\ draft \in [open : BOOLEAN, holds : SUBSET Edits] /\ saved \subseteq Edits
  /\ {dirty, saving, stale} \subseteq BOOLEAN
  /\ \A r \in requests :
       /\ r.kind \in {"load", "reset", "save", "extract"} /\ r.answer \in {"none", "ok", "refused"}
       /\ r.sent \subseteq Edits /\ r.got \subseteq Edits
  /\ saving = (\E r \in requests : r.kind = "save")
  /\ typed \subseteq Edits /\ waived \subseteq Edits /\ had \subseteq Edits
  /\ made \in 0 .. MaxRequests /\ refusals \in 0 .. MaxRefusals

Ask(kind, sent) ==
  /\ made < MaxRequests
  /\ made' = made + 1
  /\ requests' = requests \cup
       {[n |-> made + 1, kind |-> kind, sent |-> sent, got |-> {}, answer |-> "none"]}

FormsInit ==
  /\ form \in FormKinds
  /\ draft = IF form \in {"plan", "key"} THEN Holding({}) ELSE Closed
  /\ saved = {} /\ typed = {} /\ waived = {} /\ had = {}
  /\ dirty = FALSE /\ saving = FALSE /\ stale = FALSE
  /\ made = 1 /\ refusals = 0
  /\ requests = IF form \in {"plan", "key"} THEN {}
                ELSE {[n |-> 1, kind |-> "load", sent |-> {}, got |-> {}, answer |-> "none"]}

-----------------------------------------------------------------------------
(* The fields.                                                             *)

(* The profile's and the providers' fields are disabled while it saves.    *)
Enabled == draft.open /\ ~(saving /\ form \in {"profile", "providers"})

setD(e) ==
  /\ Enabled /\ e \notin typed
  /\ typed' = typed \cup {e}
  /\ draft' = Holding(draft.holds \cup {e})
  /\ dirty' = TRUE
  /\ UNCHANGED <<form, saved, saving, requests, made, waived, stale, refusals, had>>

(* Mutant of Reloads: a tick always does.                                  *)
ReloadsAlways == form \in {"profile", "providers"}

Reloads == form = "providers" \/ (form = "profile" /\ ~dirty)

(* A tick, the form's own save's included.                                 *)
tick ==
  /\ Reloads
  /\ Ask("load", draft.holds)
  /\ UNCHANGED <<form, draft, saved, dirty, saving, typed, waived, stale, refusals, had>>

ResetForm ==
  /\ form = "profile" /\ ~saving /\ draft.open
  /\ dirty' = FALSE
  /\ waived' = waived \cup draft.holds
  /\ Ask("reset", {})
  /\ UNCHANGED <<form, draft, saved, saving, typed, stale, refusals, had>>

(* Cancel of a key's form; the plan's editor closed.                       *)
Cancel ==
  /\ form \in {"plan", "key"} /\ ~saving /\ draft.open
  /\ draft' = Closed
  /\ UNCHANGED <<form, saved, dirty, saving, requests, made, typed, waived, stale, refusals, had>>

(* The editor opened anew: the plan's with the plan the page knows.        *)
Edit ==
  /\ form \in {"plan", "key"} /\ ~draft.open
  /\ draft' = Holding(IF form = "plan" THEN saved ELSE {})
  /\ UNCHANGED <<form, saved, dirty, saving, requests, made, typed, waived, stale, refusals, had>>

(* Mutant of Sent: only what the host has not.                             *)
SentChanges == draft.holds \ saved

Sent == draft.holds

save ==
  /\ draft.open /\ ~saving
  /\ saving' = TRUE
  /\ Ask("save", Sent)
  /\ UNCHANGED <<form, draft, saved, dirty, typed, waived, stale, refusals, had>>

(* ProfileIntake's run: not while the form saves, one at a time.           *)
extract ==
  /\ form = "profile" /\ draft.open /\ ~saving
  /\ \A r \in requests : r.kind # "extract"
  /\ Ask("extract", {})
  /\ UNCHANGED <<form, draft, saved, dirty, saving, typed, waived, stale, refusals, had>>

-----------------------------------------------------------------------------
(* The host.                                                               *)

(* A key's fields are stored one by one; the others are replaced whole.    *)
Kept(r) == IF r.kind # "save" THEN saved ELSE IF form = "key" THEN saved \cup r.sent ELSE r.sent

ServeForm(r) ==
  /\ r.answer = "none"
  /\ \/ /\ saved' = Kept(r)
        /\ \E found \in IF r.kind = "extract" THEN SUBSET (Extracted \ typed) ELSE {Kept(r)} :
             requests' = (requests \ {r}) \cup {[r EXCEPT !.answer = "ok", !.got = found]}
        /\ UNCHANGED refusals
     \/ /\ refusals < MaxRefusals /\ refusals' = refusals + 1
        /\ requests' = (requests \ {r}) \cup {[r EXCEPT !.answer = "refused"]}
        /\ UNCHANGED saved
  /\ had' = had \cup saved'
  /\ UNCHANGED <<form, draft, dirty, saving, made, typed, waived, stale>>

-----------------------------------------------------------------------------
(* Answers.                                                                *)

(* A failed load shows nothing.                                            *)
LoadLands(r) ==
  /\ r.kind \in {"load", "reset"} /\ r.answer # "none"
  /\ draft' = IF r.answer = "ok" THEN Holding(r.got) ELSE Closed
  /\ stale' = ((r.answer = "ok" /\ r.got # saved) \/ (saving /\ stale))
  /\ requests' = requests \ {r}
  /\ UNCHANGED <<form, saved, dirty, saving, made, typed, waived, refusals, had>>

(* The profile and the providers take what the host stored; a plan's or a  *)
(* key's form closes.  What was refused stays as typed.                    *)
SaveLands(r) ==
  /\ r.kind = "save" /\ r.answer # "none"
  /\ saving' = FALSE
  /\ requests' = requests \ {r}
  /\ IF r.answer = "ok"
     THEN /\ draft' = IF form \in {"profile", "providers"} THEN Holding(r.got) ELSE Closed
          /\ dirty' = FALSE /\ stale' = FALSE
     ELSE UNCHANGED <<draft, dirty, stale>>
  /\ UNCHANGED <<form, saved, made, typed, waived, refusals, had>>

(* The fields that were found are typed for the user.                      *)
ExtractLands(r) ==
  /\ r.kind = "extract" /\ r.answer # "none"
  /\ requests' = requests \ {r}
  /\ IF r.answer = "ok"
     THEN /\ dirty' = TRUE
          /\ draft' = IF draft.open THEN Holding(draft.holds \cup r.got) ELSE draft
          /\ typed' = typed \cup r.got
     ELSE UNCHANGED <<draft, dirty, typed>>
  /\ UNCHANGED <<form, saved, saving, made, waived, stale, refusals, had>>

FormsNext ==
  \/ \E e \in Edits : setD(e)
  \/ tick \/ ResetForm \/ Cancel \/ Edit \/ save \/ extract
  \/ \E r \in requests : ServeForm(r) \/ LoadLands(r) \/ SaveLands(r) \/ ExtractLands(r)

-----------------------------------------------------------------------------
(* Properties.                                                             *)

(* What was typed stays on screen until the host has had it.  It goes when *)
(* the user resets, cancels, or when it was typed (or found) after the     *)
(* load or the save whose answer replaces it was asked for; the providers' *)
(* form alone loses older edits, to any tick (App.tsx:801-805).            *)
EditsKept ==
  [][draft' # draft =>
       \/ draft.holds \subseteq draft'.holds \cup had'
       \/ form = "providers"
       \/ Cancel
       \/ \E r \in requests \ requests' :
            draft.holds \cap r.sent \subseteq draft'.holds \cup had' \cup waived]_FormsVars

(* What the host has is not undone by a later save of the same window,     *)
(* unless the form had been filled with an answer older than the last save *)
(* (a load that was served before it and landed after).                    *)
SavedStays ==
  [][saved' # saved => saved \subseteq saved' \/ stale]_FormsVars
=============================================================================
