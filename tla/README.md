# A TLA+ model of the personal-finance host

This directory specifies the parts of the repository where order, failure,
interleaving and arithmetic at a boundary decide whether the operator's money is
told truly and handled as promised. Modules are model-checked with TLC on small
instances; the safety properties that matter most of the four workflow modules
are proved with TLAPS for every value of the constants.

| files | what they are |
| --- | --- |
| `Proposal`, `ApprovalChain` | one run of the proposal workflow; the abstract approval chain it implements |
| `Nightly` | nightly runs, holds and the operator's answers over one ledger |
| `RunLog` | one run on disk: log, inbox, flusher, hosts that come and die |
| `TaxYear` | standing tax years, deadlines, tax checks, obligation |
| `Accounts`, `Feeds`, `Connections`, `Users` | which account is which; how movements arrive; how a connection comes and goes; who may see what |
| `FactTable`, `Ledger`, `Views`, `Lots`, `Transfers`, `Drift`, `TaxFigures`, `Estate`, `Detectors` | the books, and what is worked out from them; composed by `MCBooks` |
| `Secrets`, `Timers`, `Subscriptions`, `Chat`, `AutoPropose`, `Gate`, `Refresh`, `Forms`, `Shell`, `Tray`, `Serve` | the process and the desk around the books; composed by `MCDesk` |
| `*_proofs.tla` | theorems and their proofs |
| `MC*.tla`, `MC*.cfg` | instances for TLC |
| `PROJECT.json` | components, runs, mutants, hazards, the source lines of each definition |

## 1. The system

One household's data directory holds a bitemporal ledger (SQLite), a vault of
documents, settings files, and one JSONL event log per workflow run. A host
process (`apps/host`) serves a desktop GUI, a tray icon and a CLI over HTTP, and
drives workflows written with the external `@intx/workflow` runtime. A step's
handler (`packages/actions`) writes the ledger; a gate waits for a signal from
the operator or for a timer. A Tauri shell starts the host and shows the GUI.
A host may serve several people, each with a data directory of their own that
may be an encrypted volume, mounted while its owner is signed in.

### Components

**Proposal workflow** (`workflows/src/proposal.ts`, `actions/src/market/handlers.ts`,
`ledger/src/governance.ts`). State: recommendation, verdict, approval, instruction
rows; outbox events. Operations: drift, propose, audit intake and review (a rework
loop), the timed gate, governDecision, executionPrepare, the terminals; decide and
revoke. Hard: a death between a handler's writes and the effect ledger's record;
the answer racing the timer. Correct when: no instruction without the whole chain,
one decision per run, the run ends, the queue shows what can still be decided.

**Nightly, holds and answers** (`workflows/src/nightly.ts`, `actions/src/{ingest,
normalize,reconcile,ledger,govern}`, `ledger/src/resolve.ts`). State: facts with a
provisional mark, findings, resolutions, the outbox. A nightly reads the ledger
once and writes it in later steps; resolveFinding is three transactions, perhaps
in another process. Correct when: a held account has a question, only its answer
settles the fact it disputes, a settled fact stays, downstream wakes on settled
accounts, every condition is asked once and no question is about nothing.

**Workflow runtime on disk** (`apps/host/src/fs-host/`). State: `events.jsonl`,
inbox files, the effect ledger, subscriptions with a buffer limit, timers in legs.
Correct when: the log is append-only, an action runs at most once, the first signal
wins, none is lost, a subscriber that missed something is told, a timer is neither
early nor for ever late.

**Ledger** (`packages/ledger/src`). Append-only facts in two times, batches with
replay by id, supersession, findings, events, and the views the GUI and the agents
read. Correct when history is immutable, each thing has one answer as of any two
times, and readers coded apart agree.

**Accounts, merge** (`normalize.ts`, `ledger/src/merge.ts`, `app.ts`): relinking an
institution gives accounts and movements new ids; they are matched by mask and
content, or merged in two commits. Correct when a real account is open once and its
movements count once.

**Lots, transfers, drift, tax figures** (`normalize.ts`, `market/drift.ts`,
`tax/math.ts`, `app.ts`): arithmetic over what feeds report and the operator
corrects in between. Correct when no basis or gain is guessed, nothing is counted
twice, and an order moves the portfolio towards the plan by what it is off.

**Tax year and tax check** (`workflows/src/tax-year.ts`, `actions/src/tax/`). Eight
timed gates per standing run, estimates, findings, one obligation per quarter.
Chains side by side write one obligation; timer and skip race across restarts.

**Registry and estate audit** (`actions/src/registry`): the operator's file mirrored
into facts, and every gap between plan and reality asked about.

**Connectors** (`packages/institutions/src`): paging a provider's history while it
grows, with windows, cut pages, derived lots. **Connections** (`app.ts`,
`managed.ts`, `plaid-finish.ts`, `registry.ts`): browser logins, tokens beside
entries, figures typed in, removal. **Secret stores** (`secrets*.ts`): values in
pieces, one command each.

**Host application** (`apps/host/src/app.ts`): starts, drives and resumes runs;
auto-propose after a clean nightly; **chat** with a standing run per agent. Most
operations await between reading a log and acting on it.

**Users, sessions, encryption** (`users.ts`, `crypt.ts`): one App and one volume per
user, sessions over them, operations that are lists of effects on the disk.
**Listener, IPC, CLI** (`ipc.ts`, `cli.ts`): which App a request gets, rebinding.
**Desktop** (`App.tsx`, `api.ts`, `watch.ts`): windows with a session each, answers
out of order, forms. **Shell and tray** (`main.rs`): a host of its own, ports,
health, a title.

Without modules: policy and topology, projections, vault, agents and tools, export,
contracts, presentation (section 5).

### How they interact

Handlers of all workflows write one ledger, so a nightly, a refresh, a tax check, a
deadline and the operator's answers interleave there, one handler (or one
transaction) at a time. A clean nightly wakes auto-propose, which reads the run's
log and starts a proposal. The operator reaches a run only through its inbox, whose
files the host dispatches when it next looks. A restarted host resumes every run
whose log says it runs. Signing out closes an App and detaches its volume under
whatever still runs there. The GUI learns of changes by polling the ledger's
version.

What an action is follows from this. Handler bodies run synchronously in one
process, so a handler is an action; where one awaits, or is several transactions
and another process may come between, it is several. Where an operation is a list of
writes (users, connections, secrets), each write is a step and the host may die
between any two. A browser answer is served at one moment and lands at another.

## 2. The modules

### The workflows

**Proposal.** One run. The ledger is `drafted`, `verdict`, `approval`, `instr`,
`decided`, `lapsed`; `effects` is the effect ledger; `child` the logs of the rework
loop's children; `disk` and `mem` the run as its log and as the host know it, apart
by what the commit buffer holds; `gate` and `life[a]` are what is left of the gate's
timer and of a draft's window, so time is a `Tick` that shortens both. `propose`
takes the agent's answer as a choice. `CrashInHandler` leaves any prefix of a
handler's writes with no record of it, so the resumed handler meets its own rows. On
`Restart` an action whose start is durable is failed (the runtime's at-most-once
rule), a gate re-arms with the timer it had, signals are replayed. `ApprovalChain`
says what the approval queue promises about the rows alone; `Proposal` implements it
under the mapping `stageOf`, and TLC checks `ImplementsChain`.

**Nightly.** Any number of runs over one ledger, and of processes (`Answerers`) the
operator answers from, which do not wait for one another. `fact[r][w][s]` is what run
`r`'s writer `w` committed about account `s`. Two conditions stand for the detectors: a
stale balance, asked again after it is closed, and a movement booked twice, asked
once for ever; between them they use every branch of suppressKnown. The steps of a
night and the three transactions of an answer are actions; `released` are the release
batches in the ledger, under whose ids an answer given again commits nothing. An
answer may be cut short and a host may die anywhere, inside record_findings and emit
too. A transaction and the reads just before it are one step: another process that
commits between the two is left out. `meantime` and `tangled` are history: which runs
wrote between another's reading and its acting, and which accounts were answered
about at once, or again after a release. The other detectors are in `Detectors`.

**RunLog.** One run with gates side by side. `disk` is the log, `cache` a host's copy,
`buffer` the events not yet flushed, `swept` and `queued` what it has dispatched,
`phase` where it believes each gate is. Starting an action writes the log ahead of
the handler; everything else waits for `Flush`. `Shared` says whether a command may
drive the run beside the server, which the code permits.

**TaxYear.** One quarter. A *chain* is what hangs off one stage's gate in one run:
`at[c]` is its place. `books` is what the estimate comes to; `obligation` is the
sequence of rows with the row each supersedes. startTaxYear is two actions, the look
at the logs and the moment the new run's log appears.

### Accounts, feeds, connections, users

**Accounts** extends `FactTable`: its rows are the ledger's. `link` is the link the
institution is read through and mints ids; `nightly` is the run in flight between
what it fetched and its commits; `merging` a merge between its two commits. `booked`
and `crossed` are history: what was reported and committed, and whether a night was
in flight over a merge.

**Feeds.** `at` is the provider's history, `walk` the fetch in flight: which page,
what it has, whether a page failed. The adapters differ in how they page (cursor,
offset, all at once), whether a cut walk is tolerated or thrown away, and what lots
they derive. `recorded` pairs a movement with how often it was read, since one
adapter gives a movement that is read twice another id.

**Connections.** `op` is the synchronous part under way as a list of effects over
`entries`, `tokens`, `managed`, `books`; flows of a browser login wait in memory and
are lost by a death, refreshes in flight are not.

**Users.** `op` is the operation under way as a list of effects on `places` (image,
plain directory, staged directory, mount, key), `file`, `apps`, `sessions`. Any effect
may fail and the host may die before any.

### The books (`MCBooks`)

**FactTable** has the table, commit with its refusals and replay, and asOf; **Ledger**
makes commits of it, again and late; **Views** works out net worth, cash flow,
transactions by page, groups and bundles from it. **Lots** is one asset through nights
in two steps (normalise, commit) and the operator's basis edits and added lots
between them; **Transfers** the greedy pairing of legs over nights; **Drift** the
drift a model is shown, the number it answers and the draft rebuilt from later
books; **TaxFigures** a year of days with movements posted late, lots consumed,
holds and payments; **Estate** the sync and the audit as re-runnable steps; and
**Detectors** every detector, one topic per behaviour, over nights that read, commit
and record, and the operator's dismissals. `TaxFigures` has the brackets as a flat
rate.

### The desk (`MCDesk`)

**Secrets**: one command of the credential manager is one step of `call`. **Timers**:
`leg` is what setTimeout waits for, in awake time, `clock` the wall clock. **Subscriptions**:
a buffer, a waiter, an error. **Chat**: a send is its look at the log, its joining,
retiring or starting of a run, its delivery and its wait. **AutoPropose**: the
nightly's read of its file, its await, its decision. **Gate**, **Refresh**, **Forms**:
the requests of a window, when they were asked, when they were served, when they
land. **Shell**, **Tray**, **Serve**: processes, their threads, and requests that hold
an App across an await; what an App is at goes on when it is closed (`working`).

A composite starts one of its parts, chosen at the start, and leaves the variables of
the others alone: the parts share no state in the code either, and a product of
their states would show nothing more. It exists so that one run asks one kind of
question of all of them. A property of a composite is the conjunction of what its
comment says, each part's under `part = ...` where it is an invariant.

## 3. The runs

| run | question | bounds | distinct states |
| --- | --- | --- | --- |
| `proposal` | does the run keep the chain, decide once, drain the queue, end? | 2 attempts, window 2, 1 death, 2 signals | 316,895 |
| `nightly` | have held accounts questions, do answers stand, is a condition asked once, downstream woken on settled accounts only? | 2 overlapping runs, 1 account that may be manual or get ids, 2 processes that answer, 1 death, 1 answer cut short | 2,231,659 |
| `nightly_asked` | is what is held asked about? | the same with 1 process that answers | 841,349 |
| `run_log` | log append-only, a gate opened once, every signal delivered | 2 hosts in turns, 2 gates, 2 answers, 3 deliveries, 2 deaths | 116,189 |
| `tax_year` | one obligation, one finding, checked or skipped, never silent | 1 standing run, 1 check, 2 years, 4 states of the books, 2 upsets | 657,444 |
| `accounts` | one account in the books for one in the world; hidden stays hidden | 1 real account, 2 movements of one content, 3 links, 3 nights, 2 upsets | 428,244 |
| `users` | data whole, opened by its owner only, runs driven | 2 people, 2 passwords, 2 tokens, 1 upset | 1,559,179 |
| `feeds` | every movement once; lots true | 2 wallets, pages of 1, at most 3, windows of 1, 2 and 3 days, 1 upset | 2,473,418 |
| `connections` | what is owned goes along; told as done | 2 ids, 1 login, 2 spellings of an address, 5 acts, 1 upset | 9,746,180 |
| `books` | do the books and what is figured from them say the truth? | in `MCBooks`, per part | 777,056 |
| `desk` | is nobody stranded, misled or robbed of what was typed? | in `MCDesk.cfg`, per part | 3,498,455 |
| `tax_consumed_lot` | is an estimate over settled books worked out? | as `books` | violated |

### What each shows

`proposal`: `SignedChain`, an instruction stands on a draft, a clearance, an approval and
the operator's first signal; `Custody`, one decision a run, a gate with a subject, a
queue a completed run leaves empty; `ImplementsChain`; `Settles` and
`ApprovalIsPrepared`, its liveness. `nightly`: `HeldHasQuestion`, for accounts not answered about at once or
again; `AnswersStand`, only a fact's own question settles it while open and what is
settled stays; `OneQuestion` and `WakeOnSettled`, but for what another run wrote
between a run's reading and its acting. `nightly_asked`: `HeldIsAsked`. `run_log`: `OpensOnce`, the first signal
opens a gate and its action runs at most once; `AppendOnly`; `Delivered`. `tax_year`:
`YearStands`, one current obligation, one open finding a condition, no deadline both
skipped and checked; `RecordAsks`; `NeverSilent`.

`accounts`: `OneAccount` has six parts: types, one open subject per real account,
aliases that end, no movement lost, none counted twice once no duplicate is left,
the newest balance shown. `HiddenStays`: what the operator hid no night, relink,
removal or merge brings back, in three cases excepted: another subject of it was
still open (a merge of the two opens its survivor, merge.ts:157-167), a merge had
read it before it was hidden, or a night was in flight over a merge. `users`: `StoresWhole` (nothing a user stored is lost, an App sees all of it, the
password on file opens the volume, nothing is left of a deleted user),
`OpenedByOwner` (a volume, marked or not, detached when its user is out, but for busy
ones, expired sessions and those half made or half removed; an App open only over the
mounted volume; on the network only with passwords), `StandingDriven`. `feeds`:
`MovementsOnce`, the ledger has every movement since a year before the first fetch
that delivered (after a long pause, since what the next was owed) but what a cut walk
left out and no whole one was owed since, and nothing is recorded under two ids; `ShippedLotsTrue`, lots
add up to the balance and are what first-in-first-out leaves. `connections`:
`OwnedByOne`, no token without its entry, no address watched twice, no open account
of a removed connection; `ToldAsDone`, the books say the figures typed, and a login
that made its connection is not called failed.

`books`: `LedgerAgrees` (a row in one batch, whole; the past stands under what comes
later; cash flow and monthly summary agree; pages cover; bundles come to the net
worth), `BasisTrue` (no partial basis passes for a whole one; shares add up to the
cent; rows hide no lot; no gain is guessed; who paid what was asked is not told
otherwise), `OrdersTrue`, `QuestionsTrue` (a transfer leg paired once a night, and for good if it was paired as
it was reported; none missed;
the registry mirrors its file; a gap is one question and an empty queue means
agreement; the detectors' queue tells the truth, once), `NothingRewritten` (what
was known at a time stands; the operator's basis outlives the nights).

`desk`: `SecretsWhole` and `ReadsWhole` (what get answers is whole and last stored; no
failure is remembered; no old piece stays), `NobodyStranded` (timers within a leg of
the clock, a subscriber's loss is told, a delivered message stays readable, one
standing run an agent), `TimersKeepTime`, `AgentsAct` (the engine of the day, a turn
recorded once, no wake on top of an open proposal or twice a week for one picture),
`ScreensTrue` (a window sends and restores its own user's session, catches up, the
tray's title is true), `ScreensKeep` (sessions, the newest answer, edits and saves
are kept), `ProcessesApart` (no host outlives its shell, none beside another; an open
App is open on an attached volume, and only one closed in the middle of a request or a
run writes beside it; bound as set).

A property that joins several facts was broken in each of them: the modules define a
`Mutant of ...` operator beside the definition it would replace, one for each part,
and TLC finds the part violated. The type invariants of `Proposal`, `Nightly`, `RunLog`
and `TaxYear` are proved and not checked again.

### Why the bounds are enough

Two attempts reach every way the rework loop can go round, stop or exhaust; a window
of 2 has a state before, at and after the point where gate and draft lapse apart.
Two nightlies give every overlap of two runs' reads and writes, and of either with
two answers; the second night after an answer gives a question asked, closed and asked
again. `nightly_asked` has one process that answers: the question is a night's to ask,
whoever answers. Three deliveries to two gates are a
gate's first, its second, and another gate's. In `tax_year` an upset is a change of the
books, of the profile, a resolution or a death; two cover each pair.

Three links are needed for a subject merged away and met again; two movements of one
content for a repetition to be told from a duplicate. One upset at every point of
every operation of `users` and `connections` covers a cut at each effect, and the
operations after it run on what it left. In `feeds` the three windows are apart by a
day each, so that a gap falls short of, on and past each of them, and pages of one
row shift at every row. In the books, `Lots` has two fed lots and one of the
operator's, enough for a lot split, sold off, returned and added; six movements hold
a pair, a rival, a repeat, a fee apart, and one too late, over three nights, in the
second and third of which one row of the ledger finds a partner; `Drift` has classes above,
inside and below their bands, each with and without a price; the estimate's year has
four quarters of two days. In the desk, a chunk of 2 and a clamp of 6 make legs that
end before, at and after a deadline; a buffer of 2 overflows at the third event; three
messages are one in flight, one waiting and one after; two windows, two people and
three sessions give an answer of a session that is over; two shells give a relaunch
beside one that was killed.

Deadlock checking is off where everything may properly end. `users` uses symmetry of
passwords and of tokens, `nightly` of runs and of answering processes; neither has a
liveness property, and no run that checks liveness uses symmetry.

### Fairness

| module | weakly fair | because |
| --- | --- | --- |
| Proposal | Begin, HostStep, Restart, Sweep, Tick | a host that is up goes on, its poller and timers run on intervals, the desktop app starts it and resumes what was running, time passes |
| Nightly | each run's step | a started run is driven |
| RunLog | each host's step, some host's run | pollers and the flusher run on intervals, the server comes back |
| TaxYear | each chain's step | timers fire, and a started chain goes on |

The operator is never fair. `HeldIsAsked`, `Delivered` and `NeverSilent` let a failed
run stop, and `ApprovalIsPrepared` excuses a death: the at-most-once rule fails a run
whose action was in flight, and promises nothing after that. The other modules state
safety: that nobody is stranded is told there by where everyone stands (a timer's
leg, a delivered message's channel) and needs no fairness.

### What the violated run shows

`tax_consumed_lot`: `realizedGains` divides the basis of every lot by its quantity, and
normalize.ts keeps a lot that was sold in full at quantity zero with its basis. The
division throws, so from the first such lot on the estimate of every quarter fails,
where handlers.ts:18 means to refuse for provisional data only.

### Disagreements met while modelling

The properties hold under the excuses their comments name. Beyond those the code
differs from what its comments and docs say in these places; setting the constant
named, or dropping the excuse, shows each.

- docs/BUILD_PLAN.md:389 "never to execution": governDecision asks for a verdict, not
  for the draft's window; an approval between the draft's window and the gate's is
  signed and prepared. docs/THREAT_MODEL.md:48 "the queue drops dead proposals": a
  failed run leaves its cleared draft in the queue (governance.ts:172).
- resolve.ts:18: the scope of provisional accounts is computed from the new
  findings only (reconcile.ts:84), so the night after an unanswered question commits
  the account clean. resolve.ts:16: a question that became moot is dismissed and its
  facts stay provisional (record-findings.ts:106). resolve.ts:8: an answer to an
  older question, between a night's commits and its findings, releases the night's
  facts, and keep_prior then finds nothing to re-assert.
- resolve.ts:14-18, "release": answers to two findings of one account given at once
  (resolve.ts:94 in the GUI's host and in the CLI) each see the other's open, neither
  releases and both close; and a release that was cut short before its finding closed
  meets its own batch id when the answer is given again (resolve.ts:134, ledger.ts:211),
  so what a later night held stays. Either leaves facts held with no question (`tangled`).
- notify.ts, header, "refuses to emit": another run may commit provisional facts while
  the effect's permission is awaited (notify.ts:38). Nights that overlap ask one
  condition twice (reconcile.ts:118). Nothing keeps a nightly and a refresh apart (`meantime`).
- repo-store.ts:1: two processes that drive one run write back their own copies of
  its log (`Shared`).
- tax-year.ts:3: two requests both see no standing run, and only the first standing
  run is compared (app.ts:1999), so a year may have two.
- merge.ts:261: a night in flight over a merge commits to the merged subject, and its
  movements count twice until merged again. merge.ts:157-167: merging a hidden account
  with an open one opens the survivor, which the operator may have hidden.
- normalize.ts:604, "a ledger leg that now has a partner is reported in the pair": the
  leg itself is not marked (normalize.ts:683), so it still counts as money spent or come
  in, and a later night may pair it with another movement (`CountedOnce`).
- crypt.ts:82, "the data on disk goes back to being ciphertext": closing an App closes
  its ledger alone (app.ts:2341). Its standing runs, chats and a nightly nobody awaits
  (ipc.ts:742) go on after a sign-out or a password change, and as `ensureDir` makes what
  is missing their logs are written in the clear under the detached mount point, where
  the next mount covers them (`outside`). After a new sign-in they are driven twice, by
  the old App and by the one that resumed them.
- users.ts:294, deleteUser: a wipe takes the marker `.fin-volume` off the volume, so the
  detaching before the image's removal returns at once (crypt.ts:84), the image is
  removed while it is attached, and rmSync meets the mount point before the user is
  unregistered: the user stays on file and can never sign in again, where
  users-crypt.test.ts:84-85 has the data gone. A volume whose making was cut before its
  marker (crypt.ts:70-71) is locked by no sign-out and cannot be signed in to (`HalfMade`).
- users.ts, unlock: a first encryption or a migration that was cut leaves data behind
  that later sign-ins do not see; crypt keeps it on disk. users.ts:41: a session that
  expires does not lock the volume.
- chat.ts:1 "standing": two first messages, or one before resumption, start two
  runs; two sends on one open channel strand the second. The step invoker's collector is one
  variable for all agents' steps (step-invoker.ts:62).
- app.ts:1057: two full nightlies that overlap make a skip overwrite a start it had
  not read.
- api.ts:208: a late 401 of an earlier session ends the new one, and in a fresh window
  removes the first window's token (App.tsx:43). Drafts of unsent text (App.tsx:4582)
  are not kept apart by user.
- secrets-windows.ts:234: replacing a long value by another is not atomic, and a tail
  clean-up cut short leaves pieces nothing lists.
- main.rs: nothing prevents a second shell; a host that died is not started again;
  a title that says the host does not respond stays when it does. ipc.ts:743: two
  people's nightlies begun in one second share an id.
- fetch.ts:33: a tolerated partial first walk as deep as the threshold ends the
  backfill with older movements missing (`cutOff`); a pause longer than the window loses
  some.
- estate-audit.ts:4: a dismissed gap is asked again at the next audit.
- app.ts:1555: a later fetch may bring a position below the sum of its lots. A small
  total split over four or more equal fills can leave the last one negative.
- math.ts: a January repurchase after a December loss is not seen (handlers.ts:212
  reads one tax year); a purchase being sold may be taken for its own wash
  repurchase; past sales are matched against the lots left after them.
- reconcile.ts: fingerprints of a position without a basis hold its value, so it is
  asked again when the price moves; an account that disappears a second time is not
  told, as its fingerprint is the institution's.
- A Plaid return served twice while the first exchange is awaited finishes twice
  (app.ts:1809). Deleting a credential deletes the process-wide variable in multi-user
  mode too (credentials.ts:158).

## 4. The theorems

All are of the form `Spec => []P` or `Spec => [][A]_vars` (for the composites,
`DeskSpec` and `BooksSpec`), for every value of the constants within the modules' named assumptions:
bounds are naturals (of days, loads and form requests at least one), ids, tokens, values and engines are none of those that stand for
"nothing", the sets of runs are disjoint, 0 is no year, a fresh browser window is not
the first one, some engine can be configured, a chunk is no longer than setTimeout's
clamp, some credential needs the most pieces, the ids of users and of lots are finitely
many, a fact's times are naturals with a latest one, a report lists whole quantities,
what stands for an unknown cost is no number, movements are finitely many, with whole
amounts and numbered by the day they posted, an estate file names finitely many entities and accounts,
none of them both (the code keeps them as facts of two kinds), a topic has its
readings, and the plan's classes and a book's holdings are finitely many and ranked by
numbers, with natural weights, values, prices and lots, a price or a value perhaps
missing, and no holding of nothing. Each rests on an inductive invariant of named parts.
Where a theorem asks for more, its row says so.

| module | theorem | invariant beyond types, and why it is needed |
| --- | --- | --- |
| Proposal_proofs | TypeCorrect | `Heard`: a run past its gate, in memory or on disk, heard a signal |
| | InstructionsAreSigned (`SignedChain`) | `Hearing`: what a run heard is the inbox's first signal; `SignedRows`: an approval row already has its cleared draft and the signal behind it. Of an approval `SignedChain` says nothing, so it is not inductive |
| | RunKeepsCustody (`Custody`) | `ChainInv` (the above), `RowsBacked`: an approval row rests on a cleared row; `DecisionKept`, `LapseKept`: what a run has heard or waited for and what its rows say agree, in memory and on disk; `Unbroken`: without a death each step's rows are written. A death may leave any prefix of a step, so memory and disk are each described |
| | RunImplementsChain (`ImplementsChain`) | the same invariant: each action of the run is a step of `ApprovalChain` on `stageOf`, or a stutter |
| Nightly_proofs | TypeCorrect | |
| | SettledFactsStay | `Unwritten`: a run writes nothing of a writer before that writer's step, so no commit lands on a settled fact |
| | HeldFactsHaveQuestions (`HeldHasQuestion`) | `RowsKnown` and `Asked`: an answer that withheld its release for another question still has that question open when it closes, `Tidy`: nobody else answers about that account, and its release batch is new |
| | OwnAnswerSettlesIt | `RowsKnown` and `OneEach`: a run asks one question of a sort per account, recorded after its commits |
| | AnswersAlwaysStand (`AnswersStand`) | the two above together |
| | QuestionsAreOne (`OneQuestion`) | `AskersHold`, `NotYetAsked`: what a run is about to ask is asked by nobody else, but by a run that wrote since it looked. No hypotheses: runs may overlap |
| | WakesOnSettled (`WakeOnSettled`) | `Cleared`: a run that was let through has nothing of its accounts held but by runs that wrote since it looked |
| RunLog_proofs | TypeCorrect | `Opened`: a gate past parked has its signal in the host's log |
| | LogOnlyGrows (`AppendOnly`) | `Owned`: while hosts take turns (`~Shared`), the driver's copy is the disk |
| | ActionsRunOnce | `Owned`, `Started`, `Once` (`~Shared`): an action that ran has its start on disk |
| | FirstSignalOpens | `Waiting`, `Firsts`: a dispatched signal stays queued while its gate is parked, so the head of the queue is the inbox's first; holds for `Shared` too |
| | GatesOpenOnce (`OpensOnce`) | the two above, hosts taking turns |
| TaxYear_proofs | TypeCorrect | `Begun`, `Named`: a chain that moved belongs to a run with a year, already driven |
| | ObligationIsOne | `Linked`: a row supersedes an earlier one; with `OneObligation` itself, the new row replaces the only current one |
| | SkippedIsUnchecked | `Untold`, `Over`: what a chain has announced is bound to its place |
| | ConditionsOpenOnce | none: looking and writing are one handler |
| | YearAlwaysStands (`YearStands`) | the three above together |
| | RecordAlwaysAsks (`RecordAsks`) | types: an estimate's conditions are conditions of its year, and each is opened or was open in the one handler |
| Desk_proofs | ScreensAreTrue (`ScreensTrue`) | gate: `Carried`, `Distinct`, `KeptIsFirst`, `Given`: a window carries a token the host gave its user, no two the same, what is stored is the first window's; refresh: `NotAhead`, `NewestNotOlder`: nothing on its way is ahead of the ledger, and the newest load's answer is no older than what was shown; `NewestCatchesUp`: and as new as what the watcher has seen; tray: a title about to be posted is right unless something changed since it was read |
| | ProcessesStayApart (`ProcessesApart`) | shell: a shell that has not ended holds the child of its live host, and whom a shell was relaunched after has quit; serve: `AtWork`: a request or a run is its user's open App's, on an attached volume, or its App was crossed when it was closed |
| | ScreensAreKept (`ScreensKeep`) | the same, and forms: `OneSave`, `WasHad`, `CleanWhenAsked`, `SavesAll`: one save at a time, what left the screen the host had, a clean form holds nothing else. The attempt showed `EditsKept` false as first stated, seven requests deep, where no run reached: a later save takes back what an earlier one had saved, so it now speaks of what the host has ever had (`had`) |
| | AgentsActRight (`AgentsAct`) | chat: `EnginesKnown`: who is in the air has the engine of the day among those of its time, and the run it polls was built for one of these; auto: `KnowsLastWake`: while no nightly has woken across another's reading, the file and what was read of it tell the last wake |
| | TimersAreKept (`TimersKeepTime`) | finitely many timers, whose slots setTimeout can wait for (a further one would fire at once): `Timely`, `Spaced`, `SlotsInReach`: slots given out are a stagger apart and the next is a stagger after them, bounded by how many timers took one |
| | NobodyIsStranded (`NobodyStranded`) | finitely many timers: `Awaited`, `OnTime`: how late a timer is and may still become; subscriptions: `InOrder`: what was handed out and what is buffered is the log from its start; chat: `OneSender`, `OneLive`, `OnePerChannel`, `InboxTells`, `RunTells`: while one sender of an agent is in the air its runs are settled, so it finds the one that is live, delivers on an empty channel, and the run that leaves a channel has taken what was on it |
| | SecretsAreWhole (`SecretsWhole`), ReadsAreWhole (`ReadsWhole`) | `FreshTrue`: a target that was not torn reads as what it may hold; `FileTorn`, `OneItem`: only a blob file fails to parse and only the credential manager has pieces; `Remembered`: the cache is what a fresh read gives, but for a value whose storing is not over; `Reading`, `Writing`, `Sweeping`: what a call under way has read, written or has yet to clear, piece by piece; `Tidy`: while no call failed a write and a tail leave no gap, so the clean-up that stops at the first missing piece reaches all of them |
| | DeskIsTyped (`DeskTypeOK`) | each part's inductive invariant above, with the bounds that it does not need (`FormBounds`, `TimerBounds`, `SubBounds`, `ChatBounds`, `AutoBounds`, `SecretBounds`, `TurnsTell`). Not by shape: a leg stays below the clamp because it is set from typed times, a read of pieces ends because the sentinel it met counts them (`Reading`), a buffer stays within its limit because a full one closes, and the tray's list of recent users names each once because a user is taken out before being put in front |
| Users_proofs | StoresAreWhole (`StoresWhole`), OnlyOwnersOpen (`OpenedByOwner`), StandingAreDriven (`StandingDriven`) | an operation is a list of effects, so each remainder such a list can have is a plan, and `Underway` and `Starting` say what holds while that plan is left (the marker comes after the volume is attached, the copy is inside before the staged directory goes, nobody is signed in when the image is removed, nobody is known before the file is first written). `OfUser` is what holds of a user whatever the plan: `InPlace`, `Keyed`, `Served` and `DrivenOf` except during the plan that suspends them, and `Excuses` names the kind under which cutting that plan is recorded; `Attended`: whoever is mounted is signed in, excused, or under way to be, with no call left to fail first; `Finished`: a volume is marked and its user on file, or it is being made or removed by the operation under way, or was cut short in that |
| Connections_proofs | ConnectionsAreOwned (`OwnedByOne`) | an operation is a list of effects here too: `Making` and `Keeping` say what holds while a given remainder is left (a made connection's secret before its entry, a login's token only after its flow is spent); `LoginsOnce`: a flow waits, is being finished or is over, and no two hold one connection; `Failed`: what a failed call leaves behind is what its plan allows; `LateRuns`: a refresh in flight writes only to what it was started for |
| | OperatorIsTold (`ToldAsDone`) | `Dated` and `FiguresTold`: a figure in the books is the newest entered, unless one is still to be written by the operation under way (`Fresh`). The new batch is the least free number, so the proof also shows that such a number exists, from the well-foundedness of finite sets |
| Books_proofs | NothingIsRewritten (`NothingRewritten`) | ledger: `LedgerInv`, with `Linked`: a row stands on an earlier row of the same thing, so what a batch hides it replaces; lots: `NightStands`: a night no edit crossed holds what its report and the lots in force come to; `LotsTyped`: a lot the operator entered has a cost that is a number, so that what a night carries over of it is one |
| | BatchesAndAnswers | the ledger's part of `LedgerAgrees` that no view has a say in (`BatchesPartition`, `Answered`): the same invariant; the row told last of a thing is hidden by none, and of its rows in force, finitely many, one is last |
| | QuestionsAreTrue (`QuestionsTrue`) | transfers: `ToldIsMarked`: a leg paired as it was reported is a marked row, which no later night takes for a leg; `PairsHold`, of the fold over what left: what is used is a leg of one pair, and nothing reported tonight that left and is free could still pair with what came and is free; that the fold exists is shown from the well-foundedness of finite sets. Estate: `OneInForce`: one row of a subject is in force; `AllAsked`: while nothing has moved since an audit, each of its gaps has a question. Detectors: `AllHeard`: what the ledger says, or a night is about to make it say, was told or is drafted by a night that has committed; `AloneAsks`: what a night that nothing crossed has read is drafted or asked already; `Lone`: beside it nobody is under way; `InOrderOfDays`, `DraftsAreNew`: while nights do not overlap the totals are in the order of their days and a draft repeats no open question |
| | OrdersAreTrue (`OrdersTrue`) | drift: `DriftIsNear`: a drift in basis points times what is invested is within half of it of what the class is off, so its sign is right and what is wanted is no more than that; `SharesWorth`: whole shares come to no more than what is wanted; `FarthestIn`: ranks are one to one into the first numbers, so onto them, and each class out of its band has its place; `TakenRight`, the invariant of the fold over the lots: taken and left are what is sold, and no more is taken than the lots passed hold; `DriftInv`: while nothing moves, what was shown is what the books give |

TLC agreed with each property, and with each inductive invariant, on the instances
above before it was proved. Only model-checked are: every liveness property (fairness
and ENABLED are beyond the prover); the properties of `accounts` and `feeds`; of
`books`, those of types, views and basis. The library's induction theorems take an operator, which no
prover here can instantiate, so what a definition by recursion computes is shown
another way where a proof needs it: finite sets are well-founded under strict
inclusion, and a function on the subsets of one that satisfies the recursion exists or
there would be a least set without it (`SumExists` in Books_proofs, from which
`SumIsInt` and `SumIsNat`; likewise the pairing of transfers and the fold over the
lots of a sale, `TakesExist`). The other folds are checked on their instances only.

## 5. What is not modelled

- The `@intx/workflow` runtime is external. Its rules are taken from how `fs-host` uses
  it; such definitions are marked external in the map. So are the clock, the
  operator, the provider's history and `hdiutil`.
- Language-model output, institutions' data and the operator's forms are choices.
  Replies that carry a whole draft are not.
- **Policy, topology, lint**: static checks without state. **Projections and Monte
  Carlo**: floating point over one read. **Vault**: single file writes; the same bytes
  under another extension keep the first name's row. **Agents, tools, export,
  contracts, presentation, proxy, fx, demo data, importers**: data, text and I/O.
- taxStatus and other read-only listings of `app.ts`; late postings and the reserve;
  tax brackets; search text and currency conversion of the views.
- Parsing of CSV, JSON and provider records; drop folders beyond which file is
  taken. Positional ids of csvdrop rows, and a bank without references whose
  identical movements share an id, are outside `Feeds`.
- Rename of a connection or of a user, the inference settings' secrets, bank consents
  that are never finished.
- In `Secrets`, a command that fails has done nothing, and one delete of the store is
  not cut in the middle. In `Drift`, a class held without an entry in the plan is one
  whose target is zero.
- A merge from another process, a second process's stale secret cache, keychain
  encoding, FX state of the GUI, and the watcher's baseline race.

`PROJECT.json` lists the hazards at their lines, those without a property too.

## 6. Plan

The model is as wide as it is meant to be; what is left is proof, in this order.

1. `Feeds`: `MovementsOnce`; `Accounts`: `OneAccount`.
2. The rest of `MCBooks`: the views of `LedgerAgrees`, and `BasisTrue` for lots.

Each begins with TLC on the inductive invariant, as the eight modules did.
