# Formal models of Novel_Creater

TLA+ models of the novel writing workbench in `src/`: what they say about the code, what TLC
checks on small instances, and what TLAPS proves for instances of every size.

The backend is a FastAPI application over MySQL. Its services follow one pattern: a short
transaction that locks and validates, a long call to a text provider with no transaction
open, and another short transaction that publishes the answer if the world still looks as it
did. What is hard to test is everything between those transactions.

## The system

Each component with its state, its operations, how it meets the others, and what makes it correct.

| Component | State | Operations | Correct when |
|---|---|---|---|
| Draft operations (`services/draft_operations.py`) | `draft_operation_attempts`, `draft_operation_events`, the session's active operation and fence | reserve, launch, stream, settle, cancel, read, undo, apply preview | one operation owns a session; a worker that was fenced off writes nothing; no author text is lost; every row stays readable; the slot becomes free again |
| Chapter sessions (`services/chapter_sessions.py`) | `chapter_sessions`, `working_drafts`, `working_draft_revisions`, `draft_candidates` | create, save, freeze a candidate, load a candidate | revisions are dense; whatever is not the author's save leaves a recovery row |
| Operation tasks (`runtime/draft_operation_tasks.py`) | asyncio tasks by operation | start, launch, cancel, bounded close, transfer to the background | no task is lost or run twice; the pool, the configuration and the lifecycle lock outlast the last task |
| Execution loop (`services/draft_operation_execution.py`) | buffers and deadlines of one stream | read, flush at 256 scalars or 1 s, heartbeat at 10 s | what is flushed is a prefix of what was streamed; a live worker renews its lease |
| Finalization review (`services/finalization.py`) | `finalization_change_sets` and revisions, quality reports, decisions | prepare, decide, dispute, correct, confirm, revoke, cancel | one active attempt per session; only what the author saw is confirmed |
| Finalization commit (`services/finalization_commit.py`) | `finalization_records`, `final_chapters` | commit | a chapter is published once, from a confirmed revision, with Canon, planning and session in one transaction |
| Canon and projections (`services/canon.py`, `services/projections.py`) | Canon head, revisions, events, projections | commit, project | the projection is the fold of confirmed events; the head moves by compare-and-set |
| Planning (`services/planning*.py`) | head, drafts, generation attempts with lease and fence, confirmations | draft, save, confirm, generate, stop | a late answer lands only on the draft it was requested for; what is confirmed was shown |
| Bible (`services/bibles.py`, `bible_generation.py`) | head, draft, attempts, confirmation requests | save, clone, confirm, generate, propose | confirmed once, as shown; a reported failure is a failure |
| Seeds, story engines, contracts (`services/seeds.py`, `story_engines.py`, `contracts/`) | seeds and the selection, engine batches, contract draft and contract | edit, select, generate, reconcile, save, confirm | a provider is called once for a request; the book stands on what was chosen |
| Style trials, asset rankings (`services/style_trials.py`, `assets.py`) | requests and attempts | ask, publish, give up, clean up | a request ends once; a result counts for the book it was asked about |
| Outlines (`services/chapter_outlines.py`) | heads, revisions, drafts, attempts | draft, confirm, generate | heads move by compare-and-set |
| Market (`services/market_*.py`, `runtime/market_scheduler.py`) | snapshots, refresh leases, schedules | refresh, run once, shut down | one refresh per source; `main.py` builds no scheduler at this commit |
| Project lifecycle (`services/project_lifecycle.py`) | `projects` | create, archive, restore, delete | an archived project can always be restored |
| Packages and imports (`services/project_packages.py`, `project_imports.py`) | import plans and publications | export, preview, publish | an import publishes as a whole or not at all |
| Product database lifecycle (`services/product_database_*.py`, `scripts/cutover_product_database.py`) | the lifecycle lock, the local document, backups | back up, cut over, roll back, recover, upgrade | the lock outlasts every use of the database; no document changes under a running server |
| Topics, corpus, settings, bindings, providers | revisioned rows | create, edit, archive | plain optimistic revisions |
| Workbench, overview, manuscripts, downloads, continuity | none of their own | read | they report what is stored |
| Gateways, prompts | none | call a provider | an answer is complete and well formed, or an error |
| Frontend (`frontend/src`) | browser state | requests | its requests are the inputs of the models |

How they meet: clients call services over HTTP; services share the database, and nearly all
writing transactions of a project begin by locking its project row
(`repositories/project_lifecycle.py`, `SELECT ... FOR UPDATE`), so the transactions of one
project are serial. Services hand streaming work to the in-process task registry and are
called back by it. A chapter session is where draft operations, the author's saves and
finalization meet; Canon, planning and the outline are where chapters meet. The model binding
and the archive are where everything of a project meets. A server process and the administrative
scripts meet in the lifecycle lock and the local document that names the database.

Hard behaviours: a result that arrives after the author edited; a lease that runs out while its
holder lives; a clock sampled before a lock; a process that dies between two transactions; a
cancel that races a settlement; retries with an idempotency key after the world has moved;
authorities that drift between review, confirmation and commit; a page that is older than what it
commands; a commit whose outcome its caller cannot know; a shutdown that outlives its time.

## Modules

| Module | What it is |
|---|---|
| `DraftOperations` | the chapter session: author, draft, recovery rows, operations, leases, fences, events, workers, candidates, reviews as far as drafts notice them |
| `RecoverableDraft` | the abstract specification of it: what an author is promised about the draft |
| `MCDraftOperations` | instances of `DraftOperations` for TLC |
| `DraftOperationsProofs` | theorems about `DraftOperations`: slots, fences, late workers and the refinement |
| `DraftResultsProofs` | theorems about what `DraftOperations` stores: rows and logs, results, reviews, recovery |
| `Finalization` | how a candidate becomes a chapter: the preparing request between its two transactions, the browser tabs that review, the commit, and the authorities that move meanwhile |
| `ChapterPublication` | the abstract specification of it: what enters the book, and on whose approval |
| `MCFinalization` | instances of `Finalization` for TLC |
| `FinalizationProofs` | theorems about `Finalization` and the refinement |
| `PlanningWorkspace` | the plan of a project: the head, the author's draft, the generation attempts that fill it, archive and restore |
| `BibleWorkspace` | the creation Bible: its draft, several generations at a time, and the confirmation that happens once |
| `CreativeFoundation` | seeds, the selection, story engine batches, model binding, contract, archive and removal |
| `CreativeAdvice` | style trials and asset rankings, composed with `CreativeFoundation` |
| `CreativeFoundationProofs`, `CreativeAdviceProofs` | theorems about these two |
| `PlanningWorkspaceProofs`, `BibleWorkspaceProofs`, `ApplicationLifespanProofs` | theorems about the modules of these names |
| `ApplicationLifespan` | server processes, their shutdown, and the scripts that change the product database |
| `MCPlanningWorkspace`, `MCBibleWorkspace`, `MCCreativeFoundation`, `MCApplicationLifespan` | instances for TLC |

### DraftOperations and the code

One action is one transaction, or one step of a worker between transactions. The serial
transactions of a project make that grain exact; what interleaves is kept apart: `Sample` (the
clock read of `_append_delta` and `_append_heartbeat`) and the append that uses it;
`ProviderFails` and the transaction that records it; `Reserve` and `Launch`; `WorkerLost` and
`Shutdown` at every point of a worker's life.

| Model | Code |
|---|---|
| `session` | `chapter_sessions`: `status`, `active_draft_operation_id`, `draft_fence_token` |
| `draft` | `working_drafts`: revision, content with its hash, `source_payload` |
| `ops[k]`, `events[k]` | the attempt with idempotency key k and its events; `resultRev = 0` is NULL |
| `recovery` | `working_draft_revisions`, unique by (revision, role) |
| `candidates`, `freezes` | `draft_candidates`, `candidate_freeze_requests` |
| `authority` | everything `_authority_snapshot` hashes, one value for each combination that matters |
| `review` | the open finalization review of the session, its revision and the text it is about |
| `worker` | the asyncio task, which does not survive the process |

Contents are text identities (`[by, n]`: the author's i-th text, the output of operation k after
n deltas), because the code compares contents only by hash. Selection offsets, prompts and
formatting are left out. The wall clock does not step back in the model.

Definitions marked "Fault:" are not part of the specification. Each is the definition after it
with a mistake a maintainer could make, kept to show that a property notices it.

### Finalization and the code

The transactions of a project are serial again, so `Commit`, `Confirm`, `Correct` and the rest
are one action each. `prepare` is the exception: its first transaction (`Prepare`) reserves the
slot, the audit and the extraction run outside the database (`Audit`, `Extract`), and a second
transaction publishes or invalidates (`PublishReview`, `Invalidate`). Between any two of these
steps the request can be cancelled, the process can die, and everybody else can act.

| Model | Code |
|---|---|
| `heads` | what `_context_manifest` hashes: Canon head, planning head, confirmed outline, model bindings |
| `session` | the latest `chapter_sessions` row with the pins `create_session` gave it, and its working draft |
| `candidates` | `draft_candidates` of that session |
| `attempts` | `finalization_change_sets` of that session with their revisions, quality report and decisions, oldest first |
| `prep` | the local variables of `prepare` |
| `seen[t]` | what tab t sends back with its next command: attempt, revision, hash and decision revision it has read |
| `book` | `final_chapters` |

`Content` is the content hash of an outline, which covers the planning and Canon it was
confirmed on but not its own revision number: the prechecks compare hashes where the manifest
and the commit compare revisions, and the model keeps that difference. `MarkTerminal`, `FreeSlot`
and `AtOpenReview` are shared by actions as `_terminalize`, `find_active` and
`_require_review_state` are by methods. `Current` is what the prechecks and
`current_review_report` compare alike.

A rewrite can be started from the findings of a review, confirmed or not (`OperationStarts` keeps
its attempt in `session.adjusts`). When its text, or the partial output of a cancelled one, reaches
the draft, `invalidate_adjusted_review` writes `invalidated` to the review and frees its slot, in the
same transaction (`AdjustmentLands`). If the review no longer applies then, the operation expires and
changes neither (`OperationEnds`). When a text of an operation may land at all is the question of
`DraftOperations`; here any text may.

### PlanningWorkspace and the code

The services of `planning.py` and `planning_generation.py` lock project, basis, head and draft in
one order; each transaction is one action. A generation is four things that others come between:
`Reserve`, the provider's `Answer` or `Break`, `Publish` or `RecordFailure`; beside it runs the
watch of `_generate_until_terminal` (`NoticeEnded`), which lets the call go once its row has ended.

| Model | Code |
|---|---|
| `head`, `drafts` | `project_planning_heads`, `planning_drafts` in the order they were inserted |
| `attempts[k]` | the `planning_generation_attempts` row of idempotency key k with lease, fence, and the command its request hash covers |
| `workers[k]` | the `generate()` call of key k, which does not survive the process |
| `basis`, `binding`, `writing` | seed, contract, style and Bible heads; model and provider; Canon, outline and whether a chapter is drafted, each as a revision |
| `pages[p]` | the version of the draft page p shows |

A plan is a value with its active block; which plans the validators accept is a constant set.

### BibleWorkspace and the code

The Bible has no slot: attempts run side by side and are kept apart by the manifest each froze
(`fact`, `profile`). `late` is a lease that ran out. `Crash` leaves a running row behind, which
only the same key, sent again, ends (`Expire`). The contract cannot be confirmed twice, so the basis
of a draft moves only between `ready` and not; `Init` includes a draft marked `stale`, the state a
release with replaceable contracts left, since the services still handle it. `calls[c]` is a
`confirm()` whose transaction broke and which is about to be settled by a second one; its first may
or may not have been committed (`ConfirmBreaks`).

### CreativeFoundation, CreativeAdvice and the code

A provider batch of story engines takes three transactions (`ReserveProvider`, `StartAttempt`,
`EndAttempt`) around a call that may take minutes, and `Reconcile` settles one whose reservation or
lease is over. `called[k]` counts the calls. The selection and the contract record what
the page of their author showed (`shown`), and `page` may be old: `SelectSeed` and `Confirm` are
tried with the page's version and with a fresh one. `binding` is the revision of the model binding,
which `ReplaceBinding` moves at any time.

`CreativeAdvice` adds the requests that do not become part of the book. `advice[r]` is a request
with its attempt, `asking` the calls under way; the moment a provider answers is not told from the
write that follows. `AskAgain` is the same request sent when its row seems dead, while the call may
still publish; `CleanUp` the shielded task that settles the row of a cancelled call. A ranking, unlike
a trial, does not ask on publication whether its project is active (`_publication_inputs_match`),
so it can be written into an archive; the model says so and nothing forbids it.

An engine batch whose outcome is unknown keeps its project from being archived for ever.
`docs/superpowers/plans/2026-07-18-phase-1-product-shell-lifecycle.md:255` asks for this; it is no
disagreement.

### ApplicationLifespan and the code

One action runs from one `await` to the next. `lock` is the lifecycle lock: on Windows a mutex that
lets its own thread in again and can be abandoned, elsewhere a file lock that refuses. `phase[p]` is
where process p is in `_application_lifespan`; `registry`, `tasks` and `drain` are the fields of
`DraftOperationTaskRegistry`; `poolClose` and `completion` the chain of background
tasks that takes over pool, configuration and lock when a close runs out of time. `script` is where
an administrative script is; it gives the lock up during the trial of the switched application.

`torn` marks a process whose event loop is torn down under that background chain, as `asyncio.run`
does when it returns first. The chain is then cancelled half way, and the lock can be given up with a
worker still alive. `docs/superpowers/specs/2026-08-14-phase7b-product-database-readiness-design.md`
(lines 237 and 272) keeps configuration and lock until every registry and the pool have shut down
and does not speak of this case; `LockCoversDatabase` exempts exactly it.

Of the abandoned mutex (`product_database_lifecycle_lock.py:490`), `StartsFresh` says that no
lifespan starts on one. That the refused start also lets the mutex go, so that the one after can have
it, is written into `MeetAbandoned` and no property would notice its absence.

## Runs

| Run | Properties | What happens in it |
|---|---|---|
| `lease` | `TypeOK` `SlotOwned` `LogSound` `OnlyActiveRowMoves` `SlotReleased` `OrphanStops` | two operations take over from each other as leases run out; logs hold 3 events, so the last-place rule bites; samples grow stale; workers are lost; fair polling and a clock that outlives every lease |
| `edit` | `RecoverySlotsFree` `ResultOnce` `LandsOnItsBase` `Recoverable` `ImplementsAuthorView` | two operations of any kind, an author who types one text and can clear it, undo, adopt a preview, up to revision 5: enough to adopt, undo and adopt again |
| `review` | `ReviewAdjustedOnce` `FinalizedIdle` | two operations started from reviews, a candidate frozen and loaded, an authority that drifts and comes back, the session closed |
| `finalization_review` | `SlotAgrees` `ConfirmedReviewIsSettled` | one chapter, two tabs, two model bindings, two attempts: corrections, notes and confirmations cross, an attempt fails, is cancelled, is invalidated, is used up by a rewrite or dies |
| `finalization_book` | `TypeOK` `BookSound` `ImplementsPublication` | two chapters; planning and outline are confirmed anew while they are written, the first chapter patches the planning, one text repeats a reference |
| `finalization_repin` | `CurrentCandidateFinalizable` | a violation, see below |
| `finalization_drift` | `DriftInvalidates` | a violation, see below |
| `planning_landing` | `TypeOK` `SlotSound` `EndedForever` `StopReachesProvider` | two generations of one draft cross a save, a confirmation, a new basis, a stop, an archive, a lost worker, an elapsed lease |
| `planning_continuation` | `OnlyAsShown` `ContinuationOnItsProgress` `ActiveBlockStill` | two generations, two confirmations, two drafts and two plans with different active blocks, while a chapter is opened and finalized |
| `bible` | `TypeOK` `FailedMeansUnconfirmed` `NoSaveBuried` `NothingLate` `ConfirmedOnce` | two generations and one confirmation key, two drafts, a profile edited once, archive and restore, a contract that is ready or not, crashes |
| `foundation` | `AdviceTypeOK` `FoundationSound` `ChosenAsShown` `AskedOnce` `AdviceKept` | one seed of two contents and two revisions, two engine batches, one trial or ranking, a binding that moves once, two versions of the contract draft, archive, restore and removal |
| `lifespan` | `TypeOK` `LockCoversDatabase` `StartsFresh` `DocumentStill` `LockReleased` | two processes with two workers each on either platform's lock; closes in time and out of time, teardowns and crashes; a cutover and its rollback or recovery, an upgrade, a configuration by hand |

Some properties are conjunctions of named parts that one question holds together. `SlotOwned` is
`ActiveSlot` and `FencesDiffer`; `LogSound` is `StoredRowReadable` and `EventLogWhole`; `ResultOnce` is
`AppliedAtMostOnce` and `ProvenanceHonest`; `Recoverable` is `UndoGivesBack` and `ReplacedTextKept`;
`BookSound` is `ChaptersInOrder` and `BookPinsItsCandidate`; `SlotSound` of the planning is
`SlotAndFence`, `LoadNeverRefused` and `ArchivedIdle`; `OnlyAsShown` is `NothingOverwrittenUnseen` and
`ConfirmedAsShown`; `ConfirmedOnce` of the Bible is `ConfirmedAsShown` and `ConfirmedForGood`;
`NothingLate` is `ArchivedStill` and `EndedForever`; `AskedOnce` is `CalledOnce` and `EndedForever`;
`AdviceKept` is `EndedAdvice` and `CountsForTheBook`.

Two keys are enough for what is claimed of pairs (takeover, one review for two operations, two
fences); the third operation of a session meets the state the first two leave behind. Bounds
(`MaxClock`, `LastStart`, `MaxRevision`, `MaxReviews`) are constants in the guards of the actions
they limit. Deadlock checking stays on for the drafts, the Bible and the lifespan: when an instance
is exhausted an author can still read, a project be archived, and a server stop or start.

For finalization, two tabs are enough because a review changes hands only between a tab that
acts and one that has read before; two attempts, because the third meets the slot as the second
does; two revisions and two decisions give a correction and a note something to go stale against.
One attempt per chapter is enough in `finalization_book`, which asks about the sequence of
chapters. `MaxChapters`, `MaxPlanRev`, `MaxOutlineRev`, `MaxAttempts`, `MaxRevs` and
`MaxDecisions` stand in the guards they limit. These runs, and those of the planning and the
foundation, turn deadlock checking off: once a book has its chapters, or a project is removed, and
the bounds are used up there is nothing left to do.

For the planning, a draft and its replacement, a head and the next, one lease and one tick are what
a takeover or a late landing needs; the two runs divide the questions because a landing needs no
second plan and a continuation needs no clock. For the Bible, the second draft is the clone of a
stale one and the second version the save or landing a late answer meets. For the foundation, the
second revision of a seed is the edit an old page misses, the second version of a draft likewise,
and the second binding the one a frozen request does not match. A seed that was deleted is made
again under its own key, so one seed already shows the case that `ChosenAsShown` excepts: its
revisions start over, and a page of the first can select the second. For the lifespan, two workers
give a close one that obeys and one that does not, and `MaxEdition = 2` a cutover and what takes it
back.

Fairness, of drafts: the clock ticks; a client that knows an operation polls it (the frontend does
until it is terminal, and any request that touches the row expires it); and a task that was launched
is run by the event loop. No fairness is assumed of cancels, saves or of the provider. In
`Finalization` only the preparing request is fair (`WF_vars(WorkerStep)`: its provider calls
time out), never the author, and never against the death of its process. In `PlanningWorkspace` a
process that holds a call polls its attempt and settles what it has (`NoticeEnded`, `RecordFailure`,
`Publish`), and the provider is not fair: a silent provider is the case `StopReachesProvider` is
about. In `ApplicationLifespan` the steps of a shutdown that began are fair, as the event loop runs
them, and so is the end of a worker that was cancelled; nobody is obliged to start, stop, switch or
crash.

## Where code and documents disagree

* `finalization_repin`. `docs/superpowers/specs/2026-07-31-immutable-boundaries-revision-design.md`
  (lines 59, 60, 266, 302) lets an author adjust the outline of a chapter in work, save the
  candidate again and finalize it on the current outline. `save_candidate` does bind the new
  candidate to the current outline, but `run_finalization_prechecks` also compares the outline and
  planning hash with those of the session row (`services/finalization_checks.py:226`), which
  nothing updates after `create_session`. The candidate is blocked as `SESSION_DRIFT` until the
  author confirms the old outline content again. The trace: confirm an outline, open the session,
  save, confirm another outline, save a candidate.
* `finalization_drift`. `docs/superpowers/specs/2026-07-18-product-rebuild-and-writer-loop-design.md:630`
  says that any drift before the confirmation makes the change set `invalidated`. The code writes
  that status in two places: in the second transaction of `prepare`, when the preparing request finds
  the drift itself, and in `invalidate_adjusted_review` (`repositories/chapter_sessions.py:55`), when a
  rewrite started from a review reaches the draft and uses the review up. Neither reacts to an
  authority that moves while a review waits for its author: the review stays `awaiting_author` and
  keeps its slot, every command that decides, corrects, confirms or commits fails on the manifest
  (`services/finalization.py:580`), and a rewrite is refused too unless planning and outline still have
  the same content (`services/draft_review.py:53`). What ends such a review is its author: a
  cancellation, which writes `cancelled`, or such a rewrite, which is not a consequence of the drift
  and need never be asked for. Nothing wrong is published (`ImplementsPublication` holds).

## Proofs

`DraftOperationsProofs` proves, for every set of keys and authorities and every lease and budget
allowed by `ConstantsAssumption`:

* `TypeCorrect`: `TypeOK` is an invariant.
* `Inductive`: the invariant the rest hangs on,
  `IInv == TypeOK /\ SlotInv /\ RecoverySlotsFree` with
  `SlotInv == ActiveSlot /\ FenceBound /\ FencesDiffer /\ FinalizedIdle`. `ActiveSlot` alone is
  not inductive: that a new reservation does not reuse a fence needs `FenceBound` (no row's
  fence exceeds the session's), and that a settling worker frees its own slot needs that the
  running row is the one the session names.
* `OneActiveOperation`, `FencesUnique`, together `OneOwner`; `RecoveryNeverBlocks`, `FinalizedIsIdle`:
  its parts.
* `FencedWrites` and `LandsOnBase`: the two action properties about late workers.
* `Refinement`: every step maps to a step or a stutter of `RecoverableDraft`. It rests on two
  lemmas about recovery rows: what is kept only grows, and a machine write adds the text it
  replaces. That the row is really new uses `RecoverySlotsFree`.

`FinalizationProofs` proves, for all texts, change sets, findings, tabs and bounds allowed by
`FinalizationAssumption` and `NullAssumption` (NULL is no text, change set, report or approval),
every property the two passing finalization runs check:

* `Inductive`: `IInv` is `TypeOK`, `SlotAgrees` and `ConfirmedReviewIsSettled` with three parts that
  make them inductive. `WorkerKnows`: a request that reaches its second transaction holds a report
  and a change set. `RowsOpen`: a row that is being prepared is not confirmed and one under review
  has a report, without which publishing could overwrite a confirmation. `SessionPins`: an open
  session has the planning and Canon of its outline, and only a drafting session is busy.
* `TypeCorrect`, `OneSlot`, `ConfirmedSettled`: its parts.
* `InOrder` and `PinsCandidate`, together `BookIsSound`: properties of the book, by the case of the
  commit. `PinsCandidate` needs `InOrder` to know on which Canon a chapter was made.
* `Refinement`: `Confirm` is `Approve`, `Commit` is `Publish`, `Revoke`, `Cancel` and
  `AdjustmentLands` (which may use up a confirmed review) are `Withdraw`, every movement of the authorities is `Drift`, everything else stutters. That `Commit` publishes
  what was approved rests on `ConfirmedReviewIsSettled`, that a new attempt takes no approval away
  on `SlotAgrees`.

The proofs follow the rows: a lemma for each kind of command says which row it changes and into
what (`TerminalRow`, `PublishedRow`, `RevisedRow`, `ConfirmedRow`, `ClosedRow`, `AdjustedRow`), one lemma
(`RowChanged`) what such a change means for the invariant, and one (`ApprovalOfRow`) what it means
for the approval.

`CreativeFoundationProofs` proves, for all seeds, contents, keys and bounds allowed by
`BoundsAssumption` and `NullAssumption`:

* `Inductive`: `IInv == TypeOK /\ CallInv /\ PageInv /\ FoundationSound /\ ChosenAsShown`.
  `CallInv` says that a batch without a row, with a reservation or with an end before its start has
  not been sent: `called <= 1` alone does not survive `StartAttempt`. `PageInv` says that an old page
  shows an earlier revision of its seed, or the same one with the same content, unless the key was
  used again: without it `SelectSeed`, which compares revisions, could choose unseen content.
* `TypeCorrect`, `FoundationIsSound`, `ShownIsChosen`: its parts.
* `AskedOnlyOnce`: `CalledOnce` from `CallInv`, `EndedForever` by the case of the step.

`CreativeAdviceProofs` composes: `Conservative` (every behaviour with trials and rankings beside it is
one of the foundation) carries the theorems above over to the system the run checks
(`AdvisedFoundationIsSound`, `AdvisedShownIsChosen`, the types in `AdviceTypeCorrect`), and
`AdviceIsKept` is proved from the types by the case of the step.

`DraftResultsProofs` goes on from `DraftOperationsProofs`, whose invariant it takes as given:

* `ResultsInductive`: `ResultInv` adds `LogInv` (the revision of the draft is positive, every row is
  `Readable`, its log `Whole`, and no time that was written or sampled is ahead of the clock),
  `ReviewBound` (a review is older than the operation that adjusts it) and `RecoveryOwned` (recovery
  rows of an operation appear when its result reaches the draft, and their revision tells which text
  they hold). `LogSound` alone is not inductive: that a row is settled no
  earlier than its last heartbeat needs `InTime`, that the log has room for the event that ends it
  needs the bound in `Readable`.
* `StoredIsReadable`, `ResultLandsOnce`, `AdjustedOnce`: what follows from it for `LogSound`,
  `ResultOnce` and `ReviewAdjustedOnce`.
* `UndoReturnsTheText`, `ReplacedTextStays`, together `EverythingRecoverable`. That the row undone is the
  one of this operation and not of a later one is `RecoveryOwned`.

The proof goes by rows, not by actions: `RowStep` names the seven ways a step changes an operation and
its log, and the lemmas show once that every action is one of them for every key.

`PlanningWorkspaceProofs` proves, for all keys, pages, plans and bounds allowed by
`ConstantsAssumption`, every safety property the two planning runs check. That assumption says that
the idempotency keys are finitely many (a table has finitely many rows, and without that
`next_fencing_token`, one more than the largest fence of a draft, would have no bound in the type) and
that "none", the mark of a draft no result was loaded into, is not a key.

* `Inductive`: `IInv` is `TypeOK` and `ArchivedIdle` with what rows remember. `DraftsFollow` and
  `OneActive`: basis and head only grow, and a draft on both is the active one. `AttemptsOnDrafts`: an
  attempt has the basis and head of its draft. `FencesOrdered`: the fences of one draft differ and the
  pending attempt has the last. `FencesCounted`: the last fence is not beyond the number of the draft's
  attempts, without which the type of the fence would not be kept. `WritingHasPlan`: a chapter is
  drafted on a confirmed plan.
* `SlotIsSound`: `SlotAndFence` from the order of the fences; `LoadNeverRefused` because a result that
  passes the comparison of `_publish` finds its draft on basis and head, and so active; `ArchivedIdle`.
* `NothingIsOverwrittenUnseen`, `ShownIsConfirmed`, together `OnlyWhatIsShown`; `OutcomeIsFinal`;
  `ContinuationIsOnItsProgress`; `ActiveBlockStays`: action properties, by the case of the step.

`BibleWorkspaceProofs` proves, for all keys, Bibles and bounds, every property of the run `bible`:

* `Inductive`: `IInv` is `TypeOK` with `HeadEndsDraft`, `PageOfDraft` (before the confirmation, the
  draft a page shows is still in the slot, at a version no smaller, and the version names the text),
  `HeadHasRequest` and `FailureIsRecorded` (a failure is told only where the request row says so).
* `FailureIsFinal`: from the last two. The reply and the head speak of the same row, which cannot say
  both; whether the transaction that broke was committed does not enter.
* `ShownIsConfirmed`: from `PageOfDraft`, since the request names the version only; with
  `ConfirmationIsFinal` it is `ConfirmationHolds`.
* `NoSaveIsBuried`; `ArchivedBibleStill` and `OutcomeIsFinal`, together `LateMovesNothing`.

`ApplicationLifespanProofs` proves, for all processes, workers and numbers of document writes allowed
by its assumptions (lock holders are told apart, no document is no document), every safety property
of the run `lifespan`:

* `Inductive`: `IInv` is `TypeOK`, `LockHeld` and `Lifespan(p)` of each process. `LockHeld`: a process
  owns the lock exactly from the start of its lifespan to the end of its transfer, the script in the
  sections that may write, and each once. `Foreground` and `Background` say what a lifespan has of
  its registry, drain and pool closer in each phase before and after it returns. `ConfigKept`: the
  configuration is there while somebody may need it. `LockCoversDatabase` is far from inductive: it
  does not say that the transfer which will give the lock up waits for drain and pool.
* `LockOutlastsDatabase`, `EveryStartIsFresh`, `DocumentStaysStill`: what follows from it. The first two
  cover crashes, closes out of time and teardowns, with the exemption `torn` and no other.

`ProcessAlone` says that a step of one process leaves the others alone (`Elsewhere`), so each action
is looked at for its own process only.

Only model-checked: the liveness properties `SlotReleased`, `OrphanStops`, `StopReachesProvider` and
`LockReleased`. They rest on fairness, and on what is ENABLED, which is out of reach of the proof
system. Every invariant and every action property of the passing runs, and both refinements, are
theorems.

## Plan

The order is by how much of the program's promise hangs on a component and how little a unit
test can reach. Done: `DraftOperations`, `Finalization`, `PlanningWorkspace`, `BibleWorkspace`,
`CreativeFoundation` with `CreativeAdvice`, and `ApplicationLifespan`, which took in the task registry
and the cutover, each with the proofs of its safety properties. Next:

| Module | About | Abstract specification, properties | Theorems worth proving |
|---|---|---|---|
| `Canon` | `commit_locked`, confirmed events, conflicts, projections | an append-only log whose head moves by compare-and-set; the projection equals the fold of the log | head and log agree |
| `OutlineWorkspace` | `chapter_outlines.py`, `chapter_outline_generation.py`: the planning pattern per chapter | a late answer lands only on its draft; what is confirmed was shown | the same |
| `MarketRefresh` | the refresh lease of the manual path, retention clean-up | one refresh per source; a lease is not kept for ever | one holder per lease |
| `ImportPublication` | previews, import plans, publication | all or nothing; a preview is published once | |
| text algorithms | copy check, diff ranges, chunking | compared with a reference definition over short inputs | |

Planning, Bible, engines and advice share the pattern reserve / call / publish, but not its guards:
a slot with fences, a manifest, a row status, and inputs compared again. They are kept as modules of
their own because those differences are what the properties are about.

## Not modelled, and why

* A close of the task registry that is cancelled together with its loop while the lifespan waits for it
  (`main.py:275` and `:415`): neither completed nor handed over, it leaves the pool open
  (`pool_close_blocked`) while configuration and lock are given up. The close runs in a task of its own
  that the lifespan shields from its own cancellation, and a server such as uvicorn lets the lifespan
  end before it stops the loop; `torn` covers loops that stop after the lifespan returned.
* Inside a rewrite that adjusts a review: whether the report has findings left (`Adjustable` asks for a
  completed report), and the revision of the draft it was asked for.
* Text: contents, selections, offsets, prompts and the answers of providers are values that can
  be told apart and nothing more. Formatting, redaction, logging and layout are left out.
* A repeated command with the same idempotency key and body reads and writes nothing where its
  first row is settled; it is a stutter, unless a row that seems dead is settled by it (`Expire`,
  `AskAgain`, `RetireElapsed`). The same key with another body is refused before anything is written.
* A wall clock that steps back. `_validated_attempt` would then refuse rows, and attempts of a
  session would change their order of creation.
* The effective status `superseded` that `services/chapter_sessions.py:359` and its like refuse:
  the repository only ever fills that column with the session's own status, which is never it.
* Inside a review: the catalogue of evidence, the limit of 512 dispute events, the schema of
  change sets and the conflict engine. They can refuse a command and leave no trace when they do.
* The archive, as far as chapters are concerned: `DraftOperations` and `Finalization` stay with an
  active project.
* Of the foundation: seeds handed over by the topic centre, the locks of a project with final
  chapters, which has its contract already, and the comparison of a project's lifecycle revision.
* A contract whose model binding was replaced after it was confirmed is never ready again; the
  code offers no way back, so there is nothing to check beyond `ReplaceBinding` itself.
* `services/seed_generation.py` is constructed nowhere in the application, and the market scheduler
  is set to `None` by `main.py`: neither can run.
* Components marked `not_modelled` in `PROJECT.json`, each with its reason; the plan says which
  of them come next.
