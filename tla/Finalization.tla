----------------------------- MODULE Finalization -----------------------------
(***************************************************************************)
(* How a chapter of a project becomes part of the book: a candidate frozen *)
(* from the working draft is prepared for review (a quality audit and one  *)
(* extraction of its changes, outside the database), the author corrects,  *)
(* disputes and confirms the review, and one transaction commits it, while *)
(* planning, outline and model bindings may move on underneath.            *)
(*                                                                         *)
(* Every transaction locks the project row first (lock_project), so one    *)
(* transaction is one action.  What interleaves is the preparing worker,   *)
(* between its two transactions, and the browser tabs, each of which acts  *)
(* on the review it read last.                                             *)
(*                                                                         *)
(* A project has one session at a time and one chapter per session; the    *)
(* attempts, candidates and the outline here are those of the chapter in   *)
(* work.  A text, a planning text, an outline text or a change set stands  *)
(* for a content together with its hash.  A command repeated under its     *)
(* idempotency key finds its row and writes nothing: it is a stutter.  The *)
(* status 'committing' lives only inside the commit transaction.           *)
(*                                                                         *)
(* A definition marked "Fault:" is the definition after it with a mistake  *)
(* in it; PROJECT.json names the property that tells the two apart.        *)
(***************************************************************************)
EXTENDS Naturals, Sequences

CONSTANTS
  Texts,         \* texts of the chapter
  Copied,        \* the ones that repeat a reference source word for word
  PlanTexts,     \* contents of the planning
  OutlineTexts,  \* contents of an outline
  Bindings,      \* model bindings of audit and extraction
  ChangeSets,    \* sets of changes a chapter makes
  Patching,      \* the ones that patch the planning
  Findings,      \* findings an audit can require to be settled
  Tabs,          \* browser tabs of the author
  None,          \* NULL
  \* Bounds of the state space, each in the guard of the actions it limits.
  MaxChapters, MaxPlanRev, MaxOutlineRev, MaxAttempts, MaxRevs, MaxDecisions

ASSUME FinalizationAssumption ==
  /\ Copied \subseteq Texts
  /\ Patching \subseteq ChangeSets
  /\ None \notin Texts /\ None \notin ChangeSets
  /\ {MaxChapters, MaxPlanRev, MaxOutlineRev, MaxAttempts, MaxRevs, MaxDecisions}
       \subseteq Nat

VARIABLES
  heads,       \* the current authorities of the project
  session,     \* the latest chapter session and its working draft
  candidates,  \* its draft candidates
  attempts,    \* its finalization_change_sets rows, oldest first
  prep,        \* the request that prepares an attempt, between transactions
  seen,        \* the review each tab read last
  book         \* final_chapters

vars == <<heads, session, candidates, attempts, prep, seen, book>>

-----------------------------------------------------------------------------
(* Values. *)

Plans == [rev : Nat, text : PlanTexts]
Outlines == [rev : Nat, text : OutlineTexts, plan : Plans, canon : Nat]
Candidates == [text : Texts, outline : Outlines]

Authorities ==
  [canon : Nat, plan : Plans, outline : Outlines \cup {None},
   bindings : Bindings]

Reports == [completed : BOOLEAN, required : SUBSET Findings]

\* A provider that fails or is not bound leaves quality_not_completed and no
\* findings.
NotCompleted == [completed |-> FALSE, required |-> {}]
AuditReports == {NotCompleted} \cup [completed : {TRUE}, required : SUBSET Findings]

Disputes == {"none", "note", "retain", "revoke"}
Undisputed == [f \in Findings |-> "none"]

Statuses ==
  {"preparing", "awaiting_author", "committed", "invalidated", "cancelled",
   "failed"}
ActiveStatuses == {"preparing", "awaiting_author"}

Attempts ==
  [status : Statuses, candidate : Candidates, manifest : Authorities,
   report : Reports \cup {None}, revs : Seq(ChangeSets), confirmed : Nat,
   disputes : [Findings -> Disputes], decisions : Nat]

Chapters ==
  [candidate : Candidates, changes : ChangeSets, plan : Plans, outline : Outlines]

Views == [chapter : Nat, attempt : Nat, rev : Nat, changes : ChangeSets \cup {None},
          decisions : Nat]

\* What an author approves, and the authorities other than the Canon.
Matters == [candidate : Candidates, changes : ChangeSets]
Standings == [plan : Plans, outline : Outlines \cup {None}, bindings : Bindings]

\* NULL is no row.
ASSUME NullAssumption ==
  /\ None \notin Reports
  /\ None \notin [matter : Matters, canon : Nat, standing : Standings]

Idle == [pc |-> "idle", blocked |-> FALSE, report |-> None, changes |-> None]
EmptyView ==
  [chapter |-> 0, attempt |-> 0, rev |-> 0, changes |-> None, decisions |-> 0]

-----------------------------------------------------------------------------
(* State functions. *)

Drafting == session.status = "drafting"

\* The content hash of an outline: its text and what it was confirmed on, not
\* its own revision number.
Content(outline) == <<outline.text, outline.plan, outline.canon>>

\* The row with active_slot = 1, if there is one; the latest one.
Slot == {i \in 1 .. Len(attempts) : attempts[i].status \in ActiveStatuses}
Latest == Len(attempts)

\* Fault: the copy check and the session are looked at, the authorities are not.
PrechecksBlockUnderAnyAuthority(candidate) ==
  \/ ~Drafting \/ session.busy
  \/ session.draft # candidate.text
  \/ candidate.text \in Copied

\* The candidate is the draft, and session and heads are where it was frozen.
Current(candidate) ==
  /\ session.draft = candidate.text
  /\ session.canon = candidate.outline.canon
  /\ session.plan.text = candidate.outline.plan.text
  /\ Content(session.outline) = Content(candidate.outline)
  /\ heads.canon = candidate.outline.canon
  /\ heads.plan.text = candidate.outline.plan.text
  /\ heads.outline # None
  /\ Content(heads.outline) = Content(candidate.outline)

\* A hard block of run_finalization_prechecks.  The command carries the
\* authorities of the candidate; other ones only add blocks.
PrechecksBlock(candidate) ==
  \/ ~Drafting \/ session.busy
  \/ ~Current(candidate)
  \/ candidate.text \in Copied

\* current_review_report: the review whose findings a rewrite is asked to
\* settle, confirmed or not.  The attempt's authorities are its candidate's.
Adjustable(i) ==
  /\ i \in DOMAIN attempts
  /\ attempts[i].status = "awaiting_author"
  /\ attempts[i].report.completed
  /\ Current(attempts[i].candidate)

\* Fault: the manifest compares content and not revisions.
ManifestHoldsByText(attempt) ==
  /\ attempt.manifest.canon = heads.canon
  /\ attempt.manifest.plan.text = heads.plan.text
  /\ attempt.manifest.bindings = heads.bindings

\* The context manifest names revision and hash of every authority.
ManifestHolds(attempt) == attempt.manifest = heads

\* has_required_findings: an unfinished report has no findings.
Unresolved(attempt) ==
  /\ attempt.report # None
  /\ \E f \in attempt.report.required : attempt.disputes[f] # "retain"

Disputed(attempt) == \E f \in Findings : attempt.disputes[f] # "none"

-----------------------------------------------------------------------------
Init ==
  /\ \E text \in PlanTexts, b \in Bindings :
       heads = [canon |-> 0, plan |-> [rev |-> 1, text |-> text],
                outline |-> None, bindings |-> b]
  /\ session = [chapter |-> 0, status |-> "none", busy |-> FALSE, adjusts |-> 0,
                draft |-> None, plan |-> heads.plan, outline |-> None, canon |-> 0]
  /\ candidates = {}
  /\ attempts = <<>>
  /\ prep = Idle
  /\ seen = [t \in Tabs |-> EmptyView]
  /\ book = <<>>

-----------------------------------------------------------------------------
(* The authorities move. *)

ConfirmPlanning ==
  /\ heads.plan.rev < MaxPlanRev
  /\ \E text \in PlanTexts :
       heads' = [heads EXCEPT !.plan = [rev |-> heads.plan.rev + 1, text |-> text]]
  /\ UNCHANGED <<session, candidates, attempts, prep, seen, book>>

\* An outline is confirmed on the planning and Canon of the moment, also while
\* its chapter is being written; a draft of an older basis is superseded.
ConfirmOutline ==
  /\ LET rev == IF heads.outline = None THEN 1 ELSE heads.outline.rev + 1 IN
     /\ rev <= MaxOutlineRev
     /\ \E text \in OutlineTexts :
          heads' = [heads EXCEPT !.outline =
                      [rev |-> rev, text |-> text, plan |-> heads.plan,
                       canon |-> heads.canon]]
  /\ UNCHANGED <<session, candidates, attempts, prep, seen, book>>

BindModels ==
  /\ \E b \in Bindings : heads' = [heads EXCEPT !.bindings = b]
  /\ UNCHANGED <<session, candidates, attempts, prep, seen, book>>

-----------------------------------------------------------------------------
(* The session, its draft and its candidates. *)

OutlineStands ==
  /\ heads.outline # None
  /\ heads.outline.plan = heads.plan
  /\ heads.outline.canon = heads.canon

\* A request that still prepares the finished chapter can only fail there: it
\* leaves the picture with that chapter's rows.
CreateSession ==
  /\ ~Drafting
  /\ Len(book) < MaxChapters
  /\ OutlineStands
  /\ session' = [chapter |-> Len(book) + 1, status |-> "drafting",
                 busy |-> FALSE, adjusts |-> 0, draft |-> None,
                 plan |-> heads.outline.plan, outline |-> heads.outline,
                 canon |-> heads.canon]
  /\ candidates' = {}
  /\ attempts' = <<>>
  /\ prep' = Idle
  /\ UNCHANGED <<heads, seen, book>>

\* The author saves, also while an operation runs, or loads a candidate.
SaveDraft ==
  /\ Drafting
  /\ \E text \in Texts : session' = [session EXCEPT !.draft = text]
  /\ UNCHANGED <<heads, candidates, attempts, prep, seen, book>>

\* A draft operation takes the session, for itself or to adjust a review.
OperationStarts ==
  /\ Drafting /\ ~session.busy
  /\ \E i \in {0} \cup {j \in Slot : Adjustable(j)} :
       session' = [session EXCEPT !.busy = TRUE, !.adjusts = i]
  /\ UNCHANGED <<heads, candidates, attempts, prep, seen, book>>

Released(text) ==
  [session EXCEPT !.busy = FALSE, !.adjusts = 0, !.draft = text]

\* It gives the session back, its text or not; one that adjusts a review ends
\* so when it fails, is cancelled without output or expires.
OperationEnds ==
  /\ session.busy
  /\ \/ session' = Released(session.draft)
     \/ session.adjusts = 0 /\ \E text \in Texts : session' = Released(text)
  /\ UNCHANGED <<heads, candidates, attempts, prep, seen, book>>

\* invalidate_adjusted_review: the text of a rewrite, or its partial output, is
\* the draft now, and the review that asked for it is used up.  A busy session
\* lets nobody revise that review, so its revision is the one it started from.
AdjustmentLands ==
  /\ session.busy
  /\ Adjustable(session.adjusts)
  /\ \E text \in Texts : session' = Released(text)
  /\ attempts' = [attempts EXCEPT ![session.adjusts].status = "invalidated"]
  /\ UNCHANGED <<heads, candidates, prep, seen, book>>

FreezeCandidate ==
  /\ Drafting
  /\ heads.outline # None
  /\ session.draft # None
  /\ candidates' =
       candidates \cup {[text |-> session.draft, outline |-> heads.outline]}
  /\ UNCHANGED <<heads, session, attempts, prep, seen, book>>

-----------------------------------------------------------------------------
(* Preparing a review: a transaction, two provider calls, a transaction. *)

\* Fault: only a review that waits for its author is in the way.
FreeSlotButForReviews ==
  ~ \E i \in DOMAIN attempts : attempts[i].status = "awaiting_author"

FreeSlot == Slot = {}

\* A candidate that does not pass is still prepared, and fails later.
Prepare ==
  /\ session.status # "none"
  /\ FreeSlot
  /\ Latest < MaxAttempts
  /\ \E c \in candidates :
       /\ attempts' = Append(attempts,
            [status |-> "preparing", candidate |-> c, manifest |-> heads,
             report |-> None, revs |-> <<>>, confirmed |-> 0,
             disputes |-> Undisputed, decisions |-> 0])
       /\ prep' = [Idle EXCEPT !.pc = "audit", !.blocked = PrechecksBlock(c)]
  /\ UNCHANGED <<heads, session, candidates, seen, book>>

Audit ==
  /\ prep.pc = "audit"
  /\ \E r \in AuditReports :
       prep' = [prep EXCEPT !.pc = "extract", !.report = r]
  /\ UNCHANGED <<heads, session, candidates, attempts, seen, book>>

Extract ==
  /\ prep.pc = "extract" /\ ~prep.blocked
  /\ \E c \in ChangeSets :
       prep' = [prep EXCEPT !.pc = "publish", !.changes = c]
  /\ UNCHANGED <<heads, session, candidates, attempts, seen, book>>

\* _terminalize, mark_terminal: the row leaves its slot.
MarkTerminal(i, status, report) ==
  /\ attempts[i].status = "preparing"
  /\ attempts' = [attempts EXCEPT ![i].status = status, ![i].report = report]

\* A candidate the prechecks block, or one whose extraction fails.
PrepareFails ==
  /\ prep.pc = "extract"
  /\ MarkTerminal(Latest, "failed", prep.report)
  /\ prep' = Idle
  /\ UNCHANGED <<heads, session, candidates, seen, book>>

\* The request is cancelled in one of its provider calls.
PrepareCancelled ==
  /\ \/ prep.pc = "audit"
     \/ prep.pc = "extract" /\ ~prep.blocked
  /\ MarkTerminal(Latest, "cancelled", None)
  /\ prep' = Idle
  /\ UNCHANGED <<heads, session, candidates, seen, book>>

\* The second transaction finds other authorities, or a hard block.
Invalidate ==
  /\ prep.pc = "publish"
  /\ ~ManifestHolds(attempts[Latest]) \/ PrechecksBlock(attempts[Latest].candidate)
  /\ MarkTerminal(Latest, "invalidated", None)
  /\ prep' = Idle
  /\ UNCHANGED <<heads, session, candidates, seen, book>>

PublishReview ==
  /\ prep.pc = "publish"
  /\ ManifestHolds(attempts[Latest])
  /\ ~PrechecksBlock(attempts[Latest].candidate)
  /\ attempts[Latest].status = "preparing"
  /\ attempts' = [attempts EXCEPT ![Latest].status = "awaiting_author",
                                  ![Latest].report = prep.report,
                                  ![Latest].revs = <<prep.changes>>]
  /\ prep' = Idle
  /\ UNCHANGED <<heads, session, candidates, seen, book>>

\* The process dies, or the request is cancelled inside a transaction, which
\* rolls back: the row stays 'preparing' and nothing ever takes it up again.
ProcessStops ==
  /\ prep.pc \notin {"idle", "dead"}
  /\ prep' = [Idle EXCEPT !.pc = "dead"]
  /\ UNCHANGED <<heads, session, candidates, attempts, seen, book>>

-----------------------------------------------------------------------------
(* The author reviews.  A command carries the change set revision and hash  *)
(* its tab has read, and the session it was read for.                       *)

GetReview(t) ==
  /\ Latest > 0
  /\ LET a == attempts[Latest]
         rev == Len(a.revs) IN
     seen' = [seen EXCEPT ![t] =
       [chapter |-> session.chapter, attempt |-> Latest, rev |-> rev,
        changes |-> IF rev = 0 THEN None ELSE a.revs[rev],
        decisions |-> a.decisions]]
  /\ UNCHANGED <<heads, session, candidates, attempts, prep, book>>

AtRevision(a, view) ==
  /\ view.chapter = session.chapter
  /\ view.rev = Len(a.revs)
  /\ view.rev # 0
  /\ view.changes = a.revs[view.rev]

\* Fault: _require_review_state forgets the confirmation.
AtAnyReview(a, view) == a.status = "awaiting_author" /\ AtRevision(a, view)

\* _require_review_state
AtOpenReview(a, view) ==
  /\ a.status = "awaiting_author"
  /\ a.confirmed = 0
  /\ AtRevision(a, view)

\* _lock_review_inputs: the open review, its authorities still as prepared.
Reviewable(i, t) ==
  /\ AtOpenReview(attempts[i], seen[t])
  /\ ManifestHolds(attempts[i])
  /\ ~PrechecksBlock(attempts[i].candidate)

\* Decisions are taken on the attempt, report and decision revision seen.
Decidable(i, t) ==
  /\ Reviewable(i, t)
  /\ seen[t].attempt = i
  /\ i = Latest
  /\ attempts[i].report.completed
  /\ seen[t].decisions = attempts[i].decisions
  /\ attempts[i].decisions < MaxDecisions

\* An optional finding is ignored, or not any more.
DecideFinding(t) ==
  /\ \E i \in Slot :
       /\ Decidable(i, t)
       /\ attempts' = [attempts EXCEPT ![i].decisions = @ + 1]
  /\ UNCHANGED <<heads, session, candidates, prep, seen, book>>

\* validate_history: what may follow what in the disputes of one finding.
MayFollow(action, last) ==
  \/ action = "note"
  \/ action = "retain" /\ last = "note"
  \/ action = "revoke" /\ last # "none"

DisputeFinding(t) ==
  /\ \E i \in Slot :
       /\ Decidable(i, t)
       /\ \E f \in attempts[i].report.required, action \in Disputes :
            /\ MayFollow(action, attempts[i].disputes[f])
            /\ attempts' = [attempts EXCEPT ![i].disputes[f] = action,
                                            ![i].decisions = @ + 1]
  /\ UNCHANGED <<heads, session, candidates, prep, seen, book>>

Correct(t) ==
  /\ \E i \in Slot, c \in ChangeSets :
       /\ Reviewable(i, t)
       /\ Len(attempts[i].revs) < MaxRevs
       /\ attempts' = [attempts EXCEPT ![i].revs = Append(@, c)]
  /\ UNCHANGED <<heads, session, candidates, prep, seen, book>>

\* Confirm names no attempt; once there are disputes it names their revision.
Confirm(t) ==
  /\ \E i \in Slot :
       /\ Reviewable(i, t)
       /\ Disputed(attempts[Latest]) =>
            seen[t].decisions = attempts[Latest].decisions
       /\ ~Unresolved(attempts[Latest])
       /\ attempts' = [attempts EXCEPT ![i].confirmed = seen[t].rev]
  /\ UNCHANGED <<heads, session, candidates, prep, seen, book>>

\* A confirmed review is withdrawn by its id, an unconfirmed one by revision.
Revoke(t) ==
  /\ \E i \in DOMAIN attempts :
       /\ seen[t].attempt = i
       /\ AtRevision(attempts[i], seen[t])
       /\ attempts[i].confirmed = seen[t].rev
       /\ attempts[i].status = "awaiting_author"
       /\ Drafting /\ ~session.busy
       /\ attempts' = [attempts EXCEPT ![i].status = "cancelled"]
  /\ UNCHANGED <<heads, session, candidates, prep, seen, book>>

Cancel(t) ==
  /\ \E i \in Slot :
       /\ AtOpenReview(attempts[i], seen[t])
       /\ attempts' = [attempts EXCEPT ![i].status = "cancelled"]
  /\ UNCHANGED <<heads, session, candidates, prep, seen, book>>

-----------------------------------------------------------------------------
(* The commit: one transaction, all or nothing. *)

\* Fault: _require_attempt takes the current revision for confirmed.
CommitsCurrent(a, view) == a.status = "awaiting_author" /\ AtRevision(a, view)

\* _require_attempt
CommitsConfirmed(a, view) ==
  /\ a.status = "awaiting_author"
  /\ AtRevision(a, view)
  /\ a.confirmed = view.rev

\* Fault: the status has the word the checks of other services use.
FinalizeSessionAsFinalized == session' = [session EXCEPT !.status = "finalized"]

\* Fault: the session is left open.
FinalizeSessionForgotten == UNCHANGED session

FinalizeSession == session' = [session EXCEPT !.status = "final"]

\* The Canon advances; the outline head of the next chapter is still empty.
AdvanceHeads(changes) ==
  \E plan \in (IF changes \in Patching
               THEN {[rev |-> heads.plan.rev + 1, text |-> p] : p \in PlanTexts}
               ELSE {heads.plan}) :
    heads' = [heads EXCEPT !.canon = @ + 1, !.plan = plan, !.outline = None]

Commit(t) ==
  /\ Latest > 0
  /\ LET a == attempts[Latest] IN
     /\ CommitsConfirmed(a, seen[t])
     /\ ManifestHolds(a)
     /\ ~PrechecksBlock(a.candidate)
     /\ ~Unresolved(a)
     /\ heads.plan = session.plan
     /\ heads.canon = a.candidate.outline.canon
     /\ AdvanceHeads(seen[t].changes)
     /\ book' = Append(book,
          [candidate |-> a.candidate, changes |-> seen[t].changes,
           plan |-> session.plan, outline |-> session.outline])
  /\ FinalizeSession
  /\ attempts' = [attempts EXCEPT ![Latest].status = "committed"]
  /\ UNCHANGED <<candidates, prep, seen>>

-----------------------------------------------------------------------------
AuthoritiesMove == ConfirmPlanning \/ ConfirmOutline \/ BindModels

Writing ==
  \/ CreateSession \/ SaveDraft \/ OperationStarts \/ OperationEnds
  \/ AdjustmentLands \/ FreezeCandidate

WorkerStep ==
  \/ Audit \/ Extract \/ PrepareFails \/ PrepareCancelled \/ Invalidate
  \/ PublishReview

Author(t) ==
  \/ GetReview(t) \/ DecideFinding(t) \/ DisputeFinding(t) \/ Correct(t)
  \/ Confirm(t) \/ Revoke(t) \/ Cancel(t) \/ Commit(t)

Next ==
  \/ AuthoritiesMove \/ Writing \/ Prepare \/ WorkerStep \/ ProcessStops
  \/ \E t \in Tabs : Author(t)

Spec == Init /\ [][Next]_vars

\* A preparing request that lives goes on: its provider calls time out.
FairSpec == Spec /\ WF_vars(WorkerStep)

-----------------------------------------------------------------------------
(* What the code promises. *)

\* Types of the rows and of the worker's memory.
TypeOK ==
  /\ heads \in Authorities
  /\ session \in [chapter : Nat, status : {"none", "drafting", "final"},
                  busy : BOOLEAN, adjusts : Nat, draft : Texts \cup {None},
                  plan : Plans, outline : Outlines \cup {None}, canon : Nat]
  /\ candidates \subseteq Candidates
  /\ attempts \in Seq(Attempts)
  /\ prep \in [pc : {"idle", "audit", "extract", "publish", "dead"},
               blocked : BOOLEAN, report : Reports \cup {None},
               changes : ChangeSets \cup {None}]
  /\ seen \in [Tabs -> Views]
  /\ book \in Seq(Chapters)

\* The slot of a session: only the latest attempt is ever active, it is
\* 'preparing' exactly while a request prepares it or has died preparing it (so
\* that request always finds its row as it left it), and a finished chapter has
\* no review left open.  (find_active, mark_terminal, publish_awaiting_author)
SlotAgrees ==
  /\ Slot \subseteq {Latest}
  /\ prep.pc # "idle" <=> Latest > 0 /\ attempts[Latest].status = "preparing"
  /\ \A i \in DOMAIN attempts : attempts[i].status = "awaiting_author" => Drafting

\* What is confirmed is the last revision, and every finding the audit requires
\* to be settled is settled and stays so: no correction, note or revocation
\* from another tab reaches a confirmed review.  (_require_review_state,
\* has_required_findings)
ConfirmedReviewIsSettled ==
  \A i \in DOMAIN attempts : attempts[i].confirmed # 0 =>
    /\ attempts[i].confirmed = Len(attempts[i].revs)
    /\ attempts[i].report # None
    /\ ~Unresolved(attempts[i])

\* Chapters, Canon and session count together: the Canon has one revision per
\* chapter, and a chapter in work is the next one, on the Canon of the moment.
\* (commit, advance_project_chapter, create_session)
ChaptersInOrder ==
  /\ heads.canon = Len(book)
  /\ Drafting => session.chapter = Len(book) + 1 /\ session.canon = Len(book)
  /\ session.status = "final" => session.chapter = Len(book)

\* The planning and outline recorded with a chapter have the content its
\* candidate was frozen under, made on the Canon the chapters before it left;
\* and the text published is the draft the session was closed with.
\* (insert_final_chapter records the pins of the session, not the candidate's)
BookPinsItsCandidate ==
  /\ \A n \in DOMAIN book :
       LET chapter == book[n] IN
       /\ Content(chapter.outline) = Content(chapter.candidate.outline)
       /\ chapter.outline.plan = chapter.plan
       /\ chapter.outline.canon = n - 1
       /\ chapter.candidate.text \notin Copied
  /\ session.status = "final" => book[Len(book)].candidate.text = session.draft

\* The book is what was approved, chapter by chapter: no chapter is skipped or
\* repeated, and none is recorded with pins that are not its own.
BookSound == ChaptersInOrder /\ BookPinsItsCandidate

\* Refinement: a chapter is published only as its author approved it and under
\* the authorities it was approved under.
Standing(authorities) ==
  [plan |-> authorities.plan, outline |-> authorities.outline,
   bindings |-> authorities.bindings]

Approved == Latest > 0 /\ attempts[Latest].status = "awaiting_author"
                       /\ attempts[Latest].confirmed # 0

Matter(chapter) == [candidate |-> chapter.candidate, changes |-> chapter.changes]

Approval ==
  IF Approved
  THEN LET a == attempts[Latest] IN
       [matter |-> [candidate |-> a.candidate, changes |-> a.revs[a.confirmed]],
        canon |-> a.manifest.canon, standing |-> Standing(a.manifest)]
  ELSE None

Publication == INSTANCE ChapterPublication WITH
  NoApproval <- None,
  canon <- heads.canon,
  standing <- Standing(heads),
  approval <- Approval,
  book <- [n \in DOMAIN book |-> Matter(book[n])]

\* The finalization of a project implements ChapterPublication.
ImplementsPublication == Publication!Spec

-----------------------------------------------------------------------------
(* What the documents say and the code does not do. *)

\* immutable-boundaries-revision-design: a candidate frozen from the current
\* outline can go on to finalization, also after the outline was adjusted.
\* run_finalization_prechecks compares it with the outline the session began on.
CurrentCandidateFinalizable ==
  \A c \in candidates :
    /\ Drafting /\ ~session.busy
    /\ OutlineStands
    /\ c.outline = heads.outline
    /\ c.text = session.draft
    /\ c.text \notin Copied
    => ~PrechecksBlock(c)

\* product-rebuild-and-writer-loop-design: an authority that drifts before the
\* confirmation makes the change set 'invalidated'.
DriftInvalidates ==
  \A i \in 1 .. MaxAttempts :
    (/\ i \in DOMAIN attempts
     /\ attempts[i].status = "awaiting_author"
     /\ attempts[i].confirmed = 0
     /\ ~ManifestHolds(attempts[i]))
      ~> \/ i \notin DOMAIN attempts
         \/ attempts[i].status # "awaiting_author"
         \/ ManifestHolds(attempts[i])
=============================================================================
