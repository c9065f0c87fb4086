--------------------------- MODULE DraftOperations ---------------------------
(***************************************************************************)
(* The draft operations of one chapter session: the author's working       *)
(* draft, the machine operations that rewrite it (whole-draft generation,  *)
(* local rewrites, local previews), and the in-process workers that carry  *)
(* the operations out against a text provider.                             *)
(*                                                                         *)
(* Every database transaction of the service locks the project row first   *)
(* (lock_project, SELECT ... FOR UPDATE), so the transactions of a project *)
(* are serial and each one is one action here.  What interleaves is what   *)
(* the code does BETWEEN transactions: a worker that samples the clock     *)
(* before it takes the lock, a worker between a provider error and the     *)
(* transaction that records it, a client between reserving an operation    *)
(* and launching its worker, a process that dies at any of those points.   *)
(*                                                                         *)
(* An operation is identified by its idempotency key: (session, key) is a  *)
(* unique key of draft_operation_attempts.  Time is the server clock in    *)
(* units of any size; it does not step back.  A text stands for a content  *)
(* together with its hash.                                                 *)
(*                                                                         *)
(* A definition marked "Fault:" is not the code: it is what the definition *)
(* after it would be with a mistake in it, and PROJECT.json names the      *)
(* property that tells the two apart.                                      *)
(***************************************************************************)
EXTENDS Naturals, Sequences, FiniteSets

CONSTANTS
  Keys,         \* idempotency keys, one per operation ever requested
  NoKey,        \* NULL in a column that holds an operation id
  Kinds,        \* the operation kinds clients ask for, see AllKinds
  FreezeKeys,   \* idempotency keys of candidate freezes
  Authorities,  \* values of the authority an operation is bound to
  Unready,      \* an authority that fails _validate_authority
  AuthorTexts,  \* how many different texts the author types
  Lease,        \* DRAFT_OPERATION_LEASE_MS
  MaxEvents,    \* MAX_DRAFT_OPERATION_EVENTS
  \* Bounds of the state space, each in the guard of the actions it limits.
  MaxClock,     \* the clock stops here
  LastStart,    \* no operation is reserved later than this
  MaxRevision,  \* no client writes the draft past this revision
  MaxReviews    \* how many review revisions are ever published

AllKinds == {"generate", "local", "preview"}

ASSUME ConstantsAssumption ==
  /\ NoKey \notin Keys
  /\ {"author", "none"} \cap Keys = {}
  /\ Kinds \subseteq AllKinds
  /\ Unready \notin Authorities
  /\ AuthorTexts \in Nat
  /\ Lease \in Nat \ {0}
  /\ MaxEvents \in Nat \ {0, 1}
  /\ MaxClock \in Nat
  /\ LastStart \in Nat
  /\ MaxRevision \in Nat
  /\ MaxReviews \in Nat

VARIABLES
  clock,      \* the server clock
  session,    \* the chapter_sessions row: status, active operation, fence
  draft,      \* the working_drafts row
  ops,        \* draft_operation_attempts, by key
  events,     \* draft_operation_events: the event types of each operation
  recovery,   \* working_draft_revisions
  candidates, \* draft_candidates
  freezes,    \* candidate_freeze_requests, by freeze key
  authority,  \* current outline, Canon projection, model binding, ...
  review,     \* the finalization review of the session, if one is open
  worker      \* the asyncio task of each operation; lost with the process

vars == <<clock, session, draft, ops, events, recovery, candidates, freezes,
          authority, review, worker>>

-----------------------------------------------------------------------------
(* Texts and rows.                                                         *)

Text == [by : Keys \cup {"author", "none"}, n : Nat]
Empty == [by |-> "none", n |-> 0]
Authored(i) == [by |-> "author", n |-> i]
\* What operation k has produced after n flushed deltas.
Output(k, n) == [by |-> k, n |-> n]

Writers == {"none", "operation", "undo", "candidate"}
\* source_payload: who wrote the draft last, and over which revision.  A save
\* keeps it, so two texts in a row can carry the same payload.
Source == [by : Writers, op : Keys \cup {NoKey}, base : Nat]
NoSource == [by |-> "none", op |-> NoKey, base |-> 0]
FromOperation(k, base) == [by |-> "operation", op |-> k, base |-> base]
FromUndo(k, base) == [by |-> "undo", op |-> k, base |-> base]
FromCandidate(base) == [by |-> "candidate", op |-> NoKey, base |-> base]

Terminal == {"completed", "failed", "cancelled", "expired"}
\* "starting" is written and replaced inside one transaction, so no other
\* transaction sees it; "unreserved" is a key without a row.
OpStatus == {"unreserved", "running"} \cup Terminal

\* resultRev = 0 stands for NULL; review = 0 for no review reference.
Op == [status : OpStatus, kind : AllKinds, fence : Nat,
       lease : Nat, beat : Nat, updated : Nat, seq : Nat,
       baseRev : Nat, baseText : Text,
       auth : Authorities \cup {Unready}, review : Nat, partial : Nat,
       resultRev : Nat, resultText : Text]

Unreserved ==
  [status |-> "unreserved", kind |-> "generate", fence |-> 0,
   lease |-> 0, beat |-> 0, updated |-> 0, seq |-> 0,
   baseRev |-> 0, baseText |-> Empty, auth |-> Unready, review |-> 0,
   partial |-> 0, resultRev |-> 0, resultText |-> Empty]

Row == [rev : Nat, role : {"before", "after"},
        reason : AllKinds \cup {"undo_local", "candidate_load"},
        op : Keys \cup {NoKey}, text : Text]

EventType == {"started", "delta", "heartbeat", "completed", "failed", "cancelled"}
FinalEvents == {"completed", "failed", "cancelled"}

WorkerState == {"none", "reserved", "running", "sampled", "failing"}
Idle == [pc |-> "none", now |-> 0]
At(pc) == [pc |-> pc, now |-> 0]

TypeOK ==
  /\ clock \in Nat
  /\ session \in [status : {"drafting", "final"},
                  active : Keys \cup {NoKey}, fence : Nat]
  /\ draft \in [rev : Nat, text : Text, source : Source]
  /\ ops \in [Keys -> Op]
  /\ events \in [Keys -> Seq(EventType)]
  /\ recovery \subseteq Row
  /\ candidates \subseteq [text : Text, basis : Authorities \cup {Unready}]
  /\ freezes \in [FreezeKeys -> [rev : Nat, text : Text]]
  /\ authority \in Authorities \cup {Unready}
  /\ review \in [id : Nat, open : BOOLEAN, text : Text]
  /\ worker \in [Keys -> [pc : WorkerState, now : Nat]]

Init ==
  /\ clock = 0
  /\ session = [status |-> "drafting", active |-> NoKey, fence |-> 0]
  /\ draft = [rev |-> 1, text |-> Empty, source |-> NoSource]
  /\ ops = [k \in Keys |-> Unreserved]
  /\ events = [k \in Keys |-> <<>>]
  /\ recovery = {}
  /\ candidates = {}
  /\ freezes = [f \in FreezeKeys |-> [rev |-> 0, text |-> Empty]]
  /\ authority \in Authorities
  /\ review = [id |-> 0, open |-> FALSE, text |-> Empty]
  /\ worker = [k \in Keys |-> Idle]

-----------------------------------------------------------------------------
(* The rows a transaction reads.                                           *)

Running(k) == ops[k].status = "running"
Elapsed(k) == ops[k].lease <= clock

\* No row of the unique key (revision, role) is there yet.
Recordable(rev, role) == ~ \E r \in recovery : r.rev = rev /\ r.role = role

\* Fault: the snapshot gets the number of the revision to come.
BeforeAhead(reason, k) == [rev |-> draft.rev + 1, role |-> "before",
                           reason |-> reason, op |-> k, text |-> draft.text]
Before(reason, k) == [rev |-> draft.rev, role |-> "before", reason |-> reason,
                      op |-> k, text |-> draft.text]
After(reason, k, text) == [rev |-> draft.rev + 1, role |-> "after",
                           reason |-> reason, op |-> k, text |-> text]

\* Fault: the snapshot is taken after the write it is to undo.
ReplaceThenKeep(text, source, reason, k) ==
  /\ recovery' = recovery \cup
       {[Before(reason, k) EXCEPT !.text = text], After(reason, k, text)}
  /\ draft' = [rev |-> draft.rev + 1, text |-> text, source |-> source]

\* Fault: no snapshot of what goes.
ReplaceUnkept(text, source, reason, k) ==
  /\ recovery' = recovery \cup {After(reason, k, text)}
  /\ draft' = [rev |-> draft.rev + 1, text |-> text, source |-> source]

\* Record both snapshots and write the next revision, or fail as a whole.
Replace(text, source, reason, k) ==
  /\ Recordable(draft.rev, "before")
  /\ Recordable(draft.rev + 1, "after")
  /\ recovery' = recovery \cup {Before(reason, k), After(reason, k, text)}
  /\ draft' = [rev |-> draft.rev + 1, text |-> text, source |-> source]

\* Fault: a running operation is overlooked.
OpenSession == session.status = "drafting"
\* Nothing is running that would find the draft rewritten or closed under it.
IdleSession == session.status = "drafting" /\ session.active = NoKey

\* The review r names is the open one and is about the current draft.
ReviewCurrent(r) == review.open /\ review.id = r /\ review.text = draft.text

\* Fault: an adjusted review stays open.
InvalidateNothing(r) == UNCHANGED review
\* What invalidate_adjusted_review leaves; r = 0 is an operation without one.
InvalidateReview(r) ==
  review' = IF r = 0 THEN review ELSE [review EXCEPT !.open = FALSE]

\* Fault: the hash alone is compared; the author may have gone and come back.
OnBaseByText(k) == draft.text = ops[k].baseText
\* The draft is still the one operation k was requested for.
OnBase(k) == draft.rev = ops[k].baseRev /\ draft.text = ops[k].baseText

\* The manifest stored with operation k still describes the world.
BasisHolds(k) ==
  /\ OnBase(k)
  /\ session.status = "drafting"
  /\ authority = ops[k].auth
  /\ ops[k].review # 0 => ReviewCurrent(ops[k].review)

\* Fault: the row is inserted and never marked running.
ReservedUnmarked(kind, r) ==
  [status |-> "starting", kind |-> kind, fence |-> session.fence + 1,
   lease |-> clock + Lease, beat |-> clock, updated |-> clock, seq |-> 1,
   baseRev |-> draft.rev, baseText |-> draft.text, auth |-> authority,
   review |-> r, partial |-> 0, resultRev |-> 0, resultText |-> Empty]

\* The row a reservation inserts and marks running.
Reserved(kind, r) ==
  [status |-> "running", kind |-> kind, fence |-> session.fence + 1,
   lease |-> clock + Lease, beat |-> clock, updated |-> clock, seq |-> 1,
   baseRev |-> draft.rev, baseText |-> draft.text, auth |-> authority,
   review |-> r, partial |-> 0, resultRev |-> 0, resultText |-> Empty]

Expired(o) == [o EXCEPT !.status = "expired", !.updated = clock]
Renewed(o, now, partial) ==
  [o EXCEPT !.seq = @ + 1, !.beat = now, !.lease = now + Lease,
            !.updated = now, !.partial = partial]

\* Fault: the failure's event takes no sequence number.
FailedUncounted(o) == [o EXCEPT !.status = "failed", !.updated = clock]
Failed(o) == [o EXCEPT !.status = "failed", !.seq = @ + 1, !.updated = clock]
Completed(o, rev, text) ==
  [o EXCEPT !.status = "completed", !.seq = @ + 1, !.updated = clock,
            !.resultRev = rev, !.resultText = text, !.partial = text.n]

\* Fault: the row keeps the revision of its result and not the result.
CancelledWithoutText(o, rev, text) ==
  [o EXCEPT !.status = "cancelled", !.seq = @ + 1, !.updated = clock,
            !.resultRev = rev]
Cancelled(o, rev, text) ==
  [o EXCEPT !.status = "cancelled", !.seq = @ + 1, !.updated = clock,
            !.resultRev = rev, !.resultText = text]

Log(k, type) == events' = [events EXCEPT ![k] = Append(@, type)]

\* Fault: the fencing token is not advanced.
TakeSlotWithOldFence(k) == session' = [session EXCEPT !.active = k]
TakeSlot(k) == session' = [session EXCEPT !.active = k, !.fence = @ + 1]

\* Fault: the session still names the operation that ended.
ReleaseForgotten == UNCHANGED session
Release == session' = [session EXCEPT !.active = NoKey]
Stop(k) == worker' = [worker EXCEPT ![k] = Idle]

\* Operation k's row becomes o and the session's slot is free again.
Settle(k, o) == ops' = [ops EXCEPT ![k] = o] /\ Release

-----------------------------------------------------------------------------
(* Requests about operations.                                              *)

\* Fault: the row expires and the session still waits for it.
ExpireRowOnly(k) ==
  /\ Running(k) /\ Elapsed(k)
  /\ ops' = [ops EXCEPT ![k] = Expired(@)]
  /\ UNCHANGED <<clock, session, draft, events, recovery, candidates, freezes,
                 authority, review, worker>>

\* A lease that has run out is noticed by whoever reads the row next.
ExpireElapsed(k) ==
  /\ Running(k)
  /\ Elapsed(k)
  /\ session.active = k
  /\ Settle(k, Expired(ops[k]))
  /\ UNCHANGED <<clock, draft, events, recovery, candidates, freezes,
                 authority, review, worker>>

Read(k) == ExpireElapsed(k)

\* A request with the key and the fingerprint of a stored operation.
Replay(k) == ExpireElapsed(k)

\* A new request.  A stale expected revision or hash is a conflict, so the
\* request that does something carries the draft's.  It takes the place of an
\* operation whose lease has run out, and of no other.
Reserve(k, kind, r) ==
  /\ clock <= LastStart
  /\ ops[k].status = "unreserved"
  /\ session.status = "drafting"
  /\ \A j \in Keys : Running(j) => Elapsed(j) /\ session.active = j
  /\ kind # "generate" => draft.text # Empty
  /\ authority # Unready
  /\ r # 0 => kind = "generate" /\ ReviewCurrent(r)
  /\ ops' = [j \in Keys |->
       IF j = k
         THEN Reserved(kind, r)
         ELSE IF Running(j) THEN Expired(ops[j]) ELSE ops[j]]
  /\ TakeSlot(k)
  /\ Log(k, "started")
  /\ worker' = [worker EXCEPT ![k] = At("reserved")]
  /\ UNCHANGED <<clock, draft, recovery, candidates, freezes, authority, review>>

\* registry.launch after the reservation committed.
Launch(k) ==
  /\ worker[k].pc = "reserved"
  /\ worker' = [worker EXCEPT ![k] = At("running")]
  /\ UNCHANGED <<clock, session, draft, ops, events, recovery, candidates,
                 freezes, authority, review>>

\* A cancel before the lease runs out.  What a whole-draft operation has
\* streamed so far becomes the draft, unless the author has saved since: then
\* the request is a conflict and the operation goes on.
CancelEmpty(k) ==
  /\ Running(k)
  /\ ~Elapsed(k)
  /\ session.active = k
  /\ ops[k].partial = 0 \/ ops[k].kind # "generate"
  /\ ops[k].seq < MaxEvents
  /\ Settle(k, Cancelled(ops[k], 0, Empty))
  /\ Log(k, "cancelled")
  /\ UNCHANGED <<clock, draft, recovery, candidates, freezes, authority,
                 review, worker>>

CancelPartial(k) ==
  LET text == Output(k, ops[k].partial)
      r == ops[k].review
  IN
  /\ Running(k)
  /\ ~Elapsed(k)
  /\ session.active = k
  /\ ops[k].partial # 0 /\ ops[k].kind = "generate"
  /\ ops[k].seq < MaxEvents
  /\ OnBase(k)
  /\ r # 0 => BasisHolds(k)
  /\ Replace(text, FromOperation(k, draft.rev), ops[k].kind, k)
  /\ InvalidateReview(r)
  /\ Settle(k, Cancelled(ops[k], draft.rev + 1, text))
  /\ Log(k, "cancelled")
  /\ UNCHANGED <<clock, candidates, freezes, authority, worker>>

\* The same cancel finds that the review it would adjust has moved.
CancelDrifted(k) ==
  /\ Running(k)
  /\ ~Elapsed(k)
  /\ session.active = k
  /\ ops[k].partial # 0 /\ ops[k].review # 0
  /\ OnBase(k)
  /\ ~BasisHolds(k)
  /\ Settle(k, Expired(ops[k]))
  /\ UNCHANGED <<clock, draft, events, recovery, candidates, freezes,
                 authority, review, worker>>

Cancel(k) ==
  \/ ExpireElapsed(k)
  \/ CancelEmpty(k)
  \/ CancelPartial(k)
  \/ CancelDrifted(k)

-----------------------------------------------------------------------------
(* The worker of operation k.                                              *)

\* _append_delta and _append_heartbeat read the clock before they wait for
\* the project lock, so the value may be old when the transaction runs.
Sample(k) ==
  /\ worker[k].pc = "running"
  /\ worker' = [worker EXCEPT ![k] = [pc |-> "sampled", now |-> clock]]
  /\ UNCHANGED <<clock, session, draft, ops, events, recovery, candidates,
                 freezes, authority, review>>

\* Fault: only the lease is asked for.
OwnsByLease(k, now) == ops[k].lease > now
Owns(k, now) == Running(k) /\ session.active = k /\ ops[k].lease > now

\* Fault: the stream may fill the log.
BudgetToTheLast(k) == ops[k].seq + 1 <= MaxEvents
\* The last place in the event log is kept for the event that ends it.
Budget(k) == ops[k].seq + 1 <= MaxEvents - 1

AppendDelta(k) ==
  /\ worker[k].pc = "sampled"
  /\ Owns(k, worker[k].now)
  /\ Budget(k)
  /\ ops' = [ops EXCEPT ![k] = Renewed(@, worker[k].now, @.partial + 1)]
  /\ Log(k, "delta")
  /\ worker' = [worker EXCEPT ![k] = At("running")]
  /\ UNCHANGED <<clock, session, draft, recovery, candidates, freezes,
                 authority, review>>

AppendHeartbeat(k) ==
  /\ worker[k].pc = "sampled"
  /\ Owns(k, worker[k].now)
  /\ Budget(k)
  /\ ops' = [ops EXCEPT ![k] = Renewed(@, worker[k].now, @.partial)]
  /\ Log(k, "heartbeat")
  /\ worker' = [worker EXCEPT ![k] = At("running")]
  /\ UNCHANGED <<clock, session, draft, recovery, candidates, freezes,
                 authority, review>>

\* Fault: a worker that lost its fence tries again.
AppendRetried(k) ==
  /\ worker[k].pc = "sampled"
  /\ worker' = [worker EXCEPT ![k] = At("running")]
  /\ ~Owns(k, worker[k].now)
  /\ UNCHANGED <<clock, session, draft, ops, events, recovery, candidates,
                 freezes, authority, review>>

\* _DraftOperationFenceLost ends the worker without another write; a full
\* event log is a result the worker goes on to report as a failure.
AppendRefused(k) ==
  /\ worker[k].pc = "sampled"
  /\ worker' = [worker EXCEPT ![k] =
       IF Owns(k, worker[k].now) THEN At("failing") ELSE Idle]
  /\ Owns(k, worker[k].now) => ~Budget(k)
  /\ UNCHANGED <<clock, session, draft, ops, events, recovery, candidates,
                 freezes, authority, review>>

\* The provider fails, times out or answers something invalid, or a local
\* replacement does not fit: the transaction that records it comes later.
ProviderFails(k) ==
  /\ worker[k].pc = "running"
  /\ worker' = [worker EXCEPT ![k] = At("failing")]
  /\ UNCHANGED <<clock, session, draft, ops, events, recovery, candidates,
                 freezes, authority, review>>

\* _terminal_or_expire_drift, the first thing either settlement does: the
\* operation was ended by someone else, ran out of lease, or lost its basis.
SettleMoot(k) ==
  /\ worker[k].pc \in {"running", "failing"}
  /\ \/ /\ ~Running(k)
        /\ UNCHANGED <<ops, session>>
     \/ /\ Running(k)
        /\ session.active = k
        /\ Elapsed(k) \/ ~BasisHolds(k)
        /\ Settle(k, Expired(ops[k]))
  /\ Stop(k)
  /\ UNCHANGED <<clock, draft, events, recovery, candidates, freezes,
                 authority, review>>

SettleSuccess(k) ==
  LET text == Output(k, IF ops[k].partial = 0 THEN 1 ELSE ops[k].partial) IN
  /\ worker[k].pc = "running"
  /\ Owns(k, clock)
  /\ BasisHolds(k)
  /\ ops[k].seq + 1 <= MaxEvents
  /\ IF ops[k].kind = "preview"
       THEN UNCHANGED <<draft, recovery, review>>
       ELSE /\ Replace(text, FromOperation(k, draft.rev), ops[k].kind, k)
            /\ InvalidateReview(ops[k].review)
  /\ Settle(k, Completed(ops[k], draft.rev + 1, text))
  /\ Log(k, "completed")
  /\ Stop(k)
  /\ UNCHANGED <<clock, candidates, freezes, authority>>

SettleFailure(k) ==
  /\ worker[k].pc = "failing"
  /\ Owns(k, clock)
  /\ BasisHolds(k)
  /\ ops[k].seq + 1 <= MaxEvents
  /\ Settle(k, Failed(ops[k]))
  /\ Log(k, "failed")
  /\ Stop(k)
  /\ UNCHANGED <<clock, draft, recovery, candidates, freezes, authority, review>>

\* The task ends without settling: registry.cancel after a cancel, a storage
\* error, a lease that runs out between the two clock reads of a settlement,
\* or a launch the registry refuses.  The row stays as it is.
WorkerLost(k) ==
  /\ worker[k].pc # "none"
  /\ Stop(k)
  /\ UNCHANGED <<clock, session, draft, ops, events, recovery, candidates,
                 freezes, authority, review>>

\* The process stops: aclose cancels every task, a crash just loses them.
Shutdown ==
  /\ \E k \in Keys : worker[k].pc # "none"
  /\ worker' = [k \in Keys |-> Idle]
  /\ UNCHANGED <<clock, session, draft, ops, events, recovery, candidates,
                 freezes, authority, review>>

-----------------------------------------------------------------------------
(* The author.  None of these waits for a running operation; only loading, *)
(* undoing and applying refuse while one is active.                        *)

SaveWorkingDraft(text) ==
  /\ draft.rev < MaxRevision
  /\ session.status = "drafting"
  /\ draft.text # text
  /\ draft' = [draft EXCEPT !.rev = @ + 1, !.text = text]
  /\ UNCHANGED <<clock, session, ops, events, recovery, candidates, freezes,
                 authority, review, worker>>

\* A repeated freeze returns the candidate of the first; an equal candidate of
\* an equal basis is not stored twice.
SaveCandidate(f) ==
  /\ freezes[f].rev = 0
  /\ session.status = "drafting"
  /\ draft.text # Empty
  /\ candidates' = candidates \cup {[text |-> draft.text, basis |-> authority]}
  /\ freezes' = [freezes EXCEPT ![f] = [rev |-> draft.rev, text |-> draft.text]]
  /\ UNCHANGED <<clock, session, draft, ops, events, recovery, authority,
                 review, worker>>

LoadCandidate(c) ==
  /\ draft.rev < MaxRevision
  /\ IdleSession
  /\ Replace(c.text, FromCandidate(draft.rev), "candidate_load", NoKey)
  /\ UNCHANGED <<clock, session, ops, events, candidates, freezes, authority,
                 review, worker>>

\* read_working_draft_recovery_for_operation takes whichever "before" row of
\* the operation comes first, and _valid_undo_before then inspects it.
UndoLocal(k) ==
  /\ draft.rev < MaxRevision
  /\ IdleSession
  /\ ops[k].status = "completed" /\ ops[k].kind # "generate"
  /\ ops[k].resultRev = draft.rev /\ ops[k].resultText = draft.text
  /\ draft.source = FromOperation(k, ops[k].baseRev)
  /\ Recordable(draft.rev, "before")
  /\ \E b \in recovery :
       /\ b.op = k /\ b.role = "before"
       /\ b.rev = ops[k].baseRev /\ b.reason = ops[k].kind
       /\ draft' = [rev |-> draft.rev + 1, text |-> b.text,
                    source |-> FromUndo(k, draft.rev)]
  /\ recovery' = recovery \cup {Before("undo_local", k)}
  /\ UNCHANGED <<clock, session, ops, events, candidates, freezes, authority,
                 review, worker>>

\* Applying twice in a row is a no-op: the draft then carries the payload.
ApplyLocalPreview(k) ==
  /\ draft.rev < MaxRevision
  /\ IdleSession
  /\ ops[k].status = "completed" /\ ops[k].kind = "preview"
  /\ OnBase(k)
  /\ authority = ops[k].auth
  /\ Replace(ops[k].resultText, FromOperation(k, draft.rev), ops[k].kind, k)
  /\ UNCHANGED <<clock, session, ops, events, candidates, freezes, authority,
                 review, worker>>

-----------------------------------------------------------------------------
(* The rest of the system, as far as this component sees it.               *)

Tick ==
  /\ clock < MaxClock
  /\ clock' = clock + 1
  /\ UNCHANGED <<session, draft, ops, events, recovery, candidates, freezes,
                 authority, review, worker>>

\* An outline, a Canon revision, a model binding or a provider changes.  A
\* review may stop applying with it.
AuthorityChange(a) ==
  /\ a # authority
  /\ authority' = a
  /\ review' \in {review, [review EXCEPT !.open = FALSE]}
  /\ UNCHANGED <<clock, session, draft, ops, events, recovery, candidates,
                 freezes, worker>>

\* prepare publishes a review of a frozen candidate that is still the draft;
\* correct, decide and dispute replace it by the next revision.
PublishReview(c) ==
  /\ review.id < MaxReviews
  /\ IdleSession
  /\ c.text = draft.text
  /\ c.basis = authority
  /\ review' = [id |-> review.id + 1, open |-> TRUE, text |-> c.text]
  /\ UNCHANGED <<clock, session, draft, ops, events, recovery, candidates,
                 freezes, authority, worker>>

\* Cancelling an unconfirmed review does not ask for an idle session.
CloseReview ==
  /\ review.open
  /\ review' = [review EXCEPT !.open = FALSE]
  /\ UNCHANGED <<clock, session, draft, ops, events, recovery, candidates,
                 freezes, authority, worker>>

\* The commit of a reviewed candidate ends the session (finalize_session).
Finalize ==
  /\ IdleSession
  /\ review.open /\ review.text = draft.text
  /\ session' = [session EXCEPT !.status = "final"]
  /\ review' = [review EXCEPT !.open = FALSE]
  /\ UNCHANGED <<clock, draft, ops, events, recovery, candidates, freezes,
                 authority, worker>>

-----------------------------------------------------------------------------
OperationStep(k) ==
  \/ Read(k) \/ Replay(k) \/ Cancel(k)
  \/ \E kind \in Kinds : \E r \in {0, review.id} : Reserve(k, kind, r)
  \/ Launch(k)

WorkerStep(k) ==
  \/ Sample(k) \/ AppendDelta(k) \/ AppendHeartbeat(k) \/ AppendRefused(k)
  \/ ProviderFails(k) \/ SettleMoot(k) \/ SettleSuccess(k) \/ SettleFailure(k)
  \/ WorkerLost(k)

AuthorStep ==
  \/ \E i \in 1..AuthorTexts : SaveWorkingDraft(Authored(i))
  \/ SaveWorkingDraft(Empty)
  \/ \E f \in FreezeKeys : SaveCandidate(f)
  \/ \E c \in candidates : LoadCandidate(c)
  \/ \E k \in Keys : UndoLocal(k) \/ ApplyLocalPreview(k)

EnvironmentStep ==
  \/ Tick
  \/ Shutdown
  \/ \E a \in Authorities \cup {Unready} : AuthorityChange(a)
  \/ \E c \in candidates : PublishReview(c)
  \/ CloseReview
  \/ Finalize

Next ==
  \/ \E k \in Keys : OperationStep(k) \/ WorkerStep(k)
  \/ AuthorStep
  \/ EnvironmentStep

Spec == Init /\ [][Next]_vars

-----------------------------------------------------------------------------
(* Safety.                                                                 *)

\* The session's active operation and the running rows agree, so at most one
\* operation of a session is running (active_slot, active_draft_operation_id),
\* and it is the last one reserved: every older fence is dead.
ActiveSlot ==
  \A k \in Keys :
    /\ Running(k) <=> session.active = k
    /\ Running(k) => ops[k].fence = session.fence

\* No two operations of a session ever hold the same fencing token.
FencesDiffer ==
  \A j, k \in Keys :
    ops[j].status # "unreserved" /\ ops[k].status # "unreserved" /\ j # k
      => ops[j].fence # ops[k].fence

\* The session has one owner and every worker can tell whether it is the one:
\* the slot names the running row, and a fence seen once is not seen again.
SlotOwned == ActiveSlot /\ FencesDiffer

\* The recovery rows the next machine write needs are never taken, so keeping
\* the replaced text cannot be what makes that write fail
\* (insert_working_draft_revision returning false).
RecoverySlotsFree ==
  \A r \in recovery :
    IF r.role = "before" THEN r.rev < draft.rev ELSE r.rev <= draft.rev

\* A session is closed only when no worker can still write to its draft.
FinalizedIdle ==
  session.status = "final" => session.active = NoKey

\* An operation reaches the draft at most once, however often its result is
\* settled, cancelled or applied; and while its result is still undoable there
\* is exactly one "before" row for undo_local to find.
AppliedAtMostOnce ==
  /\ \A r, s \in recovery :
       r.role = "after" /\ s.role = "after" /\ r.op = s.op /\ r.op # NoKey
         => r = s
  /\ \A k \in Keys :
       draft.source.by = "operation" /\ draft.source.op = k
         => Cardinality({b \in recovery : b.op = k /\ b.role = "before"}) = 1

\* The draft's payload tells the truth: the operation it names has ended with a
\* result, and until somebody saves over it the draft is that result.
ProvenanceHonest ==
  \A k \in Keys :
    draft.source.by = "operation" /\ draft.source.op = k =>
      /\ ops[k].status \in {"completed", "cancelled"}
      /\ ops[k].resultRev <= draft.rev
      /\ ops[k].resultRev = draft.rev => ops[k].resultText = draft.text

\* An operation's result is in the draft once, and where the draft says it is.
ResultOnce == AppliedAtMostOnce /\ ProvenanceHonest

\* project_stored_result accepts every row any transaction leaves behind; a
\* row it refuses makes every later read of the operation a storage error.
StoredRowReadable ==
  \A k \in Keys :
    LET o == ops[k] IN
    /\ o.status # "unreserved" =>
         /\ o.fence > 0 /\ o.baseRev > 0 /\ o.seq \in 1..MaxEvents
         /\ o.lease = o.beat + Lease
    /\ o.status = "running" =>
         /\ o.seq < MaxEvents /\ o.beat = o.updated /\ o.updated < o.lease
         /\ o.seq = 1 => o.partial = 0
    /\ o.status \in FinalEvents =>
         o.seq >= 2 /\ o.beat <= o.updated /\ o.updated < o.lease
    /\ o.status = "expired" => o.seq < MaxEvents /\ o.beat <= o.updated
    /\ o.status = "completed" => o.resultRev = o.baseRev + 1 /\ o.partial > 0
    /\ o.status = "cancelled" =>
         IF o.kind = "generate" /\ o.partial > 0
           THEN o.resultRev = o.baseRev + 1
           ELSE o.resultRev = 0
    /\ o.status \in {"running", "failed", "expired"} => o.resultRev = 0

\* The event log a client replays is gapless, ends with the event of the
\* operation's outcome and with nothing else, and an expired operation is
\* exactly one whose log has no such end.
EventLogWhole ==
  \A k \in Keys :
    /\ Len(events[k]) = ops[k].seq
    /\ \A i \in 1..Len(events[k]) :
         /\ events[k][i] = "started" <=> i = 1
         /\ events[k][i] \in FinalEvents =>
              i = Len(events[k]) /\ events[k][i] = ops[k].status
    /\ ops[k].status \in FinalEvents =>
         events[k][Len(events[k])] = ops[k].status

\* Whatever workers, cancels and takeovers wrote in which order, what is stored
\* of an operation can be read back and replayed to a client in full.
LogSound == StoredRowReadable /\ EventLogWhole

\* A review is adjusted at most once, and a review that was adjusted is no
\* longer open: nobody confirms findings about a text that is gone.
ReviewAdjustedOnce ==
  \A k \in Keys :
    ops[k].review # 0 /\ ops[k].resultRev # 0 =>
      /\ ~(review.open /\ review.id = ops[k].review)
      /\ \A j \in Keys \ {k} :
           ops[j].review = ops[k].review => ops[j].resultRev = 0

-----------------------------------------------------------------------------
(* What a step may never do.                                               *)

\* Only the active operation's row ever changes: a row that has ended, or that
\* a later reservation fenced off, is never written again by its worker.
OnlyActiveRowMoves ==
  [][\A k \in Keys :
       ops[k].status # "unreserved" /\ ops'[k] # ops[k]
         => session.active = k /\ ops[k].fence = session.fence]_vars

\* A machine result lands on exactly the revision and text its request was
\* about: no save that happened in between is lost.
LandsOnItsBase ==
  [][\A k \in Keys :
       draft'.source # draft.source /\ draft'.source = FromOperation(k, draft.rev)
         => draft.rev = ops[k].baseRev /\ draft.text = ops[k].baseText]_vars

\* Undoing a local operation gives back the text the operation replaced.
UndoGivesBack ==
  [][\A k \in Keys :
       draft'.source # draft.source /\ draft'.source = FromUndo(k, draft.rev)
         => draft'.text = ops[k].baseText]_vars

\* Whoever rewrites the draft, unless it is the author saving, leaves a
\* recovery row with the text that goes, and no recovery row is ever lost.
ReplacedTextKept ==
  [][/\ recovery \subseteq recovery'
     /\ draft'.source # draft.source
        => \E r \in recovery' : /\ r.rev = draft.rev /\ r.role = "before"
                                /\ r.text = draft.text]_vars

\* What a machine write replaces can be brought back, and undoing does.
Recoverable == UndoGivesBack /\ ReplacedTextKept

\* The revisions of the draft that can be brought back.
Kept == {[rev |-> r.rev, text |-> r.text] :
           r \in {b \in recovery : b.role = "before"}}

\* The session implements the author's view of the draft.
AuthorView == INSTANCE RecoverableDraft WITH
  Texts <- Text,
  OwnTexts <- {Empty} \cup {Authored(i) : i \in 1..AuthorTexts},
  rev <- draft.rev,
  text <- draft.text,
  kept <- Kept,
  closed <- session.status = "final"

ImplementsAuthorView == AuthorView!Spec

-----------------------------------------------------------------------------
(* Liveness.  Clients poll operations they know of (read), time passes, and *)
(* a task the event loop holds is run.                                      *)

Fairness ==
  /\ WF_vars(Tick)
  /\ \A k \in Keys : WF_vars(Read(k)) /\ WF_vars(Launch(k)) /\ WF_vars(WorkerStep(k))

FairSpec == Spec /\ Fairness

\* No operation blocks the session for ever, whatever becomes of its worker,
\* even when a cancel is refused because the author has saved since.
SlotReleased == \A k \in Keys : session.active = k ~> session.active # k

\* A worker whose operation has ended does not stay behind.
OrphanStops ==
  \A k \in Keys : worker[k].pc # "none" /\ ~Running(k) ~> worker[k].pc = "none"
=============================================================================
