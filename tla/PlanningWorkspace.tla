-------------------------- MODULE PlanningWorkspace --------------------------
(***************************************************************************)
(* The Planning of one project: its confirmed head, the author's draft of  *)
(* the next revision, and the generation attempts that fill that draft     *)
(* from a text provider.                                                   *)
(*                                                                         *)
(* Every transaction of the two services takes the project, basis, head    *)
(* and draft rows in one order, so each is one action.  What interleaves   *)
(* is what happens between a reservation and its publication: the provider *)
(* call lasts minutes, during which the author saves, confirms or stops,   *)
(* a chapter is finalized, the project is archived, the lease runs out and *)
(* another request takes the slot over, or the process dies.               *)
(*                                                                         *)
(* A content stands for a plan with its hash.  The basis (seed, contract,  *)
(* style and bible heads) is a revision that only grows, and so are the    *)
(* model binding and the writing progress (Canon, outline, final chapter). *)
(* A definition marked "Fault:" is a mistake the one after it avoids.      *)
(***************************************************************************)
EXTENDS Naturals, Sequences, FiniteSets

CONSTANTS
  Keys,         \* idempotency keys of generation requests
  ConfirmKeys,  \* idempotency keys of confirmations
  Pages,        \* browser pages that show the draft
  Contents,     \* plans an author or a provider may write
  Empty,        \* the plan of a project that has none
  Complete,     \* the plans validate_confirmable_planning accepts
  Block,        \* the active story block of a plan
  Lease,        \* PLANNING_GENERATION_LEASE_MS
  \* Bounds of the state space, each in the guard of the actions it limits.
  MaxClock, MaxDrafts, MaxDraftRevision, MaxHead, MaxBasis, MaxBinding,
  MaxWriting

ASSUME ConstantsAssumption ==
  /\ IsFiniteSet(Keys) /\ "none" \notin Keys
  /\ Empty \in Contents
  /\ Complete \subseteq Contents \ {Empty}
  /\ DOMAIN Block = Contents
  /\ Lease \in Nat \ {0}
  /\ {MaxClock, MaxDrafts, MaxDraftRevision, MaxHead, MaxBasis, MaxBinding,
      MaxWriting} \subseteq Nat

VARIABLES
  clock,     \* the server clock
  archived,  \* whether projects.archived_at is set
  basis,     \* the revision of read_current_basis
  binding,   \* the revision of the planning model and its provider
  writing,   \* the projection, and whether a chapter session is drafting
  head,      \* the project_planning_heads row with its revision
  drafts,    \* the planning_drafts rows, in the order they were inserted
  attempts,  \* the planning_generation_attempts rows, by idempotency key
  workers,   \* the generate() calls in flight, by idempotency key
  confirmed, \* the planning_confirmation_requests rows
  pages      \* the version of a draft each page shows

vars == <<clock, archived, basis, binding, writing, head, drafts, attempts,
          workers, confirmed, pages>>
rows == <<archived, basis, binding, writing, head, drafts, confirmed, pages>>

-----------------------------------------------------------------------------
(* The rows.                                                               *)

None == [status |-> "none"]
Modes == {"volumes_plots", "initial", "next"}
DraftIds == 1 .. MaxDrafts

Heads == [revision : 0 .. MaxHead, content : Contents, basis : 0 .. MaxBasis]
Writings == [revision : 0 .. MaxWriting, drafting : BOOLEAN]

\* What expansion_authority_hash covers: projection, current authorities,
\* active session.
ExpansionAuthority ==
  [writing |-> writing, head |-> head.revision, basis |-> basis]
Authorities ==
  [writing : Writings, head : 0 .. MaxHead, basis : 0 .. MaxBasis]

\* source is the key of the attempt last loaded, or "none".
Drafts ==
  [status : {"active", "confirmed", "superseded"}, base : 0 .. MaxHead,
   revision : 1 .. MaxDraftRevision + 1, basis : 0 .. MaxBasis,
   content : Contents, source : Keys \cup {"none"}]

\* A version of a draft as a page shows it, and the command a page sends.
Versions ==
  [draft : DraftIds, revision : 1 .. MaxDraftRevision + 1, content : Contents]
Commands ==
  [draft : DraftIds, revision : 1 .. MaxDraftRevision + 1, content : Contents,
   mode : Modes]
Attempts ==
  [status : {"pending", "succeeded", "failed", "superseded"},
   command : Commands, fence : 1 .. Cardinality(Keys),
   lease : 0 .. MaxClock + Lease, basis : 0 .. MaxBasis, head : 0 .. MaxHead,
   binding : 0 .. MaxBinding, authority : Authorities,
   loaded : 0 .. MaxDraftRevision + 1]

TypeOK ==
  /\ clock \in 0 .. MaxClock
  /\ archived \in BOOLEAN
  /\ basis \in 0 .. MaxBasis
  /\ binding \in 0 .. MaxBinding
  /\ writing \in Writings
  /\ head \in Heads
  /\ drafts \in Seq(Drafts) /\ Len(drafts) <= MaxDrafts
  /\ attempts \in [Keys -> Attempts \cup {None}]
  /\ workers \in [Keys -> {"idle", "calling", "answered", "broken", "gone"}]
  /\ confirmed \in [ConfirmKeys -> {None} \cup
       [status : {"succeeded"}, draft : DraftIds,
        revision : 1 .. MaxDraftRevision + 1, content : Contents,
        result : 1 .. MaxHead]]
  /\ pages \in [Pages -> Versions \cup {None}]

-----------------------------------------------------------------------------
(* Reading the rows.                                                       *)

Drafted == DOMAIN drafts
Active(d) == d \in Drafted /\ drafts[d].status = "active"
ActiveDrafts == {d \in Drafted : Active(d)}
Attempted == {k \in Keys : attempts[k] # None}
Pending(k) == attempts[k].status = "pending"
PendingOn(d) == {k \in Attempted : Pending(k) /\ attempts[k].command.draft = d}

Elapsed(k) == attempts[k].lease <= clock

\* _draft_is_current, _draft_authority_matches
Current(d) == drafts[d].basis = basis /\ drafts[d].base = head.revision
HeadMatchesBasis == head.revision = 0 \/ head.basis = basis
\* _require_draft_cas, _draft_is_exact
Exact(c) ==
  /\ c.draft \in Drafted
  /\ drafts[c.draft].revision = c.revision
  /\ drafts[c.draft].content = c.content

Fences(d) == {attempts[k].fence : k \in {j \in Attempted :
                                            attempts[j].command.draft = d}}
\* next_fencing_token.  Fault: only a pending attempt counts.
NextFenceOfPending(d) == Cardinality(PendingOn(d)) + 1
NextFence(d) ==
  IF Fences(d) = {} THEN 1
  ELSE (CHOOSE f \in Fences(d) : \A g \in Fences(d) : g <= f) + 1

\* prepare_expansion.  The progress of the active block is in the content of
\* the authority and is left open here.
Expandable(c) ==
  /\ ~writing.drafting
  /\ c.mode = "initial" => head.revision = 0 /\ writing.revision = 0
  /\ c.mode = "next" => head.revision > 0 /\ c.content = head.content

-----------------------------------------------------------------------------
(* The author's draft: PlanningService.                                    *)

Init ==
  /\ clock = 0 /\ archived = FALSE /\ basis = 0 /\ binding = 0
  /\ writing = [revision |-> 0, drafting |-> FALSE]
  /\ head = [revision |-> 0, content |-> Empty, basis |-> 0]
  /\ drafts = <<>>
  /\ attempts = [k \in Keys |-> None]
  /\ workers = [k \in Keys |-> "idle"]
  /\ confirmed = [c \in ConfirmKeys |-> None]
  /\ pages = [p \in Pages |-> None]

\* supersede_draft
Superseded(ds, d) == [ds EXCEPT ![d].status = "superseded"]

\* A new draft starts from the head if the head is on the current basis.
CreateDraft ==
  /\ ~archived
  /\ Cardinality(Drafted) < MaxDrafts
  /\ \A d \in ActiveDrafts : ~Current(d)
  /\ LET new == [status |-> "active", base |-> head.revision, revision |-> 1,
                 basis |-> basis, source |-> "none",
                 content |-> IF head.revision > 0 /\ HeadMatchesBasis
                             THEN head.content ELSE Empty]
     IN drafts' = [d \in 1 .. Cardinality(Drafted) + 1 |->
                     IF d \notin Drafted THEN new
                     ELSE IF Active(d) THEN Superseded(drafts, d)[d]
                     ELSE drafts[d]]
  /\ UNCHANGED <<clock, archived, basis, binding, writing, head, attempts,
                 workers, confirmed, pages>>

\* get_state: a page shows the draft only while it is current.
Version(ds, d) ==
  [draft |-> d, revision |-> ds[d].revision, content |-> ds[d].content]
LoadPage(p) ==
  /\ \E d \in ActiveDrafts : Current(d) /\ pages[p] # Version(drafts, d)
                             /\ pages' = [pages EXCEPT ![p] = Version(drafts, d)]
  /\ UNCHANGED <<clock, archived, basis, binding, writing, head, drafts,
                 attempts, workers, confirmed>>

\* Fault: the row is written whatever version the page shows.
SeenAlways(v) == TRUE
Seen(v) == Exact(v)

\* A draft that has gone stale is superseded and the save refused; otherwise
\* update_draft_cas moves the row from the version the page shows.
SaveDraft(p, c) ==
  /\ ~archived
  /\ pages[p] # None
  /\ LET d == pages[p].draft IN
     /\ Active(d)
     /\ IF ~Current(d)
        THEN /\ drafts' = Superseded(drafts, d)
             /\ UNCHANGED pages
        ELSE /\ Seen(pages[p])
             /\ drafts[d].revision <= MaxDraftRevision
             /\ drafts' = [drafts EXCEPT ![d].content = c, ![d].revision = @ + 1]
             /\ pages' = [pages EXCEPT ![p] = Version(drafts', d)]
  /\ UNCHANGED <<clock, archived, basis, binding, writing, head, attempts,
                 workers, confirmed>>

\* read_draft_generation_manifest: the latest loaded expansion of the draft.
Expansions(d) ==
  {k \in Attempted : /\ attempts[k].command.draft = d
                     /\ attempts[k].status = "succeeded"
                     /\ attempts[k].command.mode # "volumes_plots"}
\* Fault: only the attempt the draft names is looked at.
ProvenanceOfSource(d) ==
  drafts[d].source \in Expansions(d) =>
    attempts[drafts[d].source].authority = ExpansionAuthority
ProvenanceHolds(d) ==
  drafts[d].source # "none" /\ Expansions(d) # {} =>
    LET latest == CHOOSE k \in Expansions(d) : \A j \in Expansions(d) :
                    attempts[j].fence <= attempts[k].fence
    IN attempts[latest].authority = ExpansionAuthority

\* Fault: the active block may be moved at any time.
ContinuationAnywhere(content) == TRUE
\* validate_manual_continuation
ContinuationHolds(content) ==
  head.revision > 0 /\ HeadMatchesBasis /\ Block[head.content] # Block[content]
    => ~writing.drafting

\* Confirm, the first time: one transaction inserts the revision, moves the
\* head, ends the draft and records the request.
ConfirmDraft(q, p) ==
  /\ ~archived
  /\ confirmed[q] = None
  /\ pages[p] # None
  /\ LET v == pages[p] d == v.draft IN
     /\ Active(d)
     /\ IF ~Current(d)
        THEN /\ drafts' = Superseded(drafts, d)
             /\ UNCHANGED <<head, confirmed>>
        ELSE /\ Seen(v)
             /\ head.revision < MaxHead
             /\ ProvenanceHolds(d)
             /\ drafts[d].content \in Complete
             /\ ContinuationHolds(drafts[d].content)
             /\ head' = [revision |-> head.revision + 1, basis |-> basis,
                         content |-> drafts[d].content]
             /\ drafts' = [drafts EXCEPT ![d].status = "confirmed"]
             /\ confirmed' = [confirmed EXCEPT ![q] =
                  [status |-> "succeeded", draft |-> d, revision |-> v.revision,
                   content |-> v.content, result |-> head.revision + 1]]
  /\ UNCHANGED <<clock, archived, basis, binding, writing, attempts, workers,
                 pages>>

-----------------------------------------------------------------------------
(* Generation: PlanningGenerationService.                                  *)

\* Fault: an elapsed attempt does not hold the slot.
SlotTakenAtOnce(d) == \A k \in PendingOn(d) : Elapsed(k)
SlotFree(d) == PendingOn(d) = {}

\* _reserve: the attempt freezes what the result may land on.
Reserve(k, p, mode) ==
  /\ ~archived
  /\ attempts[k] = None
  /\ pages[p] # None
  /\ LET v == pages[p]
         c == [draft |-> v.draft, revision |-> v.revision,
               content |-> v.content, mode |-> mode]
     IN
     /\ Active(c.draft) /\ Exact(c) /\ Current(c.draft)
     /\ SlotFree(c.draft)
     /\ mode # "volumes_plots" => Expandable(c)
     /\ attempts' = [attempts EXCEPT ![k] =
          [status |-> "pending", command |-> c, fence |-> NextFence(c.draft),
           lease |-> clock + Lease, basis |-> basis, head |-> head.revision,
           binding |-> binding, authority |-> ExpansionAuthority,
           loaded |-> 0]]
  /\ workers' = [workers EXCEPT ![k] = "calling"]
  /\ UNCHANGED <<clock, rows>>

\* _reserve found an elapsed attempt, its own or the slot's, and
\* _supersede_expired_attempt retires it in a transaction of its own.  No
\* archived check here: the lock is taken if it can be.
RetireElapsed(k) ==
  /\ attempts[k] # None
  /\ Pending(k) /\ Elapsed(k)
  /\ attempts' = [attempts EXCEPT ![k].status = "superseded"]
  /\ UNCHANGED <<clock, rows, workers>>

\* The provider answers, fails, or the client hangs up (CancelledError).
Answer(k) ==
  /\ workers[k] = "calling"
  /\ workers' = [workers EXCEPT ![k] = "answered"]
  /\ UNCHANGED <<clock, rows, attempts>>
Break(k) ==
  /\ workers[k] = "calling"
  /\ workers' = [workers EXCEPT ![k] = "broken"]
  /\ UNCHANGED <<clock, rows, attempts>>

\* Fault: the poll looks at the lease only.
NoticeElapsed(k) ==
  /\ workers[k] = "calling"
  /\ Elapsed(k)
  /\ workers' = [workers EXCEPT ![k] = "gone"]
  /\ UNCHANGED <<clock, rows, attempts>>
\* _generate_until_terminal: the poll sees that the attempt has ended.
NoticeEnded(k) ==
  /\ workers[k] = "calling"
  /\ ~Pending(k)
  /\ workers' = [workers EXCEPT ![k] = "gone"]
  /\ UNCHANGED <<clock, rows, attempts>>

\* _publish, _fail: everything the reservation froze is as it was.
StillCurrent(k) ==
  LET a == attempts[k] c == a.command IN
  /\ ~archived
  /\ a.basis = basis /\ a.head = head.revision
  /\ Exact(c)
  /\ a.binding = binding
  /\ ~Elapsed(k)
  /\ c.mode # "volumes_plots" => a.authority = ExpansionAuthority

\* load_generation_result_into_draft: one UPDATE over draft and attempt.
Loadable(k) == Active(attempts[k].command.draft) /\ Exact(attempts[k].command)
\* Fault: the loaded draft is counted as two revisions.
LoadedTwice(k, result) ==
  LET d == attempts[k].command.draft IN
  /\ drafts' = [drafts EXCEPT ![d].revision = @ + 2, ![d].content = result,
                              ![d].source = k]
  /\ attempts' = [attempts EXCEPT ![k].status = "succeeded",
                                  ![k].loaded = drafts[d].revision + 2]
Loaded(k, result) ==
  LET d == attempts[k].command.draft IN
  /\ drafts' = [drafts EXCEPT ![d].revision = @ + 1, ![d].content = result,
                              ![d].source = k]
  /\ attempts' = [attempts EXCEPT ![k].status = "succeeded",
                                  ![k].loaded = drafts[d].revision + 1]

\* Fault: a result is loaded although the attempt has ended meanwhile.
OpenAlways(k) == TRUE
Open(k) == Pending(k)

\* What the normalised result may be: never an invalid plan.
Publish(k, result) ==
  /\ workers[k] = "answered"
  /\ workers' = [workers EXCEPT ![k] = "gone"]
  /\ IF ~Open(k) THEN UNCHANGED <<attempts, drafts>>
     ELSE IF ~StillCurrent(k)
     THEN /\ attempts' = [attempts EXCEPT ![k].status = "superseded"]
          /\ UNCHANGED drafts
     ELSE IF Loadable(k)
     THEN /\ drafts[attempts[k].command.draft].revision <= MaxDraftRevision
          /\ \/ Loaded(k, result)
             \/ /\ attempts' = [attempts EXCEPT ![k].status = "failed"]
                /\ UNCHANGED drafts
     ELSE UNCHANGED <<attempts, drafts>>
  /\ UNCHANGED <<clock, archived, basis, binding, writing, head, confirmed,
                 pages>>

\* _fail: after a provider error, an invalid answer or a hang-up.
RecordFailure(k) ==
  /\ workers[k] = "broken"
  /\ workers' = [workers EXCEPT ![k] = "gone"]
  /\ attempts' = IF ~Pending(k) THEN attempts
                 ELSE [attempts EXCEPT ![k].status =
                         IF StillCurrent(k) THEN "failed" ELSE "superseded"]
  /\ UNCHANGED <<clock, rows>>

\* cancel_by_key: the author stops it, from any page or process.
CancelByKey(k) ==
  /\ ~archived
  /\ attempts[k] # None
  /\ Pending(k)
  /\ attempts' = [attempts EXCEPT ![k].status = "failed"]
  /\ UNCHANGED <<clock, rows, workers>>

\* The process dies; the row stays pending until its lease has run out.
Die(k) ==
  /\ workers[k] \in {"calling", "answered", "broken"}
  /\ workers' = [workers EXCEPT ![k] = "gone"]
  /\ UNCHANGED <<clock, rows, attempts>>

-----------------------------------------------------------------------------
(* What the rest of the program does to the rows.                          *)

others == <<clock, drafts, attempts, workers, confirmed, pages>>

\* has_unfinished_operation
Busy == \E k \in Attempted : Pending(k) /\ ~Elapsed(k)

Archive ==
  /\ ~archived /\ ~Busy
  /\ archived' = TRUE
  /\ UNCHANGED <<others, basis, binding, writing, head>>
Restore ==
  /\ archived /\ ~Busy /\ archived' = FALSE
  /\ UNCHANGED <<others, basis, binding, writing, head>>
MoveBasis ==
  /\ ~archived /\ basis < MaxBasis /\ basis' = basis + 1
  /\ UNCHANGED <<others, archived, binding, writing, head>>
Rebind ==
  /\ ~archived /\ binding < MaxBinding /\ binding' = binding + 1
  /\ UNCHANGED <<others, archived, basis, writing, head>>
OpenChapter ==
  /\ ~archived /\ ~writing.drafting /\ head.revision > 0 /\ HeadMatchesBasis
  /\ writing.revision < MaxWriting
  /\ writing' = [writing EXCEPT !.drafting = TRUE]
  /\ UNCHANGED <<others, archived, basis, binding, head>>

\* A finalized chapter moves Canon and, by the planning patches of its change
\* set, the planning head; the patches never move the active block.
FinalizeChapter ==
  /\ ~archived /\ writing.drafting
  /\ writing' = [revision |-> writing.revision + 1, drafting |-> FALSE]
  /\ \/ UNCHANGED head
     \/ /\ head.revision < MaxHead
        /\ \E c \in Complete : /\ Block[c] = Block[head.content]
                               /\ head' = [head EXCEPT !.content = c,
                                                       !.revision = @ + 1]
  /\ UNCHANGED <<others, archived, basis, binding>>

Tick ==
  /\ clock < MaxClock /\ clock' = clock + 1
  /\ UNCHANGED <<rows, attempts, workers>>

Author ==
  \/ CreateDraft
  \/ \E p \in Pages : LoadPage(p) \/ \E c \in Contents : SaveDraft(p, c)
  \/ \E q \in ConfirmKeys, p \in Pages : ConfirmDraft(q, p)
  \/ \E k \in Keys, p \in Pages, m \in Modes : Reserve(k, p, m)
  \/ \E k \in Keys : RetireElapsed(k) \/ CancelByKey(k)
Worker(k) ==
  \/ Answer(k) \/ Break(k) \/ NoticeEnded(k) \/ RecordFailure(k)
  \/ \E c \in Contents : Publish(k, c)
World ==
  \/ Archive \/ Restore \/ MoveBasis \/ Rebind \/ OpenChapter
  \/ FinalizeChapter \/ Tick
  \/ \E k \in Keys : Die(k)

Next == Author \/ World \/ \E k \in Keys : Worker(k)
Spec == Init /\ [][Next]_vars

\* Every process that holds a call polls its attempt and settles its answer;
\* nothing makes a provider answer.
Fairness ==
  \A k \in Keys : /\ WF_vars(NoticeEnded(k)) /\ WF_vars(RecordFailure(k))
                  /\ WF_vars(\E c \in Contents : Publish(k, c))
FairSpec == Spec /\ Fairness

-----------------------------------------------------------------------------
(* Properties.                                                             *)

\* One draft is active; at most one of its attempts is pending, and that one
\* bears the highest fence (uq_active_planning_generation, next_fencing_token).
SlotAndFence ==
  /\ Cardinality(ActiveDrafts) <= 1
  /\ \A d \in Drafted : Cardinality(PendingOn(d)) <= 1
  /\ \A k, j \in Attempted :
       Pending(k) /\ k # j
       /\ attempts[k].command.draft = attempts[j].command.draft
         => attempts[j].fence < attempts[k].fence

\* No project is archived under an attempt that may still publish, however
\* requests, stops, lease ends and archiving fall (_require_not_busy).
ArchivedIdle == archived => \A k \in Attempted : Pending(k) => Elapsed(k)

\* When _publish has found everything as it was reserved, the UPDATE that
\* loads the result does find its draft: the branch that leaves the attempt
\* pending and raises a conflict is never taken.
LoadNeverRefused ==
  \A k \in Keys :
    workers[k] = "answered" /\ Pending(k) /\ StillCurrent(k) => Loadable(k)

\* The slot has one owner at a time, the owner's result can land, and nothing
\* can land in an archive.
SlotSound == SlotAndFence /\ LoadNeverRefused /\ ArchivedIdle

\* A draft never moves under an author who has not seen what it replaces: a
\* save comes from a page that shows the version it replaces, and a result
\* lands on the version, basis and head it was requested for.
NothingOverwrittenUnseen ==
  [][\A d \in Drafted : drafts'[d].revision # drafts[d].revision =>
       \/ /\ drafts'[d].source = drafts[d].source
          /\ \E p \in Pages : pages[p] = Version(drafts, d)
       \/ LET a == attempts[drafts'[d].source] IN
          /\ a.status = "pending"
          /\ a.command.draft = d
          /\ a.command.revision = drafts[d].revision
          /\ a.command.content = drafts[d].content
          /\ a.basis = basis /\ a.head = head.revision]_vars

\* An attempt that has ended keeps its outcome for every later reader of the
\* operation, whatever a late worker, a stop or a takeover does.
EndedForever ==
  [][\A k \in Attempted : ~Pending(k) => attempts'[k] = attempts[k]]_vars

\* A plan becomes the head only as some page showed it, from a draft made on
\* the head it follows.
ConfirmedAsShown ==
  [][\A q \in ConfirmKeys : confirmed'[q] # confirmed[q] =>
       \E p \in Pages :
         /\ pages[p] # None
         /\ pages[p].content = head'.content
         /\ drafts[pages[p].draft].base = head.revision
         /\ head'.revision = head.revision + 1]_vars

\* Nothing is replaced or confirmed that its author has not seen.
OnlyAsShown == NothingOverwrittenUnseen /\ ConfirmedAsShown

\* A plan that a continuation extended is confirmed only under the writing
\* progress it was made for, also when a later generation replaced the rest.
ContinuationOnItsProgress ==
  [][\A q \in ConfirmKeys : confirmed'[q] # confirmed[q] =>
       LET d == confirmed'[q].draft IN
       \A k \in Expansions(d) :
         (\A j \in Expansions(d) : attempts[j].fence <= attempts[k].fence)
           => attempts[k].authority = ExpansionAuthority]_vars

\* The active block does not move while a chapter of it is being drafted, as
\* long as the plan stays on its basis.
ActiveBlockStill ==
  [][writing.drafting /\ head.basis = basis /\ head'.revision # head.revision
       => Block[head'.content] = Block[head.content]]_vars

\* A call whose attempt was stopped, taken over or settled elsewhere ends,
\* although its provider never answers.
StopReachesProvider ==
  \A k \in Keys :
    workers[k] = "calling" /\ ~Pending(k) ~> workers[k] = "gone"
=============================================================================
