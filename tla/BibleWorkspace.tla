---------------------------- MODULE BibleWorkspace ----------------------------
(***************************************************************************)
(* The creation Bible of one project: the author's draft, the attempts of  *)
(* a text provider to write it, and the confirmation that happens once.    *)
(*                                                                         *)
(* Several attempts may run at a time: there is no slot to hold.  What     *)
(* keeps them apart is the manifest each one was requested with, compared  *)
(* again when its answer comes.  A confirmation that breaks after it       *)
(* reserved its key is settled by a second transaction, which cannot know  *)
(* whether the first one was committed.                                    *)
(*                                                                         *)
(* The contract is confirmed once as well (contracts/history.py), so the   *)
(* basis of a draft does not move; what moves is whether the contract is   *)
(* still ready, with its assets and its model binding.  A draft left by a  *)
(* release in which contracts could be replaced is "stale".                *)
(* A definition marked "Fault:" is a mistake the one after it avoids.      *)
(***************************************************************************)
EXTENDS Naturals, FiniteSets

CONSTANTS
  Keys,         \* idempotency keys of generation requests
  ConfirmKeys,  \* idempotency keys of confirmations
  Contents,     \* Bibles an author or a provider may write
  MaxDrafts, MaxVersion, MaxProfile  \* bounds, in the guards they limit

ASSUME ConstantsAssumption ==
  {MaxDrafts, MaxVersion, MaxProfile} \subseteq Nat \ {0}

VARIABLES
  archived,  \* whether projects.archived_at is set
  ready,     \* contract_ready, as the contract service computes it
  profile,   \* the revision of the planning provider's profile
  draft,     \* the row of project_bible_drafts in the active slot, or None
  head,      \* the confirmed revision, or None
  attempts,  \* the bible_generation_attempts rows, by idempotency key
  workers,   \* the generate() and propose() calls, by idempotency key
  requests,  \* the bible_confirmation_requests rows
  calls,     \* the confirm() calls whose transaction broke
  replies,   \* what the author was last told about a confirmation key
  page       \* the draft the author's page shows, or None

vars == <<archived, ready, profile, draft, head, attempts, workers, requests,
          calls, replies, page>>
bible == <<draft, head>>

-----------------------------------------------------------------------------
(* The rows.                                                               *)

None == [none |-> TRUE]
Drafts == [id : 1 .. MaxDrafts, version : 1 .. MaxVersion + 1,
           content : Contents, stale : BOOLEAN]
Heads == [draft : Drafts, by : ConfirmKeys]
\* operation of the manifest, and the facts its hash covers.
Attempts ==
  [status : {"running", "succeeded", "failed", "outcome_unknown"},
   operation : {"draft_generation", "proposal"}, late : BOOLEAN,
   fact : Drafts \cup {None}, profile : 1 .. MaxProfile]
Failing == {"failed", "outcome_unknown"}

TypeOK ==
  /\ archived \in BOOLEAN /\ ready \in BOOLEAN
  /\ profile \in 1 .. MaxProfile
  /\ draft \in Drafts \cup {None}
  /\ head \in Heads \cup {None}
  /\ attempts \in [Keys -> Attempts \cup {None}]
  /\ workers \in [Keys -> {"idle", "calling", "answered"} \cup Failing]
  /\ requests \in [ConfirmKeys -> {"none", "succeeded", "failed"}]
  /\ calls \in [ConfirmKeys -> Drafts \cup {None}]
  /\ replies \in [ConfirmKeys -> {"none", "confirmed", "failed"}]
  /\ page \in Drafts \cup {None}

Running(k) == attempts[k] # None /\ attempts[k].status = "running"
\* _draft_basis_current
Stale == draft # None /\ draft.stale
\* Ids are drawn fresh: a stale draft, which a release left, is draft 1.
NewId == IF draft = None THEN 2 ELSE draft.id + 1
\* lock_active_project, and the head and basis every command asks for.
Editable == ~archived /\ head = None /\ ready

Init ==
  /\ archived = FALSE /\ ready = TRUE /\ profile = 1
  /\ draft \in {None} \cup
       [id : {1}, version : {1}, content : Contents, stale : {TRUE}]
  /\ head = None
  /\ attempts = [k \in Keys |-> None]
  /\ workers = [k \in Keys |-> "idle"]
  /\ requests = [c \in ConfirmKeys |-> "none"]
  /\ calls = [c \in ConfirmKeys |-> None]
  /\ replies = [c \in ConfirmKeys |-> "none"]
  /\ page = None

-----------------------------------------------------------------------------
(* The author's draft.                                                     *)

FirstVersion(c) == [id |-> NewId, version |-> 1, content |-> c, stale |-> FALSE]
NextVersion(c) == [draft EXCEPT !.version = @ + 1, !.content = c]

\* get_draft: a stale draft cannot be edited or confirmed from the page.
ReadDraft ==
  /\ draft # None /\ ~Stale /\ page' = draft
  /\ UNCHANGED <<archived, ready, profile, bible, attempts, workers, requests,
                 calls, replies>>

\* save_draft with expectedDraftVersion 0: the slot is empty or stale.
SaveFirst(c) ==
  /\ Editable /\ (draft = None \/ Stale) /\ NewId <= MaxDrafts
  /\ draft' = FirstVersion(c)
  /\ UNCHANGED <<archived, ready, profile, head, attempts, workers, requests,
                 calls, replies, page>>

\* save_draft over the version the page shows, and its answer.
SaveDraft(c) ==
  /\ Editable /\ page # None /\ draft # None /\ ~Stale
  /\ draft.version = page.version /\ draft.version <= MaxVersion
  /\ draft' = NextVersion(c) /\ page' = NextVersion(c)
  /\ UNCHANGED <<archived, ready, profile, head, attempts, workers, requests,
                 calls, replies>>

\* clone_draft: the stale draft is retired, its text goes on the new basis.
CloneDraft ==
  /\ Editable /\ Stale /\ NewId <= MaxDrafts
  /\ draft' = FirstVersion(draft.content) /\ page' = draft'
  /\ UNCHANGED <<archived, ready, profile, head, attempts, workers, requests,
                 calls, replies>>

-----------------------------------------------------------------------------
(* Generation.                                                             *)

\* _load_inputs: contract, draft, head and provider, as the manifest has
\* them.
Manifest == [fact |-> draft, profile |-> profile]
ManifestOf(k) == [fact |-> attempts[k].fact, profile |-> attempts[k].profile]

\* _reserve.  A proposal for one section needs a draft, one for the whole
\* Bible does not; the attempt is the same.
Reserve(k, op) ==
  /\ attempts[k] = None /\ Editable
  /\ attempts' = [attempts EXCEPT ![k] =
       [status |-> "running", operation |-> op, late |-> FALSE,
        fact |-> draft, profile |-> profile]]
  /\ workers' = [workers EXCEPT ![k] = "calling"]
  /\ UNCHANGED <<archived, ready, profile, bible, requests, calls, replies, page>>

\* _reserve again, with the key of an attempt whose lease ran out.
Expire(k) ==
  /\ Running(k) /\ attempts[k].late /\ ~archived /\ head = None
  /\ attempts' = [attempts EXCEPT ![k].status = "outcome_unknown"]
  /\ UNCHANGED <<archived, ready, profile, bible, workers, requests, calls,
                 replies, page>>

\* _provider_outcome: a Bible, a refusal, a timeout, or a cancelled request.
Answer(k, outcome) ==
  /\ workers[k] = "calling"
  /\ workers' = [workers EXCEPT ![k] = outcome]
  /\ UNCHANGED <<archived, ready, profile, bible, attempts, requests, calls,
                 replies, page>>

\* _publish and _complete_proposal compare the manifest.  Fault: the draft
\* is looked at only for its existence; the head is not part of it, and a
\* draft that was confirmed leaves the slot as empty as it was.
MatchesAnyDraft(k) ==
  /\ ready /\ head = None /\ (draft = None) = (attempts[k].fact = None)
  /\ attempts[k].profile = profile
MatchesWithoutHead(k) == ready /\ ManifestOf(k) = Manifest
MatchesManifest(k) == ready /\ head = None /\ ManifestOf(k) = Manifest

Open(k) == Running(k) /\ ~archived

\* Where the output goes.  Fault: the draft and its update both count.
LandedTwice(c) ==
  IF draft = None \/ Stale THEN FirstVersion(c)
  ELSE [NextVersion(c) EXCEPT !.version = @ + 1]
Landed(c) ==
  IF draft = None \/ Stale THEN FirstVersion(c) ELSE NextVersion(c)

\* _publish, _complete_proposal.  An attempt that has ended, or an archived
\* project, raises and is left to _terminalize.
Publish(k, c) ==
  /\ workers[k] = "answered" /\ Open(k)
  /\ workers' = [workers EXCEPT ![k] = "idle"]
  /\ IF MatchesManifest(k)
     THEN /\ attempts' = [attempts EXCEPT ![k].status = "succeeded"]
          /\ IF attempts[k].operation = "proposal" THEN UNCHANGED draft
             ELSE /\ draft = None \/ Stale => NewId <= MaxDrafts
                  /\ draft # None => draft.version <= MaxVersion
                  /\ draft' = Landed(c)
     ELSE /\ attempts' = [attempts EXCEPT ![k].status = "failed"]
          /\ UNCHANGED draft
  /\ UNCHANGED <<archived, ready, profile, head, requests, calls, replies, page>>

PublishRefused(k) ==
  /\ workers[k] = "answered" /\ ~Open(k)
  /\ workers' = [workers EXCEPT ![k] = "failed"]
  /\ UNCHANGED <<archived, ready, profile, bible, attempts, requests, calls,
                 replies, page>>

\* The transaction of _publish breaks, before or after its commit; the
\* latter is Publish with a reply nobody reads.
PublishBreaks(k) ==
  /\ workers[k] = "answered"
  /\ workers' = [workers EXCEPT ![k] = "outcome_unknown"]
  /\ UNCHANGED <<archived, ready, profile, bible, attempts, requests, calls,
                 replies, page>>

\* _terminalize: the owner ends the attempt unless it has ended.  Fault: it
\* does not look.
EndedAnyway(k) ==
  attempts' = [attempts EXCEPT ![k].status = workers[k]]
Ended(k) ==
  attempts' = IF Running(k) THEN [attempts EXCEPT ![k].status = workers[k]]
              ELSE attempts
Terminalize(k) ==
  /\ workers[k] \in Failing /\ Ended(k)
  /\ workers' = [workers EXCEPT ![k] = "idle"]
  /\ UNCHANGED <<archived, ready, profile, bible, requests, calls, replies, page>>

-----------------------------------------------------------------------------
(* Confirmation.                                                           *)

\* What confirm() compares.  Fault: the version is not one of them.
ConfirmableAny == Editable /\ page # None /\ draft # None /\ ~Stale
Confirmable ==
  /\ Editable /\ page # None /\ draft # None /\ ~Stale
  /\ draft.version = page.version

\* The rows of a committed confirmation.
Confirmed(c) ==
  /\ head' = [draft |-> draft, by |-> c]
  /\ draft' = None
  /\ requests' = [requests EXCEPT ![c] = "succeeded"]

\* _confirm_once
Confirm(c) ==
  /\ requests[c] = "none" /\ Confirmable /\ Confirmed(c)
  /\ replies' = [replies EXCEPT ![c] = "confirmed"]
  /\ UNCHANGED <<archived, ready, profile, attempts, workers, calls, page>>

\* It breaks after the reservation; whether it was committed is not known.
ConfirmBreaks(c) ==
  /\ requests[c] = "none" /\ calls[c] = None /\ Confirmable
  /\ calls' = [calls EXCEPT ![c] = draft]
  /\ \/ Confirmed(c)
     \/ UNCHANGED <<head, draft, requests>>
  /\ UNCHANGED <<archived, ready, profile, attempts, workers, replies, page>>

\* _replay_confirmation
Told(c) ==
  replies' = [replies EXCEPT ![c] =
    IF requests[c] = "succeeded" THEN "confirmed" ELSE "failed"]
Replay(c) ==
  /\ requests[c] # "none" /\ ~archived /\ Told(c)
  /\ UNCHANGED <<archived, ready, profile, bible, attempts, workers, requests,
                 calls, page>>

\* _settle_confirmation_failure.  Fault: the row of the key is not read, and
\* none is left.
SettleWithoutRow(c) ==
  /\ calls[c] # None /\ ~archived
  /\ replies' = [replies EXCEPT ![c] = "failed"]
  /\ calls' = [calls EXCEPT ![c] = None]
  /\ UNCHANGED <<archived, ready, profile, bible, attempts, workers, requests,
                 page>>
Settle(c) ==
  /\ calls[c] # None
  /\ calls' = [calls EXCEPT ![c] = None]
  /\ \/ /\ ~archived /\ requests[c] # "none" /\ Told(c)
        /\ UNCHANGED requests
     \/ /\ requests[c] = "none" /\ Editable /\ draft = calls[c]
        /\ requests' = [requests EXCEPT ![c] = "failed"]
        /\ replies' = [replies EXCEPT ![c] = "failed"]
     \/ \* BibleConfirmationRetryable, the project archived included
        /\ archived \/ (requests[c] = "none" /\ ~(Editable /\ draft = calls[c]))
        /\ UNCHANGED <<requests, replies>>
  /\ UNCHANGED <<archived, ready, profile, bible, attempts, workers, page>>

-----------------------------------------------------------------------------
(* The rest of the system.                                                 *)

\* has_unfinished_operation does not count Bible attempts.
Archive ==
  /\ archived' = ~archived
  /\ UNCHANGED <<ready, profile, bible, attempts, workers, requests, calls,
                 replies, page>>
\* An asset of the contract is edited, disabled or enabled, or the project's
\* models are bound anew.
ContractDrifts ==
  /\ ready' = ~ready
  /\ UNCHANGED <<archived, profile, bible, attempts, workers, requests, calls,
                 replies, page>>
EditProfile ==
  /\ profile < MaxProfile /\ profile' = profile + 1
  /\ UNCHANGED <<archived, ready, bible, attempts, workers, requests, calls,
                 replies, page>>
LeaseRunsOut(k) ==
  /\ Running(k) /\ ~attempts[k].late
  /\ attempts' = [attempts EXCEPT ![k].late = TRUE]
  /\ UNCHANGED <<archived, ready, profile, bible, workers, requests, calls,
                 replies, page>>
\* The process stops: calls are lost, rows stay.
Crash ==
  /\ workers' = [k \in Keys |-> "idle"]
  /\ calls' = [c \in ConfirmKeys |-> None]
  /\ UNCHANGED <<archived, ready, profile, bible, attempts, requests, replies,
                 page>>

Next ==
  \/ ReadDraft \/ CloneDraft
  \/ \E c \in Contents : SaveFirst(c) \/ SaveDraft(c)
  \/ \E k \in Keys :
       \/ \E op \in {"draft_generation", "proposal"} : Reserve(k, op)
       \/ Expire(k)
       \/ \E o \in {"answered"} \cup Failing : Answer(k, o)
       \/ \E c \in Contents : Publish(k, c)
       \/ PublishRefused(k) \/ PublishBreaks(k) \/ Terminalize(k)
       \/ LeaseRunsOut(k)
  \/ \E c \in ConfirmKeys :
       Confirm(c) \/ ConfirmBreaks(c) \/ Replay(c) \/ Settle(c)
  \/ Archive \/ ContractDrifts \/ EditProfile \/ Crash

Spec == Init /\ [][Next]_vars

-----------------------------------------------------------------------------
(* Properties.                                                             *)

\* Whoever was told that a confirmation failed will not find the Bible
\* confirmed by it: neither by the transaction that broke, whose commit may
\* have gone through, nor by sending the key again
\* (_settle_confirmation_failure).
FailedMeansUnconfirmed ==
  \A c \in ConfirmKeys :
    replies[c] = "failed" => head = None \/ head.by # c

\* A draft the author works on is changed by another hand only where the
\* attempt was asked for just that draft: a landing never buries a save made
\* meanwhile (_publish).
NoSaveBuried ==
  [][\A k \in Keys :
       Running(k) /\ attempts'[k].status = "succeeded" /\ draft' # draft
         => attempts[k].fact = draft]_vars

\* The Bible that is confirmed is the one the page showed (_confirm_once).
ConfirmedAsShown == [][head' # head => head'.draft = page]_vars

\* Once confirmed, the Bible has no draft again and no other head, whatever
\* was still in flight (BibleAlreadyConfirmed).
ConfirmedForGood ==
  [][head # None => head' = head /\ draft' = None]_vars

\* What is confirmed was shown, and stays.
ConfirmedOnce == ConfirmedAsShown /\ ConfirmedForGood

\* An archived project's Bible stands still, though a generation may be
\* running when it is archived (lock_active_project).
ArchivedStill == [][archived => UNCHANGED bible]_vars

\* The outcome of an attempt does not change (_terminalize).
EndedForever ==
  [][\A k \in Keys : attempts[k] # None /\ ~Running(k)
       => attempts'[k].status = attempts[k].status]_vars

\* What a generation brings back too late moves nothing.
NothingLate == ArchivedStill /\ EndedForever
=============================================================================
