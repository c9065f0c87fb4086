------------------------- MODULE BibleWorkspaceProofs -------------------------
(***************************************************************************)
(* Proofs about BibleWorkspace for any keys, Bibles and bounds.  What one  *)
(* request remembers (the page, a broken confirmation, a reply) is tied to *)
(* the row it came from by the inductive invariant; the action properties  *)
(* follow from it step by step.                                            *)
(***************************************************************************)
EXTENDS BibleWorkspace, TLAPS

\* A confirmed Bible leaves the slot of the draft empty.
HeadEndsDraft == head # None => draft = None

\* Until it is confirmed, a draft that was ever shown stays in the slot and
\* its version only grows; the version names the text.
PageOfDraft ==
  page # None /\ head = None =>
    /\ draft # None /\ ~draft.stale
    /\ page.version <= draft.version
    /\ page.version = draft.version => page = draft

\* The head was made by a key whose request says so.
HeadHasRequest == head # None => requests[head.by] = "succeeded"

\* A failure is told only of a request whose row says failed.
FailureIsRecorded ==
  \A c \in ConfirmKeys : replies[c] = "failed" => requests[c] = "failed"

IInv ==
  /\ TypeOK
  /\ HeadEndsDraft /\ PageOfDraft /\ HeadHasRequest /\ FailureIsRecorded

-----------------------------------------------------------------------------
(* Rows.                                                                   *)

\* An attempt that changes its status only stays an attempt.
LEMMA StatusTyped ==
  ASSUME TypeOK, NEW k \in Keys, attempts[k] # None,
         NEW st \in {"running", "succeeded", "failed", "outcome_unknown"},
         attempts' = [attempts EXCEPT ![k].status = st]
  PROVE  /\ attempts' \in [Keys -> Attempts \cup {None}]
         /\ attempts'[k].status = st
         /\ \A j \in Keys : j # k => attempts'[j] = attempts[j]
BY DEF TypeOK, Attempts

\* The drafts a command may leave in the slot.
LEMMA FirstVersionTyped ==
  ASSUME TypeOK, NewId <= MaxDrafts, NEW c \in Contents
  PROVE  FirstVersion(c) \in Drafts
<1>1. NewId \in 1 .. MaxDrafts
  BY ConstantsAssumption DEF TypeOK, NewId, Drafts
<1>2. 1 \in 1 .. MaxVersion + 1
  BY ConstantsAssumption
<1> QED
  BY <1>1, <1>2 DEF FirstVersion, Drafts

LEMMA NextVersionTyped ==
  ASSUME TypeOK, draft # None, draft.version <= MaxVersion, NEW c \in Contents
  PROVE  /\ NextVersion(c) \in Drafts
         /\ NextVersion(c).version = draft.version + 1
         /\ NextVersion(c).stale = draft.stale
<1>1. draft \in Drafts /\ MaxVersion \in Nat
  BY ConstantsAssumption DEF TypeOK
<1>2. draft.version \in Nat /\ draft.version + 1 \in 1 .. MaxVersion + 1
  BY <1>1 DEF Drafts
<1>3. [draft EXCEPT !.version = draft.version + 1] \in Drafts
  BY <1>1, <1>2 DEF Drafts
<1>4. NextVersion(c) \in Drafts
  BY <1>3 DEF NextVersion, Drafts
<1>5. NextVersion(c).version = draft.version + 1
  BY <1>1 DEF NextVersion, Drafts
<1>6. NextVersion(c).stale = draft.stale
  BY <1>1, Zenon DEF NextVersion, Drafts
<1> QED
  BY <1>4, <1>5, <1>6

\* A page is never stale, and a draft is not an absent one.
LEMMA DraftShape == None \notin Drafts
BY DEF None, Drafts

-----------------------------------------------------------------------------
(* What a landing does to the slot.                                        *)

\* An attempt that lands was asked for the draft it finds, in a project
\* that is open, and leaves the first or the next version.
LEMMA Landing ==
  ASSUME TypeOK, NEW k \in Keys, NEW c \in Contents, Publish(k, c)
  PROVE  /\ Running(k) /\ ~archived
         /\ \/ draft' = draft
            \/ /\ head = None /\ attempts[k].fact = draft
               /\ attempts' = [attempts EXCEPT ![k].status = "succeeded"]
               /\ \/ /\ draft = None \/ Stale
                     /\ NewId <= MaxDrafts /\ draft' = FirstVersion(c)
                  \/ /\ draft # None /\ ~Stale
                     /\ draft.version <= MaxVersion /\ draft' = NextVersion(c)
<1>1. Running(k) /\ ~archived
  BY DEF Publish, Open
<1>2. CASE MatchesManifest(k) /\ attempts[k].operation # "proposal"
  <2>1. /\ attempts' = [attempts EXCEPT ![k].status = "succeeded"]
        /\ draft = None \/ Stale => NewId <= MaxDrafts
        /\ draft # None => draft.version <= MaxVersion
        /\ draft' = Landed(c)
    BY <1>2 DEF Publish
  <2>2. head = None /\ attempts[k].fact = draft
    BY <1>2 DEF MatchesManifest, ManifestOf, Manifest
  <2>3. CASE draft = None \/ Stale
    BY <1>1, <2>1, <2>2, <2>3, Zenon DEF Landed
  <2>4. CASE ~(draft = None \/ Stale)
    BY <1>1, <2>1, <2>2, <2>4, Zenon DEF Landed
  <2> QED
    BY <2>3, <2>4
<1>3. CASE ~(MatchesManifest(k) /\ attempts[k].operation # "proposal")
  BY <1>1, <1>3, Zenon DEF Publish
<1> QED
  BY <1>2, <1>3, Zenon

-----------------------------------------------------------------------------
(* Types.                                                                  *)

LEMMA InitTyped == Init => TypeOK
<1> SUFFICES ASSUME Init PROVE TypeOK
  OBVIOUS
<1>1. 1 \in 1 .. MaxDrafts /\ 1 \in 1 .. MaxVersion + 1 /\ 1 \in 1 .. MaxProfile
  BY ConstantsAssumption
<1>2. draft \in Drafts \cup {None}
  BY <1>1 DEF Init, Drafts
<1> QED
  BY <1>1, <1>2 DEF Init, TypeOK

LEMMA DraftTyped == TypeOK /\ Next => draft' \in Drafts \cup {None}
<1> SUFFICES ASSUME TypeOK, Next PROVE draft' \in Drafts \cup {None}
  OBVIOUS
<1>1. draft \in Drafts \cup {None}
  BY DEF TypeOK
<1>2. ASSUME NEW c \in Contents, SaveFirst(c) \/ SaveDraft(c)
      PROVE  draft' \in Drafts
  BY <1>2, FirstVersionTyped, NextVersionTyped DEF SaveFirst, SaveDraft
<1>3. ASSUME CloneDraft PROVE draft' \in Drafts
  <2>1. draft.content \in Contents
    BY <1>1, <1>3 DEF CloneDraft, Stale, Drafts
  <2> QED
    BY <1>3, <2>1, FirstVersionTyped DEF CloneDraft
<1>4. ASSUME NEW k \in Keys, NEW c \in Contents, Publish(k, c)
      PROVE  draft' \in Drafts \cup {None}
  BY <1>1, <1>4, Landing, FirstVersionTyped, NextVersionTyped
<1>5. ASSUME NEW c \in ConfirmKeys, Confirm(c) \/ ConfirmBreaks(c)
      PROVE  draft' \in Drafts \cup {None}
  BY <1>1, <1>5 DEF Confirm, ConfirmBreaks, Confirmed
<1> QED
  BY <1>1, <1>2, <1>3, <1>4, <1>5 DEF Next, bible, ReadDraft, Reserve, Expire,
     Answer, PublishRefused, PublishBreaks, Terminalize, LeaseRunsOut, Replay,
     Settle, Archive, ContractDrifts, EditProfile, Crash

LEMMA AttemptsTyped ==
  TypeOK /\ Next => attempts' \in [Keys -> Attempts \cup {None}]
<1> SUFFICES ASSUME TypeOK, Next
             PROVE  attempts' \in [Keys -> Attempts \cup {None}]
  OBVIOUS
<1>1. attempts \in [Keys -> Attempts \cup {None}]
  BY DEF TypeOK
<1>2. ASSUME NEW k \in Keys, NEW op \in {"draft_generation", "proposal"},
             Reserve(k, op)
      PROVE  attempts' \in [Keys -> Attempts \cup {None}]
  BY <1>1, <1>2 DEF Reserve, TypeOK, Attempts
<1>3. ASSUME NEW k \in Keys, Expire(k)
      PROVE  attempts' \in [Keys -> Attempts \cup {None}]
  BY <1>3, StatusTyped DEF Expire, Running
<1>4. ASSUME NEW k \in Keys, NEW c \in Contents, Publish(k, c)
      PROVE  attempts' \in [Keys -> Attempts \cup {None}]
  BY <1>4, StatusTyped DEF Publish, Open, Running
<1>5. ASSUME NEW k \in Keys, Terminalize(k)
      PROVE  attempts' \in [Keys -> Attempts \cup {None}]
  BY <1>1, <1>5, StatusTyped DEF Terminalize, Ended, Running, Failing
<1>6. ASSUME NEW k \in Keys, LeaseRunsOut(k)
      PROVE  attempts' \in [Keys -> Attempts \cup {None}]
  BY <1>1, <1>6 DEF LeaseRunsOut, Running, Attempts
<1> QED
  BY <1>1, <1>2, <1>3, <1>4, <1>5, <1>6 DEF Next, ReadDraft, CloneDraft,
     SaveFirst, SaveDraft, Answer, PublishRefused, PublishBreaks, Confirm,
     ConfirmBreaks, Replay, Settle, Archive, ContractDrifts, EditProfile, Crash

LEMMA WorkersTyped ==
  TypeOK /\ Next => workers' \in [Keys -> {"idle", "calling", "answered"} \cup Failing]
BY DEF TypeOK, Next, Failing, ReadDraft, CloneDraft, SaveFirst, SaveDraft,
   Reserve, Expire, Answer, Publish, PublishRefused, PublishBreaks, Terminalize,
   LeaseRunsOut, Confirm, ConfirmBreaks, Replay, Settle, Archive,
   ContractDrifts, EditProfile, Crash

\* What a confirmation writes.
LEMMA ConfirmationTyped ==
  ASSUME TypeOK, NEW c \in ConfirmKeys,
         Confirm(c) \/ ConfirmBreaks(c) \/ Replay(c) \/ Settle(c)
  PROVE  /\ head' \in Heads \cup {None}
         /\ requests' \in [ConfirmKeys -> {"none", "succeeded", "failed"}]
         /\ calls' \in [ConfirmKeys -> Drafts \cup {None}]
         /\ replies' \in [ConfirmKeys -> {"none", "confirmed", "failed"}]
<1>1. ASSUME Confirmed(c), Confirmable
      PROVE  /\ head' \in Heads
             /\ requests' \in [ConfirmKeys -> {"none", "succeeded", "failed"}]
  BY <1>1 DEF Confirmed, Confirmable, TypeOK, Heads
<1>2. CASE Confirm(c)
  BY <1>1, <1>2 DEF Confirm, TypeOK
<1>3. CASE ConfirmBreaks(c)
  BY <1>1, <1>3 DEF ConfirmBreaks, TypeOK
<1>4. CASE Replay(c)
  BY <1>4 DEF Replay, Told, TypeOK, bible
<1>5. CASE Settle(c)
  BY <1>5 DEF Settle, Told, TypeOK, bible
<1> QED
  BY <1>2, <1>3, <1>4, <1>5

LEMMA StepTyped == TypeOK /\ [Next]_vars => TypeOK'
<1>1. ASSUME TypeOK, Next PROVE TypeOK'
  <2>1. /\ archived' \in BOOLEAN /\ ready' \in BOOLEAN
        /\ profile' \in 1 .. MaxProfile
    <3>1. CASE Archive
      BY <1>1, <3>1 DEF Archive, TypeOK
    <3>2. CASE ContractDrifts
      BY <1>1, <3>2 DEF ContractDrifts, TypeOK
    <3>3. CASE EditProfile
      BY <1>1, <3>3, ConstantsAssumption DEF EditProfile, TypeOK
    <3>4. ASSUME UNCHANGED <<archived, ready, profile>>
          PROVE  /\ archived' \in BOOLEAN /\ ready' \in BOOLEAN
                 /\ profile' \in 1 .. MaxProfile
      BY <1>1, <3>4 DEF TypeOK
    <3> QED
      BY <1>1, <3>1, <3>2, <3>3, <3>4 DEF Next, ReadDraft, CloneDraft, SaveFirst,
         SaveDraft, Reserve, Expire, Answer, Publish, PublishRefused,
         PublishBreaks, Terminalize, LeaseRunsOut, Confirm, ConfirmBreaks,
         Replay, Settle, Crash
  <2>2. page' \in Drafts \cup {None}
    <3>1. CASE ReadDraft
      BY <1>1, <3>1 DEF TypeOK, ReadDraft
    <3>2. CASE CloneDraft
      BY <1>1, <3>2, DraftTyped DEF CloneDraft
    <3>3. ASSUME NEW c \in Contents, SaveDraft(c) PROVE page' \in Drafts \cup {None}
      BY <1>1, <3>3, NextVersionTyped DEF SaveDraft
    <3> QED
      BY <1>1, <3>1, <3>2, <3>3 DEF TypeOK, Next, SaveFirst, Reserve, Expire,
         Answer, Publish, PublishRefused, PublishBreaks, Terminalize,
         LeaseRunsOut, Confirm, ConfirmBreaks, Replay, Settle, Archive,
         ContractDrifts, EditProfile, Crash
  <2>3. /\ head' \in Heads \cup {None}
        /\ requests' \in [ConfirmKeys -> {"none", "succeeded", "failed"}]
        /\ calls' \in [ConfirmKeys -> Drafts \cup {None}]
        /\ replies' \in [ConfirmKeys -> {"none", "confirmed", "failed"}]
    BY <1>1, ConfirmationTyped DEF TypeOK, Next, bible, ReadDraft, CloneDraft,
       SaveFirst, SaveDraft, Reserve, Expire, Answer, Publish, PublishRefused,
       PublishBreaks, Terminalize, LeaseRunsOut, Archive, ContractDrifts,
       EditProfile, Crash
  <2> QED
    BY <1>1, <2>1, <2>2, <2>3, DraftTyped, AttemptsTyped, WorkersTyped DEF TypeOK
<1>2. ASSUME TypeOK, UNCHANGED vars PROVE TypeOK'
  BY <1>2 DEF TypeOK, vars, Running
<1> QED
  BY <1>1, <1>2

\* Every row, reply and page stays well typed.
THEOREM TypeCorrect == Spec => []TypeOK
BY InitTyped, StepTyped, PTL DEF Spec

-----------------------------------------------------------------------------
(* The draft, the page and the head.                                       *)

SlotInv == HeadEndsDraft /\ PageOfDraft

\* A new draft in the slot of an unconfirmed Bible keeps the page behind it,
\* if the page was behind the old one.
LEMMA LaterVersion ==
  ASSUME TypeOK, SlotInv, draft # None, ~Stale, head = None,
         NEW c \in Contents, draft.version <= MaxVersion,
         draft' = NextVersion(c), head' = head, page' = page
  PROVE  SlotInv'
<1>1. draft' \in Drafts /\ draft'.version = draft.version + 1
  BY NextVersionTyped
<1>2. draft'.stale = draft.stale
  BY NextVersionTyped, Zenon
<1>3. draft' # None /\ ~draft'.stale
  BY <1>1, <1>2, DraftShape DEF Stale
<1>4. page # None => page.version \in Nat /\ draft.version \in Nat
  BY DEF TypeOK, Drafts
<1>5. page # None => page.version < draft'.version
  BY <1>1, <1>4 DEF SlotInv, PageOfDraft
<1>6. page # None => page.version <= draft'.version /\ page.version # draft'.version
  BY <1>1, <1>4, <1>5
<1> QED
  BY <1>3, <1>6, Zenon DEF SlotInv, HeadEndsDraft, PageOfDraft

\* While the slot is empty or stale, no page shows a draft.
LEMMA NothingShown ==
  ASSUME SlotInv, head = None, draft = None \/ Stale
  PROVE  page = None
BY Zenon DEF SlotInv, PageOfDraft, Stale

\* A page that shows the draft as it is says nothing wrong.
LEMMA ShownAsIs ==
  ASSUME head' = None \/ draft' = None, head' = None,
         draft' \in Drafts, draft'.stale = FALSE, page' = draft'
  PROVE  SlotInv'
<1>1. draft'.version \in Nat /\ draft' # None
  BY DraftShape DEF Drafts
<1>2. page'.version <= draft'.version
  BY <1>1
<1> QED
  BY <1>1, <1>2, Zenon DEF SlotInv, HeadEndsDraft, PageOfDraft

LEMMA StepKeepsSlot ==
  ASSUME TypeOK, SlotInv, Next PROVE SlotInv'
<1>1. CASE UNCHANGED <<draft, head, page>>
  BY <1>1 DEF SlotInv, HeadEndsDraft, PageOfDraft
<1>2. CASE ReadDraft
  <2>1. draft' \in Drafts /\ head' = None /\ draft'.stale = FALSE /\ page' = draft'
    BY <1>2 DEF ReadDraft, bible, TypeOK, Stale, SlotInv, HeadEndsDraft, Drafts
  <2> QED
    BY <2>1, ShownAsIs
<1>3. CASE CloneDraft
  <2>1. draft.content \in Contents
    BY <1>3 DEF CloneDraft, Stale, Drafts, TypeOK
  <2>2. draft' \in Drafts /\ head' = None /\ draft'.stale = FALSE /\ page' = draft'
    BY <1>3, <2>1, FirstVersionTyped DEF CloneDraft, Editable, FirstVersion
  <2> QED
    BY <2>2, ShownAsIs
<1>4. ASSUME NEW c \in Contents, SaveFirst(c) PROVE SlotInv'
  <2>1. head' = None /\ page' = None
    BY <1>4, NothingShown DEF SaveFirst, Editable
  <2> QED
    BY <2>1 DEF SlotInv, HeadEndsDraft, PageOfDraft
<1>5. ASSUME NEW c \in Contents, SaveDraft(c) PROVE SlotInv'
  <2>1. draft' \in Drafts
    BY <1>5, NextVersionTyped DEF SaveDraft
  <2>2. draft'.stale = FALSE
    BY <1>5, NextVersionTyped, Zenon DEF SaveDraft, Stale, TypeOK, Drafts
  <2>3. head' = None /\ page' = draft'
    BY <1>5 DEF SaveDraft, Editable
  <2> QED
    BY <2>1, <2>2, <2>3, ShownAsIs
<1>6. ASSUME NEW k \in Keys, NEW c \in Contents, Publish(k, c) PROVE SlotInv'
  <2>1. UNCHANGED <<head, page>>
    BY <1>6 DEF Publish
  <2>2. CASE draft' = draft
    BY <1>1, <2>1, <2>2
  <2>3. CASE head = None /\ (draft = None \/ Stale) /\ draft' = FirstVersion(c)
    <3>1. page' = None /\ head' = None
      BY <2>1, <2>3, NothingShown
    <3> QED
      BY <3>1 DEF SlotInv, HeadEndsDraft, PageOfDraft
  <2>4. CASE /\ head = None /\ draft # None /\ ~Stale
             /\ draft.version <= MaxVersion /\ draft' = NextVersion(c)
    BY <2>1, <2>4, LaterVersion
  <2> QED
    BY <1>6, <2>2, <2>3, <2>4, Landing
<1>7. ASSUME NEW c \in ConfirmKeys, Confirm(c) \/ ConfirmBreaks(c) PROVE SlotInv'
  <2>1. CASE Confirmed(c)
    <3>1. head' # None /\ draft' = None
      BY <2>1 DEF Confirmed, None
    <3> QED
      BY <3>1 DEF SlotInv, HeadEndsDraft, PageOfDraft
  <2> QED
    BY <1>1, <1>7, <2>1 DEF Confirm, ConfirmBreaks
<1> QED
  BY <1>1, <1>2, <1>3, <1>4, <1>5, <1>6, <1>7 DEF Next, bible, Reserve, Expire,
     Answer, PublishRefused, PublishBreaks, Terminalize, LeaseRunsOut, Replay,
     Settle, Archive, ContractDrifts, EditProfile, Crash

-----------------------------------------------------------------------------
(* Requests and what the author was told.                                  *)

RequestInv == HeadHasRequest /\ FailureIsRecorded

LEMMA StepKeepsRequests ==
  ASSUME TypeOK, RequestInv, Next PROVE RequestInv'
<1>1. CASE UNCHANGED <<head, requests, replies>>
  BY <1>1 DEF RequestInv, HeadHasRequest, FailureIsRecorded
<1>2. ASSUME NEW c \in ConfirmKeys, requests[c] = "none", Confirmed(c),
             \/ replies' = replies
             \/ replies' = [replies EXCEPT ![c] = "confirmed"]
      PROVE  RequestInv'
  <2>1. head'.by = c /\ requests'[c] = "succeeded"
    BY <1>2 DEF Confirmed, TypeOK
  <2>2. replies'[c] # "failed"
    BY <1>2 DEF TypeOK, RequestInv, FailureIsRecorded
  <2>3. \A d \in ConfirmKeys :
          d # c => requests'[d] = requests[d] /\ replies'[d] = replies[d]
    BY <1>2 DEF Confirmed, TypeOK
  <2> QED
    BY <2>1, <2>2, <2>3 DEF RequestInv, HeadHasRequest, FailureIsRecorded
<1>3. ASSUME NEW c \in ConfirmKeys, requests[c] # "none", Told(c),
             UNCHANGED <<head, requests>>
      PROVE  RequestInv'
  BY <1>3 DEF Told, TypeOK, RequestInv, HeadHasRequest, FailureIsRecorded
<1>4. ASSUME NEW c \in ConfirmKeys, requests[c] = "none", head = None,
             requests' = [requests EXCEPT ![c] = "failed"],
             replies' = [replies EXCEPT ![c] = "failed"], head' = head
      PROVE  RequestInv'
  BY <1>4 DEF TypeOK, RequestInv, HeadHasRequest, FailureIsRecorded
<1>5. ASSUME NEW c \in ConfirmKeys, Confirm(c) PROVE RequestInv'
  BY <1>2, <1>5 DEF Confirm
<1>6. ASSUME NEW c \in ConfirmKeys, ConfirmBreaks(c) PROVE RequestInv'
  BY <1>1, <1>2, <1>6 DEF ConfirmBreaks
<1>7. ASSUME NEW c \in ConfirmKeys, Replay(c) PROVE RequestInv'
  BY <1>3, <1>7 DEF Replay, bible
<1>8. ASSUME NEW c \in ConfirmKeys, Settle(c) PROVE RequestInv'
  BY <1>1, <1>3, <1>4, <1>8 DEF Settle, Editable, bible
<1> QED
  BY <1>1, <1>5, <1>6, <1>7, <1>8 DEF Next, bible, ReadDraft, CloneDraft,
     SaveFirst, SaveDraft, Reserve, Expire, Answer, Publish, PublishRefused,
     PublishBreaks, Terminalize, LeaseRunsOut, Archive, ContractDrifts,
     EditProfile, Crash

-----------------------------------------------------------------------------
(* The invariant.                                                          *)

LEMMA InitInv == Init => IInv
BY InitTyped DEF Init, IInv, HeadEndsDraft, PageOfDraft, HeadHasRequest,
   FailureIsRecorded

LEMMA StepInv == IInv /\ [Next]_vars => IInv'
<1>1. IInv <=> TypeOK /\ SlotInv /\ RequestInv
  BY DEF IInv, SlotInv, RequestInv
<1>2. IInv' <=> TypeOK' /\ SlotInv' /\ RequestInv'
  BY DEF IInv, SlotInv, RequestInv
<1>3. ASSUME SlotInv, RequestInv, UNCHANGED vars PROVE SlotInv' /\ RequestInv'
  BY <1>3 DEF SlotInv, RequestInv, HeadEndsDraft, PageOfDraft, HeadHasRequest,
     FailureIsRecorded, vars
<1> QED
  BY <1>1, <1>2, <1>3, StepTyped, StepKeepsSlot, StepKeepsRequests

\* What a page, a reply and a head still know of the rows they came from is
\* inductive, for any keys, crashes and broken transactions.
THEOREM Inductive == Spec => []IInv
BY InitInv, StepInv, PTL DEF Spec

\* Whoever was told that a confirmation failed will not find the Bible
\* confirmed by it, for any number of keys, breaks and retries
\* (_settle_confirmation_failure).
THEOREM FailureIsFinal == Spec => []FailedMeansUnconfirmed
<1>1. IInv => FailedMeansUnconfirmed
  BY DEF IInv, TypeOK, HeadHasRequest, FailureIsRecorded, FailedMeansUnconfirmed
<1> QED
  BY <1>1, Inductive, PTL

-----------------------------------------------------------------------------
(* What a step may never do.                                               *)

\* Only its own publication makes a running attempt a success.
LEMMA SuccessIsPublished ==
  ASSUME TypeOK, [Next]_vars, NEW k \in Keys, Running(k),
         attempts'[k].status = "succeeded"
  PROVE  \E c \in Contents : Publish(k, c)
<1>1. attempts[k] # None /\ attempts[k].status = "running"
  BY DEF Running
<1>2. attempts' # attempts
  BY <1>1
<1>3. ASSUME NEW j \in Keys, NEW c \in Contents, Publish(j, c)
      PROVE  j = k
  BY <1>1, <1>3, StatusTyped DEF Publish, Open, Running
<1>4. ASSUME NEW j \in Keys, Terminalize(j) PROVE FALSE
  BY <1>1, <1>4, StatusTyped DEF Terminalize, Ended, Running, Failing
<1>5. ASSUME NEW j \in Keys, Expire(j) PROVE FALSE
  BY <1>1, <1>5, StatusTyped DEF Expire, Running
<1>6. ASSUME NEW j \in Keys, LeaseRunsOut(j) PROVE FALSE
  BY <1>1, <1>6 DEF LeaseRunsOut, Running, TypeOK, Attempts
<1>7. ASSUME NEW j \in Keys, NEW op \in {"draft_generation", "proposal"},
             Reserve(j, op)
      PROVE  FALSE
  BY <1>1, <1>7 DEF Reserve, TypeOK
<1> QED
  BY <1>2, <1>3, <1>4, <1>5, <1>6, <1>7 DEF Next, vars, ReadDraft, CloneDraft,
     SaveFirst, SaveDraft, Answer, PublishRefused, PublishBreaks, Confirm,
     ConfirmBreaks, Replay, Settle, Archive, ContractDrifts, EditProfile, Crash

\* A landing moves the draft only where it was asked for just that draft, so
\* it never buries a save made meanwhile (_publish).
THEOREM NoSaveIsBuried == Spec => NoSaveBuried
<1>1. ASSUME TypeOK, [Next]_vars, NEW k \in Keys, Running(k),
             attempts'[k].status = "succeeded", draft' # draft
      PROVE  attempts[k].fact = draft
  BY <1>1, SuccessIsPublished, Landing
<1>2. TypeOK /\ [Next]_vars
        => [\A k \in Keys :
              Running(k) /\ attempts'[k].status = "succeeded" /\ draft' # draft
                => attempts[k].fact = draft]_vars
  BY <1>1
<1> QED
  BY <1>2, TypeCorrect, PTL DEF Spec, NoSaveBuried

\* An archived project's Bible stands still (lock_active_project).
THEOREM ArchivedBibleStill == Spec => ArchivedStill
<1>1. ASSUME [Next]_vars, archived PROVE UNCHANGED bible
  BY <1>1 DEF Next, vars, bible, Editable, ReadDraft, CloneDraft, SaveFirst,
     SaveDraft, Reserve, Expire, Answer, Publish, Open, PublishRefused,
     PublishBreaks, Terminalize, LeaseRunsOut, Confirm, ConfirmBreaks,
     Confirmable, Replay, Settle, Archive, ContractDrifts, EditProfile, Crash
<1> QED
  BY <1>1, PTL DEF Spec, ArchivedStill

\* An attempt that has ended keeps its outcome: by a late answer, a lease
\* that ran out, a worker that comes to terminalize it (_terminalize).
THEOREM OutcomeIsFinal == Spec => EndedForever
<1>1. ASSUME TypeOK, [Next]_vars, NEW k \in Keys, attempts[k] # None, ~Running(k)
      PROVE  attempts'[k] = attempts[k]
  <2>1. ASSUME NEW j \in Keys, Running(j),
               \/ \E st \in {"succeeded", "failed", "outcome_unknown"} :
                    attempts' = [attempts EXCEPT ![j].status = st]
               \/ attempts' = [attempts EXCEPT ![j].late = TRUE]
        PROVE  attempts'[k] = attempts[k]
    BY <1>1, <2>1 DEF TypeOK
  <2>2. ASSUME NEW j \in Keys, NEW c \in Contents, Publish(j, c)
        PROVE  attempts'[k] = attempts[k]
    BY <2>1, <2>2 DEF Publish, Open
  <2>3. ASSUME NEW j \in Keys, Terminalize(j) PROVE attempts'[k] = attempts[k]
    BY <2>1, <2>3 DEF Terminalize, Ended, Failing
  <2>4. ASSUME NEW j \in Keys, Expire(j) \/ LeaseRunsOut(j)
        PROVE  attempts'[k] = attempts[k]
    BY <2>1, <2>4 DEF Expire, LeaseRunsOut
  <2>5. ASSUME NEW j \in Keys, NEW op \in {"draft_generation", "proposal"},
               Reserve(j, op)
        PROVE  attempts'[k] = attempts[k]
    BY <1>1, <2>5 DEF Reserve, TypeOK
  <2> QED
    BY <1>1, <2>2, <2>3, <2>4, <2>5 DEF Next, vars, ReadDraft, CloneDraft,
       SaveFirst, SaveDraft, Answer, PublishRefused, PublishBreaks, Confirm,
       ConfirmBreaks, Replay, Settle, Archive, ContractDrifts, EditProfile, Crash
<1>2. TypeOK /\ [Next]_vars
        => [\A k \in Keys : attempts[k] # None /\ ~Running(k)
              => attempts'[k].status = attempts[k].status]_vars
  BY <1>1
<1> QED
  BY <1>2, TypeCorrect, PTL DEF Spec, EndedForever

\* What a generation brings back too late moves nothing.
THEOREM LateMovesNothing == Spec => NothingLate
BY ArchivedBibleStill, OutcomeIsFinal DEF NothingLate

\* The head changes only by a confirmation.
LEMMA HeadIsConfirmed ==
  ASSUME [Next]_vars, head' # head
  PROVE  Confirmable /\ \E c \in ConfirmKeys : Confirmed(c)
BY DEF Next, vars, bible, ReadDraft, CloneDraft, SaveFirst, SaveDraft, Reserve,
   Expire, Answer, Publish, PublishRefused, PublishBreaks, Terminalize,
   LeaseRunsOut, Confirm, ConfirmBreaks, Replay, Settle, Archive,
   ContractDrifts, EditProfile, Crash

\* The Bible that is confirmed is the one the page showed, text and all,
\* though the request names its version only (_confirm_once).
THEOREM ShownIsConfirmed == Spec => ConfirmedAsShown
<1>1. ASSUME IInv, [Next]_vars, head' # head PROVE head'.draft = page
  <2>1. Confirmable /\ head'.draft = draft
    BY <1>1, HeadIsConfirmed DEF Confirmed
  <2>2. page = draft
    BY <1>1, <2>1, Zenon DEF Confirmable, Editable, IInv, PageOfDraft
  <2> QED
    BY <2>1, <2>2
<1> QED
  BY <1>1, Inductive, PTL DEF Spec, ConfirmedAsShown

\* Once confirmed, the Bible has no draft again and no other head, whatever
\* was still in flight (BibleAlreadyConfirmed).
THEOREM ConfirmationIsFinal == Spec => ConfirmedForGood
<1>1. ASSUME IInv, [Next]_vars, head # None PROVE head' = head /\ draft' = None
  <2>1. draft = None
    BY <1>1 DEF IInv, HeadEndsDraft
  <2>2. head' = head
    BY <1>1, HeadIsConfirmed DEF Confirmable, Editable
  <2>3. draft' = draft
    BY <1>1, <2>1 DEF Next, vars, bible, Editable, Stale, ReadDraft,
       CloneDraft, SaveFirst, SaveDraft, Reserve, Expire, Answer, Publish,
       MatchesManifest, PublishRefused, PublishBreaks, Terminalize,
       LeaseRunsOut, Confirm, ConfirmBreaks, Confirmable, Replay, Settle,
       Archive, ContractDrifts, EditProfile, Crash
  <2> QED
    BY <2>1, <2>2, <2>3
<1> QED
  BY <1>1, Inductive, PTL DEF Spec, ConfirmedForGood

\* What is confirmed was shown, and stays.
THEOREM ConfirmationHolds == Spec => ConfirmedOnce
BY ShownIsConfirmed, ConfirmationIsFinal DEF ConfirmedOnce
=============================================================================
