------------------------ MODULE DraftOperationsProofs ------------------------
(***************************************************************************)
(* Proofs about DraftOperations for any number of operations, any lease and *)
(* any bound.  The inductive invariant is the typing of the state together  *)
(* with the agreement of the session's slot and the operations' rows, the   *)
(* order of the fences, and the place of the recovery rows.                 *)
(***************************************************************************)
EXTENDS DraftOperations, TLAPS

\* The rows that the settling helpers build from a row are rows.
LEMMA RowTypes ==
  ASSUME NEW o \in Op, clock \in Nat, NEW now \in Nat, NEW n \in Nat,
         NEW rev \in Nat, NEW text \in Text
  PROVE  /\ Expired(o) \in Op
         /\ Renewed(o, now, n) \in Op
         /\ Failed(o) \in Op
         /\ Completed(o, rev, text) \in Op
         /\ Cancelled(o, rev, text) \in Op
<1> USE DEF Op, OpStatus, Terminal
<1>1. o.seq + 1 \in Nat /\ now + Lease \in Nat /\ text.n \in Nat
  BY ConstantsAssumption DEF Text
<1>2. Expired(o) \in Op
  BY DEF Expired
<1>3. Renewed(o, now, n) \in Op
  BY <1>1 DEF Renewed
<1>4. Failed(o) \in Op
  BY <1>1 DEF Failed
<1>5. Completed(o, rev, text) \in Op
  BY <1>1 DEF Completed
<1>6. Cancelled(o, rev, text) \in Op
  BY <1>1 DEF Cancelled
<1> QED
  BY <1>2, <1>3, <1>4, <1>5, <1>6

\* The text of an operation's output is a text.
LEMMA OutputType ==
  ASSUME NEW k \in Keys, NEW n \in Nat
  PROVE  Output(k, n) \in Text
BY DEF Output, Text

\* The empty draft is a text.
LEMMA EmptyType == Empty \in Text
BY DEF Empty, Text

\* So is a key without a row in its place.
LEMMA UnreservedType == Unreserved \in Op
BY EmptyType DEF Unreserved, Op, OpStatus, AllKinds

\* The row a reservation inserts is a row.
LEMMA ReservedType ==
  ASSUME TypeOK, NEW kind \in AllKinds, NEW r \in Nat
  PROVE  Reserved(kind, r) \in Op
BY EmptyType, ConstantsAssumption DEF TypeOK, Reserved, Op, OpStatus

\* Replacing the draft keeps the draft and the recovery rows well typed.
LEMMA ReplaceTypes ==
  ASSUME TypeOK, NEW text \in Text, NEW source \in Source,
         NEW reason \in AllKinds \cup {"undo_local", "candidate_load"},
         NEW k \in Keys \cup {NoKey}, Replace(text, source, reason, k)
  PROVE  /\ draft' \in [rev : Nat, text : Text, source : Source]
         /\ recovery' \subseteq Row
BY DEF TypeOK, Replace, Before, After, Row

\* Settling an operation keeps the rows and the session well typed.
LEMMA SettleTypes ==
  ASSUME TypeOK, NEW k \in Keys, NEW o \in Op, Settle(k, o)
  PROVE  /\ ops' \in [Keys -> Op]
         /\ session' \in [status : {"drafting", "final"},
                          active : Keys \cup {NoKey}, fence : Nat]
BY DEF TypeOK, Settle, Release

\* Appending an event and stopping a worker keep their types.
LEMMA LogTypes ==
  ASSUME TypeOK, NEW k \in Keys, NEW type \in EventType, Log(k, type)
  PROVE  events' \in [Keys -> Seq(EventType)]
BY DEF TypeOK, Log

\* Changing one worker leaves all workers well typed.
LEMMA WorkerTypes ==
  ASSUME TypeOK, NEW k \in Keys, NEW pc \in WorkerState, NEW now \in Nat,
         worker' = [worker EXCEPT ![k] = [pc |-> pc, now |-> now]]
  PROVE  worker' \in [Keys -> [pc : WorkerState, now : Nat]]
BY DEF TypeOK

\* Closing an adjusted review keeps its type.
LEMMA ReviewTypes ==
  ASSUME TypeOK, NEW r, InvalidateReview(r)
  PROVE  review' \in [id : Nat, open : BOOLEAN, text : Text]
BY DEF TypeOK, InvalidateReview

\* The provenance payloads the writers store are well typed.
LEMMA SourceTypes ==
  ASSUME NEW k \in Keys, NEW base \in Nat
  PROVE  /\ FromOperation(k, base) \in Source
         /\ FromUndo(k, base) \in Source
         /\ FromCandidate(base) \in Source
BY DEF FromOperation, FromUndo, FromCandidate, Source, Writers

\* A session is created well typed.
LEMMA InitType == Init => TypeOK
<1> SUFFICES ASSUME Init PROVE TypeOK
  OBVIOUS
<1> USE DEF Init
<1>1. ops \in [Keys -> Op]
  BY UnreservedType
<1>2. draft \in [rev : Nat, text : Text, source : Source]
  BY EmptyType DEF NoSource, Source, Writers
<1>3. worker \in [Keys -> [pc : WorkerState, now : Nat]]
  BY DEF Idle, WorkerState
<1>4. events \in [Keys -> Seq(EventType)]
  OBVIOUS
<1>5. /\ freezes \in [FreezeKeys -> [rev : Nat, text : Text]]
      /\ review \in [id : Nat, open : BOOLEAN, text : Text]
  BY EmptyType
<1> QED
  BY <1>1, <1>2, <1>3, <1>4, <1>5 DEF TypeOK

\* Requests about operations keep the types.
LEMMA OperationStepType ==
  ASSUME TypeOK, NEW k \in Keys, OperationStep(k)
  PROVE  TypeOK'
<1> USE DEF TypeOK
<1>a. clock \in Nat /\ draft.rev \in Nat /\ draft.rev + 1 \in Nat /\ ops[k] \in Op
  OBVIOUS
<1>b. ops[k].partial \in Nat /\ ops[k].kind \in AllKinds
  BY <1>a DEF Op
<1>0. CASE ExpireElapsed(k)
  <2>1. Expired(ops[k]) \in Op
    BY <1>a, RowTypes, EmptyType
  <2> QED
    BY <1>0, <2>1, SettleTypes DEF ExpireElapsed
<1>1. CASE CancelEmpty(k)
  <2>1. Cancelled(ops[k], 0, Empty) \in Op
    BY <1>a, RowTypes, EmptyType
  <2>2. events' \in [Keys -> Seq(EventType)]
    BY <1>1, LogTypes DEF CancelEmpty, EventType
  <2> QED
    BY <1>1, <2>1, <2>2, SettleTypes DEF CancelEmpty
<1>2. CASE CancelPartial(k)
  <2> DEFINE text == Output(k, ops[k].partial)
  <2>1. text \in Text /\ FromOperation(k, draft.rev) \in Source
    BY <1>a, <1>b, OutputType, SourceTypes
  <2>2. Cancelled(ops[k], draft.rev + 1, text) \in Op
    BY <1>a, <2>1, RowTypes
  <2>3. events' \in [Keys -> Seq(EventType)]
    BY <1>2, LogTypes DEF CancelPartial, EventType
  <2>4. review' \in [id : Nat, open : BOOLEAN, text : Text]
    BY <1>2, ReviewTypes DEF CancelPartial
  <2>5. /\ draft' \in [rev : Nat, text : Text, source : Source]
        /\ recovery' \subseteq Row
    <3>1. Replace(text, FromOperation(k, draft.rev), ops[k].kind, k)
      BY <1>2 DEF CancelPartial
    <3> QED
      BY <3>1, <2>1, <1>b, ReplaceTypes
  <2> QED
    BY <1>2, <2>2, <2>3, <2>4, <2>5, SettleTypes DEF CancelPartial
<1>3. CASE CancelDrifted(k)
  <2>1. Expired(ops[k]) \in Op
    BY <1>a, RowTypes, EmptyType
  <2> QED
    BY <1>3, <2>1, SettleTypes DEF CancelDrifted
<1>4. ASSUME NEW kind \in Kinds, NEW r \in {0, review.id}, Reserve(k, kind, r)
      PROVE  TypeOK'
  <2>1. Reserved(kind, r) \in Op
    BY ReservedType, ConstantsAssumption
  <2>2. \A j \in Keys : Expired(ops[j]) \in Op
    BY <1>a, RowTypes, EmptyType
  <2>3. ops' \in [Keys -> Op]
    <3> DEFINE row(j) == IF j = k THEN Reserved(kind, r)
                         ELSE IF Running(j) THEN Expired(ops[j]) ELSE ops[j]
    <3>1. ops' = [j \in Keys |-> row(j)]
      BY <1>4 DEF Reserve, TakeSlot
    <3>2. \A j \in Keys : row(j) \in Op
      BY <2>1, <2>2
    <3> HIDE DEF row
    <3> QED
      BY <3>1, <3>2
  <2>4. session' \in [status : {"drafting", "final"},
                      active : Keys \cup {NoKey}, fence : Nat]
    <3>1. session' = [session EXCEPT !.active = k, !.fence = @ + 1]
      BY <1>4 DEF Reserve, TakeSlot
    <3>2. session.fence + 1 \in Nat
      OBVIOUS
    <3> QED
      BY <3>1, <3>2
  <2>5. events' \in [Keys -> Seq(EventType)]
    BY <1>4, LogTypes DEF Reserve, TakeSlot, EventType
  <2>6. worker' \in [Keys -> [pc : WorkerState, now : Nat]]
    BY <1>4, WorkerTypes DEF Reserve, TakeSlot, At, WorkerState
  <2> QED
    BY <1>4, <2>3, <2>4, <2>5, <2>6 DEF Reserve, TakeSlot
<1>5. CASE Launch(k)
  <2>1. worker' \in [Keys -> [pc : WorkerState, now : Nat]]
    BY <1>5, WorkerTypes DEF Launch, At, WorkerState
  <2> QED
    BY <1>5, <2>1 DEF Launch
<1> QED
  BY <1>0, <1>1, <1>2, <1>3, <1>4, <1>5 DEF OperationStep, Read, Replay, Cancel

\* A worker's steps keep the types.
LEMMA WorkerStepType ==
  ASSUME TypeOK, NEW k \in Keys, WorkerStep(k)
  PROVE  TypeOK'
<1> USE DEF TypeOK
<1>a. clock \in Nat /\ draft.rev \in Nat /\ draft.rev + 1 \in Nat /\ ops[k] \in Op
  OBVIOUS
<1>b. ops[k].partial \in Nat /\ ops[k].kind \in AllKinds
  BY <1>a DEF Op
<1>c. worker[k].now \in Nat /\ ops[k].partial + 1 \in Nat
  BY <1>b
<1>d. ASSUME NEW pc \in WorkerState, worker' = [worker EXCEPT ![k] = At(pc)]
      PROVE  worker' \in [Keys -> [pc : WorkerState, now : Nat]]
  BY <1>d, WorkerTypes DEF At
<1>e. ASSUME Stop(k)
      PROVE  worker' \in [Keys -> [pc : WorkerState, now : Nat]]
  BY <1>e, WorkerTypes DEF Stop, Idle, WorkerState
<1>1. CASE Sample(k)
  <2>1. worker' \in [Keys -> [pc : WorkerState, now : Nat]]
    BY <1>1, <1>a, WorkerTypes DEF Sample, WorkerState
  <2> QED
    BY <1>1, <2>1 DEF Sample
<1>2. CASE AppendDelta(k)
  <2>1. Renewed(ops[k], worker[k].now, ops[k].partial + 1) \in Op
    BY <1>a, <1>b, <1>c, RowTypes, EmptyType
  <2>2. ops' \in [Keys -> Op]
    BY <1>2, <2>1 DEF AppendDelta
  <2>3. events' \in [Keys -> Seq(EventType)]
    BY <1>2, LogTypes DEF AppendDelta, EventType
  <2>4. worker' \in [Keys -> [pc : WorkerState, now : Nat]]
    BY <1>2, <1>d DEF AppendDelta, WorkerState
  <2> QED
    BY <1>2, <2>2, <2>3, <2>4 DEF AppendDelta
<1>3. CASE AppendHeartbeat(k)
  <2>1. Renewed(ops[k], worker[k].now, ops[k].partial) \in Op
    BY <1>a, <1>b, <1>c, RowTypes, EmptyType
  <2>2. ops' \in [Keys -> Op]
    BY <1>3, <2>1 DEF AppendHeartbeat
  <2>3. events' \in [Keys -> Seq(EventType)]
    BY <1>3, LogTypes DEF AppendHeartbeat, EventType
  <2>4. worker' \in [Keys -> [pc : WorkerState, now : Nat]]
    BY <1>3, <1>d DEF AppendHeartbeat, WorkerState
  <2> QED
    BY <1>3, <2>2, <2>3, <2>4 DEF AppendHeartbeat
<1>4. CASE AppendRefused(k)
  <2>1. At("failing") \in [pc : WorkerState, now : Nat]
    BY DEF At, WorkerState
  <2>2. Idle \in [pc : WorkerState, now : Nat]
    BY DEF Idle, WorkerState
  <2>3. worker' \in [Keys -> [pc : WorkerState, now : Nat]]
    BY <1>4, <2>1, <2>2 DEF AppendRefused
  <2> QED
    BY <1>4, <2>3 DEF AppendRefused
<1>5. CASE ProviderFails(k)
  <2>1. worker' \in [Keys -> [pc : WorkerState, now : Nat]]
    BY <1>5, <1>d DEF ProviderFails, WorkerState
  <2> QED
    BY <1>5, <2>1 DEF ProviderFails
<1>6. CASE SettleMoot(k)
  <2>1. Expired(ops[k]) \in Op
    BY <1>a, RowTypes, EmptyType
  <2>2. /\ ops' \in [Keys -> Op]
        /\ session' \in [status : {"drafting", "final"},
                         active : Keys \cup {NoKey}, fence : Nat]
    BY <1>6, <2>1, SettleTypes DEF SettleMoot
  <2> QED
    BY <1>6, <2>2, <1>e DEF SettleMoot
<1>7. CASE SettleSuccess(k)
  <2> DEFINE n == IF ops[k].partial = 0 THEN 1 ELSE ops[k].partial
             text == Output(k, n)
  <2>1. text \in Text /\ FromOperation(k, draft.rev) \in Source
    BY <1>a, <1>b, OutputType, SourceTypes
  <2>2. Completed(ops[k], draft.rev + 1, text) \in Op
    BY <1>a, <2>1, RowTypes
  <2>3. events' \in [Keys -> Seq(EventType)]
    BY <1>7, LogTypes DEF SettleSuccess, EventType
  <2>4. /\ draft' \in [rev : Nat, text : Text, source : Source]
        /\ recovery' \subseteq Row
        /\ review' \in [id : Nat, open : BOOLEAN, text : Text]
    <3>1. CASE ops[k].kind = "preview"
      BY <1>7, <3>1 DEF SettleSuccess
    <3>2. CASE ops[k].kind # "preview"
      <4>1. Replace(text, FromOperation(k, draft.rev), ops[k].kind, k)
        BY <1>7, <3>2 DEF SettleSuccess
      <4>2. InvalidateReview(ops[k].review)
        BY <1>7, <3>2 DEF SettleSuccess
      <4> QED
        BY <4>1, <4>2, <2>1, <1>b, ReplaceTypes, ReviewTypes
    <3> QED
      BY <3>1, <3>2
  <2>5. Settle(k, Completed(ops[k], draft.rev + 1, text))
    BY <1>7 DEF SettleSuccess
  <2> QED
    BY <1>7, <2>2, <2>3, <2>4, <2>5, <1>e, SettleTypes DEF SettleSuccess
<1>8. CASE SettleFailure(k)
  <2>1. Failed(ops[k]) \in Op
    BY <1>a, RowTypes, EmptyType
  <2>2. events' \in [Keys -> Seq(EventType)]
    BY <1>8, LogTypes DEF SettleFailure, EventType
  <2> QED
    BY <1>8, <2>1, <2>2, <1>e, SettleTypes DEF SettleFailure
<1>9. CASE WorkerLost(k)
  BY <1>9, <1>e DEF WorkerLost
<1> QED
  BY <1>1, <1>2, <1>3, <1>4, <1>5, <1>6, <1>7, <1>8, <1>9 DEF WorkerStep

\* What the author does keeps the types.
LEMMA AuthorStepType ==
  ASSUME TypeOK, AuthorStep
  PROVE  TypeOK'
<1> USE DEF TypeOK
<1>a. draft.rev \in Nat /\ draft.rev + 1 \in Nat /\ draft.text \in Text
  OBVIOUS
<1>1. ASSUME NEW text \in Text, SaveWorkingDraft(text)
      PROVE  TypeOK'
  <2>1. draft' \in [rev : Nat, text : Text, source : Source]
    BY <1>1, <1>a DEF SaveWorkingDraft
  <2> QED
    BY <1>1, <2>1 DEF SaveWorkingDraft
<1>2. ASSUME NEW f \in FreezeKeys, SaveCandidate(f)
      PROVE  TypeOK'
  <2>1. freezes' \in [FreezeKeys -> [rev : Nat, text : Text]]
    BY <1>2, <1>a DEF SaveCandidate
  <2>2. candidates' \subseteq [text : Text, basis : Authorities \cup {Unready}]
    BY <1>2, <1>a DEF SaveCandidate
  <2> QED
    BY <1>2, <2>1, <2>2 DEF SaveCandidate
<1>3. ASSUME NEW c \in candidates, LoadCandidate(c)
      PROVE  TypeOK'
  <2>1. c.text \in Text
    OBVIOUS
  <2>2. FromCandidate(draft.rev) \in Source
    BY <1>a DEF FromCandidate, Source, Writers
  <2>3. Replace(c.text, FromCandidate(draft.rev), "candidate_load", NoKey)
    BY <1>3 DEF LoadCandidate
  <2>4. /\ draft' \in [rev : Nat, text : Text, source : Source]
        /\ recovery' \subseteq Row
    BY <2>1, <2>2, <2>3, ReplaceTypes
  <2> QED
    BY <1>3, <2>4 DEF LoadCandidate
<1>4. ASSUME NEW k \in Keys, UndoLocal(k)
      PROVE  TypeOK'
  <2>1. PICK b \in recovery :
          draft' = [rev |-> draft.rev + 1, text |-> b.text,
                    source |-> FromUndo(k, draft.rev)]
    BY <1>4 DEF UndoLocal
  <2>2. b.text \in Text
    BY DEF Row
  <2>3. draft' \in [rev : Nat, text : Text, source : Source]
    BY <1>a, <2>1, <2>2, SourceTypes
  <2>4. Before("undo_local", k) \in Row
    BY <1>a DEF Before, Row
  <2>5. recovery' \subseteq Row
    BY <1>4, <2>4 DEF UndoLocal
  <2> QED
    BY <1>4, <2>3, <2>5 DEF UndoLocal
<1>5. ASSUME NEW k \in Keys, ApplyLocalPreview(k)
      PROVE  TypeOK'
  <2>1. ops[k].resultText \in Text /\ ops[k].kind \in AllKinds
    BY DEF Op
  <2>2. FromOperation(k, draft.rev) \in Source
    BY <1>a, SourceTypes
  <2>3. Replace(ops[k].resultText, FromOperation(k, draft.rev), ops[k].kind, k)
    BY <1>5 DEF ApplyLocalPreview
  <2>4. /\ draft' \in [rev : Nat, text : Text, source : Source]
        /\ recovery' \subseteq Row
    BY <2>1, <2>2, <2>3, ReplaceTypes
  <2> QED
    BY <1>5, <2>4 DEF ApplyLocalPreview
<1>6. \A i \in 1..AuthorTexts : Authored(i) \in Text
  BY DEF Authored, Text
<1> QED
  BY <1>1, <1>2, <1>3, <1>4, <1>5, <1>6, EmptyType DEF AuthorStep

\* Time, restarts and the rest of the system keep the types.
LEMMA EnvironmentStepType ==
  ASSUME TypeOK, EnvironmentStep
  PROVE  TypeOK'
<1> USE DEF TypeOK
<1>1. CASE Tick
  BY <1>1 DEF Tick
<1>2. CASE Shutdown
  BY <1>2 DEF Shutdown, Idle, WorkerState
<1>3. ASSUME NEW a \in Authorities \cup {Unready}, AuthorityChange(a)
      PROVE  TypeOK'
  <2>1. review' \in [id : Nat, open : BOOLEAN, text : Text]
    BY <1>3 DEF AuthorityChange
  <2> QED
    BY <1>3, <2>1 DEF AuthorityChange
<1>4. ASSUME NEW c \in candidates, PublishReview(c)
      PROVE  TypeOK'
  <2>1. c.text \in Text /\ review.id + 1 \in Nat
    OBVIOUS
  <2>2. review' \in [id : Nat, open : BOOLEAN, text : Text]
    BY <1>4, <2>1 DEF PublishReview
  <2> QED
    BY <1>4, <2>2 DEF PublishReview
<1>5. CASE CloseReview
  BY <1>5 DEF CloseReview
<1>6. CASE Finalize
  BY <1>6 DEF Finalize
<1> QED
  BY <1>1, <1>2, <1>3, <1>4, <1>5, <1>6 DEF EnvironmentStep

\* Every state of the program is well typed: rows, events, recovery rows and
\* worker states have the shape the schema and the service give them.
THEOREM TypeCorrect == Spec => []TypeOK
<1>1. TypeOK /\ [Next]_vars => TypeOK'
  <2> SUFFICES ASSUME TypeOK, [Next]_vars
               PROVE  TypeOK'
    OBVIOUS
  <2>1. CASE UNCHANGED vars
    BY <2>1 DEF vars, TypeOK
  <2> QED
    BY <2>1, OperationStepType, WorkerStepType, AuthorStepType,
       EnvironmentStepType DEF Next
<1> QED
  BY <1>1, InitType, PTL DEF Spec

-----------------------------------------------------------------------------
(* The slot, the fences and the recovery rows.                             *)

\* No fence was ever handed out beyond the session's counter.
FenceBound ==
  \A k \in Keys : ops[k].status # "unreserved" => ops[k].fence <= session.fence

SlotInv == ActiveSlot /\ FenceBound /\ FencesDiffer /\ FinalizedIdle

\* ActiveSlot alone does not survive a reservation: that the new fence differs
\* from the old ones needs their bound.
IInv == TypeOK /\ SlotInv /\ RecoverySlotsFree

\* How the settling helpers change the fields the slot is about.
LEMMA RowFields ==
  ASSUME NEW o \in Op, NEW now, NEW n, NEW rev, NEW text
  PROVE  /\ Expired(o).status \in Terminal /\ Expired(o).fence = o.fence
         /\ Failed(o).status \in Terminal /\ Failed(o).fence = o.fence
         /\ Completed(o, rev, text).status \in Terminal
         /\ Completed(o, rev, text).fence = o.fence
         /\ Cancelled(o, rev, text).status \in Terminal
         /\ Cancelled(o, rev, text).fence = o.fence
         /\ Renewed(o, now, n).status = o.status
         /\ Renewed(o, now, n).fence = o.fence
BY DEF Op, Expired, Failed, Completed, Cancelled, Renewed, Terminal

\* An ended or unreserved row is not running.
LEMMA StatusFacts ==
  /\ "running" \notin Terminal
  /\ "unreserved" \notin Terminal
BY DEF Terminal

\* Freeing the slot keeps the slot invariant.
LEMMA SettleSlot ==
  ASSUME TypeOK, SlotInv, NEW k \in Keys, NEW o \in Op, Settle(k, o),
         session.active = k, o.status \in Terminal, o.fence = ops[k].fence
  PROVE  SlotInv'
<1> USE DEF Running
<1>1. /\ session'.active = NoKey /\ session'.fence = session.fence
      /\ session'.status = session.status /\ session.fence \in Nat
  BY DEF Settle, Release, TypeOK
<1>2. /\ ops'[k] = o
      /\ \A j \in Keys \ {k} : ops'[j] = ops[j]
  BY DEF Settle, TypeOK
<1>3. ops[k].status = "running"
  BY DEF SlotInv, ActiveSlot
<1>4. \A j \in Keys : ops'[j].status # "running"
  <2>1. ops'[k].status # "running"
    BY <1>2, StatusFacts
  <2>2. \A j \in Keys \ {k} : ops[j].status # "running"
    BY DEF SlotInv, ActiveSlot
  <2> QED
    BY <1>2, <2>1, <2>2
<1>5. \A j \in Keys : /\ ops'[j].fence = ops[j].fence
                      /\ ops'[j].status # "unreserved" => ops[j].status # "unreserved"
  BY <1>2, <1>3
<1>6. ActiveSlot'
  BY <1>1, <1>4, ConstantsAssumption DEF ActiveSlot
<1>7. FenceBound'
  BY <1>1, <1>5 DEF SlotInv, FenceBound
<1>8. FencesDiffer'
  BY <1>5 DEF SlotInv, FencesDiffer
<1>9. FinalizedIdle'
  BY <1>1 DEF FinalizedIdle
<1> QED
  BY <1>6, <1>7, <1>8, <1>9 DEF SlotInv

\* A step that touches neither the slot nor a row's status and fence keeps it.
LEMMA KeepSlot ==
  ASSUME SlotInv, session' = session,
         \A k \in Keys : /\ ops'[k].status = ops[k].status
                         /\ ops'[k].fence = ops[k].fence
  PROVE  SlotInv'
BY DEF SlotInv, ActiveSlot, FenceBound, FencesDiffer, FinalizedIdle, Running

\* Replacing the draft fills the two slots of its revision and opens two new.
LEMMA ReplaceSlots ==
  ASSUME TypeOK, RecoverySlotsFree, NEW text, NEW source, NEW reason, NEW k,
         Replace(text, source, reason, k)
  PROVE  RecoverySlotsFree'
<1>1. /\ draft'.rev = draft.rev + 1 /\ draft.rev \in Nat
      /\ recovery' = recovery \cup {Before(reason, k), After(reason, k, text)}
  BY DEF Replace, TypeOK
<1>2. /\ Before(reason, k).rev = draft.rev /\ Before(reason, k).role = "before"
      /\ After(reason, k, text).rev = draft.rev + 1
      /\ After(reason, k, text).role = "after"
  BY DEF Before, After
<1>3. \A r \in recovery : r.rev \in Nat
  BY DEF TypeOK, Row
<1> QED
  BY <1>1, <1>2, <1>3 DEF RecoverySlotsFree

\* So does any step that keeps the rows and does not lower the revision.
LEMMA KeepSlots ==
  ASSUME TypeOK, RecoverySlotsFree, recovery' = recovery,
         draft'.rev \in {draft.rev, draft.rev + 1}
  PROVE  RecoverySlotsFree'
<1>1. draft.rev \in Nat /\ \A r \in recovery : r.rev \in Nat
  BY DEF TypeOK, Row
<1> QED
  BY <1>1 DEF RecoverySlotsFree

\* A new session, without operations, satisfies the inductive invariant.
LEMMA InitIInv == Init => IInv
<1> SUFFICES ASSUME Init PROVE IInv
  OBVIOUS
<1>1. \A k \in Keys : ops[k].status = "unreserved"
  BY DEF Init, Unreserved
<1>2. SlotInv
  BY <1>1, ConstantsAssumption
     DEF Init, SlotInv, ActiveSlot, FenceBound, FencesDiffer, FinalizedIdle, Running
<1> QED
  BY <1>2, InitType DEF Init, IInv, RecoverySlotsFree

\* Requests about operations keep the inductive invariant.
LEMMA OperationStepIInv ==
  ASSUME IInv, NEW k \in Keys, OperationStep(k)
  PROVE  SlotInv' /\ RecoverySlotsFree'
<1> USE DEF IInv
<1>a. ops[k] \in Op /\ clock \in Nat
  BY DEF TypeOK
<1>b. ops' = ops /\ session' = session => SlotInv'
  BY KeepSlot
<1>c. recovery' = recovery /\ draft' = draft => RecoverySlotsFree'
  BY KeepSlots
<1>d. Expired(ops[k]) \in Op
  BY <1>a, RowTypes, EmptyType
<1>0. CASE ExpireElapsed(k)
  BY <1>0, <1>a, <1>c, <1>d, RowFields, SettleSlot DEF ExpireElapsed
<1>1. CASE CancelEmpty(k)
  <2>1. Cancelled(ops[k], 0, Empty) \in Op
    BY <1>a, RowTypes, EmptyType
  <2> QED
    BY <1>1, <1>a, <1>c, <2>1, RowFields, SettleSlot DEF CancelEmpty
<1>2. CASE CancelPartial(k)
  <2> DEFINE text == Output(k, ops[k].partial)
  <2>1. text \in Text /\ draft.rev + 1 \in Nat
    <3>1. ops[k].partial \in Nat
      BY <1>a DEF Op
    <3>2. draft.rev + 1 \in Nat
      BY DEF TypeOK
    <3> QED
      BY <3>1, <3>2, OutputType
  <2>2. Cancelled(ops[k], draft.rev + 1, text) \in Op
    BY <1>a, <2>1, RowTypes
  <2>3. SlotInv'
    BY <1>2, <1>a, <2>2, RowFields, SettleSlot DEF CancelPartial
  <2>4. RecoverySlotsFree'
    BY <1>2, ReplaceSlots DEF CancelPartial
  <2> QED
    BY <2>3, <2>4
<1>3. CASE CancelDrifted(k)
  BY <1>3, <1>a, <1>c, <1>d, RowFields, SettleSlot DEF CancelDrifted
<1>4. ASSUME NEW kind \in Kinds, NEW r \in {0, review.id}, Reserve(k, kind, r)
      PROVE  SlotInv' /\ RecoverySlotsFree'
  <2> USE DEF Running
  <2>1. /\ session'.active = k /\ session'.fence = session.fence + 1
        /\ session'.status = "drafting"
        /\ session.fence \in Nat
    BY <1>4 DEF Reserve, TakeSlot, TypeOK
  <2>2. /\ ops'[k].status = "running" /\ ops'[k].fence = session.fence + 1
        /\ ops[k].status = "unreserved"
    BY <1>4 DEF Reserve, TakeSlot, Reserved
  <2>3. ASSUME NEW j \in Keys \ {k}
        PROVE  /\ ops'[j].fence = ops[j].fence /\ ops[j].fence \in Nat
               /\ ops'[j].status # "running"
               /\ ops'[j].status # "unreserved" <=> ops[j].status # "unreserved"
    <3>1. ops'[j] = IF Running(j) THEN Expired(ops[j]) ELSE ops[j]
      BY <1>4 DEF Reserve, TakeSlot
    <3>2. ops[j] \in Op
      BY DEF TypeOK
    <3>3. /\ Expired(ops[j]).fence = ops[j].fence
          /\ Expired(ops[j]).status \in Terminal
      BY <3>2, RowFields
    <3>4. ops[j].fence \in Nat
      BY <3>2 DEF Op
    <3> QED
      BY <3>1, <3>3, <3>4, StatusFacts
  <2>4. ActiveSlot'
    BY <2>1, <2>2, <2>3 DEF ActiveSlot
  <2>5. FenceBound'
    BY <2>1, <2>2, <2>3 DEF SlotInv, FenceBound
  <2>6. FencesDiffer'
    BY <2>1, <2>2, <2>3 DEF SlotInv, FenceBound, FencesDiffer
  <2>7. FinalizedIdle'
    BY <2>1 DEF FinalizedIdle
  <2>8. RecoverySlotsFree'
    BY <1>4, <1>c DEF Reserve, TakeSlot
  <2> QED
    BY <2>4, <2>5, <2>6, <2>7, <2>8 DEF SlotInv
<1>5. CASE Launch(k)
  BY <1>5, <1>b, <1>c DEF Launch
<1> QED
  BY <1>0, <1>1, <1>2, <1>3, <1>4, <1>5 DEF OperationStep, Read, Replay, Cancel

\* So do the steps of the workers,
LEMMA WorkerStepIInv ==
  ASSUME IInv, NEW k \in Keys, WorkerStep(k)
  PROVE  SlotInv' /\ RecoverySlotsFree'
<1> USE DEF IInv
<1>a. ops[k] \in Op /\ clock \in Nat /\ worker[k].now \in Nat
  BY DEF TypeOK
<1>b. ops' = ops /\ session' = session => SlotInv'
  BY KeepSlot
<1>c. recovery' = recovery /\ draft' = draft => RecoverySlotsFree'
  BY KeepSlots
<1>d. Expired(ops[k]) \in Op /\ Failed(ops[k]) \in Op
  BY <1>a, RowTypes, EmptyType
<1>1. CASE Sample(k)
  BY <1>1, <1>b, <1>c DEF Sample
<1>2. ASSUME NEW now, NEW n, session' = session,
             ops' = [ops EXCEPT ![k] = Renewed(@, now, n)]
      PROVE  SlotInv'
  <2>1. /\ ops'[k] = Renewed(ops[k], now, n)
        /\ \A j \in Keys \ {k} : ops'[j] = ops[j]
    BY <1>2 DEF TypeOK
  <2> QED
    BY <1>2, <1>a, <2>1, RowFields, KeepSlot
<1>3. CASE AppendDelta(k)
  <2>1. ops' = [ops EXCEPT ![k] =
          Renewed(@, worker[k].now, ops[k].partial + 1)]
    BY <1>3 DEF AppendDelta, TypeOK
  <2> QED
    BY <1>3, <1>2, <2>1, <1>c DEF AppendDelta
<1>4. CASE AppendHeartbeat(k)
  <2>1. ops' = [ops EXCEPT ![k] = Renewed(@, worker[k].now, ops[k].partial)]
    BY <1>4 DEF AppendHeartbeat, TypeOK
  <2> QED
    BY <1>4, <1>2, <2>1, <1>c DEF AppendHeartbeat
<1>5. CASE AppendRefused(k)
  BY <1>5, <1>b, <1>c DEF AppendRefused
<1>6. CASE ProviderFails(k)
  BY <1>6, <1>b, <1>c DEF ProviderFails
<1>7. CASE SettleMoot(k)
  BY <1>7, <1>a, <1>b, <1>c, <1>d, RowFields, SettleSlot DEF SettleMoot
<1>8. CASE SettleSuccess(k)
  <2> DEFINE n == IF ops[k].partial = 0 THEN 1 ELSE ops[k].partial
             text == Output(k, n)
  <2>1. text \in Text
    <3>1. n \in Nat
      BY <1>a DEF Op
    <3> QED
      BY <3>1, OutputType
  <2>2. draft.rev + 1 \in Nat
    BY DEF TypeOK
  <2>3. Completed(ops[k], draft.rev + 1, text) \in Op
    BY <1>a, <2>1, <2>2, RowTypes
  <2>4. /\ session.active = k
        /\ Settle(k, Completed(ops[k], draft.rev + 1, text))
    BY <1>8 DEF SettleSuccess, Owns
  <2>5. SlotInv'
    BY <1>a, <2>3, <2>4, RowFields, SettleSlot
  <2>6. RecoverySlotsFree'
    BY <1>8, <1>c, ReplaceSlots DEF SettleSuccess
  <2> QED
    BY <2>5, <2>6
<1>9. CASE SettleFailure(k)
  BY <1>9, <1>a, <1>c, <1>d, RowFields, SettleSlot DEF SettleFailure, Owns
<1>10. CASE WorkerLost(k)
  BY <1>10, <1>b, <1>c DEF WorkerLost
<1> QED
  BY <1>1, <1>3, <1>4, <1>5, <1>6, <1>7, <1>8, <1>9, <1>10 DEF WorkerStep

\* the author's own requests,
LEMMA AuthorStepIInv ==
  ASSUME IInv, AuthorStep
  PROVE  SlotInv' /\ RecoverySlotsFree'
<1> USE DEF IInv
<1>a. ops' = ops /\ session' = session => SlotInv'
  BY KeepSlot
<1>b. draft.rev \in Nat
  BY DEF TypeOK
<1>1. ASSUME NEW text, SaveWorkingDraft(text)
      PROVE  SlotInv' /\ RecoverySlotsFree'
  <2>1. draft'.rev = draft.rev + 1
    BY <1>1 DEF SaveWorkingDraft, TypeOK
  <2> QED
    BY <1>1, <1>a, <2>1, KeepSlots DEF SaveWorkingDraft
<1>2. ASSUME NEW f \in FreezeKeys, SaveCandidate(f)
      PROVE  SlotInv' /\ RecoverySlotsFree'
  BY <1>2, <1>a, KeepSlots DEF SaveCandidate
<1>3. ASSUME NEW c \in candidates, LoadCandidate(c)
      PROVE  SlotInv' /\ RecoverySlotsFree'
  BY <1>3, <1>a, ReplaceSlots DEF LoadCandidate
<1>4. ASSUME NEW k \in Keys, UndoLocal(k)
      PROVE  SlotInv' /\ RecoverySlotsFree'
  <2>1. /\ draft'.rev = draft.rev + 1
        /\ recovery' = recovery \cup {Before("undo_local", k)}
    BY <1>4 DEF UndoLocal
  <2>2. /\ Before("undo_local", k).rev = draft.rev
        /\ Before("undo_local", k).role = "before"
    BY DEF Before
  <2>3. \A r \in recovery : r.rev \in Nat
    BY DEF TypeOK, Row
  <2>4. RecoverySlotsFree'
    BY <1>b, <2>1, <2>2, <2>3 DEF RecoverySlotsFree
  <2> QED
    BY <1>4, <1>a, <2>4 DEF UndoLocal
<1>5. ASSUME NEW k \in Keys, ApplyLocalPreview(k)
      PROVE  SlotInv' /\ RecoverySlotsFree'
  BY <1>5, <1>a, ReplaceSlots DEF ApplyLocalPreview
<1> QED
  BY <1>1, <1>2, <1>3, <1>4, <1>5 DEF AuthorStep

\* and everything around the session.
LEMMA EnvironmentStepIInv ==
  ASSUME IInv, EnvironmentStep
  PROVE  SlotInv' /\ RecoverySlotsFree'
<1> USE DEF IInv
<1>a. ops' = ops /\ session' = session => SlotInv'
  BY KeepSlot
<1>b. recovery' = recovery /\ draft' = draft => RecoverySlotsFree'
  BY KeepSlots
<1>1. CASE Finalize
  <2>1. /\ session'.active = NoKey /\ session.active = NoKey
        /\ session'.fence = session.fence
        /\ ops' = ops
    BY <1>1 DEF Finalize, IdleSession, TypeOK
  <2>2. SlotInv'
    BY <2>1 DEF SlotInv, ActiveSlot, FenceBound, FencesDiffer, FinalizedIdle, Running
  <2> QED
    BY <1>1, <1>b, <2>2 DEF Finalize, IdleSession
<1>2. CASE ~Finalize
  BY <1>2, <1>a, <1>b
     DEF EnvironmentStep, Tick, Shutdown, AuthorityChange, PublishReview, CloseReview
<1> QED
  BY <1>1, <1>2

\* The inductive invariant holds in every state.
THEOREM Inductive == Spec => []IInv
<1>1. IInv /\ [Next]_vars => IInv'
  <2> SUFFICES ASSUME IInv, [Next]_vars
               PROVE  IInv'
    OBVIOUS
  <2>1. CASE UNCHANGED vars
    BY <2>1 DEF vars, IInv, TypeOK, SlotInv, ActiveSlot, FenceBound, FencesDiffer,
                FinalizedIdle, RecoverySlotsFree, Running
  <2>2. CASE Next
    <3>1. TypeOK'
      BY <2>2, OperationStepType, WorkerStepType, AuthorStepType,
         EnvironmentStepType DEF Next, IInv
    <3>2. SlotInv' /\ RecoverySlotsFree'
      BY <2>2, OperationStepIInv, WorkerStepIInv, AuthorStepIInv,
         EnvironmentStepIInv DEF Next
    <3> QED
      BY <3>1, <3>2 DEF IInv
  <2> QED
    BY <2>1, <2>2
<1> QED
  BY <1>1, InitIInv, PTL DEF Spec

\* At most one operation of a session is running, it is the one the session
\* points at, and it holds the newest fence.
THEOREM OneActiveOperation == Spec => []ActiveSlot
<1>1. IInv => ActiveSlot
  BY DEF IInv, SlotInv
<1> QED
  BY <1>1, Inductive, PTL

\* No fence is handed out twice.
THEOREM FencesUnique == Spec => []FencesDiffer
<1>1. IInv => FencesDiffer
  BY DEF IInv, SlotInv
<1> QED
  BY <1>1, Inductive, PTL

\* The session has one owner and every worker can tell whether it is the one.
THEOREM OneOwner == Spec => []SlotOwned
<1>1. ActiveSlot /\ FencesDiffer => SlotOwned
  BY DEF SlotOwned
<1> QED
  BY <1>1, OneActiveOperation, FencesUnique, PTL

\* Keeping the text a machine write replaces never fails.
THEOREM RecoveryNeverBlocks == Spec => []RecoverySlotsFree
<1>1. IInv => RecoverySlotsFree
  BY DEF IInv
<1> QED
  BY <1>1, Inductive, PTL

\* A finalized session has no operation that could still write its draft.
THEOREM FinalizedIsIdle == Spec => []FinalizedIdle
<1>1. IInv => FinalizedIdle
  BY DEF IInv, SlotInv
<1> QED
  BY <1>1, Inductive, PTL

-----------------------------------------------------------------------------
(* What a step may never do.                                               *)

\* A row in the database is only ever rewritten while it holds the slot and
\* the newest fence: whoever was fenced off writes nothing any more.
THEOREM FencedWrites == Spec => OnlyActiveRowMoves
<1> DEFINE Moves == \A k \in Keys :
             ops[k].status # "unreserved" /\ ops'[k] # ops[k]
               => session.active = k /\ ops[k].fence = session.fence
<1>1. IInv /\ [Next]_vars => [Moves]_vars
  <2> SUFFICES ASSUME IInv, Next, NEW k \in Keys,
                      ops[k].status # "unreserved", ops'[k] # ops[k]
               PROVE  session.active = k /\ ops[k].fence = session.fence
    BY DEF vars
  <2> USE DEF IInv
  <2>1. Running(k) => session.active = k /\ ops[k].fence = session.fence
    BY DEF SlotInv, ActiveSlot
  <2>2. session.active = k => Running(k)
    BY DEF SlotInv, ActiveSlot
  <2>3. ASSUME NEW j \in Keys, NEW o, ops' = [ops EXCEPT ![j] = o],
               session.active = j
        PROVE  session.active = k
    BY <2>3 DEF TypeOK
  <2>4. CASE ops' = ops
    BY <2>4
  <2>5. CASE \E j \in Keys : OperationStep(j)
    <3>1. PICK j \in Keys : OperationStep(j)
      BY <2>5
    <3>2. CASE \E kind \in Kinds : \E r \in {0, review.id} : Reserve(j, kind, r)
      <4>1. ops[j].status = "unreserved"
            /\ ops' = [i \in Keys |-> IF i = j THEN ops'[j]
                         ELSE IF Running(i) THEN Expired(ops[i]) ELSE ops[i]]
        BY <3>2 DEF Reserve, TakeSlot
      <4>2. Running(k)
        BY <4>1
      <4> QED
        BY <2>1, <4>2
    <3>3. CASE ExpireElapsed(j) \/ CancelDrifted(j)
      BY <3>3, <2>1, <2>2, <2>3 DEF ExpireElapsed, CancelDrifted, Settle
    <3>4. CASE CancelEmpty(j) \/ CancelPartial(j)
      BY <3>4, <2>1, <2>2, <2>3 DEF CancelEmpty, CancelPartial, Settle
    <3>5. CASE Launch(j)
      BY <3>5, <2>4 DEF Launch
    <3> QED
      BY <3>1, <3>2, <3>3, <3>4, <3>5 DEF OperationStep, Read, Replay, Cancel
  <2>6. CASE \E j \in Keys : WorkerStep(j)
    <3>1. PICK j \in Keys : WorkerStep(j)
      BY <2>6
    <3>2. CASE AppendDelta(j) \/ AppendHeartbeat(j)
      <4>1. session.active = j
        BY <3>2 DEF AppendDelta, AppendHeartbeat, Owns
      <4>2. \A i \in Keys \ {j} : ops'[i] = ops[i]
        BY <3>2 DEF AppendDelta, AppendHeartbeat, TypeOK
      <4> QED
        BY <4>1, <4>2, <2>1, <2>2
    <3>3. CASE SettleMoot(j)
      BY <3>3, <2>1, <2>2, <2>3, <2>4 DEF SettleMoot, Settle
    <3>4. CASE SettleSuccess(j) \/ SettleFailure(j)
      BY <3>4, <2>1, <2>2, <2>3 DEF SettleSuccess, SettleFailure, Settle, Owns
    <3>5. CASE Sample(j) \/ AppendRefused(j) \/ ProviderFails(j) \/ WorkerLost(j)
      BY <3>5, <2>4 DEF Sample, AppendRefused, ProviderFails, WorkerLost
    <3> QED
      BY <3>1, <3>2, <3>3, <3>4, <3>5 DEF WorkerStep
  <2>7. CASE AuthorStep
    BY <2>7, <2>4 DEF AuthorStep, SaveWorkingDraft, SaveCandidate, LoadCandidate,
                      UndoLocal, ApplyLocalPreview
  <2>8. CASE EnvironmentStep
    BY <2>8, <2>4 DEF EnvironmentStep, Tick, Shutdown, AuthorityChange,
                      PublishReview, CloseReview, Finalize
  <2> QED
    BY <2>5, <2>6, <2>7, <2>8 DEF Next
<1> QED
  BY <1>1, Inductive, PTL DEF Spec, OnlyActiveRowMoves

-----------------------------------------------------------------------------
(* What a step does to the draft, and the author's view of it.             *)

\* Only these steps write the draft.
LEMMA WritersOfDraft ==
  ASSUME Next, draft' # draft
  PROVE  \/ \E k \in Keys : CancelPartial(k) \/ SettleSuccess(k)
                              \/ UndoLocal(k) \/ ApplyLocalPreview(k)
         \/ \E c \in candidates : LoadCandidate(c)
         \/ \E text \in Text : SaveWorkingDraft(text)
<1>1. CASE \E k \in Keys : OperationStep(k)
  BY <1>1 DEF OperationStep, Read, Replay, Cancel, ExpireElapsed, CancelEmpty,
              CancelDrifted, Reserve, Launch
<1>2. CASE \E k \in Keys : WorkerStep(k)
  BY <1>2 DEF WorkerStep, Sample, AppendDelta, AppendHeartbeat, AppendRefused,
              ProviderFails, SettleMoot, SettleFailure, WorkerLost
<1>3. CASE AuthorStep
  <2>1. \A i \in 1..AuthorTexts : Authored(i) \in Text
    BY ConstantsAssumption DEF Authored, Text
  <2> QED
    BY <1>3, <2>1, EmptyType DEF AuthorStep, SaveCandidate
<1>4. CASE EnvironmentStep
  BY <1>4 DEF EnvironmentStep, Tick, Shutdown, AuthorityChange, PublishReview,
              CloseReview, Finalize
<1> QED
  BY <1>1, <1>2, <1>3, <1>4 DEF Next

\* A machine result lands on exactly the draft its request was about: whatever
\* the author saves in between turns the result away.
THEOREM LandsOnBase == Spec => LandsOnItsBase
<1> DEFINE Lands == \A k \in Keys :
             draft'.source # draft.source
               /\ draft'.source = FromOperation(k, draft.rev)
             => draft.rev = ops[k].baseRev /\ draft.text = ops[k].baseText
<1>1. TypeOK /\ [Next]_vars => [Lands]_vars
  <2> SUFFICES ASSUME TypeOK, Next, NEW k \in Keys,
                      draft'.source # draft.source,
                      draft'.source = FromOperation(k, draft.rev)
               PROVE  OnBase(k)
    BY DEF vars, OnBase
  <2>1. draft' # draft
    OBVIOUS
  <2>2. ASSUME NEW j \in Keys, NEW text,
               draft' = [rev |-> draft.rev + 1, text |-> text,
                         source |-> FromOperation(j, draft.rev)]
        PROVE  j = k
    BY <2>2 DEF FromOperation
  <2>3. CASE \E j \in Keys : CancelPartial(j)
    BY <2>3, <2>2 DEF CancelPartial, Replace
  <2>4. CASE \E j \in Keys : SettleSuccess(j)
    BY <2>4, <2>1, <2>2 DEF SettleSuccess, Replace, BasisHolds
  <2>5. CASE \E j \in Keys : ApplyLocalPreview(j)
    BY <2>5, <2>2 DEF ApplyLocalPreview, Replace
  <2>6. CASE \E c \in candidates : LoadCandidate(c)
    BY <2>6 DEF LoadCandidate, Replace, FromCandidate, FromOperation
  <2>7. CASE \E j \in Keys : UndoLocal(j)
    BY <2>7 DEF UndoLocal, FromUndo, FromOperation
  <2>8. CASE \E text \in Text : SaveWorkingDraft(text)
    BY <2>8 DEF SaveWorkingDraft, TypeOK
  <2> QED
    BY <2>1, <2>3, <2>4, <2>5, <2>6, <2>7, <2>8, WritersOfDraft
<1> QED
  BY <1>1, TypeCorrect, PTL DEF Spec, LandsOnItsBase

\* Adding the two rows of a rewrite keeps the replaced text and nothing else.
LEMMA KeptGrows ==
  ASSUME NEW b, NEW more,
         recovery' = recovery \cup {b} \cup more,
         b.role = "before", \A a \in more : a.role # "before"
  PROVE  Kept' = Kept \cup {[rev |-> b.rev, text |-> b.text]}
BY DEF Kept

\* A rewrite of an open session's draft is the abstract Replace.
LEMMA ReplaceIsReplace ==
  ASSUME NEW text \in Text, NEW source, NEW reason, NEW k,
         Replace(text, source, reason, k),
         session.status = "drafting", session'.status = "drafting"
  PROVE  AuthorView!Replace
<1>1. Kept' = Kept \cup {[rev |-> draft.rev, text |-> draft.text]}
  <2> DEFINE b == Before(reason, k)
             more == {After(reason, k, text)}
  <2>1. recovery' = recovery \cup {b} \cup more
    BY DEF Replace
  <2>2. b.role = "before" /\ b.rev = draft.rev /\ b.text = draft.text
    BY DEF Before
  <2>3. \A a \in more : a.role # "before"
    BY DEF After
  <2> HIDE DEF b, more
  <2> QED
    BY <2>1, <2>2, <2>3, KeptGrows
<1>2. draft'.rev = draft.rev + 1 /\ draft'.text = text
  BY DEF Replace
<1> QED
  BY <1>1, <1>2 DEF AuthorView!Replace

\* The session implements the author's view: revisions are numbered one by one,
\* every text but the author's own is kept before it goes, and a closed session
\* is left alone.
THEOREM Refinement == Spec => ImplementsAuthorView
<1>1. Init => AuthorView!Init
  BY DEF Init, AuthorView!Init, Kept
<1>2. IInv /\ [Next]_vars => [AuthorView!Next]_AuthorView!draftVars
  <2> SUFFICES ASSUME IInv, [Next]_vars
               PROVE  [AuthorView!Next]_AuthorView!draftVars
    OBVIOUS
  <2> USE DEF IInv
  <2>a. session.status \in {"drafting", "final"}
    BY DEF TypeOK
  <2>b. ASSUME draft' = draft, recovery' = recovery, session'.status = session.status
        PROVE  UNCHANGED AuthorView!draftVars
    BY <2>b DEF AuthorView!draftVars, Kept
  <2>c. ASSUME Release
        PROVE  session'.status = session.status
    BY <2>c DEF Release, TypeOK
  <2>0. CASE UNCHANGED vars
    BY <2>0, <2>b DEF vars
  <2>1. CASE \E k \in Keys : OperationStep(k)
    <3>1. PICK k \in Keys : OperationStep(k)
      BY <2>1
    <3>2. CASE CancelPartial(k)
      <4>1. session.status = "drafting"
        BY <3>2, <2>a, ConstantsAssumption
           DEF CancelPartial, SlotInv, FinalizedIdle
      <4>2. session'.status = "drafting"
        BY <3>2, <4>1, <2>c DEF CancelPartial, Settle
      <4>3. Output(k, ops[k].partial) \in Text
        BY OutputType DEF TypeOK, Op
      <4>4. AuthorView!Replace
        BY <3>2, <4>1, <4>2, <4>3, ReplaceIsReplace DEF CancelPartial
      <4> QED
        BY <4>4 DEF AuthorView!Next
    <3>3. CASE ExpireElapsed(k) \/ CancelEmpty(k) \/ CancelDrifted(k)
      BY <3>3, <2>b, <2>c DEF ExpireElapsed, CancelEmpty, CancelDrifted, Settle
    <3>4. CASE \E kind \in Kinds : \E r \in {0, review.id} : Reserve(k, kind, r)
      BY <3>4, <2>b DEF Reserve, TakeSlot, TypeOK
    <3>5. CASE Launch(k)
      BY <3>5, <2>b DEF Launch
    <3> QED
      BY <3>1, <3>2, <3>3, <3>4, <3>5 DEF OperationStep, Read, Replay, Cancel
  <2>2. CASE \E k \in Keys : WorkerStep(k)
    <3>1. PICK k \in Keys : WorkerStep(k)
      BY <2>2
    <3>2. CASE SettleSuccess(k)
      <4> DEFINE n == IF ops[k].partial = 0 THEN 1 ELSE ops[k].partial
      <4>1. session'.status = session.status
        BY <3>2, <2>c DEF SettleSuccess, Settle
      <4>2. CASE ops[k].kind = "preview"
        BY <3>2, <4>1, <4>2, <2>b DEF SettleSuccess
      <4>3. CASE ops[k].kind # "preview"
        <5>1. n \in Nat
          BY DEF TypeOK, Op
        <5>2. Output(k, n) \in Text
          BY <5>1, OutputType
        <5>3. Replace(Output(k, n), FromOperation(k, draft.rev), ops[k].kind, k)
              /\ session.status = "drafting"
          BY <3>2, <4>3 DEF SettleSuccess, BasisHolds
        <5>4. AuthorView!Replace
          BY <4>1, <5>2, <5>3, ReplaceIsReplace
        <5> QED
          BY <5>4 DEF AuthorView!Next
      <4> QED
        BY <4>2, <4>3
    <3>3. CASE SettleMoot(k) \/ SettleFailure(k)
      BY <3>3, <2>b, <2>c DEF SettleMoot, SettleFailure, Settle
    <3>4. CASE Sample(k) \/ AppendDelta(k) \/ AppendHeartbeat(k) \/ AppendRefused(k)
               \/ ProviderFails(k) \/ WorkerLost(k)
      BY <3>4, <2>b DEF Sample, AppendDelta, AppendHeartbeat, AppendRefused,
                        ProviderFails, WorkerLost
    <3> QED
      BY <3>1, <3>2, <3>3, <3>4 DEF WorkerStep
  <2>3. CASE AuthorStep
    <3>1. ASSUME NEW text \in {Empty} \cup {Authored(i) : i \in 1..AuthorTexts},
                 SaveWorkingDraft(text)
          PROVE  AuthorView!Save
      <4>1. draft'.rev = draft.rev + 1 /\ draft'.text = text
        BY <3>1 DEF SaveWorkingDraft, TypeOK
      <4> QED
        BY <3>1, <4>1 DEF SaveWorkingDraft, AuthorView!Save, Kept
    <3>2. ASSUME NEW c \in candidates, LoadCandidate(c)
          PROVE  AuthorView!Replace
      BY <3>2, ReplaceIsReplace DEF LoadCandidate, IdleSession, TypeOK
    <3>3. ASSUME NEW k \in Keys, ApplyLocalPreview(k)
          PROVE  AuthorView!Replace
      <4>1. ops[k].resultText \in Text
        BY DEF TypeOK, Op
      <4> QED
        BY <3>3, <4>1, ReplaceIsReplace DEF ApplyLocalPreview, IdleSession
    <3>4. ASSUME NEW k \in Keys, UndoLocal(k)
          PROVE  AuthorView!Replace
      <4>1. Kept' = Kept \cup {[rev |-> draft.rev, text |-> draft.text]}
        <5> DEFINE b == Before("undo_local", k)
                   more == {}
        <5>1. recovery' = recovery \cup {b} \cup more
          BY <3>4 DEF UndoLocal
        <5>2. b.role = "before" /\ b.rev = draft.rev /\ b.text = draft.text
          BY DEF Before
        <5>3. \A a \in more : a.role # "before"
          OBVIOUS
        <5> HIDE DEF b, more
        <5> QED
          BY <5>1, <5>2, <5>3, KeptGrows
      <4>2. draft'.rev = draft.rev + 1 /\ draft'.text \in Text
        BY <3>4 DEF UndoLocal, TypeOK, Row
      <4> QED
        BY <3>4, <4>1, <4>2 DEF UndoLocal, IdleSession, AuthorView!Replace
    <3>5. CASE \E f \in FreezeKeys : SaveCandidate(f)
      BY <3>5, <2>b DEF SaveCandidate
    <3> QED
      BY <2>3, <3>1, <3>2, <3>3, <3>4, <3>5 DEF AuthorStep, AuthorView!Next
  <2>4. CASE EnvironmentStep
    <3>1. CASE Finalize
      <4>1. session'.status = "final" /\ session.status = "drafting"
        BY <3>1 DEF Finalize, IdleSession, TypeOK
      <4>2. AuthorView!Close
        BY <3>1, <4>1 DEF Finalize, AuthorView!Close, Kept
      <4> QED
        BY <4>2 DEF AuthorView!Next
    <3>2. CASE ~Finalize
      BY <2>4, <3>2, <2>b DEF EnvironmentStep, Tick, Shutdown, AuthorityChange,
                              PublishReview, CloseReview
    <3> QED
      BY <3>1, <3>2
  <2> QED
    BY <2>0, <2>1, <2>2, <2>3, <2>4 DEF Next
<1> QED
  BY <1>1, <1>2, Inductive, PTL DEF Spec, ImplementsAuthorView, AuthorView!Spec
=============================================================================
