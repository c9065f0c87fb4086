-------------------------- MODULE DraftResultsProofs --------------------------
(***************************************************************************)
(* Proofs about what DraftOperations stores: rows and event logs that can  *)
(* be read back, results that reach the draft once, texts that can be      *)
(* brought back, reviews that are adjusted once.  The invariant stands on  *)
(* the one of DraftOperationsProofs.                                       *)
(***************************************************************************)
EXTENDS DraftOperationsProofs, FiniteSetTheorems

\* project_stored_result accepts row o.
Readable(o) ==
  /\ o.status # "unreserved" =>
       /\ o.fence > 0 /\ o.baseRev > 0 /\ o.seq \in 1..MaxEvents
       /\ o.lease = o.beat + Lease
  /\ o.status = "running" =>
       /\ o.seq < MaxEvents /\ o.beat = o.updated /\ o.updated < o.lease
       /\ o.seq = 1 => o.partial = 0
  /\ o.status \in FinalEvents =>
       o.seq >= 2 /\ o.beat <= o.updated /\ o.updated < o.lease
  /\ o.status = "expired" => o.seq < MaxEvents /\ o.beat <= o.updated
  /\ o.status = "completed" => o.resultRev = o.baseRev + 1 /\ o.partial > 0
  /\ o.status = "cancelled" =>
       IF o.kind = "generate" /\ o.partial > 0
         THEN o.resultRev = o.baseRev + 1
         ELSE o.resultRev = 0
  /\ o.status \in {"running", "failed", "expired"} => o.resultRev = 0

\* The log e of a row o has no gap, and ends with the row's outcome only.
Whole(e, o) ==
  /\ Len(e) = o.seq
  /\ \A i \in 1..Len(e) :
       /\ e[i] = "started" <=> i = 1
       /\ e[i] \in FinalEvents => i = Len(e) /\ e[i] = o.status
  /\ o.status \in FinalEvents => e[Len(e)] = o.status

\* A key without a row has nothing of one; no time that was written, and none
\* that a worker has sampled, lies ahead of the clock.
InTime(k) ==
  /\ ops[k].status = "unreserved" => ops[k] = Unreserved
  /\ ops[k].status = "running" => ops[k].beat <= clock
  /\ worker[k].now <= clock

LogInv ==
  /\ draft.rev > 0
  /\ \A k \in Keys : Readable(ops[k]) /\ Whole(events[k], ops[k]) /\ InTime(k)

\* A review belongs to a whole-draft operation and was published before it.
ReviewBound ==
  \A k \in Keys :
    /\ ops[k].review <= review.id
    /\ ops[k].review # 0 => ops[k].kind = "generate"

\* The recovery rows of an operation appear when its result reaches the draft:
\* where they are tells which revision it was about.
RecoveryOwned ==
  \A r \in recovery : r.op \in Keys =>
    /\ ops[r.op].status \in {"completed", "cancelled"}
    /\ r.role = "after" => r.rev = ops[r.op].baseRev + 1
    /\ r.role = "before" => r.rev >= ops[r.op].baseRev
    /\ r.role = "before" /\ r.rev = ops[r.op].baseRev =>
         r.text = ops[r.op].baseText

ResultInv ==
  /\ IInv
  /\ LogInv
  /\ ReviewBound /\ ReviewAdjustedOnce
  /\ RecoveryOwned /\ ResultOnce

-----------------------------------------------------------------------------
(* How a step changes one row and its log.                                 *)

RowStays(k) == ops'[k] = ops[k] /\ events'[k] = events[k]
RowReserved(k) ==
  /\ ops[k].status = "unreserved"
  /\ \E kind \in Kinds : \E r \in {0, review.id} :
       ops'[k] = Reserved(kind, r) /\ (r # 0 => kind = "generate")
  /\ events'[k] = Append(events[k], "started")
RowExpired(k) ==
  Running(k) /\ ops'[k] = Expired(ops[k]) /\ events'[k] = events[k]
RowRenewed(k) ==
  /\ Running(k) /\ ops[k].lease > worker[k].now /\ Budget(k)
  /\ \E n \in {ops[k].partial, ops[k].partial + 1} :
       ops'[k] = Renewed(ops[k], worker[k].now, n)
  /\ \E type \in {"delta", "heartbeat"} : events'[k] = Append(events[k], type)
\* A result about a review finds it current and closes it.
Adjusts(k) ==
  ops[k].review # 0 /\ ops[k].kind # "preview" =>
    ReviewCurrent(ops[k].review) /\ ~review'.open
InLease(k) == Running(k) /\ ops[k].lease > clock /\ ops[k].seq + 1 <= MaxEvents
RowFailed(k) ==
  /\ InLease(k)
  /\ ops'[k] = Failed(ops[k]) /\ events'[k] = Append(events[k], "failed")
RowCompleted(k) ==
  /\ InLease(k) /\ OnBase(k) /\ Adjusts(k)
  /\ \E n \in Nat \ {0} : ops'[k] = Completed(ops[k], draft.rev + 1, Output(k, n))
  /\ events'[k] = Append(events[k], "completed")
RowCancelled(k) ==
  /\ InLease(k)
  /\ IF ops[k].kind = "generate" /\ ops[k].partial # 0
       THEN /\ OnBase(k) /\ Adjusts(k)
            /\ ops'[k] = Cancelled(ops[k], draft.rev + 1, Output(k, ops[k].partial))
       ELSE ops'[k] = Cancelled(ops[k], 0, Empty)
  /\ events'[k] = Append(events[k], "cancelled")

RowStep(k) ==
  \/ RowStays(k) \/ RowReserved(k) \/ RowExpired(k) \/ RowRenewed(k)
  \/ RowFailed(k) \/ RowCompleted(k) \/ RowCancelled(k)

LEMMA ReviewCloses ==
  ASSUME TypeOK, NEW r, r # 0, InvalidateReview(r)
  PROVE  ~review'.open
<1>1. review' = [review EXCEPT !.open = FALSE]
  BY DEF InvalidateReview
<1> QED
  BY <1>1 DEF TypeOK

\* A step of operation j leaves the rows and logs of the others, except that a
\* reservation expires one whose lease has run out.
LEMMA OtherRows ==
  ASSUME TypeOK, NEW j \in Keys, NEW k \in Keys, j # k, NEW o,
         ops' = [ops EXCEPT ![j] = o],
         \/ events' = events
         \/ \E type \in EventType : Log(j, type)
  PROVE  RowStays(k)
BY DEF RowStays, TypeOK, Log

LEMMA OwnRow ==
  ASSUME TypeOK, NEW k \in Keys, NEW o, ops' = [ops EXCEPT ![k] = o]
  PROVE  ops'[k] = o
BY DEF TypeOK

LEMMA OwnLog ==
  ASSUME TypeOK, NEW k \in Keys, NEW type, Log(k, type)
  PROVE  events'[k] = Append(events[k], type)
BY DEF TypeOK, Log

LEMMA OperationRows ==
  ASSUME IInv, NEW j \in Keys, OperationStep(j), NEW k \in Keys
  PROVE  RowStep(k)
<1> USE DEF IInv
<1>a. {"started", "cancelled"} \subseteq EventType
  BY DEF EventType
<1>b. ops[j].seq \in Nat /\ ops[j].lease \in Nat /\ clock \in Nat /\ MaxEvents \in Nat
  BY ConstantsAssumption DEF TypeOK, Op
<1>0. CASE ExpireElapsed(j) \/ CancelDrifted(j)
  <2>1. Running(j) /\ ops' = [ops EXCEPT ![j] = Expired(ops[j])] /\ events' = events
    BY <1>0 DEF ExpireElapsed, CancelDrifted, Settle
  <2>2. CASE j # k
    BY <2>1, <2>2, OtherRows DEF RowStep
  <2>3. CASE j = k
    BY <2>1, <2>3, OwnRow DEF RowStep, RowExpired
  <2> QED
    BY <2>2, <2>3
<1>1. CASE CancelEmpty(j)
  <2>1. /\ ops' = [ops EXCEPT ![j] = Cancelled(ops[j], 0, Empty)]
        /\ Log(j, "cancelled")
    BY <1>1 DEF CancelEmpty, Settle
  <2>2. CASE j # k
    BY <2>1, <2>2, <1>a, OtherRows DEF RowStep
  <2>3. CASE j = k
    <3>1. InLease(j)
      BY <1>1, <1>b DEF CancelEmpty, InLease, Elapsed
    <3>2. ~(ops[j].kind = "generate" /\ ops[j].partial # 0)
      BY <1>1 DEF CancelEmpty
    <3> QED
      BY <2>1, <2>3, <3>1, <3>2, OwnRow, OwnLog DEF RowStep, RowCancelled
  <2> QED
    BY <2>2, <2>3
<1>2. CASE CancelPartial(j)
  <2>1. /\ ops' = [ops EXCEPT ![j] =
             Cancelled(ops[j], draft.rev + 1, Output(j, ops[j].partial))]
        /\ Log(j, "cancelled")
    BY <1>2 DEF CancelPartial, Settle
  <2>2. CASE j # k
    BY <2>1, <2>2, <1>a, OtherRows DEF RowStep
  <2>3. CASE j = k
    <3>1. InLease(j)
      BY <1>2, <1>b DEF CancelPartial, InLease, Elapsed
    <3>2. ops[j].kind = "generate" /\ ops[j].partial # 0 /\ OnBase(j)
      BY <1>2 DEF CancelPartial
    <3>3. Adjusts(j)
      BY <1>2, ReviewCloses DEF CancelPartial, BasisHolds, Adjusts
    <3> QED
      BY <2>1, <2>3, <3>1, <3>2, <3>3, OwnRow, OwnLog DEF RowStep, RowCancelled
  <2> QED
    BY <2>2, <2>3
<1>3. ASSUME NEW kind \in Kinds, NEW r \in {0, review.id}, Reserve(j, kind, r)
      PROVE  RowStep(k)
  <2>1. /\ ops' = [i \in Keys |-> IF i = j THEN Reserved(kind, r)
                                  ELSE IF Running(i) THEN Expired(ops[i]) ELSE ops[i]]
        /\ Log(j, "started") /\ ops[j].status = "unreserved"
        /\ r # 0 => kind = "generate"
    BY <1>3 DEF Reserve
  <2>2. CASE j # k
    <3>1. events'[k] = events[k]
      BY <2>1, <2>2 DEF Log, TypeOK
    <3>2. ops'[k] = IF Running(k) THEN Expired(ops[k]) ELSE ops[k]
      BY <2>1, <2>2
    <3> QED
      BY <3>1, <3>2 DEF RowStep, RowStays, RowExpired
  <2>3. CASE j = k
    <3>1. ops'[k] = Reserved(kind, r)
      BY <2>1, <2>3
    <3> QED
      BY <2>1, <2>3, <3>1, OwnLog DEF RowStep, RowReserved
  <2> QED
    BY <2>2, <2>3
<1>4. CASE Launch(j)
  BY <1>4 DEF Launch, RowStep, RowStays
<1> QED
  BY <1>0, <1>1, <1>2, <1>3, <1>4 DEF OperationStep, Read, Replay, Cancel

LEMMA WorkerRows ==
  ASSUME IInv, NEW j \in Keys, WorkerStep(j), NEW k \in Keys
  PROVE  RowStep(k)
<1> USE DEF IInv
<1>a. {"delta", "heartbeat", "completed", "failed"} \subseteq EventType
  BY DEF EventType
<1>1. CASE AppendDelta(j)
  <2>1. /\ ops' = [ops EXCEPT ![j] =
             Renewed(ops[j], worker[j].now, ops[j].partial + 1)]
        /\ Log(j, "delta")
    BY <1>1 DEF AppendDelta, TypeOK
  <2>2. CASE j # k
    BY <2>1, <2>2, <1>a, OtherRows DEF RowStep
  <2>3. CASE j = k
    BY <1>1, <2>1, <2>3, OwnRow, OwnLog DEF AppendDelta, Owns, RowStep, RowRenewed
  <2> QED
    BY <2>2, <2>3
<1>2. CASE AppendHeartbeat(j)
  <2>1. /\ ops' = [ops EXCEPT ![j] =
             Renewed(ops[j], worker[j].now, ops[j].partial)]
        /\ Log(j, "heartbeat")
    BY <1>2 DEF AppendHeartbeat, TypeOK
  <2>2. CASE j # k
    BY <2>1, <2>2, <1>a, OtherRows DEF RowStep
  <2>3. CASE j = k
    BY <1>2, <2>1, <2>3, OwnRow, OwnLog DEF AppendHeartbeat, Owns, RowStep, RowRenewed
  <2> QED
    BY <2>2, <2>3
<1>3. CASE SettleMoot(j)
  <2>1. CASE ops' = ops
    BY <1>3, <2>1 DEF SettleMoot, RowStep, RowStays
  <2>2. CASE Running(j) /\ ops' = [ops EXCEPT ![j] = Expired(ops[j])]
    <3>1. CASE j # k
      BY <1>3, <2>2, <3>1, OtherRows DEF SettleMoot, RowStep
    <3>2. CASE j = k
      BY <1>3, <2>2, <3>2, OwnRow DEF SettleMoot, RowStep, RowExpired
    <3> QED
      BY <3>1, <3>2
  <2> QED
    BY <1>3, <2>1, <2>2 DEF SettleMoot, Settle
<1>4. CASE SettleSuccess(j)
  <2>1. PICK n \in Nat \ {0} :
          ops' = [ops EXCEPT ![j] = Completed(ops[j], draft.rev + 1, Output(j, n))]
    <3> DEFINE n == IF ops[j].partial = 0 THEN 1 ELSE ops[j].partial
    <3>1. n \in Nat \ {0}
      BY DEF TypeOK, Op
    <3>2. ops' = [ops EXCEPT ![j] = Completed(ops[j], draft.rev + 1, Output(j, n))]
      BY <1>4 DEF SettleSuccess, Settle
    <3> QED
      BY <3>1, <3>2
  <2>2. Log(j, "completed")
    BY <1>4 DEF SettleSuccess
  <2>3. CASE j # k
    BY <2>1, <2>2, <2>3, <1>a, OtherRows DEF RowStep
  <2>4. CASE j = k
    <3>1. InLease(j) /\ OnBase(j)
      BY <1>4 DEF SettleSuccess, InLease, Owns, BasisHolds
    <3>2. Adjusts(j)
      BY <1>4, ReviewCloses DEF SettleSuccess, BasisHolds, Adjusts
    <3> QED
      BY <2>1, <2>2, <2>4, <3>1, <3>2, OwnRow, OwnLog DEF RowStep, RowCompleted
  <2> QED
    BY <2>3, <2>4
<1>5. CASE SettleFailure(j)
  <2>1. ops' = [ops EXCEPT ![j] = Failed(ops[j])] /\ Log(j, "failed")
    BY <1>5 DEF SettleFailure, Settle
  <2>2. CASE j # k
    BY <2>1, <2>2, <1>a, OtherRows DEF RowStep
  <2>3. CASE j = k
    <3>1. InLease(j)
      BY <1>5 DEF SettleFailure, InLease, Owns
    <3> QED
      BY <2>1, <2>3, <3>1, OwnRow, OwnLog DEF RowStep, RowFailed
  <2> QED
    BY <2>2, <2>3
<1>6. CASE Sample(j) \/ AppendRefused(j) \/ ProviderFails(j) \/ WorkerLost(j)
  BY <1>6 DEF Sample, AppendRefused, ProviderFails, WorkerLost, RowStep, RowStays
<1> QED
  BY <1>1, <1>2, <1>3, <1>4, <1>5, <1>6 DEF WorkerStep

\* Every step changes a row and its log in one of these ways.
LEMMA Rows ==
  ASSUME IInv, Next, NEW k \in Keys
  PROVE  RowStep(k)
<1>1. CASE AuthorStep
  BY <1>1 DEF AuthorStep, SaveWorkingDraft, SaveCandidate, LoadCandidate, UndoLocal,
     ApplyLocalPreview, RowStep, RowStays
<1>2. CASE EnvironmentStep
  BY <1>2 DEF EnvironmentStep, Tick, Shutdown, AuthorityChange, PublishReview,
     CloseReview, Finalize, RowStep, RowStays
<1> QED
  BY <1>1, <1>2, OperationRows, WorkerRows DEF Next

\* The fields of a row after each of the updates.
LEMMA ExpiredFields ==
  ASSUME NEW o \in Op
  PROVE  /\ Expired(o).status = "expired"
         /\ Expired(o).kind = o.kind
         /\ Expired(o).fence = o.fence
         /\ Expired(o).lease = o.lease
         /\ Expired(o).beat = o.beat
         /\ Expired(o).updated = clock
         /\ Expired(o).seq = o.seq
         /\ Expired(o).baseRev = o.baseRev
         /\ Expired(o).baseText = o.baseText
         /\ Expired(o).auth = o.auth
         /\ Expired(o).review = o.review
         /\ Expired(o).partial = o.partial
         /\ Expired(o).resultRev = o.resultRev
         /\ Expired(o).resultText = o.resultText
BY DEF Op, Expired

LEMMA FailedFields ==
  ASSUME NEW o \in Op
  PROVE  /\ Failed(o).status = "failed"
         /\ Failed(o).kind = o.kind
         /\ Failed(o).fence = o.fence
         /\ Failed(o).lease = o.lease
         /\ Failed(o).beat = o.beat
         /\ Failed(o).updated = clock
         /\ Failed(o).seq = o.seq + 1
         /\ Failed(o).baseRev = o.baseRev
         /\ Failed(o).baseText = o.baseText
         /\ Failed(o).auth = o.auth
         /\ Failed(o).review = o.review
         /\ Failed(o).partial = o.partial
         /\ Failed(o).resultRev = o.resultRev
         /\ Failed(o).resultText = o.resultText
BY DEF Op, Failed

LEMMA RenewedFields ==
  ASSUME NEW o \in Op, NEW now, NEW n
  PROVE  /\ Renewed(o, now, n).status = o.status
         /\ Renewed(o, now, n).kind = o.kind
         /\ Renewed(o, now, n).fence = o.fence
         /\ Renewed(o, now, n).lease = now + Lease
         /\ Renewed(o, now, n).beat = now
         /\ Renewed(o, now, n).updated = now
         /\ Renewed(o, now, n).seq = o.seq + 1
         /\ Renewed(o, now, n).baseRev = o.baseRev
         /\ Renewed(o, now, n).baseText = o.baseText
         /\ Renewed(o, now, n).auth = o.auth
         /\ Renewed(o, now, n).review = o.review
         /\ Renewed(o, now, n).partial = n
         /\ Renewed(o, now, n).resultRev = o.resultRev
         /\ Renewed(o, now, n).resultText = o.resultText
BY DEF Op, Renewed

LEMMA CompletedFields ==
  ASSUME NEW o \in Op, NEW rev, NEW text
  PROVE  /\ Completed(o, rev, text).status = "completed"
         /\ Completed(o, rev, text).kind = o.kind
         /\ Completed(o, rev, text).fence = o.fence
         /\ Completed(o, rev, text).lease = o.lease
         /\ Completed(o, rev, text).beat = o.beat
         /\ Completed(o, rev, text).updated = clock
         /\ Completed(o, rev, text).seq = o.seq + 1
         /\ Completed(o, rev, text).baseRev = o.baseRev
         /\ Completed(o, rev, text).baseText = o.baseText
         /\ Completed(o, rev, text).auth = o.auth
         /\ Completed(o, rev, text).review = o.review
         /\ Completed(o, rev, text).partial = text.n
         /\ Completed(o, rev, text).resultRev = rev
         /\ Completed(o, rev, text).resultText = text
BY DEF Op, Completed

LEMMA CancelledFields ==
  ASSUME NEW o \in Op, NEW rev, NEW text
  PROVE  /\ Cancelled(o, rev, text).status = "cancelled"
         /\ Cancelled(o, rev, text).kind = o.kind
         /\ Cancelled(o, rev, text).fence = o.fence
         /\ Cancelled(o, rev, text).lease = o.lease
         /\ Cancelled(o, rev, text).beat = o.beat
         /\ Cancelled(o, rev, text).updated = clock
         /\ Cancelled(o, rev, text).seq = o.seq + 1
         /\ Cancelled(o, rev, text).baseRev = o.baseRev
         /\ Cancelled(o, rev, text).baseText = o.baseText
         /\ Cancelled(o, rev, text).auth = o.auth
         /\ Cancelled(o, rev, text).review = o.review
         /\ Cancelled(o, rev, text).partial = o.partial
         /\ Cancelled(o, rev, text).resultRev = rev
         /\ Cancelled(o, rev, text).resultText = text
BY DEF Op, Cancelled


-----------------------------------------------------------------------------
(* Stored rows can be read.                                                *)

LEMMA RowReadable ==
  ASSUME IInv, LogInv, NEW k \in Keys, RowStep(k)
  PROVE  Readable(ops'[k])
<1> DEFINE o == ops[k]
<1>1. o \in Op /\ clock \in Nat /\ worker[k].now \in Nat /\ draft.rev \in Nat
  BY DEF IInv, TypeOK
<1>2. /\ o.seq \in Nat /\ o.beat \in Nat /\ o.updated \in Nat /\ o.lease \in Nat
      /\ o.fence \in Nat /\ o.baseRev \in Nat /\ o.partial \in Nat
      /\ o.resultRev \in Nat
  BY <1>1 DEF Op
<1>3. Readable(o) /\ InTime(k)
  BY DEF LogInv
<1>4. MaxEvents \in Nat /\ MaxEvents > 1 /\ Lease \in Nat /\ Lease > 0
  BY ConstantsAssumption
<1>5. session.fence \in Nat /\ draft.rev > 0
  BY DEF IInv, TypeOK, LogInv
<1> HIDE DEF o
<1>6. CASE RowStays(k)
  BY <1>3, <1>6 DEF RowStays, o
<1>7. CASE RowReserved(k)
  <2>1. PICK kind \in Kinds, r \in {0, review.id} : ops'[k] = Reserved(kind, r)
    BY <1>7 DEF RowReserved
  <2>2. /\ ops'[k].status = "running" /\ ops'[k].fence = session.fence + 1
        /\ ops'[k].lease = clock + Lease /\ ops'[k].beat = clock
        /\ ops'[k].updated = clock /\ ops'[k].seq = 1 /\ ops'[k].baseRev = draft.rev
        /\ ops'[k].partial = 0 /\ ops'[k].resultRev = 0
    BY <2>1 DEF Reserved
  <2> QED
    BY <1>1, <1>4, <1>5, <2>2 DEF Readable, FinalEvents
<1>8. CASE RowExpired(k)
  <2>1. /\ o.status = "running" /\ ops'[k] = Expired(o) /\ o.beat <= clock
    BY <1>3, <1>8 DEF RowExpired, Running, InTime, o
  <2> QED
    BY <1>1, <1>2, <1>3, <2>1, ExpiredFields DEF Readable, FinalEvents
<1>9. CASE RowRenewed(k)
  <2>1. PICK n \in {o.partial, o.partial + 1} : ops'[k] = Renewed(o, worker[k].now, n)
    BY <1>9 DEF RowRenewed, o
  <2>2. o.status = "running" /\ o.seq + 1 <= MaxEvents - 1
    BY <1>9 DEF RowRenewed, Running, Budget, o
  <2> QED
    BY <1>1, <1>2, <1>3, <1>4, <2>1, <2>2, RenewedFields DEF Readable, FinalEvents
<1>a. ASSUME InLease(k)
      PROVE  /\ o.status = "running" /\ o.lease > clock /\ o.seq + 1 <= MaxEvents
             /\ o.beat <= clock
  BY <1>a, <1>3 DEF InLease, Running, InTime, o
<1>10. CASE RowFailed(k)
  <2>1. InLease(k) /\ ops'[k] = Failed(o)
    BY <1>10 DEF RowFailed, o
  <2> QED
    BY <1>1, <1>2, <1>3, <1>4, <1>a, <2>1, FailedFields DEF Readable, FinalEvents
<1>11. CASE RowCompleted(k)
  <2>1. PICK n \in Nat \ {0} : ops'[k] = Completed(o, draft.rev + 1, Output(k, n))
    BY <1>11 DEF RowCompleted, o
  <2>2. InLease(k) /\ draft.rev = o.baseRev
    BY <1>11 DEF RowCompleted, OnBase, o
  <2>3. Output(k, n).n = n
    BY DEF Output
  <2> QED
    BY <1>1, <1>2, <1>3, <1>4, <1>a, <2>1, <2>2, <2>3, CompletedFields
       DEF Readable, FinalEvents
<1>12. CASE RowCancelled(k)
  <2>1. InLease(k)
    BY <1>12 DEF RowCancelled
  <2>2. CASE o.kind = "generate" /\ o.partial # 0
    <3>1. /\ ops'[k] = Cancelled(o, draft.rev + 1, Output(k, o.partial))
          /\ draft.rev = o.baseRev
      BY <1>12, <2>2 DEF RowCancelled, OnBase, o
    <3> QED
      BY <1>1, <1>2, <1>3, <1>4, <1>a, <2>1, <2>2, <3>1, CancelledFields
         DEF Readable, FinalEvents
  <2>3. CASE ~(o.kind = "generate" /\ o.partial # 0)
    <3>1. ops'[k] = Cancelled(o, 0, Empty)
      BY <1>12, <2>3 DEF RowCancelled, o
    <3> QED
      BY <1>1, <1>2, <1>3, <1>4, <1>a, <2>1, <2>3, <3>1, CancelledFields
         DEF Readable, FinalEvents
  <2> QED
    BY <2>2, <2>3
<1> QED
  BY <1>6, <1>7, <1>8, <1>9, <1>10, <1>11, <1>12 DEF RowStep

-----------------------------------------------------------------------------
(* Event logs can be replayed.                                             *)

\* An event that is not the first goes to the end of a log that goes on.
LEMMA LogGrows ==
  ASSUME NEW e \in Seq(EventType), NEW type \in EventType, type # "started",
         Len(e) >= 1, \A i \in 1..Len(e) : e[i] = "started" <=> i = 1,
         \A i \in 1..Len(e) : e[i] \notin FinalEvents,
         NEW o, o.seq = Len(e) + 1,
         type \in FinalEvents => o.status = type,
         o.status \in FinalEvents => o.status = type
  PROVE  Whole(Append(e, type), o)
<1> DEFINE f == Append(e, type)
<1>1. Len(e) \in Nat /\ Len(f) = Len(e) + 1
  OBVIOUS
<1>2. f[Len(e) + 1] = type
  OBVIOUS
<1>3. ASSUME NEW i \in 1..Len(e) PROVE f[i] = e[i]
  OBVIOUS
<1> HIDE DEF f
<1>4. ASSUME NEW i \in 1..Len(f)
      PROVE  /\ f[i] = "started" <=> i = 1
             /\ f[i] \in FinalEvents => i = Len(f) /\ f[i] = o.status
  <2>1. CASE i \in 1..Len(e)
    BY <2>1, <1>1, <1>3
  <2>2. CASE i = Len(e) + 1
    BY <2>2, <1>1, <1>2
  <2> QED
    BY <1>1, <2>1, <2>2
<1>5. Whole(f, o)
  BY <1>1, <1>2, <1>4 DEF Whole
<1> QED
  BY <1>5 DEF f

LEMMA RowWhole ==
  ASSUME IInv, LogInv, NEW k \in Keys, RowStep(k)
  PROVE  Whole(events'[k], ops'[k])
<1> DEFINE o == ops[k]
           e == events[k]
<1>1. o \in Op /\ e \in Seq(EventType)
  BY DEF IInv, TypeOK
<1>2. Readable(o) /\ Whole(e, o) /\ InTime(k)
  BY DEF LogInv
<1>3. o.seq \in Nat
  BY <1>1 DEF Op
<1>a. ASSUME Running(k)
      PROVE  /\ o.status = "running" /\ Len(e) = o.seq /\ Len(e) >= 1
             /\ \A i \in 1..Len(e) : e[i] = "started" <=> i = 1
             /\ \A i \in 1..Len(e) : e[i] \notin FinalEvents
  <2>1. o.status = "running"
    BY <1>a DEF Running
  <2>2. Len(e) = o.seq /\ o.seq >= 1
    BY <1>2, <2>1 DEF Whole, Readable
  <2>3. \A i \in 1..Len(e) : e[i] = "started" <=> i = 1
    BY <1>2 DEF Whole
  <2>4. \A i \in 1..Len(e) : e[i] \notin FinalEvents
    BY <1>2, <2>1 DEF Whole, FinalEvents
  <2> QED
    BY <2>1, <2>2, <2>3, <2>4
<1> HIDE DEF o, e
<1>b. {"delta", "heartbeat", "failed", "completed", "cancelled"} \subseteq
        EventType \ {"started"}
  BY DEF EventType
<1>4. CASE RowStays(k)
  BY <1>2, <1>4 DEF RowStays, o, e
<1>5. CASE RowReserved(k)
  <2>1. ops'[k].status = "running" /\ ops'[k].seq = 1
    BY <1>5 DEF RowReserved, Reserved
  <2>2. e = <<>>
    <3>1. o.status = "unreserved"
      BY <1>5 DEF RowReserved, o
    <3>2. o = Unreserved
      BY <1>2, <3>1 DEF InTime, o
    <3>3. Len(e) = 0
      BY <1>2, <3>2 DEF Whole, Unreserved
    <3> QED
      BY <1>1, <3>3
  <2>3. events'[k] = <<"started">>
    BY <1>5, <2>2 DEF RowReserved, e
  <2>4. Len(events'[k]) = 1 /\ events'[k][1] = "started"
    BY <2>3
  <2> QED
    BY <2>1, <2>4 DEF Whole, FinalEvents
<1>6. CASE RowExpired(k)
  <2>1. /\ Running(k) /\ ops'[k] = Expired(o) /\ events'[k] = e
    BY <1>6 DEF RowExpired, o, e
  <2>2. ops'[k].seq = o.seq /\ ops'[k].status = "expired"
    BY <1>1, <2>1, ExpiredFields
  <2> QED
    BY <1>a, <2>1, <2>2 DEF Whole, FinalEvents
<1>7. CASE RowRenewed(k)
  <2>1. PICK n : ops'[k] = Renewed(o, worker[k].now, n)
    BY <1>7 DEF RowRenewed, o
  <2>2. PICK type \in {"delta", "heartbeat"} : events'[k] = Append(e, type)
    BY <1>7 DEF RowRenewed, e
  <2>3. Running(k)
    BY <1>7 DEF RowRenewed
  <2>4. ops'[k].seq = o.seq + 1 /\ ops'[k].status = "running"
    BY <1>1, <1>a, <2>1, <2>3, RenewedFields
  <2> QED
    <3>1. /\ type \in EventType /\ type # "started" /\ type \notin FinalEvents
          /\ ops'[k].status \notin FinalEvents
      BY <1>b, <2>4 DEF FinalEvents
    <3> QED
      BY <1>1, <1>a, <2>2, <2>3, <2>4, <3>1, LogGrows
<1>c. ASSUME InLease(k) PROVE Running(k)
  BY <1>c DEF InLease
<1>8. CASE RowFailed(k)
  <2>1. InLease(k) /\ ops'[k] = Failed(o) /\ events'[k] = Append(e, "failed")
    BY <1>8 DEF RowFailed, o, e
  <2>2. ops'[k].seq = o.seq + 1 /\ ops'[k].status = "failed"
    BY <1>1, <2>1, FailedFields
  <2> QED
    BY <1>1, <1>a, <1>b, <1>c, <2>1, <2>2, LogGrows
<1>9. CASE RowCompleted(k)
  <2>1. InLease(k) /\ events'[k] = Append(e, "completed")
    BY <1>9 DEF RowCompleted, e
  <2>2. PICK n : ops'[k] = Completed(o, draft.rev + 1, Output(k, n))
    BY <1>9 DEF RowCompleted, o
  <2>3. ops'[k].seq = o.seq + 1 /\ ops'[k].status = "completed"
    BY <1>1, <2>2, CompletedFields
  <2> QED
    BY <1>1, <1>a, <1>b, <1>c, <2>1, <2>3, LogGrows
<1>10. CASE RowCancelled(k)
  <2>1. InLease(k) /\ events'[k] = Append(e, "cancelled")
    BY <1>10 DEF RowCancelled, e
  <2>2. PICK rev, text : ops'[k] = Cancelled(o, rev, text)
    BY <1>10 DEF RowCancelled, o
  <2>3. ops'[k].seq = o.seq + 1 /\ ops'[k].status = "cancelled"
    BY <1>1, <2>2, CancelledFields
  <2> QED
    BY <1>1, <1>a, <1>b, <1>c, <2>1, <2>3, LogGrows
<1> QED
  BY <1>4, <1>5, <1>6, <1>7, <1>8, <1>9, <1>10 DEF RowStep

\* Time goes on, and a sample is of the time it is taken at.
LEMMA SamplesInTime ==
  ASSUME TypeOK, Next, NEW k \in Keys, worker[k].now <= clock
  PROVE  /\ clock' \in Nat /\ clock <= clock'
         /\ worker'[k].now <= clock'
<1> USE DEF TypeOK
<1>1. clock' \in {clock, clock + 1}
  <2>1. ASSUME NEW j \in Keys, OperationStep(j) PROVE clock' = clock
    BY <2>1 DEF OperationStep, Read, Replay, Cancel, ExpireElapsed, CancelEmpty,
       CancelPartial, CancelDrifted, Reserve, Launch
  <2>2. ASSUME NEW j \in Keys, WorkerStep(j) PROVE clock' = clock
    BY <2>2 DEF WorkerStep, Sample, AppendDelta, AppendHeartbeat, AppendRefused,
       ProviderFails, SettleMoot, SettleSuccess, SettleFailure, WorkerLost
  <2>3. CASE AuthorStep
    BY <2>3 DEF AuthorStep, SaveWorkingDraft, SaveCandidate, LoadCandidate,
       UndoLocal, ApplyLocalPreview
  <2>4. CASE EnvironmentStep
    BY <2>4 DEF EnvironmentStep, Tick, Shutdown, AuthorityChange, PublishReview,
       CloseReview, Finalize
  <2> QED
    BY <2>1, <2>2, <2>3, <2>4 DEF Next
<1>2. worker'[k].now \in {0, worker[k].now, clock}
  <2>1. ASSUME NEW j \in Keys, OperationStep(j)
        PROVE  worker'[k].now \in {0, worker[k].now, clock}
    <3>1. CASE worker' = worker
      BY <3>1
    <3>2. ASSUME NEW pc, worker' = [worker EXCEPT ![j] = At(pc)]
          PROVE  worker'[k].now \in {0, worker[k].now, clock}
      BY <3>2 DEF At
    <3> QED
      <4>1. CASE Launch(j)
        BY <3>2, <4>1 DEF Launch
      <4>2. CASE ~Launch(j)
        BY <2>1, <3>1, <3>2, <4>2 DEF OperationStep, Read, Replay, Cancel,
           ExpireElapsed, CancelEmpty, CancelPartial, CancelDrifted, Reserve
      <4> QED
        BY <4>1, <4>2
  <2>2. ASSUME NEW j \in Keys, WorkerStep(j)
        PROVE  worker'[k].now \in {0, worker[k].now, clock}
    BY <2>2 DEF WorkerStep, Sample, AppendDelta, AppendHeartbeat, AppendRefused,
       ProviderFails, SettleMoot, SettleSuccess, SettleFailure, WorkerLost, Stop,
       Idle, At
  <2>3. CASE AuthorStep
    BY <2>3 DEF AuthorStep, SaveWorkingDraft, SaveCandidate, LoadCandidate,
       UndoLocal, ApplyLocalPreview
  <2>4. CASE EnvironmentStep
    BY <2>4 DEF EnvironmentStep, Tick, Shutdown, AuthorityChange, PublishReview,
       CloseReview, Finalize, Idle
  <2> QED
    BY <2>1, <2>2, <2>3, <2>4 DEF Next
<1> QED
  BY <1>1, <1>2

LEMMA RowInTime ==
  ASSUME IInv, LogInv, Next, NEW k \in Keys
  PROVE  InTime(k)'
<1>1. ops[k] \in Op /\ clock \in Nat /\ worker[k].now \in Nat /\ ops[k].beat \in Nat
  BY DEF IInv, TypeOK, Op
<1>2. InTime(k)
  BY DEF LogInv
<1>3. clock' \in Nat /\ clock <= clock' /\ worker'[k].now <= clock'
  BY <1>2, SamplesInTime DEF IInv, InTime
<1>4. \/ ops'[k] = ops[k]
      \/ ops'[k].status = "running" /\ ops'[k].beat \in {clock, worker[k].now}
      \/ ops'[k].status \in Terminal
  <2>1. CASE RowRenewed(k)
    BY <1>1, <2>1, RenewedFields DEF RowRenewed, Running
  <2>2. CASE RowReserved(k)
    BY <2>2 DEF RowReserved, Reserved
  <2>3. CASE RowStays(k)
    BY <2>3 DEF RowStays
  <2>4. CASE RowExpired(k) \/ RowFailed(k) \/ RowCompleted(k) \/ RowCancelled(k)
    BY <1>1, <2>4, ExpiredFields, FailedFields, CompletedFields, CancelledFields
       DEF RowExpired, RowFailed, RowCompleted, RowCancelled, Terminal
  <2> QED
    BY <2>1, <2>2, <2>3, <2>4, Rows DEF RowStep
<1> QED
  BY <1>1, <1>2, <1>3, <1>4 DEF InTime, Terminal

\* The draft's revision only grows.
LEMMA RevisionGrows ==
  ASSUME TypeOK, Next
  PROVE  draft'.rev \in {draft.rev, draft.rev + 1}
<1>1. CASE draft' = draft
  BY <1>1
<1>2. CASE draft' # draft
  <2>1. ASSUME NEW k \in Keys, CancelPartial(k) \/ SettleSuccess(k)
                                \/ UndoLocal(k) \/ ApplyLocalPreview(k)
        PROVE  draft'.rev = draft.rev + 1
    BY <1>2, <2>1 DEF CancelPartial, SettleSuccess, UndoLocal, ApplyLocalPreview,
       Replace
  <2>2. ASSUME NEW c \in candidates, LoadCandidate(c)
        PROVE  draft'.rev = draft.rev + 1
    BY <2>2 DEF LoadCandidate, Replace
  <2>3. ASSUME NEW text \in Text, SaveWorkingDraft(text)
        PROVE  draft'.rev = draft.rev + 1
    BY <2>3 DEF SaveWorkingDraft, TypeOK
  <2> QED
    BY <1>2, <2>1, <2>2, <2>3, WritersOfDraft
<1> QED
  BY <1>1, <1>2

LEMMA LogStep ==
  ASSUME IInv, LogInv, Next
  PROVE  LogInv'
<1>1. ASSUME NEW k \in Keys
      PROVE  Readable(ops'[k]) /\ Whole(events'[k], ops'[k]) /\ InTime(k)'
  BY Rows, RowReadable, RowWhole, RowInTime
<1>2. draft'.rev > 0
  BY RevisionGrows DEF IInv, TypeOK, LogInv
<1>3. \A k \in Keys : (Readable(ops[k]) /\ Whole(events[k], ops[k]))'
  BY <1>1 DEF Readable, Whole
<1> QED
  BY <1>1, <1>2, <1>3 DEF LogInv

-----------------------------------------------------------------------------
(* A review is adjusted once.                                              *)

\* A review is closed or makes room for the next one; it never opens again.
LEMMA ReviewMoves ==
  ASSUME TypeOK, Next
  PROVE  \/ review' = review
         \/ review' = [review EXCEPT !.open = FALSE]
         \/ review'.id = review.id + 1 /\ ops' = ops
<1>1. ASSUME NEW j \in Keys, OperationStep(j)
      PROVE  review' = review \/ review' = [review EXCEPT !.open = FALSE]
  BY <1>1 DEF OperationStep, Read, Replay, Cancel, ExpireElapsed, CancelEmpty,
     CancelPartial, CancelDrifted, Reserve, Launch, InvalidateReview
<1>2. ASSUME NEW j \in Keys, WorkerStep(j)
      PROVE  review' = review \/ review' = [review EXCEPT !.open = FALSE]
  BY <1>2 DEF WorkerStep, Sample, AppendDelta, AppendHeartbeat, AppendRefused,
     ProviderFails, SettleMoot, SettleSuccess, SettleFailure, WorkerLost,
     InvalidateReview
<1>3. CASE AuthorStep
  BY <1>3 DEF AuthorStep, SaveWorkingDraft, SaveCandidate, LoadCandidate,
     UndoLocal, ApplyLocalPreview
<1>4. CASE EnvironmentStep
  BY <1>4 DEF EnvironmentStep, Tick, Shutdown, AuthorityChange, PublishReview,
     CloseReview, Finalize
<1> QED
  BY <1>1, <1>2, <1>3, <1>4 DEF Next

\* What a step does to the review and the result of one operation.
Keeps(k) ==
  /\ ops'[k].review = ops[k].review /\ ops'[k].kind = ops[k].kind
  /\ ops'[k].resultRev = ops[k].resultRev
Begins(k) ==
  /\ ops[k].resultRev = 0 /\ ops'[k].resultRev = 0
  /\ ops'[k].review \in {0, review.id}
  /\ ops'[k].review # 0 => ops'[k].kind = "generate"
Results(k) ==
  /\ Running(k)
  /\ ops'[k].review = ops[k].review /\ ops'[k].kind = ops[k].kind
  /\ Adjusts(k)

LEMMA ResultMoves ==
  ASSUME IInv, LogInv, Next, NEW k \in Keys
  PROVE  Keeps(k) \/ Begins(k) \/ Results(k)
<1>1. ops[k] \in Op
  BY DEF IInv, TypeOK
<1>2. CASE RowStays(k)
  BY <1>2 DEF RowStays, Keeps
<1>3. CASE RowReserved(k)
  <2>1. ops[k] = Unreserved
    BY <1>3 DEF RowReserved, LogInv, InTime
  <2>2. PICK kind \in Kinds, r \in {0, review.id} :
          ops'[k] = Reserved(kind, r) /\ (r # 0 => kind = "generate")
    BY <1>3 DEF RowReserved
  <2> QED
    BY <2>1, <2>2 DEF Reserved, Unreserved, Begins
<1>4. CASE RowExpired(k) \/ RowRenewed(k) \/ RowFailed(k)
  BY <1>1, <1>4, ExpiredFields, RenewedFields, FailedFields
     DEF RowExpired, RowRenewed, RowFailed, Keeps
<1>5. CASE RowCompleted(k)
  <2>1. PICK n : ops'[k] = Completed(ops[k], draft.rev + 1, Output(k, n))
    BY <1>5 DEF RowCompleted
  <2> QED
    BY <1>1, <1>5, <2>1, CompletedFields DEF RowCompleted, InLease, Results
<1>6. CASE RowCancelled(k)
  <2>1. CASE ops[k].kind = "generate" /\ ops[k].partial # 0
    BY <1>1, <1>6, <2>1, CancelledFields DEF RowCancelled, InLease, Results
  <2>2. CASE ~(ops[k].kind = "generate" /\ ops[k].partial # 0)
    <3>1. ops'[k].resultRev = 0 /\ Running(k)
      BY <1>1, <1>6, <2>2, CancelledFields DEF RowCancelled, InLease
    <3>2. ops[k].resultRev = 0
      BY <3>1 DEF LogInv, Readable, Running
    <3> QED
      BY <1>1, <1>6, <2>2, <3>1, <3>2, CancelledFields DEF RowCancelled, Keeps
  <2> QED
    BY <2>1, <2>2
<1> QED
  BY <1>2, <1>3, <1>4, <1>5, <1>6, Rows DEF RowStep

LEMMA ReviewStep ==
  ASSUME IInv, LogInv, ReviewBound, ReviewAdjustedOnce, Next
  PROVE  ReviewBound' /\ ReviewAdjustedOnce'
<1>1. /\ review \in [id : Nat, open : BOOLEAN, text : Text]
      /\ \A k \in Keys : ops[k].review \in Nat
  BY DEF IInv, TypeOK, Op
<1>2. /\ review'.id \in {review.id, review.id + 1}
      /\ review'.id # review.id => ops' = ops
  BY <1>1, ReviewMoves DEF IInv
<1>3. ReviewBound'
  <2>1. ASSUME NEW k \in Keys
        PROVE  /\ ops'[k].review <= review'.id
               /\ ops'[k].review # 0 => ops'[k].kind = "generate"
    BY <1>1, <1>2, ResultMoves DEF ReviewBound, Keeps, Begins, Results
  <2> QED
    BY <2>1 DEF ReviewBound
<1>4. review'.open => review'.id = review.id + 1 \/ review' = review
  BY <1>1, ReviewMoves DEF IInv
<1>5. ASSUME NEW k \in Keys, ops'[k].review # 0, ops'[k].resultRev # 0
      PROVE  /\ ~(review'.open /\ review'.id = ops'[k].review)
             /\ \A j \in Keys \ {k} :
                  ops'[j].review = ops'[k].review => ops'[j].resultRev = 0
  <2>1. CASE Results(k)
    <3>1. ReviewCurrent(ops[k].review) /\ ~review'.open
      BY <1>5, <2>1 DEF Results, Adjusts, ReviewBound
    <3>2. ASSUME NEW j \in Keys \ {k}, ops'[j].review = ops'[k].review,
                 ops'[j].resultRev # 0
          PROVE  FALSE
      <4>1. ~Running(j)
        BY <2>1, ConstantsAssumption DEF Results, IInv, SlotInv, ActiveSlot
      <4>2. Keeps(j)
        BY <3>2, <4>1, ResultMoves DEF Begins, Results
      <4>3. ops[j].review = ops[k].review /\ ops[j].resultRev # 0 /\ ops[j].review # 0
        BY <1>5, <2>1, <3>2, <4>2 DEF Keeps, Results
      <4>4. ~(review.open /\ review.id = ops[j].review)
        BY <4>3 DEF ReviewAdjustedOnce
      <4> QED
        BY <3>1, <4>3, <4>4, Zenon DEF ReviewCurrent
    <3> QED
      BY <3>1, <3>2, Zenon
  <2>2. CASE ~Results(k)
    <3>1. Keeps(k)
      BY <1>5, <2>2, ResultMoves DEF Begins
    <3>2. ops[k].review # 0 /\ ops[k].resultRev # 0 /\ ops'[k].review = ops[k].review
      BY <1>5, <3>1 DEF Keeps
    <3>3. ~(review.open /\ review.id = ops[k].review)
      BY <3>2 DEF ReviewAdjustedOnce
    <3>4. ~(review'.open /\ review'.id = ops'[k].review)
      <4>1. ops[k].review <= review.id
        BY DEF ReviewBound
      <4>2. review'.id = review.id + 1 => review'.id # ops'[k].review
        BY <1>1, <3>2, <4>1
      <4> QED
        BY <1>4, <3>2, <3>3, <4>2, Zenon
    <3>5. ASSUME NEW j \in Keys \ {k}, ops'[j].review = ops'[k].review,
                 ops'[j].resultRev # 0
          PROVE  FALSE
      <4>1. CASE Results(j)
        <5>1. ReviewCurrent(ops[j].review) /\ ops[j].review = ops[k].review
          BY <3>2, <3>5, <4>1 DEF Results, Adjusts, ReviewBound
        <5> QED
          BY <3>3, <5>1, Zenon DEF ReviewCurrent
      <4>2. CASE Keeps(j)
        <5>1. ops[j].review = ops[k].review /\ ops[j].resultRev # 0
          BY <3>2, <3>5, <4>2 DEF Keeps
        <5> QED
          BY <3>2, <5>1 DEF ReviewAdjustedOnce
      <4>3. CASE Begins(j)
        BY <3>5, <4>3 DEF Begins
      <4> QED
        BY <4>1, <4>2, <4>3, ResultMoves
    <3> QED
      BY <3>4, <3>5, Zenon
  <2> QED
    BY <2>1, <2>2
<1>6. ReviewAdjustedOnce'
  BY <1>5, Zenon DEF ReviewAdjustedOnce
<1> QED
  BY <1>3, <1>6

-----------------------------------------------------------------------------
(* A result reaches the draft once.                                        *)

\* A row that has a result is left alone.
LEMMA EndedStays ==
  ASSUME IInv, Next, NEW k \in Keys, ops[k].status \in {"completed", "cancelled"}
  PROVE  ops'[k] = ops[k]
BY Rows DEF RowStep, RowStays, RowReserved, RowExpired, RowRenewed, RowFailed,
   RowCompleted, RowCancelled, InLease, Running

\* The result of operation k lands on the draft it is about.
Lands(k) ==
  /\ OnBase(k)
  /\ \E text \in Text :
       /\ Replace(text, FromOperation(k, draft.rev), ops[k].kind, k)
       /\ ops'[k].resultText = text
  /\ ops'[k].resultRev = draft.rev + 1
  /\ ops'[k].status \in {"completed", "cancelled"}
  /\ ops'[k].baseRev = ops[k].baseRev /\ ops'[k].baseText = ops[k].baseText

\* The author saves: the payload and the recovery rows stay.
Saves ==
  /\ ops' = ops /\ recovery' = recovery
  /\ draft'.rev = draft.rev + 1 /\ draft'.source = draft.source
Loads ==
  /\ ops' = ops
  /\ \E text : Replace(text, FromCandidate(draft.rev), "candidate_load", NoKey)
Lies == draft' = draft /\ recovery' = recovery

LEMMA ResultLands ==
  ASSUME IInv, NEW k \in Keys, NEW o \in Op, NEW text \in Text, OnBase(k),
         Replace(text, FromOperation(k, draft.rev), ops[k].kind, k),
         ops' = [ops EXCEPT ![k] = o],
         o.resultText = text, o.resultRev = draft.rev + 1,
         o.status \in {"completed", "cancelled"},
         o.baseRev = ops[k].baseRev, o.baseText = ops[k].baseText
  PROVE  Lands(k)
<1>1. ops'[k] = o
  BY DEF IInv, TypeOK
<1> QED
  BY <1>1 DEF Lands

LEMMA DraftMoves ==
  ASSUME IInv, LogInv, Next
  PROVE  \/ Lies \/ Saves \/ Loads
         \/ \E k \in Keys : Lands(k) \/ UndoLocal(k)
<1> USE DEF IInv
<1>1. ASSUME NEW k \in Keys, OperationStep(k)
      PROVE  Lies \/ Lands(k)
  <2>1. CASE CancelPartial(k)
    <3> DEFINE text == Output(k, ops[k].partial)
    <3>1. ops[k] \in Op /\ clock \in Nat /\ draft.rev + 1 \in Nat
      BY DEF TypeOK
    <3>2. text \in Text
      BY <3>1, OutputType DEF Op
    <3>3. Cancelled(ops[k], draft.rev + 1, text) \in Op
      BY <3>1, <3>2, RowTypes
    <3>4. /\ OnBase(k) /\ Replace(text, FromOperation(k, draft.rev), ops[k].kind, k)
          /\ ops' = [ops EXCEPT ![k] = Cancelled(ops[k], draft.rev + 1, text)]
      BY <2>1 DEF CancelPartial, Settle
    <3> HIDE DEF text
    <3>5. PICK o \in Op : o = Cancelled(ops[k], draft.rev + 1, text)
      BY <3>3
    <3>6. /\ o.resultText = text /\ o.resultRev = draft.rev + 1
          /\ o.status = "cancelled"
          /\ o.baseRev = ops[k].baseRev /\ o.baseText = ops[k].baseText
      BY <3>1, <3>5, CancelledFields
    <3>7. ops' = [ops EXCEPT ![k] = o]
      BY <3>4, <3>5
    <3> QED
      BY <3>2, <3>4, <3>6, <3>7, ResultLands
  <2>2. CASE ~CancelPartial(k)
    BY <1>1, <2>2 DEF OperationStep, Read, Replay, Cancel, ExpireElapsed,
       CancelEmpty, CancelDrifted, Reserve, Launch, Lies
  <2> QED
    BY <2>1, <2>2
<1>2. ASSUME NEW k \in Keys, WorkerStep(k)
      PROVE  Lies \/ Lands(k)
  <2>1. CASE SettleSuccess(k) /\ ops[k].kind # "preview"
    <3> DEFINE n == IF ops[k].partial = 0 THEN 1 ELSE ops[k].partial
               text == Output(k, n)
    <3>1. ops[k] \in Op /\ clock \in Nat /\ draft.rev + 1 \in Nat /\ n \in Nat
      <4>1. ops[k] \in Op /\ clock \in Nat /\ draft.rev + 1 \in Nat
        BY DEF TypeOK
      <4> QED
        BY <4>1 DEF Op
    <3>2. text \in Text
      BY <3>1, OutputType
    <3>3. Completed(ops[k], draft.rev + 1, text) \in Op
      BY <3>1, <3>2, RowTypes
    <3>4. /\ OnBase(k) /\ Replace(text, FromOperation(k, draft.rev), ops[k].kind, k)
          /\ ops' = [ops EXCEPT ![k] = Completed(ops[k], draft.rev + 1, text)]
      BY <2>1 DEF SettleSuccess, Settle, BasisHolds
    <3> HIDE DEF text, n
    <3>5. PICK o \in Op : o = Completed(ops[k], draft.rev + 1, text)
      BY <3>3
    <3>6. /\ o.resultText = text /\ o.resultRev = draft.rev + 1
          /\ o.status = "completed"
          /\ o.baseRev = ops[k].baseRev /\ o.baseText = ops[k].baseText
      BY <3>1, <3>5, CompletedFields
    <3>7. ops' = [ops EXCEPT ![k] = o]
      BY <3>4, <3>5
    <3> QED
      BY <3>2, <3>4, <3>6, <3>7, ResultLands
  <2>2. CASE ~(SettleSuccess(k) /\ ops[k].kind # "preview")
    BY <1>2, <2>2 DEF WorkerStep, Sample, AppendDelta, AppendHeartbeat,
       AppendRefused, ProviderFails, SettleMoot, SettleSuccess, SettleFailure,
       WorkerLost, Lies
  <2> QED
    BY <2>1, <2>2
<1>3. CASE AuthorStep
  <2>1. ASSUME NEW text, SaveWorkingDraft(text) PROVE Saves
    BY <2>1 DEF SaveWorkingDraft, Saves, TypeOK
  <2>2. ASSUME NEW f \in FreezeKeys, SaveCandidate(f) PROVE Lies
    BY <2>2 DEF SaveCandidate, Lies
  <2>3. ASSUME NEW c \in candidates, LoadCandidate(c) PROVE Loads
    BY <2>3 DEF LoadCandidate, Loads
  <2>4. ASSUME NEW k \in Keys, ApplyLocalPreview(k) PROVE Lands(k)
    <3>1. ops' = ops /\ ops[k].status = "completed" /\ OnBase(k)
      BY <2>4 DEF ApplyLocalPreview
    <3>2. ops[k].resultRev = draft.rev + 1
      BY <3>1 DEF LogInv, Readable, OnBase
    <3>3. ops[k].resultText \in Text
      BY DEF TypeOK, Op
    <3> QED
      BY <2>4, <3>1, <3>2, <3>3 DEF ApplyLocalPreview, Lands
  <2> QED
    BY <1>3, <2>1, <2>2, <2>3, <2>4 DEF AuthorStep
<1>4. CASE EnvironmentStep
  BY <1>4 DEF EnvironmentStep, Tick, Shutdown, AuthorityChange, PublishReview,
     CloseReview, Finalize, Lies
<1> QED
  BY <1>1, <1>2, <1>3, <1>4 DEF Next

\* An operation that is still about the draft has no recovery row yet.
LEMMA NoRowsYet ==
  ASSUME IInv, RecoveryOwned, NEW k \in Keys, OnBase(k), NEW r \in recovery
  PROVE  r.op # k
<1>1. draft.rev \in Nat /\ r.rev \in Nat /\ r.role \in {"before", "after"}
  BY DEF IInv, TypeOK, Row
<1>2. IF r.role = "before" THEN r.rev < draft.rev ELSE r.rev <= draft.rev
  BY DEF IInv, RecoverySlotsFree
<1>3. draft.rev = ops[k].baseRev
  BY DEF OnBase
<1> QED
  BY <1>1, <1>2, <1>3 DEF RecoveryOwned

\* The rows that a rewrite adds.
LEMMA NewRows ==
  ASSUME NEW text, NEW source, NEW reason, NEW k, Replace(text, source, reason, k)
  PROVE  \E b, a :
           /\ recovery' = recovery \cup {b, a}
           /\ b.role = "before" /\ b.op = k /\ b.rev = draft.rev
           /\ b.text = draft.text
           /\ a.role = "after" /\ a.op = k /\ a.rev = draft.rev + 1
           /\ draft'.rev = draft.rev + 1 /\ draft'.text = text
           /\ draft'.source = source
<1> DEFINE b == Before(reason, k)
           a == After(reason, k, text)
<1>1. b.role = "before" /\ b.op = k /\ b.rev = draft.rev /\ b.text = draft.text
  BY DEF Before
<1>2. a.role = "after" /\ a.op = k /\ a.rev = draft.rev + 1
  BY DEF After
<1>3. /\ recovery' = recovery \cup {b, a}
      /\ draft'.rev = draft.rev + 1 /\ draft'.text = text /\ draft'.source = source
  BY DEF Replace
<1> HIDE DEF a, b
<1> QED
  BY <1>1, <1>2, <1>3

LEMMA RecoveryStep ==
  ASSUME IInv, LogInv, RecoveryOwned, Next
  PROVE  RecoveryOwned'
<1>1. \A k \in Keys : ops[k] \in Op
  BY DEF IInv, TypeOK
<1>2. ASSUME NEW r \in recovery, r.op \in Keys
      PROVE  /\ ops'[r.op].status \in {"completed", "cancelled"}
             /\ r.role = "after" => r.rev = ops'[r.op].baseRev + 1
             /\ r.role = "before" => r.rev >= ops'[r.op].baseRev
             /\ r.role = "before" /\ r.rev = ops'[r.op].baseRev =>
                  r.text = ops'[r.op].baseText
  <2>1. ops'[r.op] = ops[r.op]
    BY <1>2, EndedStays DEF RecoveryOwned
  <2> QED
    BY <1>2, <2>1 DEF RecoveryOwned
<1>3. CASE Lies \/ Saves
  BY <1>2, <1>3 DEF Lies, Saves, RecoveryOwned
<1>4. CASE Loads
  <2>1. PICK b, a : recovery' = recovery \cup {b, a} /\ b.op = NoKey /\ a.op = NoKey
    BY <1>4, NewRows DEF Loads
  <2> QED
    BY <1>2, <2>1, ConstantsAssumption DEF RecoveryOwned
<1>5. ASSUME NEW k \in Keys, UndoLocal(k)
      PROVE  RecoveryOwned'
  <2> DEFINE b == Before("undo_local", k)
  <2>1. /\ recovery' = recovery \cup {b} /\ ops' = ops
        /\ ops[k].status = "completed" /\ ops[k].resultRev = draft.rev
    BY <1>5 DEF UndoLocal
  <2>2. b.role = "before" /\ b.op = k /\ b.rev = draft.rev
    BY DEF Before
  <2>3. draft.rev = ops[k].baseRev + 1 /\ ops[k].baseRev \in Nat
    BY <1>1, <2>1 DEF LogInv, Readable, Op
  <2> HIDE DEF b
  <2> QED
    BY <1>2, <2>1, <2>2, <2>3 DEF RecoveryOwned
<1>6. ASSUME NEW k \in Keys, Lands(k)
      PROVE  RecoveryOwned'
  <2>1. PICK b, a :
          /\ recovery' = recovery \cup {b, a}
          /\ b.role = "before" /\ b.op = k /\ b.rev = draft.rev
          /\ b.text = draft.text
          /\ a.role = "after" /\ a.op = k /\ a.rev = draft.rev + 1
    BY <1>6, NewRows DEF Lands
  <2>2. /\ draft.rev = ops'[k].baseRev /\ draft.text = ops'[k].baseText
        /\ ops'[k].status \in {"completed", "cancelled"}
        /\ draft.rev \in Nat
    BY <1>6 DEF Lands, OnBase, IInv, TypeOK
  <2> QED
    BY <1>2, <2>1, <2>2 DEF RecoveryOwned
<1> QED
  BY <1>3, <1>4, <1>5, <1>6, DraftMoves

LEMMA AppliedStep ==
  ASSUME IInv, LogInv, RecoveryOwned, AppliedAtMostOnce, Next
  PROVE  AppliedAtMostOnce'
<1> DEFINE Once(rows) ==
             \A r, s \in rows : r.role = "after" /\ s.role = "after" /\ r.op = s.op
                                  /\ r.op # NoKey => r = s
           Rows2(rows, k) == {b \in rows : b.op = k /\ b.role = "before"}
           Undoable(d, rows) ==
             \A k \in Keys : d.source.by = "operation" /\ d.source.op = k
                               => Cardinality(Rows2(rows, k)) = 1
<1>1. Once(recovery) /\ Undoable(draft, recovery)
  BY DEF AppliedAtMostOnce
<1>2. SUFFICES Once(recovery') /\ Undoable(draft', recovery')
  BY DEF AppliedAtMostOnce
<1>3. CASE Lies \/ Saves
  BY <1>1, <1>3 DEF Lies, Saves
<1>4. CASE Loads
  <2>1. PICK b, a : /\ recovery' = recovery \cup {b, a}
                    /\ b.role = "before" /\ a.op = NoKey
                    /\ draft'.source = FromCandidate(draft.rev)
    BY <1>4, NewRows DEF Loads
  <2>2. draft'.source.by # "operation"
    BY <2>1 DEF FromCandidate
  <2> QED
    BY <1>1, <2>1, <2>2
<1>5. ASSUME NEW k \in Keys, UndoLocal(k)
      PROVE  Once(recovery') /\ Undoable(draft', recovery')
  <2>1. /\ recovery' = recovery \cup {Before("undo_local", k)}
        /\ draft'.source = FromUndo(k, draft.rev)
    BY <1>5 DEF UndoLocal
  <2>2. Before("undo_local", k).role = "before" /\ draft'.source.by # "operation"
    BY <2>1 DEF Before, FromUndo
  <2> QED
    BY <1>1, <2>1, <2>2
<1>6. ASSUME NEW k \in Keys, Lands(k)
      PROVE  Once(recovery') /\ Undoable(draft', recovery')
  <2>1. PICK b, a :
          /\ recovery' = recovery \cup {b, a}
          /\ b.role = "before" /\ b.op = k
          /\ a.role = "after" /\ a.op = k
          /\ draft'.source = FromOperation(k, draft.rev)
    BY <1>6, NewRows DEF Lands
  <2>2. \A r \in recovery : r.op # k
    BY <1>6, NoRowsYet DEF Lands
  <2>3. Once(recovery')
    BY <1>1, <2>1, <2>2
  <2>4. draft'.source.op = k
    BY <2>1 DEF FromOperation
  <2>5. Rows2(recovery', k) = {b}
    BY <2>1, <2>2
  <2>6. Cardinality({b}) = 1
    BY FS_Singleton
  <2> QED
    BY <2>3, <2>4, <2>5, <2>6
<1> QED
  BY <1>3, <1>4, <1>5, <1>6, DraftMoves

LEMMA ProvenanceStep ==
  ASSUME IInv, LogInv, ProvenanceHonest, Next
  PROVE  ProvenanceHonest'
<1>1. /\ draft.rev \in Nat /\ draft.source \in Source
      /\ \A k \in Keys : ops[k] \in Op /\ ops[k].resultRev \in Nat
  BY DEF IInv, TypeOK, Op
<1>2. SUFFICES ASSUME NEW k \in Keys,
                      draft'.source.by = "operation", draft'.source.op = k
               PROVE  /\ ops'[k].status \in {"completed", "cancelled"}
                      /\ ops'[k].resultRev <= draft'.rev
                      /\ ops'[k].resultRev = draft'.rev =>
                           ops'[k].resultText = draft'.text
  BY DEF ProvenanceHonest
<1>3. CASE Lies \/ Saves
  <2>1. /\ ops[k].status \in {"completed", "cancelled"}
        /\ ops[k].resultRev <= draft.rev
        /\ ops[k].resultRev = draft.rev => ops[k].resultText = draft.text
    BY <1>2, <1>3 DEF Lies, Saves, ProvenanceHonest
  <2>2. ops'[k] = ops[k]
    BY <2>1, EndedStays
  <2> QED
    BY <1>1, <1>3, <2>1, <2>2 DEF Lies, Saves
<1>4. CASE Loads
  <2>1. draft'.source = FromCandidate(draft.rev)
    BY <1>4, NewRows DEF Loads
  <2> QED
    BY <1>2, <2>1 DEF FromCandidate
<1>5. ASSUME NEW j \in Keys, UndoLocal(j) PROVE FALSE
  BY <1>2, <1>5 DEF UndoLocal, FromUndo
<1>6. ASSUME NEW j \in Keys, Lands(j)
      PROVE  /\ ops'[k].status \in {"completed", "cancelled"}
             /\ ops'[k].resultRev <= draft'.rev
             /\ ops'[k].resultRev = draft'.rev => ops'[k].resultText = draft'.text
  <2>1. PICK text : /\ Replace(text, FromOperation(j, draft.rev), ops[j].kind, j)
                    /\ ops'[j].resultText = text
    BY <1>6 DEF Lands
  <2>2. /\ draft'.rev = draft.rev + 1 /\ draft'.text = text
        /\ draft'.source = FromOperation(j, draft.rev)
    BY <2>1, NewRows
  <2>3. j = k
    BY <1>2, <2>2 DEF FromOperation
  <2> QED
    BY <1>1, <1>6, <2>1, <2>2, <2>3 DEF Lands
<1> QED
  BY <1>3, <1>4, <1>5, <1>6, DraftMoves

-----------------------------------------------------------------------------
(* The invariant, and what follows from it.                                *)

LEMMA InitResults == Init => ResultInv
<1> SUFFICES ASSUME Init PROVE ResultInv
  OBVIOUS
<1>1. \A k \in Keys : ops[k] = Unreserved /\ events[k] = <<>> /\ worker[k].now = 0
  BY DEF Init, Idle
<1>2. LogInv
  <2>1. ASSUME NEW k \in Keys
        PROVE  Readable(ops[k]) /\ Whole(events[k], ops[k]) /\ InTime(k)
    BY <1>1 DEF Init, Readable, Whole, InTime, Unreserved, FinalEvents
  <2> QED
    BY <2>1 DEF LogInv, Init
<1>3. ReviewBound /\ ReviewAdjustedOnce
  BY <1>1 DEF ReviewBound, ReviewAdjustedOnce, Unreserved, Init
<1>4. RecoveryOwned
  BY DEF RecoveryOwned, Init
<1>5. ResultOnce
  BY DEF ResultOnce, AppliedAtMostOnce, ProvenanceHonest, Init, NoSource
<1> QED
  BY <1>2, <1>3, <1>4, <1>5, InitIInv DEF ResultInv

(* The invariant holds in every reachable state, for any operations, lease  *)
(* and bounds.                                                              *)
THEOREM ResultsInductive == Spec => []ResultInv
<1>1. IInv /\ ResultInv /\ [Next]_vars /\ IInv' => ResultInv'
  <2> SUFFICES ASSUME ResultInv, [Next]_vars, IInv' PROVE ResultInv'
    OBVIOUS
  <2>1. CASE Next
    BY <2>1, LogStep, ReviewStep, RecoveryStep, AppliedStep, ProvenanceStep
       DEF ResultInv, ResultOnce
  <2>2. CASE UNCHANGED vars
    BY <2>2 DEF vars, ResultInv, LogInv, Readable, Whole, InTime, ReviewBound,
       ReviewAdjustedOnce, RecoveryOwned, ResultOnce, AppliedAtMostOnce,
       ProvenanceHonest
  <2> QED
    BY <2>1, <2>2
<1> QED
  BY <1>1, InitResults, Inductive, PTL DEF Spec

(* What is stored of an operation can be read and replayed in full,         *)
(* whatever workers, cancels and takeovers wrote (project_stored_result,    *)
(* list_events).                                                            *)
THEOREM StoredIsReadable == Spec => []LogSound
<1>1. ResultInv => LogSound
  BY DEF ResultInv, LogInv, Readable, Whole, LogSound, StoredRowReadable,
     EventLogWhole
<1> QED
  BY <1>1, ResultsInductive, PTL

(* An operation's result is in the draft once, and where the draft's        *)
(* payload says it is (settle_success, cancel, apply_local_preview).        *)
THEOREM ResultLandsOnce == Spec => []ResultOnce
<1>1. ResultInv => ResultOnce
  BY DEF ResultInv
<1> QED
  BY <1>1, ResultsInductive, PTL

(* A finalization review is adjusted by one operation and is closed by it   *)
(* (invalidate_adjusted_review).                                            *)
THEOREM AdjustedOnce == Spec => []ReviewAdjustedOnce
<1>1. ResultInv => ReviewAdjustedOnce
  BY DEF ResultInv
<1> QED
  BY <1>1, ResultsInductive, PTL

(* Undoing a local operation gives back the text it replaced (undo_local).  *)
THEOREM UndoReturnsTheText == Spec => UndoGivesBack
<1>1. ASSUME ResultInv, Next, NEW k \in Keys, draft'.source # draft.source,
             draft'.source = FromUndo(k, draft.rev)
      PROVE  draft'.text = ops[k].baseText
  <2>1. ASSUME NEW j \in Keys, Lands(j) PROVE FALSE
    BY <1>1, <2>1, NewRows DEF Lands, FromOperation, FromUndo
  <2>2. ASSUME Loads PROVE FALSE
    BY <1>1, <2>2, NewRows DEF Loads, FromCandidate, FromUndo
  <2>3. ~Lies /\ ~Saves
    BY <1>1 DEF Lies, Saves
  <2>4. PICK j \in Keys : UndoLocal(j)
    BY <1>1, <2>1, <2>2, <2>3, DraftMoves DEF ResultInv, Loads
  <2>5. j = k
    BY <1>1, <2>4 DEF UndoLocal, FromUndo
  <2>6. PICK b \in recovery : /\ b.op = k /\ b.role = "before"
                              /\ b.rev = ops[k].baseRev
                              /\ draft'.text = b.text
    BY <2>4, <2>5 DEF UndoLocal
  <2> QED
    BY <1>1, <2>6 DEF ResultInv, RecoveryOwned
<1>2. ResultInv /\ [Next]_vars =>
        [\A k \in Keys :
           draft'.source # draft.source /\ draft'.source = FromUndo(k, draft.rev)
             => draft'.text = ops[k].baseText]_vars
  BY <1>1 DEF vars
<1> QED
  BY <1>2, ResultsInductive, PTL DEF Spec, UndoGivesBack

(* Whatever rewrites the draft without being a save leaves a row with the   *)
(* text that goes, and no row is lost (insert_working_draft_revision).      *)
THEOREM ReplacedTextStays == Spec => ReplacedTextKept
<1>1. ASSUME ResultInv, Next
      PROVE  /\ recovery \subseteq recovery'
             /\ draft'.source # draft.source
                => \E r \in recovery' : /\ r.rev = draft.rev /\ r.role = "before"
                                        /\ r.text = draft.text
  <2>1. CASE Lies \/ Saves
    BY <2>1 DEF Lies, Saves
  <2>2. ASSUME NEW text, NEW source, NEW reason, NEW k,
               Replace(text, source, reason, k)
        PROVE  /\ recovery \subseteq recovery'
               /\ \E r \in recovery' : /\ r.rev = draft.rev /\ r.role = "before"
                                       /\ r.text = draft.text
    BY <2>2, NewRows
  <2>3. CASE Loads
    BY <2>2, <2>3 DEF Loads
  <2>4. CASE \E k \in Keys : Lands(k)
    BY <2>2, <2>4 DEF Lands
  <2>5. CASE \E k \in Keys : UndoLocal(k)
    <3>1. PICK k \in Keys : recovery' = recovery \cup {Before("undo_local", k)}
      BY <2>5 DEF UndoLocal
    <3>2. /\ Before("undo_local", k).rev = draft.rev
          /\ Before("undo_local", k).role = "before"
          /\ Before("undo_local", k).text = draft.text
      BY DEF Before
    <3> QED
      BY <3>1, <3>2
  <2> QED
    BY <1>1, <2>1, <2>3, <2>4, <2>5, DraftMoves DEF ResultInv
<1>2. ResultInv /\ [Next]_vars =>
        [/\ recovery \subseteq recovery'
         /\ draft'.source # draft.source
            => \E r \in recovery' : /\ r.rev = draft.rev /\ r.role = "before"
                                    /\ r.text = draft.text]_vars
  BY <1>1 DEF vars
<1> QED
  BY <1>2, ResultsInductive, PTL DEF Spec, ReplacedTextKept

(* What a machine write replaces can be brought back, and undoing does.     *)
THEOREM EverythingRecoverable == Spec => Recoverable
BY UndoReturnsTheText, ReplacedTextStays, PTL DEF Recoverable
=============================================================================
