-------------------------- MODULE FinalizationProofs --------------------------
(***************************************************************************)
(* Proofs about Finalization for any texts, change sets, findings, tabs and *)
(* bounds.  Every property rests on one inductive invariant: the types, the *)
(* agreement of the slot with the request that prepares it, the settled     *)
(* confirmation, and what the worker and the session remember.              *)
(***************************************************************************)
EXTENDS Finalization, SequenceTheorems, TLAPS

\* What a preparing request has in hand when it needs it.
WorkerKnows ==
  /\ prep.pc \in {"extract", "publish"} => prep.report \in Reports
  /\ prep.pc = "publish" => prep.changes \in ChangeSets

\* A row that is being prepared is not confirmed; one under review has a report.
RowsOpen ==
  \A i \in DOMAIN attempts :
    /\ attempts[i].status = "preparing" => attempts[i].confirmed = 0
    /\ attempts[i].status = "awaiting_author" => attempts[i].report # None

\* A session keeps the pins of the outline it was opened on.
SessionPins ==
  /\ session.status # "none" =>
       /\ session.outline \in Outlines
       /\ session.outline.plan = session.plan
       /\ session.outline.canon = session.canon
  /\ session.busy => Drafting

IInv ==
  /\ TypeOK /\ WorkerKnows /\ SessionPins
  /\ SlotAgrees /\ RowsOpen /\ ConfirmedReviewIsSettled

-----------------------------------------------------------------------------
(* Changes of the list of attempts. *)

\* attempts' is attempts with one row changed.
RowBecomes(i, row) ==
  /\ i \in DOMAIN attempts
  /\ row \in Attempts
  /\ attempts' = [attempts EXCEPT ![i] = row]

\* Changing one row leaves every other row, and the number of rows, as it was.
LEMMA OneRow ==
  ASSUME attempts \in Seq(Attempts), NEW i, NEW row, RowBecomes(i, row)
  PROVE  /\ attempts' \in Seq(Attempts)
         /\ Len(attempts') = Len(attempts)
         /\ DOMAIN attempts' = DOMAIN attempts
         /\ attempts'[i] = row
         /\ \A j \in DOMAIN attempts : j # i => attempts'[j] = attempts[j]
<1>1. DOMAIN attempts = 1 .. Len(attempts)
  BY LenProperties
<1>2. i \in 1 .. Len(attempts) /\ row \in Attempts
  BY <1>1 DEF RowBecomes
<1>3. /\ attempts' \in Seq(Attempts)
      /\ Len(attempts') = Len(attempts)
      /\ \A j \in 1 .. Len(attempts) : attempts'[j] = IF j = i THEN row ELSE attempts[j]
  BY <1>2, ExceptSeq DEF RowBecomes
<1>4. DOMAIN attempts' = 1 .. Len(attempts')
  BY <1>3, LenProperties
<1> QED
  BY <1>1, <1>2, <1>3, <1>4

\* A new row goes to the end.
LEMMA NewRow ==
  ASSUME attempts \in Seq(Attempts), NEW row \in Attempts,
         attempts' = Append(attempts, row)
  PROVE  /\ attempts' \in Seq(Attempts)
         /\ Len(attempts') = Len(attempts) + 1
         /\ DOMAIN attempts' = 1 .. Len(attempts) + 1
         /\ DOMAIN attempts = 1 .. Len(attempts)
         /\ attempts'[Len(attempts) + 1] = row
         /\ \A j \in DOMAIN attempts : attempts'[j] = attempts[j]
<1>1. DOMAIN attempts = 1 .. Len(attempts)
  BY LenProperties
<1>2. /\ attempts' \in Seq(Attempts)
      /\ Len(attempts') = Len(attempts) + 1
      /\ \A j \in 1 .. Len(attempts) : attempts'[j] = attempts[j]
      /\ attempts'[Len(attempts) + 1] = row
  BY AppendProperties
<1>3. DOMAIN attempts' = 1 .. Len(attempts')
  BY <1>2, LenProperties
<1> QED
  BY <1>1, <1>2, <1>3

\* A row is a row, its list starts at 1 and its latest entry is the last.
LEMMA RowTypes ==
  ASSUME TypeOK
  PROVE  /\ Len(attempts) \in Nat
         /\ DOMAIN attempts = 1 .. Len(attempts)
         /\ \A i \in DOMAIN attempts : attempts[i] \in Attempts
         /\ Slot \subseteq DOMAIN attempts
<1>1. attempts \in Seq(Attempts)
  BY DEF TypeOK
<1>2. Len(attempts) \in Nat /\ DOMAIN attempts = 1 .. Len(attempts)
  BY <1>1, LenProperties
<1>3. \A i \in 1 .. Len(attempts) : attempts[i] \in Attempts
  BY <1>1, ElementOfSeq
<1> QED
  BY <1>2, <1>3 DEF Slot

\* The revisions of a row are change sets.
LEMMA RevisionTypes ==
  ASSUME NEW row \in Attempts
  PROVE  /\ row.revs \in Seq(ChangeSets)
         /\ Len(row.revs) \in Nat
         /\ \A n \in 1 .. Len(row.revs) : row.revs[n] \in ChangeSets
<1>1. row.revs \in Seq(ChangeSets)
  BY DEF Attempts
<1> QED
  BY <1>1, LenProperties, ElementOfSeq

-----------------------------------------------------------------------------
(* Which row each command changes, and into what. *)

\* The request that prepares works on the latest row, which it finds preparing.
LEMMA PreparingRow ==
  ASSUME IInv, prep.pc # "idle"
  PROVE  /\ Latest \in DOMAIN attempts
         /\ attempts[Latest] \in Attempts
         /\ attempts[Latest].status = "preparing"
         /\ attempts[Latest].confirmed = 0
<1>1. Latest > 0 /\ attempts[Latest].status = "preparing"
  BY DEF IInv, SlotAgrees
<1>2. Latest \in DOMAIN attempts
  BY <1>1, RowTypes DEF IInv, Latest
<1> QED
  BY <1>1, <1>2, RowTypes DEF IInv, RowsOpen

\* Marking it terminal gives it a status and a report.
LEMMA TerminalRow ==
  ASSUME IInv, prep.pc # "idle",
         NEW status \in {"failed", "cancelled", "invalidated"},
         NEW report \in Reports \cup {None},
         MarkTerminal(Latest, status, report)
  PROVE  RowBecomes(Latest,
           [attempts[Latest] EXCEPT !.status = status, !.report = report])
<1> DEFINE row == [attempts[Latest] EXCEPT !.status = status, !.report = report]
<1>1. Latest \in DOMAIN attempts /\ attempts[Latest] \in Attempts
  BY PreparingRow
<1>2. row \in Attempts
  BY <1>1 DEF Attempts, Statuses
<1>3. attempts' = [attempts EXCEPT ![Latest] = row]
  BY <1>1 DEF MarkTerminal
<1> QED
  BY <1>1, <1>2, <1>3 DEF RowBecomes

\* Publishing the review fills in report and first revision.
LEMMA PublishedRow ==
  ASSUME IInv, PublishReview
  PROVE  RowBecomes(Latest,
           [attempts[Latest] EXCEPT !.status = "awaiting_author",
              !.report = prep.report, !.revs = <<prep.changes>>])
<1> DEFINE row == [attempts[Latest] EXCEPT !.status = "awaiting_author",
                     !.report = prep.report, !.revs = <<prep.changes>>]
<1>1. prep.pc = "publish"
  BY DEF PublishReview
<1>2. Latest \in DOMAIN attempts /\ attempts[Latest] \in Attempts
  BY <1>1, PreparingRow
<1>3. prep.report \in Reports /\ <<prep.changes>> \in Seq(ChangeSets)
  BY <1>1 DEF IInv, WorkerKnows
<1>4. row \in Attempts
  BY <1>2, <1>3 DEF Attempts, Statuses
<1>5. attempts' = [attempts EXCEPT ![Latest] = row]
  BY <1>2 DEF PublishReview
<1> QED
  BY <1>2, <1>4, <1>5 DEF RowBecomes

\* What an author's command makes of the row under review.
Revised(old, new) ==
  /\ new.status = "awaiting_author" /\ new.report = old.report
  /\ old.confirmed = 0 /\ new.confirmed = 0

Approves(old, new) ==
  /\ new = [old EXCEPT !.confirmed = Len(old.revs)]
  /\ old.confirmed = 0 /\ Len(old.revs) # 0
  /\ ~Unresolved(old)
  /\ old.manifest = heads

Closes(old, new) ==
  \E status \in {"cancelled", "committed"} : new = [old EXCEPT !.status = status]

\* A row whose disputes change is a row.
LEMMA SettledType ==
  ASSUME NEW old \in Attempts, NEW settled \in [Findings -> Disputes]
  PROVE  [old EXCEPT !.disputes = settled, !.decisions = old.decisions + 1]
           \in Attempts
<1>1. old.decisions + 1 \in Nat
  BY DEF Attempts
<1> QED
  BY <1>1 DEF Attempts

\* A row in the slot is the latest one.
LEMMA SlotRow ==
  ASSUME IInv, NEW i \in Slot
  PROVE  /\ i = Latest
         /\ Latest \in DOMAIN attempts
         /\ attempts[Latest] \in Attempts
<1>1. i = Latest
  BY DEF IInv, SlotAgrees
<1> QED
  BY <1>1, RowTypes DEF IInv

\* A row that waits for its author is the latest one.
LEMMA AwaitingRow ==
  ASSUME IInv, NEW i \in DOMAIN attempts, attempts[i].status = "awaiting_author"
  PROVE  i = Latest /\ attempts[Latest] \in Attempts
<1>1. i \in Slot
  BY RowTypes DEF Slot, ActiveStatuses, IInv
<1> QED
  BY <1>1, SlotRow

\* Decisions, disputes and corrections revise an open review.
LEMMA RevisedRow ==
  ASSUME IInv, NEW t \in Tabs,
         DecideFinding(t) \/ DisputeFinding(t) \/ Correct(t)
  PROVE  \E row : /\ RowBecomes(Latest, row)
                  /\ attempts[Latest].status = "awaiting_author"
                  /\ Revised(attempts[Latest], row)
<1> DEFINE old == attempts[Latest]
<1>1. CASE DecideFinding(t)
  <2>1. PICK i \in Slot :
          /\ Decidable(i, t)
          /\ attempts' = [attempts EXCEPT ![i].decisions = @ + 1]
    BY <1>1 DEF DecideFinding
  <2>2. i = Latest /\ Latest \in DOMAIN attempts /\ old \in Attempts
    BY <2>1, SlotRow
  <2> DEFINE row == [old EXCEPT !.decisions = old.decisions + 1]
  <2>3. row \in Attempts
    BY <2>2 DEF Attempts
  <2>4. attempts' = [attempts EXCEPT ![Latest] = row]
    BY <2>1, <2>2
  <2>5. old.status = "awaiting_author" /\ old.confirmed = 0
    BY <2>1, <2>2 DEF Decidable, Reviewable, AtOpenReview
  <2>6. Revised(old, row)
    BY <2>2, <2>5 DEF Revised, Attempts
  <2> QED
    BY <2>2, <2>3, <2>4, <2>5, <2>6 DEF RowBecomes
<1>2. CASE DisputeFinding(t)
  <2>1. PICK i \in Slot :
          /\ Decidable(i, t)
          /\ \E f \in attempts[i].report.required, action \in Disputes :
               attempts' = [attempts EXCEPT ![i].disputes[f] = action,
                                            ![i].decisions = @ + 1]
    BY <1>2 DEF DisputeFinding
  <2>2. PICK f \in attempts[i].report.required, action \in Disputes :
          attempts' = [attempts EXCEPT ![i].disputes[f] = action,
                                       ![i].decisions = @ + 1]
    BY <2>1
  <2>3. i = Latest /\ Latest \in DOMAIN attempts /\ old \in Attempts
    BY <2>1, SlotRow
  <2> DEFINE settled == [old.disputes EXCEPT ![f] = action]
             row == [old EXCEPT !.disputes = settled,
                                !.decisions = old.decisions + 1]
  <2>4. row \in Attempts
    <3>1. settled \in [Findings -> Disputes]
      BY <2>3 DEF Attempts
    <3> QED
      BY <2>3, <3>1, SettledType
  <2>5. attempts' = [attempts EXCEPT ![Latest] = row]
    BY <2>2, <2>3
  <2>6. old.status = "awaiting_author" /\ old.confirmed = 0
    BY <2>1, <2>3 DEF Decidable, Reviewable, AtOpenReview
  <2>7. Revised(old, row)
    BY <2>3, <2>6 DEF Revised, Attempts
  <2> QED
    BY <2>3, <2>4, <2>5, <2>6, <2>7 DEF RowBecomes
<1>3. CASE Correct(t)
  <2>1. PICK i \in Slot, c \in ChangeSets :
          /\ Reviewable(i, t)
          /\ attempts' = [attempts EXCEPT ![i].revs = Append(@, c)]
    BY <1>3 DEF Correct
  <2>2. i = Latest /\ Latest \in DOMAIN attempts /\ old \in Attempts
    BY <2>1, SlotRow
  <2> DEFINE row == [old EXCEPT !.revs = Append(old.revs, c)]
  <2>3. Append(old.revs, c) \in Seq(ChangeSets)
    BY <2>2, RevisionTypes, AppendProperties
  <2>4. row \in Attempts
    BY <2>2, <2>3 DEF Attempts
  <2>5. attempts' = [attempts EXCEPT ![Latest] = row]
    BY <2>1, <2>2
  <2>6. old.status = "awaiting_author" /\ old.confirmed = 0
    BY <2>1, <2>2 DEF Reviewable, AtOpenReview
  <2>7. Revised(old, row)
    BY <2>2, <2>6 DEF Revised, Attempts
  <2> QED
    BY <2>2, <2>4, <2>5, <2>6, <2>7 DEF RowBecomes
<1> QED
  BY <1>1, <1>2, <1>3

\* A confirmation approves the last revision under the authorities of the moment.
LEMMA ConfirmedRow ==
  ASSUME IInv, NEW t \in Tabs, Confirm(t)
  PROVE  \E row : /\ RowBecomes(Latest, row)
                  /\ attempts[Latest].status = "awaiting_author"
                  /\ Approves(attempts[Latest], row)
<1> DEFINE old == attempts[Latest]
<1>1. PICK i \in Slot :
        /\ Reviewable(i, t)
        /\ ~Unresolved(attempts[Latest])
        /\ attempts' = [attempts EXCEPT ![i].confirmed = seen[t].rev]
  BY DEF Confirm
<1>2. i = Latest /\ Latest \in DOMAIN attempts /\ old \in Attempts
  BY <1>1, SlotRow
<1> DEFINE row == [old EXCEPT !.confirmed = Len(old.revs)]
<1>3. /\ old.status = "awaiting_author" /\ old.confirmed = 0
      /\ seen[t].rev = Len(old.revs) /\ seen[t].rev # 0
      /\ old.manifest = heads
  BY <1>1, <1>2 DEF Reviewable, AtOpenReview, AtRevision, ManifestHolds
<1>4. row \in Attempts
  BY <1>2, RevisionTypes DEF Attempts
<1>5. attempts' = [attempts EXCEPT ![Latest] = row]
  BY <1>1, <1>2, <1>3
<1>6. Approves(old, row)
  BY <1>1, <1>3 DEF Approves
<1> QED
  BY <1>2, <1>3, <1>4, <1>5, <1>6 DEF RowBecomes

\* Cancelling, withdrawing and committing close the review.
LEMMA ClosedRow ==
  ASSUME IInv, NEW t \in Tabs, Revoke(t) \/ Cancel(t) \/ Commit(t)
  PROVE  \E row : /\ RowBecomes(Latest, row)
                  /\ attempts[Latest].status = "awaiting_author"
                  /\ Closes(attempts[Latest], row)
<1> DEFINE old == attempts[Latest]
<1> SUFFICES \E status \in {"cancelled", "committed"} :
       /\ Latest \in DOMAIN attempts /\ old \in Attempts
       /\ old.status = "awaiting_author"
       /\ attempts' = [attempts EXCEPT ![Latest].status = status]
  <2>1. PICK status \in {"cancelled", "committed"} :
          /\ Latest \in DOMAIN attempts /\ old \in Attempts
          /\ old.status = "awaiting_author"
          /\ attempts' = [attempts EXCEPT ![Latest].status = status]
    OBVIOUS
  <2> DEFINE row == [old EXCEPT !.status = status]
  <2>2. row \in Attempts
    BY <2>1 DEF Attempts, Statuses
  <2>3. attempts' = [attempts EXCEPT ![Latest] = row]
    BY <2>1
  <2>4. Closes(old, row)
    BY DEF Closes
  <2> QED
    BY <2>1, <2>2, <2>3, <2>4 DEF RowBecomes
<1>1. CASE Revoke(t)
  <2>1. PICK i \in DOMAIN attempts :
          /\ attempts[i].status = "awaiting_author"
          /\ attempts' = [attempts EXCEPT ![i].status = "cancelled"]
    BY <1>1 DEF Revoke
  <2>2. i = Latest /\ old \in Attempts
    BY <2>1, AwaitingRow
  <2> QED
    BY <2>1, <2>2
<1>2. CASE Cancel(t)
  <2>1. PICK i \in Slot :
          /\ AtOpenReview(attempts[i], seen[t])
          /\ attempts' = [attempts EXCEPT ![i].status = "cancelled"]
    BY <1>2 DEF Cancel
  <2>2. i = Latest /\ Latest \in DOMAIN attempts /\ old \in Attempts
    BY <2>1, SlotRow
  <2> QED
    BY <2>1, <2>2 DEF AtOpenReview
<1>3. CASE Commit(t)
  <2>1. /\ Latest > 0
        /\ old.status = "awaiting_author"
        /\ attempts' = [attempts EXCEPT ![Latest].status = "committed"]
    BY <1>3 DEF Commit, CommitsConfirmed
  <2>2. Latest \in DOMAIN attempts /\ old \in Attempts
    BY <2>1, RowTypes DEF Latest, IInv
  <2> QED
    BY <2>1, <2>2
<1> QED
  BY <1>1, <1>2, <1>3

\* A rewrite that reaches the draft uses up the review it was started from.
LEMMA AdjustedRow ==
  ASSUME IInv, AdjustmentLands
  PROVE  \E row : /\ RowBecomes(Latest, row)
                  /\ attempts[Latest].status = "awaiting_author"
                  /\ row = [attempts[Latest] EXCEPT !.status = "invalidated"]
<1> DEFINE old == attempts[Latest]
           row == [old EXCEPT !.status = "invalidated"]
           i == session.adjusts
<1>1. /\ i \in DOMAIN attempts /\ attempts[i].status = "awaiting_author"
      /\ attempts' = [attempts EXCEPT ![i].status = "invalidated"]
  BY DEF AdjustmentLands, Adjustable
<1>2. i = Latest /\ old \in Attempts
  BY <1>1, AwaitingRow
<1>3. row \in Attempts
  BY <1>2 DEF Attempts, Statuses
<1>4. attempts' = [attempts EXCEPT ![Latest] = row]
  BY <1>1, <1>2
<1> QED
  BY <1>1, <1>2, <1>3, <1>4 DEF RowBecomes

-----------------------------------------------------------------------------
(* Types. *)

\* Types of the rows of the state, read off TypeOK.
LEMMA StateTypes ==
  ASSUME TypeOK
  PROVE  /\ heads \in Authorities
         /\ heads.canon \in Nat /\ heads.plan \in Plans
         /\ heads.outline \in Outlines \cup {None}
         /\ session.chapter \in Nat
         /\ prep.report \in Reports \cup {None}
         /\ Len(book) \in Nat
<1>1. Len(book) \in Nat
  BY LenProperties DEF TypeOK
<1> QED
  BY <1>1 DEF TypeOK, Authorities

\* The project starts well typed.
LEMMA InitType == Init => TypeOK
<1> SUFFICES ASSUME Init PROVE TypeOK
  OBVIOUS
<1>1. PICK text \in PlanTexts, b \in Bindings :
        heads = [canon |-> 0, plan |-> [rev |-> 1, text |-> text],
                 outline |-> None, bindings |-> b]
  BY DEF Init
<1>2. heads \in Authorities /\ heads.plan \in Plans
  BY <1>1 DEF Authorities, Plans
<1>3. session \in [chapter : Nat, status : {"none", "drafting", "final"},
                   busy : BOOLEAN, adjusts : Nat, draft : Texts \cup {None},
                   plan : Plans, outline : Outlines \cup {None}, canon : Nat]
  BY <1>2 DEF Init
<1>4. attempts \in Seq(Attempts) /\ book \in Seq(Chapters)
  BY DEF Init
<1>5. prep \in [pc : {"idle", "audit", "extract", "publish", "dead"},
                blocked : BOOLEAN, report : Reports \cup {None},
                changes : ChangeSets \cup {None}]
  BY DEF Init, Idle
<1>6. seen \in [Tabs -> Views]
  BY DEF Init, EmptyView, Views
<1> QED
  BY <1>2, <1>3, <1>4, <1>5, <1>6 DEF TypeOK, Init

\* The authorities keep their types when they move.
LEMMA AuthoritiesType ==
  ASSUME TypeOK, AuthoritiesMove
  PROVE  TypeOK'
<1>1. CASE ConfirmPlanning
  <2>1. PICK text \in PlanTexts :
          heads' = [heads EXCEPT !.plan = [rev |-> heads.plan.rev + 1, text |-> text]]
    BY <1>1 DEF ConfirmPlanning
  <2>2. [rev |-> heads.plan.rev + 1, text |-> text] \in Plans
    BY StateTypes DEF Plans
  <2>3. heads' \in Authorities
    BY <2>1, <2>2, StateTypes DEF Authorities
  <2> QED
    BY <1>1, <2>3 DEF ConfirmPlanning, TypeOK
<1>2. CASE ConfirmOutline
  <2> DEFINE rev == IF heads.outline = None THEN 1 ELSE heads.outline.rev + 1
  <2>1. PICK text \in OutlineTexts :
          heads' = [heads EXCEPT !.outline = [rev |-> rev, text |-> text,
                      plan |-> heads.plan, canon |-> heads.canon]]
    BY <1>2 DEF ConfirmOutline
  <2>2. rev \in Nat
    BY StateTypes DEF Outlines
  <2>3. [rev |-> rev, text |-> text, plan |-> heads.plan, canon |-> heads.canon]
          \in Outlines
    BY <2>2, StateTypes DEF Outlines
  <2>4. heads' \in Authorities
    BY <2>1, <2>3, StateTypes DEF Authorities
  <2> QED
    BY <1>2, <2>4 DEF ConfirmOutline, TypeOK
<1>3. CASE BindModels
  <2>1. heads' \in Authorities
    BY <1>3, StateTypes DEF BindModels, Authorities
  <2> QED
    BY <1>3, <2>1 DEF BindModels, TypeOK
<1> QED
  BY <1>1, <1>2, <1>3 DEF AuthoritiesMove

\* So do session, draft and candidates.
LEMMA WritingType ==
  ASSUME IInv, Writing
  PROVE  TypeOK'
<1> USE DEF IInv
<1>1. CASE CreateSession
  <2>1. heads.outline \in Outlines /\ heads.outline.plan \in Plans
    BY <1>1, StateTypes DEF CreateSession, OutlineStands, Outlines
  <2>2. session' \in [chapter : Nat, status : {"none", "drafting", "final"},
                      busy : BOOLEAN, adjusts : Nat,
                      draft : Texts \cup {None}, plan : Plans,
                      outline : Outlines \cup {None}, canon : Nat]
    BY <1>1, <2>1, StateTypes DEF CreateSession
  <2>3. attempts' \in Seq(Attempts) /\ candidates' \subseteq Candidates
    BY <1>1 DEF CreateSession
  <2>4. prep' \in [pc : {"idle", "audit", "extract", "publish", "dead"},
                   blocked : BOOLEAN, report : Reports \cup {None},
                   changes : ChangeSets \cup {None}]
    BY <1>1 DEF CreateSession, Idle
  <2> QED
    BY <1>1, <2>2, <2>3, <2>4 DEF CreateSession, TypeOK
<1>2. CASE SaveDraft
  BY <1>2 DEF SaveDraft, TypeOK
<1>3. CASE OperationStarts
  <2>1. PICK i \in {0} \cup Slot :
          session' = [session EXCEPT !.busy = TRUE, !.adjusts = i]
    BY <1>3 DEF OperationStarts
  <2>2. i \in Nat
    BY RowTypes
  <2> QED
    BY <1>3, <2>1, <2>2 DEF OperationStarts, TypeOK
<1>4. CASE OperationEnds \/ AdjustmentLands
  <2>1. PICK text \in Texts \cup {session.draft} : session' = Released(text)
    BY <1>4 DEF OperationEnds, AdjustmentLands
  <2>2. text \in Texts \cup {None}
    BY DEF TypeOK
  <2>3. attempts' \in Seq(Attempts)
    BY <1>4, AdjustedRow, OneRow DEF OperationEnds, TypeOK
  <2> QED
    BY <1>4, <2>1, <2>2, <2>3 DEF OperationEnds, AdjustmentLands, Released, TypeOK
<1>5. CASE FreezeCandidate
  <2>1. [text |-> session.draft, outline |-> heads.outline] \in Candidates
    BY <1>5, StateTypes DEF FreezeCandidate, TypeOK, Candidates
  <2> QED
    BY <1>5, <2>1 DEF FreezeCandidate, TypeOK
<1> QED
  BY <1>1, <1>2, <1>3, <1>4, <1>5 DEF Writing

\* An audit reports a report.
LEMMA AuditType == AuditReports \subseteq Reports
<1>1. NotCompleted \in Reports
  BY DEF NotCompleted, Reports
<1>2. [completed : {TRUE}, required : SUBSET Findings] \subseteq Reports
  BY Zenon DEF Reports
<1> QED
  BY <1>1, <1>2 DEF AuditReports

\* So do the rows and the memory of a preparing request.
LEMMA WorkerType ==
  ASSUME IInv, Prepare \/ WorkerStep \/ ProcessStops
  PROVE  TypeOK'
<1> DEFINE Prep == [pc : {"idle", "audit", "extract", "publish", "dead"},
                    blocked : BOOLEAN, report : Reports \cup {None},
                    changes : ChangeSets \cup {None}]
<1>1. TypeOK
  BY DEF IInv
<1>2. prep \in Prep /\ Idle \in Prep
  BY <1>1 DEF TypeOK, Idle
<1>3. CASE Prepare
  <2>1. PICK c \in candidates :
          /\ attempts' = Append(attempts,
               [status |-> "preparing", candidate |-> c, manifest |-> heads,
                report |-> None, revs |-> <<>>, confirmed |-> 0,
                disputes |-> Undisputed, decisions |-> 0])
          /\ prep' = [Idle EXCEPT !.pc = "audit", !.blocked = PrechecksBlock(c)]
    BY <1>3 DEF Prepare
  <2>2. [status |-> "preparing", candidate |-> c, manifest |-> heads,
         report |-> None, revs |-> <<>>, confirmed |-> 0,
         disputes |-> Undisputed, decisions |-> 0] \in Attempts
    <3>1. c \in Candidates /\ heads \in Authorities
      BY <1>1, StateTypes DEF TypeOK
    <3>2. Undisputed \in [Findings -> Disputes]
      BY DEF Undisputed, Disputes
    <3> QED
      BY <3>1, <3>2 DEF Attempts, Statuses
  <2>3. attempts' \in Seq(Attempts)
    BY <1>1, <2>1, <2>2, AppendProperties DEF TypeOK
  <2>4. PrechecksBlock(c) \in BOOLEAN
    BY DEF PrechecksBlock
  <2>5. prep' \in Prep
    BY <2>1, <2>4 DEF Idle
  <2> QED
    BY <1>1, <1>3, <2>3, <2>5 DEF Prepare, TypeOK
<1>4. CASE Audit
  <2>1. PICK r \in AuditReports :
          prep' = [prep EXCEPT !.pc = "extract", !.report = r]
    BY <1>4 DEF Audit
  <2>2. r \in Reports
    BY AuditType
  <2>3. prep' \in Prep
    BY <1>2, <2>1, <2>2
  <2> QED
    BY <1>1, <1>4, <2>3 DEF Audit, TypeOK
<1>5. CASE Extract
  <2>1. prep' \in Prep
    BY <1>2, <1>5 DEF Extract
  <2> QED
    BY <1>1, <1>5, <2>1 DEF Extract, TypeOK
<1>6. CASE PrepareFails \/ PrepareCancelled \/ Invalidate
  <2>1. PICK status \in {"failed", "cancelled", "invalidated"},
             report \in Reports \cup {None} :
          MarkTerminal(Latest, status, report)
    BY <1>2, <1>6 DEF PrepareFails, PrepareCancelled, Invalidate
  <2>2. prep.pc # "idle"
    BY <1>6 DEF PrepareFails, PrepareCancelled, Invalidate
  <2>3. attempts' \in Seq(Attempts)
    BY <1>1, <2>1, <2>2, TerminalRow, OneRow DEF TypeOK
  <2> QED
    BY <1>1, <1>2, <1>6, <2>3
    DEF PrepareFails, PrepareCancelled, Invalidate, TypeOK
<1>7. CASE PublishReview
  <2>1. attempts' \in Seq(Attempts)
    BY <1>1, <1>7, PublishedRow, OneRow DEF TypeOK
  <2> QED
    BY <1>1, <1>2, <1>7, <2>1 DEF PublishReview, TypeOK
<1>8. CASE ProcessStops
  <2>1. prep' \in Prep
    BY <1>8 DEF ProcessStops, Idle
  <2> QED
    BY <1>1, <1>8, <2>1 DEF ProcessStops, TypeOK
<1> QED
  BY <1>3, <1>4, <1>5, <1>6, <1>7, <1>8 DEF WorkerStep

\* What a commit names is the confirmed revision of the latest row.
LEMMA CommitFacts ==
  ASSUME IInv, NEW t \in Tabs, Commit(t)
  PROVE  /\ attempts[Latest] \in Attempts
         /\ Latest \in DOMAIN attempts
         /\ attempts[Latest].status = "awaiting_author"
         /\ attempts[Latest].confirmed = seen[t].rev
         /\ attempts[Latest].confirmed # 0
         /\ seen[t].changes = attempts[Latest].revs[attempts[Latest].confirmed]
         /\ seen[t].changes \in ChangeSets
         /\ attempts[Latest].manifest = heads
         /\ ~PrechecksBlock(attempts[Latest].candidate)
         /\ Drafting /\ ~session.busy
         /\ session.outline \in Outlines
<1> DEFINE a == attempts[Latest]
<1>1. /\ Latest > 0 /\ CommitsConfirmed(a, seen[t]) /\ ManifestHolds(a)
      /\ ~PrechecksBlock(a.candidate)
  BY DEF Commit
<1>2. Latest \in DOMAIN attempts /\ a \in Attempts
  BY <1>1, RowTypes DEF Latest, IInv
<1>3. /\ a.status = "awaiting_author"
      /\ seen[t].rev = Len(a.revs) /\ seen[t].rev # 0
      /\ seen[t].changes = a.revs[seen[t].rev]
      /\ a.confirmed = seen[t].rev
  BY <1>1 DEF CommitsConfirmed, AtRevision
<1>4. seen[t].changes \in ChangeSets
  BY <1>2, <1>3, RevisionTypes
<1>5. Drafting /\ ~session.busy
  BY <1>1 DEF PrechecksBlock
<1>6. session.outline \in Outlines
  BY <1>5 DEF IInv, SessionPins, Drafting
<1> QED
  BY <1>1, <1>2, <1>3, <1>4, <1>5, <1>6 DEF ManifestHolds

\* And so does everything the author's commands write.
LEMMA AuthorType ==
  ASSUME IInv, NEW t \in Tabs, Author(t)
  PROVE  TypeOK'
<1>1. TypeOK
  BY DEF IInv
<1>2. CASE GetReview(t)
  <2> DEFINE a == attempts[Latest]
             rev == Len(a.revs)
             view == [chapter |-> session.chapter, attempt |-> Latest,
                      rev |-> rev, changes |-> IF rev = 0 THEN None ELSE a.revs[rev],
                      decisions |-> a.decisions]
  <2>1. seen' = [seen EXCEPT ![t] = view] /\ Latest > 0
    BY <1>2 DEF GetReview
  <2>2. Latest \in DOMAIN attempts /\ a \in Attempts /\ Latest \in Nat
    BY <1>1, <2>1, RowTypes DEF Latest
  <2>3. rev \in Nat /\ (rev # 0 => a.revs[rev] \in ChangeSets)
    BY <2>2, RevisionTypes
  <2>4. a.decisions \in Nat
    BY <2>2 DEF Attempts
  <2>5. view \in Views
    BY <1>1, <2>2, <2>3, <2>4, StateTypes DEF Views
  <2>6. seen' \in [Tabs -> Views]
    BY <1>1, <2>1, <2>5 DEF TypeOK
  <2> QED
    BY <1>1, <1>2, <2>6 DEF GetReview, TypeOK
<1>3. CASE DecideFinding(t) \/ DisputeFinding(t) \/ Correct(t)
  <2>1. attempts' \in Seq(Attempts)
    BY <1>1, <1>3, RevisedRow, OneRow DEF TypeOK
  <2> QED
    BY <1>1, <1>3, <2>1 DEF DecideFinding, DisputeFinding, Correct, TypeOK
<1>4. CASE Confirm(t)
  <2>1. attempts' \in Seq(Attempts)
    BY <1>1, <1>4, ConfirmedRow, OneRow DEF TypeOK
  <2> QED
    BY <1>1, <1>4, <2>1 DEF Confirm, TypeOK
<1>5. CASE Revoke(t) \/ Cancel(t)
  <2>1. attempts' \in Seq(Attempts)
    BY <1>1, <1>5, ClosedRow, OneRow DEF TypeOK
  <2> QED
    BY <1>1, <1>5, <2>1 DEF Revoke, Cancel, TypeOK
<1>6. CASE Commit(t)
  <2>1. attempts' \in Seq(Attempts)
    BY <1>1, <1>6, ClosedRow, OneRow DEF TypeOK
  <2>2. PICK plan \in {heads.plan} \cup
                      {[rev |-> heads.plan.rev + 1, text |-> p] : p \in PlanTexts} :
          heads' = [heads EXCEPT !.canon = @ + 1, !.plan = plan, !.outline = None]
    BY <1>6 DEF Commit, AdvanceHeads
  <2>3. plan \in Plans
    BY <1>1, StateTypes DEF Plans
  <2>4. heads' \in Authorities
    <3>1. heads.canon + 1 \in Nat /\ None \in Outlines \cup {None}
      BY <1>1, StateTypes
    <3>2. heads' = [heads EXCEPT !.canon = heads.canon + 1, !.plan = plan,
                                 !.outline = None]
      BY <2>2
    <3>3. heads \in Authorities
      BY <1>1, StateTypes
    <3> QED
      BY <2>3, <3>1, <3>2, <3>3 DEF Authorities
  <2>5. session' = [session EXCEPT !.status = "final"]
    BY <1>6 DEF Commit, FinalizeSession
  <2>6. PICK chapter :
          /\ book' = Append(book, chapter)
          /\ chapter = [candidate |-> attempts[Latest].candidate,
                        changes |-> seen[t].changes,
                        plan |-> session.plan, outline |-> session.outline]
    BY <1>6 DEF Commit
  <2>7. attempts[Latest].candidate \in Candidates /\ session.plan \in Plans
    BY <1>1, <1>6, CommitFacts DEF Attempts, TypeOK
  <2>8. chapter \in Chapters
    BY <1>6, <2>6, <2>7, CommitFacts DEF Chapters
  <2>9. book' \in Seq(Chapters)
    BY <1>1, <2>6, <2>8, AppendProperties DEF TypeOK
  <2> QED
    BY <1>1, <1>6, <2>1, <2>4, <2>5, <2>9 DEF Commit, TypeOK
<1> QED
  BY <1>2, <1>3, <1>4, <1>5, <1>6 DEF Author

\* Every step keeps the types.
LEMMA TypeStep ==
  ASSUME IInv, [Next]_vars
  PROVE  TypeOK'
<1>1. CASE UNCHANGED vars
  BY <1>1 DEF IInv, TypeOK, vars
<1>2. CASE Next
  BY <1>2, AuthoritiesType, WritingType, WorkerType, AuthorType DEF Next, IInv
<1> QED
  BY <1>1, <1>2

-----------------------------------------------------------------------------
(* What the worker and the session remember. *)

\* Every step keeps what the worker needs in hand.
LEMMA WorkerKnowsStep ==
  ASSUME IInv, [Next]_vars
  PROVE  WorkerKnows'
<1> USE DEF IInv, WorkerKnows
<1>1. CASE UNCHANGED prep
  BY <1>1
<1>2. CASE prep' = Idle
  BY <1>2 DEF Idle
<1>3. CASE Prepare
  <2>1. prep'.pc = "audit"
    BY <1>3 DEF Prepare, Idle
  <2> QED
    BY <2>1
<1>4. CASE Audit
  <2>1. PICK r \in AuditReports :
          prep' = [prep EXCEPT !.pc = "extract", !.report = r]
    BY <1>4 DEF Audit
  <2>2. r \in Reports
    BY AuditType
  <2>3. prep'.pc = "extract" /\ prep'.report = r
    BY <2>1 DEF TypeOK
  <2> QED
    BY <2>2, <2>3
<1>5. CASE Extract
  <2>1. PICK c \in ChangeSets :
          prep' = [prep EXCEPT !.pc = "publish", !.changes = c]
    BY <1>5 DEF Extract
  <2>2. prep'.pc = "publish" /\ prep'.changes = c /\ prep'.report = prep.report
    BY <2>1 DEF TypeOK
  <2> QED
    BY <1>5, <2>2 DEF Extract
<1>6. CASE ProcessStops
  <2>1. prep'.pc = "dead"
    BY <1>6 DEF ProcessStops, Idle
  <2> QED
    BY <2>1
<1>7. \/ UNCHANGED prep \/ prep' = Idle
      \/ Prepare \/ Audit \/ Extract \/ ProcessStops
  BY DEF Next, vars, AuthoritiesMove, ConfirmPlanning, ConfirmOutline,
         BindModels, Writing, CreateSession, SaveDraft, OperationStarts,
         OperationEnds, AdjustmentLands, FreezeCandidate, WorkerStep, PrepareFails,
         PrepareCancelled, Invalidate, PublishReview, Author, GetReview,
         DecideFinding, DisputeFinding, Correct, Confirm, Revoke, Cancel, Commit
<1> QED
  BY <1>1, <1>2, <1>3, <1>4, <1>5, <1>6, <1>7

\* Every step keeps the pins of the session.
LEMMA SessionPinsStep ==
  ASSUME IInv, [Next]_vars
  PROVE  SessionPins'
<1> USE DEF SessionPins, Drafting
<1> USE DEF IInv
<1>1. CASE UNCHANGED session
  BY <1>1
<1>2. CASE CreateSession
  <2>1. heads.outline \in Outlines /\ heads.outline.canon = heads.canon
    BY <1>2, StateTypes DEF CreateSession, OutlineStands
  <2> QED
    BY <1>2, <2>1 DEF CreateSession
<1>3. CASE SaveDraft \/ OperationStarts \/ OperationEnds \/ AdjustmentLands
  <2>1. PICK busy, i, text :
          session' = [session EXCEPT !.busy = busy, !.adjusts = i, !.draft = text]
    <3>1. CASE SaveDraft
      <4>1. PICK text \in Texts : session' = [session EXCEPT !.draft = text]
        BY <3>1 DEF SaveDraft
      <4>2. session' = [session EXCEPT !.busy = session.busy,
                                       !.adjusts = session.adjusts, !.draft = text]
        BY <4>1 DEF TypeOK
      <4> QED
        BY <4>2
    <3>2. CASE OperationStarts
      <4>1. PICK i : session' = [session EXCEPT !.busy = TRUE, !.adjusts = i]
        BY <3>2 DEF OperationStarts
      <4>2. session' = [session EXCEPT !.busy = TRUE, !.adjusts = i,
                                       !.draft = session.draft]
        BY <4>1 DEF TypeOK
      <4> QED
        BY <4>2
    <3>3. CASE OperationEnds \/ AdjustmentLands
      <4>1. PICK text : session' = Released(text)
        BY <3>3 DEF OperationEnds, AdjustmentLands
      <4>2. session' = [session EXCEPT !.busy = FALSE, !.adjusts = 0, !.draft = text]
        BY <4>1 DEF Released
      <4> QED
        BY <4>2
    <3> QED
      BY <1>3, <3>1, <3>2, <3>3
  <2>2. /\ session'.status = session.status /\ session'.outline = session.outline
        /\ session'.plan = session.plan /\ session'.canon = session.canon
    BY <2>1 DEF TypeOK
  <2>3. Drafting
    BY <1>3 DEF SaveDraft, OperationStarts, OperationEnds, AdjustmentLands
  <2> QED
    BY <2>2, <2>3
<1>4. ASSUME NEW t \in Tabs, Commit(t) PROVE SessionPins'
  <2>1. Drafting /\ ~session.busy
    BY <1>4, CommitFacts
  <2>2. session' = [session EXCEPT !.status = "final"]
    BY <1>4 DEF Commit, FinalizeSession
  <2>3. /\ session'.outline = session.outline /\ session'.plan = session.plan
        /\ session'.canon = session.canon /\ session'.busy = session.busy
    BY <2>2 DEF TypeOK
  <2> QED
    BY <2>1, <2>3
<1>5. \/ UNCHANGED session \/ CreateSession
      \/ SaveDraft \/ OperationStarts \/ OperationEnds \/ AdjustmentLands
      \/ \E t \in Tabs : Commit(t)
  BY DEF Next, vars, AuthoritiesMove, ConfirmPlanning, ConfirmOutline,
         BindModels, Writing, FreezeCandidate, Prepare, WorkerStep, Audit,
         Extract, PrepareFails, PrepareCancelled, Invalidate, PublishReview,
         ProcessStops, Author, GetReview, DecideFinding, DisputeFinding,
         Correct, Confirm, Revoke, Cancel
<1> QED
  BY <1>1, <1>2, <1>3, <1>4, <1>5

-----------------------------------------------------------------------------
(* The slot, the open rows and the settled confirmations. *)

RowInv == SlotAgrees /\ RowsOpen /\ ConfirmedReviewIsSettled

\* A step that leaves the attempts alone.
LEMMA RowsKept ==
  ASSUME IInv, UNCHANGED attempts,
         prep.pc # "idle" <=> prep'.pc # "idle",
         Drafting => Drafting'
  PROVE  RowInv'
<1>1. SlotAgrees'
  BY DEF IInv, SlotAgrees, Slot, Latest
<1>2. RowsOpen' /\ ConfirmedReviewIsSettled'
  BY DEF IInv, RowsOpen, ConfirmedReviewIsSettled, Unresolved
<1> QED
  BY <1>1, <1>2 DEF RowInv

\* A new session starts without attempts.
LEMMA RowsCleared ==
  ASSUME IInv, CreateSession
  PROVE  RowInv'
<1>1. attempts' = <<>> /\ Len(attempts') = 0 /\ DOMAIN attempts' = {}
  BY DEF CreateSession
<1>2. prep'.pc = "idle"
  BY DEF CreateSession, Idle
<1> QED
  BY <1>1, <1>2
  DEF RowInv, SlotAgrees, Slot, Latest, RowsOpen, ConfirmedReviewIsSettled

\* A prepared attempt takes a slot that nobody holds.
LEMMA RowAdded ==
  ASSUME IInv, Prepare
  PROVE  RowInv'
<1>1. PICK c \in candidates :
        /\ attempts' = Append(attempts,
             [status |-> "preparing", candidate |-> c, manifest |-> heads,
              report |-> None, revs |-> <<>>, confirmed |-> 0,
              disputes |-> Undisputed, decisions |-> 0])
        /\ prep' = [Idle EXCEPT !.pc = "audit", !.blocked = PrechecksBlock(c)]
  BY DEF Prepare
<1> DEFINE row == [status |-> "preparing", candidate |-> c, manifest |-> heads,
                   report |-> None, revs |-> <<>>, confirmed |-> 0,
                   disputes |-> Undisputed, decisions |-> 0]
           n == Len(attempts)
<1>2. row \in Attempts
  <2>1. c \in Candidates /\ heads \in Authorities
    BY StateTypes DEF IInv, TypeOK
  <2>2. Undisputed \in [Findings -> Disputes]
    BY DEF Undisputed, Disputes
  <2> QED
    BY <2>1, <2>2 DEF Attempts, Statuses
<1>3. attempts \in Seq(Attempts)
  BY DEF IInv, TypeOK
<1>4. row.status = "preparing" /\ row.confirmed = 0
  OBVIOUS
<1> HIDE DEF row
<1>5. /\ Len(attempts') = n + 1 /\ DOMAIN attempts' = 1 .. n + 1
      /\ DOMAIN attempts = 1 .. n /\ attempts'[n + 1] = row
      /\ \A j \in DOMAIN attempts : attempts'[j] = attempts[j]
      /\ n \in Nat
  BY <1>1, <1>2, <1>3, NewRow, LenProperties DEF row
<1>6. \A j \in 1 .. n : attempts[j].status \notin ActiveStatuses
  BY DEF Prepare, FreeSlot, Slot
<1>7. prep'.pc = "audit"
  BY <1>1 DEF Idle
<1>8. \A j \in 1 .. n + 1 : j # n + 1 => j \in 1 .. n /\ attempts'[j] = attempts[j]
  BY <1>5
<1>9. SlotAgrees'
  <2>1. Slot' \subseteq {Latest'}
    BY <1>5, <1>6, <1>8 DEF Slot, Latest
  <2>2. Latest' > 0 /\ attempts'[Latest'].status = "preparing"
    BY <1>4, <1>5 DEF Latest
  <2>3. \A i \in DOMAIN attempts' : attempts'[i].status # "awaiting_author"
    BY <1>4, <1>5, <1>6, <1>8 DEF ActiveStatuses
  <2> QED
    BY <1>7, <2>1, <2>2, <2>3 DEF SlotAgrees
<1>10. RowsOpen'
  BY <1>4, <1>5, <1>8 DEF IInv, RowsOpen
<1>11. ConfirmedReviewIsSettled'
  BY <1>4, <1>5, <1>8 DEF IInv, ConfirmedReviewIsSettled, Unresolved
<1> QED
  BY <1>9, <1>10, <1>11 DEF RowInv

\* A step that changes the latest row, when that row stays settled and the
\* request, the slot and the session agree with it.
LEMMA RowChanged ==
  ASSUME IInv, NEW row, RowBecomes(Latest, row),
         row.status = "preparing" => row.confirmed = 0,
         row.status = "awaiting_author" => row.report # None /\ Drafting',
         row.confirmed # 0 => /\ row.confirmed = Len(row.revs)
                              /\ row.report # None /\ ~Unresolved(row),
         prep'.pc # "idle" <=> row.status = "preparing"
  PROVE  RowInv'
<1>1. attempts \in Seq(Attempts) /\ Latest \in Nat
  BY RowTypes DEF IInv, TypeOK, Latest
<1>2. /\ Latest' = Latest
      /\ DOMAIN attempts' = DOMAIN attempts
      /\ attempts'[Latest] = row
      /\ \A j \in DOMAIN attempts : j # Latest => attempts'[j] = attempts[j]
  BY <1>1, OneRow DEF Latest
<1>3. Latest \in DOMAIN attempts /\ DOMAIN attempts = 1 .. Latest /\ Latest > 0
  BY <1>1, RowTypes DEF RowBecomes, IInv, Latest
<1>4. \A j \in DOMAIN attempts : j # Latest => attempts[j].status \notin ActiveStatuses
  BY <1>3 DEF IInv, SlotAgrees, Slot, Latest
<1>5. SlotAgrees'
  <2>1. Slot' \subseteq {Latest'}
    BY <1>2, <1>3, <1>4 DEF Slot, Latest
  <2>2. prep'.pc # "idle" <=>
          Latest' > 0 /\ attempts'[Latest'].status = "preparing"
    BY <1>2, <1>3
  <2>3. \A i \in DOMAIN attempts' :
          attempts'[i].status = "awaiting_author" => Drafting'
    BY <1>2, <1>4 DEF ActiveStatuses
  <2> QED
    BY <2>1, <2>2, <2>3 DEF SlotAgrees
<1>6. RowsOpen'
  BY <1>2 DEF IInv, RowsOpen
<1>7. ConfirmedReviewIsSettled'
  <2>1. \A i \in DOMAIN attempts' : attempts'[i].confirmed # 0 =>
          /\ attempts'[i].confirmed = Len(attempts'[i].revs)
          /\ attempts'[i].report # None
          /\ ~Unresolved(attempts'[i])
    BY <1>2 DEF IInv, ConfirmedReviewIsSettled
  <2> QED
    BY <2>1 DEF ConfirmedReviewIsSettled, Unresolved
<1> QED
  BY <1>5, <1>6, <1>7 DEF RowInv

\* The steps of a preparing request that end it.
LEMMA RowEnded ==
  ASSUME IInv, PrepareFails \/ PrepareCancelled \/ Invalidate
  PROVE  RowInv'
<1> DEFINE old == attempts[Latest]
<1>1. prep.pc # "idle" /\ prep' = Idle
  BY DEF PrepareFails, PrepareCancelled, Invalidate
<1>2. PICK status \in {"failed", "cancelled", "invalidated"},
           report \in Reports \cup {None} :
        MarkTerminal(Latest, status, report)
  BY StateTypes DEF PrepareFails, PrepareCancelled, Invalidate, IInv
<1> DEFINE row == [old EXCEPT !.status = status, !.report = report]
<1>3. RowBecomes(Latest, row)
  BY <1>1, <1>2, TerminalRow
<1>4. old \in Attempts /\ old.confirmed = 0
  BY <1>1, PreparingRow
<1>5. row.status = status /\ row.confirmed = 0
  BY <1>4 DEF Attempts
<1>6. prep'.pc = "idle"
  BY <1>1 DEF Idle
<1> HIDE DEF row
<1> QED
  BY <1>3, <1>5, <1>6, RowChanged

\* Publishing opens the review of a session that is still drafting.
LEMMA RowPublished ==
  ASSUME IInv, PublishReview
  PROVE  RowInv'
<1> DEFINE old == attempts[Latest]
           row == [old EXCEPT !.status = "awaiting_author",
                     !.report = prep.report, !.revs = <<prep.changes>>]
<1>1. prep.pc = "publish" /\ prep' = Idle
  BY DEF PublishReview
<1>2. RowBecomes(Latest, row)
  BY PublishedRow
<1>3. old \in Attempts /\ old.confirmed = 0
  BY <1>1, PreparingRow
<1>4. row.status = "awaiting_author" /\ row.confirmed = 0 /\ row.report = prep.report
  BY <1>3 DEF Attempts
<1>5. prep.report # None
  BY <1>1, NullAssumption DEF IInv, WorkerKnows
<1>6. Drafting'
  BY DEF PublishReview, PrechecksBlock, Drafting
<1>7. prep'.pc = "idle"
  BY <1>1 DEF Idle
<1> HIDE DEF row
<1> QED
  BY <1>2, <1>4, <1>5, <1>6, <1>7, RowChanged

\* A rewrite that lands closes the review and leaves the session drafting.
LEMMA RowAdjusted ==
  ASSUME IInv, AdjustmentLands
  PROVE  RowInv'
<1> DEFINE old == attempts[Latest]
<1>1. PICK row : /\ RowBecomes(Latest, row)
                 /\ old.status = "awaiting_author"
                 /\ row = [old EXCEPT !.status = "invalidated"]
  BY AdjustedRow
<1>2. Latest \in DOMAIN attempts /\ old \in Attempts
  BY <1>1, RowTypes DEF RowBecomes, IInv
<1>3. /\ row.status = "invalidated" /\ row.report = old.report
      /\ row.revs = old.revs /\ row.disputes = old.disputes
      /\ row.confirmed = old.confirmed
  BY <1>1, <1>2 DEF Attempts
<1>4. Unresolved(row) <=> Unresolved(old)
  BY <1>3 DEF Unresolved
<1>5. row.confirmed # 0 => /\ row.confirmed = Len(row.revs)
                           /\ row.report # None /\ ~Unresolved(row)
  BY <1>2, <1>3, <1>4 DEF IInv, ConfirmedReviewIsSettled
<1>6. prep'.pc = "idle"
  BY <1>1 DEF AdjustmentLands, IInv, SlotAgrees
<1> QED
  BY <1>1, <1>3, <1>5, <1>6, RowChanged

\* The author's commands.
LEMMA RowReviewed ==
  ASSUME IInv, NEW t \in Tabs, Author(t)
  PROVE  RowInv'
<1> DEFINE old == attempts[Latest]
<1>1. CASE GetReview(t)
  BY <1>1, RowsKept DEF GetReview, Drafting
<1>2. UNCHANGED prep
  BY DEF Author, GetReview, DecideFinding, DisputeFinding, Correct, Confirm,
         Revoke, Cancel, Commit
<1>3. ASSUME NEW row, RowBecomes(Latest, row), old.status = "awaiting_author"
      PROVE  /\ Latest \in DOMAIN attempts /\ old \in Attempts
             /\ Drafting /\ prep'.pc = "idle" /\ old.report # None
             /\ old.confirmed # 0 => /\ old.confirmed = Len(old.revs)
                                     /\ ~Unresolved(old)
  <2>1. Latest \in DOMAIN attempts
    BY <1>3 DEF RowBecomes
  <2> QED
    BY <1>2, <1>3, <2>1, RowTypes
    DEF IInv, SlotAgrees, RowsOpen, ConfirmedReviewIsSettled
<1>4. CASE DecideFinding(t) \/ DisputeFinding(t) \/ Correct(t)
  <2>1. PICK row : /\ RowBecomes(Latest, row)
                   /\ old.status = "awaiting_author"
                   /\ Revised(old, row)
    BY <1>4, RevisedRow
  <2>2. Drafting'
    BY <1>3, <1>4, <2>1 DEF DecideFinding, DisputeFinding, Correct, Drafting
  <2> QED
    BY <1>3, <2>1, <2>2, RowChanged DEF Revised
<1>5. CASE Confirm(t)
  <2>1. PICK row : /\ RowBecomes(Latest, row)
                   /\ old.status = "awaiting_author"
                   /\ Approves(old, row)
    BY <1>5, ConfirmedRow
  <2>2. /\ row.status = "awaiting_author" /\ row.report = old.report
        /\ row.revs = old.revs /\ row.disputes = old.disputes
        /\ row.confirmed = Len(old.revs)
    BY <1>3, <2>1 DEF Approves, Attempts
  <2>3. ~Unresolved(row)
    BY <2>1, <2>2 DEF Approves, Unresolved
  <2>4. Drafting'
    BY <1>3, <1>5, <2>1 DEF Confirm, Drafting
  <2> QED
    BY <1>3, <2>1, <2>2, <2>3, <2>4, RowChanged
<1>6. CASE Revoke(t) \/ Cancel(t) \/ Commit(t)
  <2>1. PICK row : /\ RowBecomes(Latest, row)
                   /\ old.status = "awaiting_author"
                   /\ Closes(old, row)
    BY <1>6, ClosedRow
  <2>2. /\ row.status \in {"cancelled", "committed"} /\ row.report = old.report
        /\ row.revs = old.revs /\ row.disputes = old.disputes
        /\ row.confirmed = old.confirmed
    BY <1>3, <2>1 DEF Closes, Attempts
  <2>3. Unresolved(row) <=> Unresolved(old)
    BY <2>2 DEF Unresolved
  <2> QED
    BY <1>3, <2>1, <2>2, <2>3, RowChanged
<1> QED
  BY <1>1, <1>4, <1>5, <1>6 DEF Author

\* Every step keeps slot, open rows and settled confirmations.
LEMMA RowStep ==
  ASSUME IInv, [Next]_vars
  PROVE  RowInv'
<1>1. CASE UNCHANGED vars
  BY <1>1, RowsKept DEF vars, Drafting
<1>2. CASE AuthoritiesMove
  BY <1>2, RowsKept
  DEF AuthoritiesMove, ConfirmPlanning, ConfirmOutline, BindModels, Drafting
<1>3. CASE CreateSession
  BY <1>3, RowsCleared
<1>4. CASE SaveDraft \/ OperationStarts \/ OperationEnds \/ FreezeCandidate
  <2>1. Drafting => Drafting'
    BY <1>4 DEF IInv, TypeOK, SaveDraft, OperationStarts, OperationEnds,
                Released, FreezeCandidate, Drafting
  <2> QED
    BY <1>4, <2>1, RowsKept
    DEF SaveDraft, OperationStarts, OperationEnds, FreezeCandidate
<1>5. CASE Prepare
  BY <1>5, RowAdded
<1>6. CASE Audit \/ Extract \/ ProcessStops
  <2>1. prep.pc # "idle" /\ prep'.pc # "idle"
    BY <1>6 DEF Audit, Extract, ProcessStops, Idle, IInv, TypeOK
  <2> QED
    BY <1>6, <2>1, RowsKept DEF Audit, Extract, ProcessStops, Drafting
<1>7. CASE PrepareFails \/ PrepareCancelled \/ Invalidate
  BY <1>7, RowEnded
<1>8. CASE PublishReview
  BY <1>8, RowPublished
<1>9. CASE AdjustmentLands
  BY <1>9, RowAdjusted
<1>10. ASSUME NEW t \in Tabs, Author(t) PROVE RowInv'
  BY <1>10, RowReviewed
<1> QED
  BY <1>1, <1>2, <1>3, <1>4, <1>5, <1>6, <1>7, <1>8, <1>9, <1>10
  DEF Next, Writing, WorkerStep

-----------------------------------------------------------------------------
(* The invariant, and the properties that are part of it. *)

\* The invariant of the proofs holds at first and is kept by every step: one
\* slot, its request, its confirmation and the session stay in agreement.
THEOREM Inductive ==
  /\ Init => IInv
  /\ IInv /\ [Next]_vars => IInv'
<1>1. ASSUME Init PROVE IInv
  <2>1. prep.pc = "idle" /\ session.status = "none" /\ ~session.busy
    BY <1>1 DEF Init, Idle
  <2>2. attempts = <<>> /\ Len(attempts) = 0 /\ DOMAIN attempts = {}
    BY <1>1 DEF Init
  <2>3. WorkerKnows /\ SessionPins
    BY <2>1 DEF WorkerKnows, SessionPins
  <2>4. SlotAgrees /\ RowsOpen /\ ConfirmedReviewIsSettled
    BY <2>1, <2>2 DEF SlotAgrees, Slot, Latest, RowsOpen, ConfirmedReviewIsSettled
  <2> QED
    BY <1>1, <2>3, <2>4, InitType DEF IInv
<1>2. ASSUME IInv, [Next]_vars PROVE IInv'
  BY <1>2, TypeStep, WorkerKnowsStep, SessionPinsStep, RowStep DEF IInv, RowInv
<1> QED
  BY <1>1, <1>2

\* Every row, the worker's memory and what each tab has seen stay well typed.
THEOREM TypeCorrect == Spec => []TypeOK
<1>1. IInv => TypeOK
  BY DEF IInv
<1> QED
  BY <1>1, Inductive, PTL DEF Spec

\* Only the latest attempt is ever active, it is being prepared exactly while a
\* request prepares it or has died doing so, and a finished chapter has no open
\* review (find_active, mark_terminal, publish_awaiting_author).
THEOREM OneSlot == Spec => []SlotAgrees
<1>1. IInv => SlotAgrees
  BY DEF IInv
<1> QED
  BY <1>1, Inductive, PTL DEF Spec

\* A confirmed review is its last revision with every required finding settled,
\* whatever the other tabs do (_require_review_state, has_required_findings).
THEOREM ConfirmedSettled == Spec => []ConfirmedReviewIsSettled
<1>1. IInv => ConfirmedReviewIsSettled
  BY DEF IInv
<1> QED
  BY <1>1, Inductive, PTL DEF Spec

-----------------------------------------------------------------------------
(* The book. *)

\* A commit adds one chapter, moves the Canon on and closes the session.
LEMMA CommitEffect ==
  ASSUME IInv, NEW t \in Tabs, Commit(t)
  PROVE  /\ book \in Seq(Chapters) /\ book' \in Seq(Chapters)
         /\ Len(book) \in Nat /\ Len(book') = Len(book) + 1
         /\ DOMAIN book = 1 .. Len(book) /\ DOMAIN book' = 1 .. Len(book) + 1
         /\ \A n \in 1 .. Len(book) : book'[n] = book[n]
         /\ book'[Len(book) + 1].candidate = attempts[Latest].candidate
         /\ book'[Len(book) + 1].changes = seen[t].changes
         /\ book'[Len(book) + 1].plan = session.plan
         /\ book'[Len(book) + 1].outline = session.outline
         /\ heads'.canon = heads.canon + 1
         /\ session' = [session EXCEPT !.status = "final"]
<1> DEFINE chapter == [candidate |-> attempts[Latest].candidate,
                       changes |-> seen[t].changes,
                       plan |-> session.plan, outline |-> session.outline]
<1>1. attempts[Latest].candidate \in Candidates /\ session.plan \in Plans
  BY CommitFacts DEF Attempts, IInv, TypeOK
<1>2. chapter \in Chapters
  BY <1>1, CommitFacts DEF Chapters
<1>3. book' = Append(book, chapter) /\ book \in Seq(Chapters)
  BY DEF Commit, IInv, TypeOK
<1>a. /\ chapter.candidate = attempts[Latest].candidate
      /\ chapter.changes = seen[t].changes
      /\ chapter.plan = session.plan /\ chapter.outline = session.outline
  OBVIOUS
<1> HIDE DEF chapter
<1>4. /\ book' \in Seq(Chapters) /\ Len(book') = Len(book) + 1
      /\ \A n \in 1 .. Len(book) : book'[n] = book[n]
      /\ book'[Len(book) + 1] = chapter
  BY <1>2, <1>3, AppendProperties
<1>5. /\ Len(book) \in Nat /\ DOMAIN book = 1 .. Len(book)
      /\ DOMAIN book' = 1 .. Len(book')
  BY <1>3, <1>4, LenProperties
<1>6. heads'.canon = heads.canon + 1
  <2>1. PICK plan : heads' = [heads EXCEPT !.canon = @ + 1, !.plan = plan,
                                           !.outline = None]
    BY DEF Commit, AdvanceHeads
  <2>2. heads \in Authorities
    BY StateTypes DEF IInv
  <2> QED
    BY <2>1, <2>2 DEF Authorities
<1>7. session' = [session EXCEPT !.status = "final"]
  BY DEF Commit, FinalizeSession
<1> QED
  BY <1>a, <1>3, <1>4, <1>5, <1>6, <1>7

\* A step is a commit, opens a session, or leaves the book, the number of the
\* chapter in work and its pins alone.
LEMMA BookSteps ==
  ASSUME IInv, [Next]_vars
  PROVE  \/ \E t \in Tabs : Commit(t)
         \/ CreateSession
         \/ /\ UNCHANGED book
            /\ heads'.canon = heads.canon
            /\ session'.status = session.status
            /\ session'.chapter = session.chapter
            /\ session'.canon = session.canon
            /\ session.status = "final" => session'.draft = session.draft
<1> USE DEF IInv, Drafting
<1>1. CASE AuthoritiesMove
  <2>1. heads'.canon = heads.canon
    BY <1>1, StateTypes DEF AuthoritiesMove, ConfirmPlanning, ConfirmOutline,
                            BindModels, Authorities
  <2> QED
    BY <1>1, <2>1
    DEF AuthoritiesMove, ConfirmPlanning, ConfirmOutline, BindModels
<1>2. CASE SaveDraft \/ OperationStarts \/ OperationEnds \/ AdjustmentLands
  <2>1. session.status = "drafting"
    BY <1>2 DEF SaveDraft, OperationStarts, OperationEnds, AdjustmentLands,
                SessionPins
  <2>2. /\ session'.status = session.status
        /\ session'.chapter = session.chapter
        /\ session'.canon = session.canon
    BY <1>2 DEF SaveDraft, OperationStarts, OperationEnds, AdjustmentLands,
                Released, TypeOK
  <2> QED
    BY <1>2, <2>1, <2>2
    DEF SaveDraft, OperationStarts, OperationEnds, AdjustmentLands
<1>3. CASE UNCHANGED <<book, heads, session>>
  BY <1>3
<1>4. \/ UNCHANGED <<book, heads, session>>
      \/ AuthoritiesMove
      \/ SaveDraft \/ OperationStarts \/ OperationEnds \/ AdjustmentLands
      \/ CreateSession \/ \E t \in Tabs : Commit(t)
  BY DEF Next, vars, Writing, FreezeCandidate, Prepare, WorkerStep, Audit,
         Extract, PrepareFails, PrepareCancelled, Invalidate, PublishReview,
         ProcessStops, Author, GetReview, DecideFinding, DisputeFinding,
         Correct, Confirm, Revoke, Cancel
<1> QED
  BY <1>1, <1>2, <1>3, <1>4

\* The Canon has one revision per chapter of the book, the chapter in work is
\* the next one and starts from that Canon (commit, advance_project_chapter,
\* create_session).
THEOREM InOrder == Spec => []ChaptersInOrder
<1> USE DEF ChaptersInOrder, Drafting
<1>1. Init => ChaptersInOrder
  <2> SUFFICES ASSUME Init PROVE ChaptersInOrder
    OBVIOUS
  <2>1. heads.canon = 0 /\ session.status = "none" /\ Len(book) = 0
    BY DEF Init
  <2> QED
    BY <2>1
<1>2. IInv /\ ChaptersInOrder /\ [Next]_vars => ChaptersInOrder'
  <2> SUFFICES ASSUME IInv, ChaptersInOrder, [Next]_vars PROVE ChaptersInOrder'
    OBVIOUS
  <2>1. ASSUME NEW t \in Tabs, Commit(t) PROVE ChaptersInOrder'
    <3>1. session.status = "drafting"
      BY <2>1, CommitFacts
    <3>2. session'.status = "final" /\ session'.chapter = session.chapter
      BY <2>1, CommitEffect DEF IInv, TypeOK
    <3> QED
      BY <2>1, <3>1, <3>2, CommitEffect
  <2>2. CASE CreateSession
    BY <2>2 DEF CreateSession
  <2>3. CASE /\ UNCHANGED book
             /\ heads'.canon = heads.canon
             /\ session'.status = session.status
             /\ session'.chapter = session.chapter
             /\ session'.canon = session.canon
    BY <2>3
  <2> QED
    BY <2>1, <2>2, <2>3, BookSteps
<1> QED
  BY <1>1, <1>2, Inductive, PTL DEF Spec

\* What is recorded with the n-th chapter agrees with its candidate.
Pinned(chapter, n) ==
  /\ Content(chapter.outline) = Content(chapter.candidate.outline)
  /\ chapter.outline.plan = chapter.plan
  /\ chapter.outline.canon = n - 1
  /\ chapter.candidate.text \notin Copied

\* A commit pins the new chapter.
LEMMA CommitPins ==
  ASSUME IInv, ChaptersInOrder, NEW t \in Tabs, Commit(t)
  PROVE  /\ Pinned(book'[Len(book) + 1], Len(book) + 1)
         /\ book'[Len(book) + 1].candidate.text = session'.draft
<1> DEFINE a == attempts[Latest]
           chapter == book'[Len(book) + 1]
<1>1. /\ Content(session.outline) = Content(a.candidate.outline)
      /\ session.draft = a.candidate.text
      /\ a.candidate.text \notin Copied
  BY CommitFacts DEF PrechecksBlock, Current
<1>2. session.outline.plan = session.plan /\ session.outline.canon = Len(book)
  BY CommitFacts DEF IInv, SessionPins, ChaptersInOrder, Drafting
<1>3. /\ chapter.outline = session.outline /\ chapter.plan = session.plan
      /\ chapter.candidate = a.candidate /\ Len(book) \in Nat
  BY CommitEffect
<1>4. session'.draft = session.draft
  BY CommitEffect DEF IInv, TypeOK
<1> HIDE DEF chapter, a
<1>5. Pinned(chapter, Len(book) + 1)
  BY <1>1, <1>2, <1>3 DEF Pinned
<1>6. chapter.candidate.text = session'.draft
  BY <1>1, <1>3, <1>4
<1> QED
  BY <1>5, <1>6 DEF chapter

\* A chapter is recorded with planning and outline of the content its candidate
\* was frozen under, on the Canon its predecessors left, and with the draft its
\* session was closed with (insert_final_chapter, run_finalization_prechecks).
THEOREM PinsCandidate == Spec => []BookPinsItsCandidate
<1>1. Init => BookPinsItsCandidate
  BY DEF Init, BookPinsItsCandidate
<1>2. IInv /\ ChaptersInOrder /\ BookPinsItsCandidate /\ [Next]_vars
        => BookPinsItsCandidate'
  <2> SUFFICES ASSUME IInv, ChaptersInOrder, BookPinsItsCandidate, [Next]_vars
               PROVE  BookPinsItsCandidate'
    OBVIOUS
  <2>1. ASSUME NEW t \in Tabs, Commit(t) PROVE BookPinsItsCandidate'
    <3>1. /\ DOMAIN book = 1 .. Len(book) /\ Len(book) \in Nat
          /\ DOMAIN book' = 1 .. Len(book) + 1 /\ Len(book') = Len(book) + 1
          /\ \A n \in 1 .. Len(book) : book'[n] = book[n]
      BY <2>1, CommitEffect
    <3>2. \A n \in 1 .. Len(book) : Pinned(book[n], n)
      BY <3>1 DEF BookPinsItsCandidate, Pinned
    <3>3. \A n \in DOMAIN book' : Pinned(book'[n], n)
      <4> TAKE n \in DOMAIN book'
      <4>1. CASE n \in 1 .. Len(book)
        BY <3>1, <3>2, <4>1
      <4>2. CASE n = Len(book) + 1
        BY <2>1, <4>2, CommitPins
      <4> QED
        BY <3>1, <4>1, <4>2
    <3>4. book'[Len(book')].candidate.text = session'.draft
      BY <2>1, <3>1, CommitPins
    <3> QED
      BY <3>3, <3>4 DEF BookPinsItsCandidate, Pinned, Content
  <2>2. CASE CreateSession
    <3>1. UNCHANGED book /\ session'.status = "drafting"
      BY <2>2 DEF CreateSession
    <3> QED
      BY <3>1 DEF BookPinsItsCandidate, Content
  <2>3. CASE /\ UNCHANGED book
             /\ session'.status = session.status
             /\ session.status = "final" => session'.draft = session.draft
    BY <2>3 DEF BookPinsItsCandidate, Content
  <2> QED
    BY <2>1, <2>2, <2>3, BookSteps
<1> QED
  BY <1>1, <1>2, Inductive, InOrder, PTL DEF Spec

\* The book is what was approved, chapter by chapter, with each chapter's pins.
THEOREM BookIsSound == Spec => []BookSound
<1>1. ChaptersInOrder /\ BookPinsItsCandidate => BookSound
  BY DEF BookSound
<1> QED
  BY <1>1, InOrder, PinsCandidate, PTL

-----------------------------------------------------------------------------
(* Finalization implements ChapterPublication. *)

\* What the author approved of a book, chapter by chapter.
Published(chapters) == [n \in DOMAIN chapters |-> Matter(chapters[n])]

\* It is a sequence of matters.
LEMMA PublishedType ==
  ASSUME NEW chapters \in Seq(Chapters)
  PROVE  /\ Published(chapters) \in Seq(Matters)
         /\ Len(Published(chapters)) = Len(chapters)
<1>1. Len(chapters) \in Nat /\ DOMAIN chapters = 1 .. Len(chapters)
  BY LenProperties
<1>2. ASSUME NEW n \in 1 .. Len(chapters)
      PROVE  Matter(chapters[n]) \in Matters
  <2>1. chapters[n] \in Chapters
    BY ElementOfSeq
  <2> QED
    BY <2>1 DEF Matter, Chapters, Matters
<1>3. Published(chapters) \in [1 .. Len(chapters) -> Matters]
  BY <1>1, <1>2 DEF Published
<1> QED
  BY <1>1, <1>3

\* A commit appends its matter to it.
LEMMA PublishedGrows ==
  ASSUME IInv, NEW t \in Tabs, Commit(t)
  PROVE  Published(book') = Append(Published(book),
           [candidate |-> attempts[Latest].candidate, changes |-> seen[t].changes])
<1> DEFINE matter == [candidate |-> attempts[Latest].candidate,
                      changes |-> seen[t].changes]
<1>1. attempts[Latest].candidate \in Candidates
  BY CommitFacts DEF Attempts
<1>2. matter \in Matters
  BY <1>1, CommitFacts DEF Matters
<1>3. /\ book \in Seq(Chapters) /\ book' \in Seq(Chapters)
      /\ Len(book) \in Nat /\ DOMAIN book = 1 .. Len(book)
      /\ DOMAIN book' = 1 .. Len(book) + 1 /\ Len(book') = Len(book) + 1
      /\ \A n \in 1 .. Len(book) : book'[n] = book[n]
  BY CommitEffect
<1>4. /\ Published(book) \in Seq(Matters) /\ Len(Published(book)) = Len(book)
      /\ Published(book') \in Seq(Matters)
      /\ Len(Published(book')) = Len(book) + 1
  BY <1>3, PublishedType
<1>5. \A n \in 1 .. Len(book) : Published(book')[n] = Published(book)[n]
  BY <1>3 DEF Published
<1>6. Published(book')[Len(book) + 1] = matter
  <2>1. /\ book'[Len(book) + 1].candidate = attempts[Latest].candidate
        /\ book'[Len(book) + 1].changes = seen[t].changes
    BY CommitEffect
  <2>2. Len(book) + 1 \in DOMAIN book'
    BY <1>3
  <2> QED
    BY <2>1, <2>2 DEF Published, Matter
<1> HIDE DEF matter
<1>7. /\ Append(Published(book), matter) \in Seq(Matters)
      /\ Len(Append(Published(book), matter)) = Len(book) + 1
      /\ \A n \in 1 .. Len(book) :
           Append(Published(book), matter)[n] = Published(book)[n]
      /\ Append(Published(book), matter)[Len(book) + 1] = matter
  BY <1>2, <1>4, AppendProperties
<1>8. \A n \in 1 .. Len(book) + 1 :
        Published(book')[n] = Append(Published(book), matter)[n]
  <2> TAKE n \in 1 .. Len(book) + 1
  <2>1. n \in 1 .. Len(book) \/ n = Len(book) + 1
    BY <1>3
  <2> QED
    BY <1>5, <1>6, <1>7, <2>1
<1>9. Published(book') = Append(Published(book), matter)
  BY <1>4, <1>7, <1>8, SeqEqual
<1> QED
  BY <1>9 DEF matter

\* The authorities that stand beside the Canon are such authorities.
LEMMA StandingType ==
  ASSUME NEW authorities \in Authorities
  PROVE  Standing(authorities) \in Standings
BY DEF Standing, Standings, Authorities

\* Steps that neither approve nor move the Canon and the book.
LEMMA NothingPublished ==
  ASSUME IInv, TypeOK', UNCHANGED book, heads'.canon = heads.canon,
         Approval' = Approval
  PROVE  Publication!Drift
<1>1. Standing(heads') \in Standings
  BY StandingType DEF TypeOK
<1>2. Published(book') = Published(book)
  OBVIOUS
<1> QED
  BY <1>1, <1>2 DEF Publication!Drift, Published

\* The latest row alone decides what is approved.
LEMMA ApprovalOfRow ==
  ASSUME IInv, NEW row, RowBecomes(Latest, row)
  PROVE  Approval' =
           IF row.status = "awaiting_author" /\ row.confirmed # 0
           THEN [matter |-> [candidate |-> row.candidate,
                             changes |-> row.revs[row.confirmed]],
                 canon |-> row.manifest.canon, standing |-> Standing(row.manifest)]
           ELSE None
<1>1. attempts \in Seq(Attempts) /\ Latest \in Nat
  BY RowTypes DEF IInv, TypeOK, Latest
<1>2. Latest' = Latest /\ attempts'[Latest] = row
  BY <1>1, OneRow DEF Latest
<1>3. Latest \in DOMAIN attempts /\ DOMAIN attempts = 1 .. Latest /\ Latest > 0
  BY <1>1, RowTypes DEF RowBecomes, IInv, Latest
<1> QED
  BY <1>2, <1>3 DEF Approval, Approved, Standing

\* Nothing is approved before the latest row is confirmed.
LEMMA NotApproved ==
  ASSUME \/ Latest = 0
         \/ attempts[Latest].status # "awaiting_author"
         \/ attempts[Latest].confirmed = 0
  PROVE  Approval = None
BY DEF Approval, Approved

\* The preparing request approves nothing.
LEMMA WorkerApprovesNothing ==
  ASSUME IInv, Prepare \/ WorkerStep \/ ProcessStops
  PROVE  Approval' = Approval
<1> DEFINE old == attempts[Latest]
<1>1. CASE Audit \/ Extract \/ ProcessStops
  BY <1>1 DEF Audit, Extract, ProcessStops, Approval, Approved, Latest
<1>2. CASE Prepare
  <2>1. IInv /\ RowInv'
    BY <1>2, RowAdded
  <2>2. Latest = 0 \/ old.status # "awaiting_author"
    <3>1. Slot = {}
      BY <1>2 DEF Prepare, FreeSlot
    <3>2. Latest \in Nat
      BY RowTypes DEF IInv, Latest
    <3> QED
      BY <3>1, <3>2 DEF Slot, ActiveStatuses, Latest
  <2>3. prep'.pc # "idle"
    BY <1>2 DEF Prepare, Idle
  <2>4. attempts'[Latest'].status = "preparing"
    BY <2>1, <2>3 DEF RowInv, SlotAgrees
  <2>5. Approval' = None
    BY <2>4 DEF Approval, Approved
  <2> QED
    BY <2>2, <2>5, NotApproved
<1>3. CASE PrepareFails \/ PrepareCancelled \/ Invalidate
  <2>1. PICK status \in {"failed", "cancelled", "invalidated"},
             report \in Reports \cup {None} :
          MarkTerminal(Latest, status, report)
    BY <1>3, StateTypes DEF PrepareFails, PrepareCancelled, Invalidate, IInv
  <2>2. prep.pc # "idle"
    BY <1>3 DEF PrepareFails, PrepareCancelled, Invalidate
  <2> DEFINE row == [old EXCEPT !.status = status, !.report = report]
  <2>3. old \in Attempts /\ old.status = "preparing"
    BY <2>2, PreparingRow
  <2>4. row.status # "awaiting_author"
    BY <2>3 DEF Attempts
  <2>5. RowBecomes(Latest, row)
    BY <2>1, <2>2, TerminalRow
  <2> HIDE DEF row
  <2> QED
    BY <2>3, <2>4, <2>5, ApprovalOfRow, NotApproved
<1>4. CASE PublishReview
  <2> DEFINE row == [old EXCEPT !.status = "awaiting_author",
                       !.report = prep.report, !.revs = <<prep.changes>>]
  <2>1. old \in Attempts /\ old.status = "preparing" /\ old.confirmed = 0
    BY <1>4, PreparingRow DEF PublishReview
  <2>2. row.confirmed = 0
    BY <2>1 DEF Attempts
  <2>3. RowBecomes(Latest, row)
    BY <1>4, PublishedRow
  <2> HIDE DEF row
  <2> QED
    BY <2>1, <2>2, <2>3, ApprovalOfRow, NotApproved
<1> QED
  BY <1>1, <1>2, <1>3, <1>4 DEF WorkerStep

\* What is approved is an approval, and is not NULL.
LEMMA ApprovalType ==
  ASSUME IInv, Approved
  PROVE  /\ Approval \in [matter : Matters, canon : Nat, standing : Standings]
         /\ Approval # None
<1> DEFINE a == attempts[Latest]
<1>1. Latest > 0 /\ a.confirmed # 0
  BY DEF Approved
<1>2. Latest \in DOMAIN attempts /\ a \in Attempts
  BY <1>1, RowTypes DEF Latest, IInv
<1>3. a.confirmed = Len(a.revs)
  BY <1>1, <1>2 DEF IInv, ConfirmedReviewIsSettled
<1>4. a.revs[a.confirmed] \in ChangeSets
  BY <1>1, <1>2, <1>3, RevisionTypes
<1>5. a.candidate \in Candidates /\ a.manifest \in Authorities
  BY <1>2 DEF Attempts
<1>6. a.manifest.canon \in Nat /\ Standing(a.manifest) \in Standings
  BY <1>5, StandingType DEF Authorities
<1>7. [candidate |-> a.candidate, changes |-> a.revs[a.confirmed]] \in Matters
  BY <1>4, <1>5 DEF Matters
<1>8. Approval = [matter |-> [candidate |-> a.candidate,
                              changes |-> a.revs[a.confirmed]],
                  canon |-> a.manifest.canon, standing |-> Standing(a.manifest)]
  BY DEF Approval
<1>9. Approval \in [matter : Matters, canon : Nat, standing : Standings]
  BY <1>6, <1>7, <1>8
<1> QED
  BY <1>9, NullAssumption

\* Reading and revising a review, and closing one without a commit, approve
\* nothing: a closed review takes its approval with it.
LEMMA AuthorApproval ==
  ASSUME IInv, TypeOK', NEW t \in Tabs, Author(t), ~Commit(t)
  PROVE  Publication!Next \/ UNCHANGED Publication!pubVars
<1> DEFINE old == attempts[Latest]
<1>1. UNCHANGED <<heads, book>>
  BY DEF Author, GetReview, DecideFinding, DisputeFinding, Correct, Confirm,
         Revoke, Cancel
<1>2. ASSUME Approval' = Approval
      PROVE  UNCHANGED Publication!pubVars
  BY <1>1, <1>2 DEF Publication!pubVars, Standing, Matter
<1>3. CASE GetReview(t)
  <2>1. Approval' = Approval
    BY <1>3 DEF GetReview, Approval, Approved, Latest
  <2> QED
    BY <1>2, <2>1
<1>4. CASE DecideFinding(t) \/ DisputeFinding(t) \/ Correct(t)
  <2>1. PICK row : RowBecomes(Latest, row) /\ Revised(old, row)
    BY <1>4, RevisedRow
  <2>2. old.confirmed = 0 /\ row.confirmed = 0
    BY <2>1 DEF Revised
  <2>3. Approval' = Approval
    BY <2>1, <2>2, ApprovalOfRow, NotApproved
  <2> QED
    BY <1>2, <2>3
<1>5. CASE Confirm(t)
  <2>1. PICK row : RowBecomes(Latest, row) /\ Approves(old, row)
                   /\ old.status = "awaiting_author"
    BY <1>5, ConfirmedRow
  <2>2. Latest \in DOMAIN attempts /\ old \in Attempts
    BY <2>1, RowTypes DEF RowBecomes, IInv
  <2>3. /\ old.confirmed = 0 /\ Len(old.revs) # 0 /\ old.manifest = heads
        /\ row.status = "awaiting_author" /\ row.candidate = old.candidate
        /\ row.revs = old.revs /\ row.confirmed = Len(old.revs)
        /\ row.manifest = heads
    BY <2>1, <2>2 DEF Approves, Attempts
  <2>4. Approval = None
    BY <2>3, NotApproved
  <2>5. Approval' = [matter |-> [candidate |-> old.candidate,
                                 changes |-> old.revs[Len(old.revs)]],
                     canon |-> heads.canon, standing |-> Standing(heads)]
    BY <2>1, <2>3, ApprovalOfRow
  <2>6. [candidate |-> old.candidate, changes |-> old.revs[Len(old.revs)]] \in Matters
    <3>1. Len(old.revs) \in 1 .. Len(old.revs)
      BY <2>2, <2>3, RevisionTypes
    <3>2. old.revs[Len(old.revs)] \in ChangeSets
      BY <2>2, <3>1, RevisionTypes
    <3> QED
      BY <2>2, <3>2 DEF Matters, Attempts
  <2>7. Publication!Approve
    <3>1. Approval' \in [matter : Matters, canon : {heads.canon},
                         standing : {Standing(heads)}]
      BY <2>5, <2>6
    <3> QED
      BY <1>1, <2>4, <3>1 DEF Publication!Approve, Standing, Matter
  <2> QED
    BY <2>7 DEF Publication!Next
<1>6. CASE Revoke(t) \/ Cancel(t)
  <2>1. PICK row : RowBecomes(Latest, row) /\ Closes(old, row)
    BY <1>6, ClosedRow
  <2>2. old \in Attempts
    BY <2>1, RowTypes DEF RowBecomes, IInv
  <2>3. row.status # "awaiting_author"
    BY <2>1, <2>2 DEF Closes, Attempts
  <2>4. Approval' = None
    BY <2>1, <2>3, ApprovalOfRow
  <2>5. Publication!Withdraw
    BY <1>1, <2>4 DEF Publication!Withdraw, Standing, Matter
  <2> QED
    BY <2>5 DEF Publication!Next
<1> QED
  BY <1>3, <1>4, <1>5, <1>6 DEF Author

\* A commit publishes what was approved, under the authorities of the approval.
LEMMA CommitPublishes ==
  ASSUME IInv, TypeOK', NEW t \in Tabs, Commit(t)
  PROVE  Publication!Publish
<1> DEFINE a == attempts[Latest]
<1>1. Latest > 0
  BY DEF Commit
<1>2. Approved
  BY <1>1, CommitFacts DEF Approved
<1>3. /\ Approval.matter = [candidate |-> a.candidate, changes |-> seen[t].changes]
      /\ Approval.canon = heads.canon
      /\ Approval.standing = Standing(heads)
  <2>1. Approval = [matter |-> [candidate |-> a.candidate,
                                changes |-> a.revs[a.confirmed]],
                    canon |-> a.manifest.canon, standing |-> Standing(a.manifest)]
    BY <1>2 DEF Approval
  <2>2. seen[t].changes = a.revs[a.confirmed] /\ a.manifest = heads
    BY CommitFacts
  <2> QED
    BY <2>1, <2>2
<1>4. Approval # None
  BY <1>2, ApprovalType
<1>5. Published(book') = Append(Published(book), Approval.matter)
  BY <1>3, PublishedGrows
<1>6. Approval' = None
  <2>1. PICK row : RowBecomes(Latest, row) /\ Closes(a, row)
    BY ClosedRow
  <2>2. row.status # "awaiting_author"
    BY <2>1, CommitFacts DEF Closes, Attempts
  <2> QED
    BY <2>1, <2>2, ApprovalOfRow
<1>7. heads'.canon = heads.canon + 1
  BY CommitEffect
<1>8. Standing(heads') \in Standings
  BY StandingType DEF TypeOK
<1> QED
  BY <1>3, <1>4, <1>5, <1>6, <1>7, <1>8
  DEF Publication!Publish, Published, Standing

\* Finalization implements ChapterPublication: what enters the book is what its
\* author approved last, under the authorities it was approved under (confirm,
\* _lock_review_inputs, commit).
THEOREM Refinement == Spec => ImplementsPublication
<1>1. Init => Publication!Init
  <2> SUFFICES ASSUME Init PROVE Publication!Init
    OBVIOUS
  <2>1. heads \in Authorities /\ heads.canon = 0
    BY InitType DEF Init, TypeOK
  <2>2. Standing(heads) \in Standings
    BY <2>1, StandingType
  <2>3. Latest = 0
    BY DEF Init, Latest
  <2>4. Approval = None
    BY <2>3, NotApproved
  <2>5. Published(book) = <<>>
    <3>1. book \in Seq(Chapters) /\ Len(book) = 0
      BY DEF Init
    <3>2. Published(book) \in Seq(Matters) /\ Len(Published(book)) = 0
      BY <3>1, PublishedType
    <3> QED
      BY <3>2, EmptySeq
  <2> QED
    BY <2>1, <2>2, <2>4, <2>5 DEF Publication!Init, Published
<1>2. IInv /\ [Next]_vars => [Publication!Next]_Publication!pubVars
  <2> SUFFICES ASSUME IInv, [Next]_vars
               PROVE  Publication!Next \/ UNCHANGED Publication!pubVars
    OBVIOUS
  <2>1. TypeOK'
    BY TypeStep
  <2>2. ASSUME UNCHANGED <<heads, book>>, Approval' = Approval
        PROVE  UNCHANGED Publication!pubVars
    BY <2>2 DEF Publication!pubVars, Standing, Matter
  <2>3. CASE UNCHANGED vars
    <3>1. Approval' = Approval
      BY <2>3 DEF vars, Approval, Approved, Latest
    <3> QED
      BY <2>2, <2>3, <3>1 DEF vars
  <2>4. CASE AuthoritiesMove
    <3>1. Approval' = Approval
      BY <2>4 DEF AuthoritiesMove, ConfirmPlanning, ConfirmOutline, BindModels,
                  Approval, Approved, Latest
    <3>2. UNCHANGED book /\ heads'.canon = heads.canon
      BY <2>4, StateTypes
      DEF AuthoritiesMove, ConfirmPlanning, ConfirmOutline, BindModels,
          Authorities, IInv
    <3>3. Publication!Drift
      BY <2>1, <3>1, <3>2, NothingPublished
    <3> QED
      BY <3>3 DEF Publication!Next
  <2>5. CASE CreateSession
    <3>1. ~Drafting /\ attempts' = <<>>
      BY <2>5 DEF CreateSession
    <3>2. Latest = 0 \/ attempts[Latest].status # "awaiting_author"
      BY <3>1, RowTypes DEF IInv, SlotAgrees, Latest
    <3>3. Approval = None
      BY <3>2, NotApproved
    <3>4. Approval' = None
      BY <3>1 DEF Approval, Approved, Latest
    <3> QED
      BY <2>2, <2>5, <3>3, <3>4 DEF CreateSession
  <2>6. CASE SaveDraft \/ OperationStarts \/ OperationEnds \/ FreezeCandidate
    <3>1. Approval' = Approval
      BY <2>6 DEF SaveDraft, OperationStarts, OperationEnds, FreezeCandidate,
                  Approval, Approved, Latest
    <3> QED
      BY <2>2, <2>6, <3>1
      DEF SaveDraft, OperationStarts, OperationEnds, FreezeCandidate
  <2>7. CASE Prepare \/ WorkerStep \/ ProcessStops
    <3>1. UNCHANGED <<heads, book>>
      BY <2>7 DEF Prepare, WorkerStep, ProcessStops, Audit, Extract, PrepareFails,
                  PrepareCancelled, Invalidate, PublishReview
    <3> QED
      BY <2>2, <2>7, <3>1, WorkerApprovesNothing
  <2>8. CASE AdjustmentLands
    <3>1. PICK row : /\ RowBecomes(Latest, row)
                     /\ row = [attempts[Latest] EXCEPT !.status = "invalidated"]
      BY <2>8, AdjustedRow
    <3>2. attempts[Latest] \in Attempts
      BY <3>1, RowTypes DEF RowBecomes, IInv
    <3>3. row.status # "awaiting_author"
      BY <3>1, <3>2 DEF Attempts
    <3>4. Approval' = None
      BY <3>1, <3>3, ApprovalOfRow
    <3>5. Publication!Withdraw
      BY <2>8, <3>4 DEF AdjustmentLands, Publication!Withdraw, Standing, Matter
    <3> QED
      BY <3>5 DEF Publication!Next
  <2>9. ASSUME NEW t \in Tabs, Author(t)
        PROVE  Publication!Next \/ UNCHANGED Publication!pubVars
    BY <2>1, <2>9, AuthorApproval, CommitPublishes DEF Publication!Next
  <2> QED
    BY <2>3, <2>4, <2>5, <2>6, <2>7, <2>8, <2>9 DEF Next, Writing
<1> QED
  BY <1>1, <1>2, Inductive, PTL DEF Spec, ImplementsPublication, Publication!Spec
=============================================================================
