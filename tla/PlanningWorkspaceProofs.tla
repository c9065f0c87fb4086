------------------------ MODULE PlanningWorkspaceProofs ------------------------
(***************************************************************************)
(* Proofs about PlanningWorkspace for any keys, pages, plans and bounds.   *)
(* The inductive invariant says what a row still remembers of the others   *)
(* when it was written: a draft its basis and its head, an attempt its     *)
(* draft, and the attempts of one draft the order they were given out in.  *)
(***************************************************************************)
EXTENDS PlanningWorkspace, FiniteSetTheorems, SequenceTheorems, TLAPS

\* A chapter is drafted on a confirmed plan, and can still be counted.
WritingHasPlan ==
  writing.drafting => head.revision > 0 /\ writing.revision < MaxWriting

OneActive == \A d, e \in Drafted : Active(d) /\ Active(e) => d = e

\* Basis and head only grow; a draft that is on both is the active one.
DraftsFollow ==
  \A d \in Drafted :
    /\ drafts[d].basis <= basis /\ drafts[d].base <= head.revision
    /\ Current(d) => Active(d)

\* An attempt was made for a draft on the basis and the head of that draft,
\* and a draft that took a result remembers a key.
OnItsDraft(k) ==
  LET a == attempts[k] d == attempts[k].command.draft IN
  /\ d \in Drafted
  /\ a.basis = drafts[d].basis /\ a.head = drafts[d].base
  /\ a.status = "succeeded" => drafts[d].source # "none"
AttemptsOnDrafts == \A k \in Attempted : OnItsDraft(k)

OnDraft(d) == {j \in Attempted : attempts[j].command.draft = d}

\* The fences of one draft differ, and the pending attempt has the last.
FencesOrdered ==
  \A k, j \in Attempted :
    j # k /\ attempts[j].command.draft = attempts[k].command.draft =>
      /\ attempts[j].fence # attempts[k].fence
      /\ Pending(k) => attempts[j].fence < attempts[k].fence

\* Among the attempts of a draft there is a last one, and its fence is not
\* beyond their number.
LastFence(d, l) ==
  /\ \A j \in OnDraft(d) : attempts[j].fence <= attempts[l].fence
  /\ attempts[l].fence <= Cardinality(OnDraft(d))
FencesCounted ==
  \A d \in DraftIds : OnDraft(d) # {} => \E l \in OnDraft(d) : LastFence(d, l)

IInv ==
  /\ TypeOK
  /\ WritingHasPlan /\ OneActive /\ DraftsFollow /\ AttemptsOnDrafts
  /\ FencesOrdered /\ FencesCounted /\ ArchivedIdle

-----------------------------------------------------------------------------
(* Who moves what.                                                         *)

\* An author's command leaves the world alone; only the commands named here
\* move head, confirmations and drafts.
LEMMA AuthorMoves ==
  ASSUME Author
  PROVE  /\ clock' = clock /\ archived' = archived /\ binding' = binding
         /\ basis' = basis /\ writing' = writing
         /\ \/ head' = head /\ confirmed' = confirmed
            \/ \E q \in ConfirmKeys, p \in Pages : ConfirmDraft(q, p)
         /\ \/ drafts' = drafts \/ CreateDraft
            \/ \E p \in Pages, c \in Contents : SaveDraft(p, c)
            \/ \E q \in ConfirmKeys, p \in Pages : ConfirmDraft(q, p)
         /\ \/ pages' = pages \/ \E p \in Pages : LoadPage(p)
            \/ \E p \in Pages, c \in Contents : SaveDraft(p, c)
         /\ \/ workers' = workers
            \/ \E k \in Keys : workers' = [workers EXCEPT ![k] = "calling"]
<1>1. CASE CreateDraft
  BY <1>1 DEF CreateDraft
<1>2. CASE \E p \in Pages : LoadPage(p)
  BY <1>2 DEF LoadPage
<1>3. CASE \E p \in Pages, c \in Contents : SaveDraft(p, c)
  BY <1>3 DEF SaveDraft
<1>4. CASE \E q \in ConfirmKeys, p \in Pages : ConfirmDraft(q, p)
  BY <1>4 DEF ConfirmDraft
<1>5. CASE \E k \in Keys, p \in Pages, m \in Modes : Reserve(k, p, m)
  BY <1>5 DEF Reserve, rows
<1>6. CASE \E k \in Keys : RetireElapsed(k) \/ CancelByKey(k)
  BY <1>6 DEF RetireElapsed, CancelByKey, rows
<1> QED
  BY <1>1, <1>2, <1>3, <1>4, <1>5, <1>6 DEF Author

\* A generation moves attempts, and drafts when it publishes.
LEMMA WorkerMoves ==
  ASSUME NEW k \in Keys, Worker(k)
  PROVE  /\ clock' = clock /\ archived' = archived /\ binding' = binding
         /\ basis' = basis /\ writing' = writing
         /\ head' = head /\ confirmed' = confirmed
         /\ drafts' = drafts \/ \E c \in Contents : Publish(k, c)
<1>1. CASE Answer(k) \/ Break(k) \/ NoticeEnded(k) \/ RecordFailure(k)
  BY <1>1 DEF Answer, Break, NoticeEnded, RecordFailure, rows
<1>2. CASE \E c \in Contents : Publish(k, c)
  BY <1>2 DEF Publish
<1> QED
  BY <1>1, <1>2 DEF Worker

\* The rest of the program moves neither drafts nor confirmations.
LEMMA WorldMoves ==
  ASSUME World
  PROVE  /\ drafts' = drafts /\ confirmed' = confirmed
         /\ head' = head \/ FinalizeChapter
         /\ archived' = archived \/ Archive \/ Restore
         /\ \/ clock' = clock /\ archived' = archived /\ binding' = binding
            \/ Tick \/ Archive \/ Restore \/ Rebind
<1>1. CASE Archive \/ Restore
  BY <1>1 DEF Archive, Restore, others
<1>2. CASE MoveBasis \/ Rebind \/ OpenChapter
  BY <1>2 DEF MoveBasis, Rebind, OpenChapter, others
<1>3. CASE FinalizeChapter
  BY <1>3 DEF FinalizeChapter, others
<1>4. CASE Tick \/ \E k \in Keys : Die(k)
  BY <1>4 DEF Tick, Die, rows
<1> QED
  BY <1>1, <1>2, <1>3, <1>4 DEF World

-----------------------------------------------------------------------------
(* Rows of drafts.                                                         *)

LEMMA DraftRows ==
  ASSUME TypeOK
  PROVE  /\ Len(drafts) \in Nat /\ Drafted = 1 .. Len(drafts)
         /\ Drafted \subseteq DraftIds
         /\ \A d \in Drafted : drafts[d] \in Drafts
         /\ IsFiniteSet(Drafted) /\ Cardinality(Drafted) = Len(drafts)
<1>1. drafts \in Seq(Drafts) /\ Len(drafts) <= MaxDrafts /\ MaxDrafts \in Nat
  BY ConstantsAssumption DEF TypeOK
<1>2. Len(drafts) \in Nat /\ Drafted = 1 .. Len(drafts)
  BY <1>1, LenProperties DEF Drafted
<1>3. \A d \in Drafted : drafts[d] \in Drafts
  BY <1>1, <1>2, ElementOfSeq
<1>4. IsFiniteSet(1 .. Len(drafts)) /\ Cardinality(1 .. Len(drafts)) = Len(drafts)
  <2>1. PICK n \in Nat : n = Len(drafts)
    BY <1>2
  <2>2. IsFiniteSet(1 .. n) /\ Cardinality(1 .. n) = IF 1 > n THEN 0 ELSE n - 1 + 1
    BY FS_Interval
  <2>3. Cardinality(1 .. n) = n
    BY <2>2
  <2> QED
    BY <2>1, <2>2, <2>3
<1> QED
  BY <1>1, <1>2, <1>3, <1>4 DEF DraftIds

\* One row of the list is written anew.
RowBecomes(d, row) ==
  /\ drafts' \in Seq(Drafts) /\ Len(drafts') = Len(drafts)
  /\ DOMAIN drafts' = Drafted
  /\ drafts'[d] = row
  /\ \A e \in Drafted : e # d => drafts'[e] = drafts[e]

LEMMA WriteRow ==
  ASSUME TypeOK, NEW d \in Drafted, NEW row \in Drafts,
         drafts' = [drafts EXCEPT ![d] = row]
  PROVE  RowBecomes(d, row)
<1>1. drafts \in Seq(Drafts) /\ d \in 1 .. Len(drafts) /\ Drafted = 1 .. Len(drafts)
  BY DraftRows DEF TypeOK
<1>2. /\ drafts' \in Seq(Drafts) /\ Len(drafts') = Len(drafts)
      /\ \A e \in 1 .. Len(drafts) : drafts'[e] = IF e = d THEN row ELSE drafts[e]
  BY <1>1, ExceptSeq
<1>3. DOMAIN drafts' = 1 .. Len(drafts')
  BY <1>2, LenProperties
<1> QED
  BY <1>1, <1>2, <1>3 DEF RowBecomes

LEMMA EndRow ==
  ASSUME TypeOK, NEW d \in Drafted, NEW st \in {"confirmed", "superseded"},
         drafts' = [drafts EXCEPT ![d].status = st]
  PROVE  RowBecomes(d, [drafts[d] EXCEPT !.status = st])
<1>1. [drafts[d] EXCEPT !.status = st] \in Drafts
  BY DraftRows DEF Drafts
<1>2. drafts' = [drafts EXCEPT ![d] = [drafts[d] EXCEPT !.status = st]]
  OBVIOUS
<1> QED
  BY <1>1, <1>2, WriteRow

\* A save and a landing write text and revision, a landing the source too.
Text(d, c, src) ==
  [drafts[d] EXCEPT !.content = c, !.revision = @ + 1, !.source = src]

LEMMA TextTyped ==
  ASSUME TypeOK, NEW d \in Drafted, NEW c \in Contents,
         NEW src \in Keys \cup {"none"}, drafts[d].revision <= MaxDraftRevision
  PROVE  /\ Text(d, c, src) \in Drafts
         /\ Text(d, c, src).revision = drafts[d].revision + 1
         /\ Text(d, c, src).content = c
         /\ Text(d, c, src).source = src
         /\ Text(d, c, src).basis = drafts[d].basis
         /\ Text(d, c, src).base = drafts[d].base
         /\ Text(d, c, src).status = drafts[d].status
<1>1. drafts[d] \in Drafts /\ MaxDraftRevision \in Nat
  BY DraftRows, ConstantsAssumption
<1>2. /\ drafts[d].revision \in Nat
      /\ drafts[d].revision + 1 \in 1 .. MaxDraftRevision + 1
  BY <1>1 DEF Drafts
<1>3. PICK r \in Drafts : r = drafts[d]
  BY <1>1
<1>4. [r EXCEPT !.content = c] \in Drafts
  BY DEF Drafts
<1>5. [[r EXCEPT !.content = c] EXCEPT !.revision = r.revision + 1] \in Drafts
  BY <1>2, <1>3, <1>4 DEF Drafts
<1>6. /\ Text(d, c, src) \in Drafts
      /\ Text(d, c, src).revision = drafts[d].revision + 1
      /\ Text(d, c, src).content = c
      /\ Text(d, c, src).source = src
      /\ Text(d, c, src).basis = drafts[d].basis
      /\ Text(d, c, src).base = drafts[d].base
      /\ Text(d, c, src).status = drafts[d].status
  BY <1>2, <1>3, <1>5 DEF Drafts, Text
<1> QED
  BY <1>6

LEMMA SavedRow ==
  ASSUME TypeOK, NEW d \in Drafted, NEW c \in Contents,
         drafts[d].revision <= MaxDraftRevision,
         drafts' = [drafts EXCEPT ![d].content = c, ![d].revision = @ + 1]
  PROVE  RowBecomes(d, Text(d, c, drafts[d].source))
<1>1. drafts[d] \in Drafts
  BY DraftRows
<1>2. Text(d, c, drafts[d].source) \in Drafts
  BY <1>1, TextTyped DEF Drafts
<1>3. drafts' = [drafts EXCEPT ![d] = Text(d, c, drafts[d].source)]
  BY <1>1 DEF Text, Drafts
<1> QED
  BY <1>2, <1>3, WriteRow

LEMMA LoadedRow ==
  ASSUME TypeOK, NEW k \in Keys, NEW c \in Contents, Loaded(k, c),
         attempts[k].command.draft \in Drafted,
         drafts[attempts[k].command.draft].revision <= MaxDraftRevision
  PROVE  RowBecomes(attempts[k].command.draft, Text(attempts[k].command.draft, c, k))
<1> DEFINE d == attempts[k].command.draft
<1>1. drafts[d] \in Drafts
  BY DraftRows
<1>2. Text(d, c, k) \in Drafts
  BY <1>1, TextTyped
<1>3. drafts' = [drafts EXCEPT ![d] = Text(d, c, k)]
  BY <1>1 DEF Loaded, Text, Drafts
<1> QED
  BY <1>2, <1>3, WriteRow

\* A new draft goes to the end of the list, and ends the one before it.
NewDraft ==
  [status |-> "active", base |-> head.revision, revision |-> 1,
   basis |-> basis, source |-> "none",
   content |-> IF head.revision > 0 /\ HeadMatchesBasis
               THEN head.content ELSE Empty]
Outdated(d) ==
  IF Active(d) THEN [drafts[d] EXCEPT !.status = "superseded"] ELSE drafts[d]

LEMMA CreatedRow ==
  ASSUME TypeOK, CreateDraft
  PROVE  /\ drafts' \in Seq(Drafts) /\ Len(drafts') <= MaxDrafts
         /\ DOMAIN drafts' = Drafted \cup {Len(drafts) + 1}
         /\ Len(drafts) + 1 \in DraftIds \ Drafted
         /\ drafts'[Len(drafts) + 1] = NewDraft
         /\ \A d \in Drafted : drafts'[d] = Outdated(d)
<1> DEFINE n == Len(drafts)
<1>1. /\ n \in Nat /\ Drafted = 1 .. n /\ Cardinality(Drafted) = n
      /\ \A d \in Drafted : drafts[d] \in Drafts
  BY DraftRows
<1>2. n < MaxDrafts /\ MaxDrafts \in Nat
  BY <1>1, ConstantsAssumption DEF CreateDraft
<1>3. NewDraft \in Drafts
  <2>1. /\ head.revision \in 0 .. MaxHead /\ basis \in 0 .. MaxBasis
        /\ head.content \in Contents /\ Empty \in Contents
    BY ConstantsAssumption DEF TypeOK, Heads
  <2>2. 1 \in 1 .. MaxDraftRevision + 1
    BY ConstantsAssumption
  <2> QED
    BY <2>1, <2>2 DEF NewDraft, Drafts
<1>4. \A d \in Drafted : Outdated(d) \in Drafts
  BY <1>1 DEF Outdated, Drafts
<1>5. \A d \in Drafted : Active(d) => Superseded(drafts, d)[d] = Outdated(d)
  BY <1>1 DEF Superseded, Outdated
<1>6. drafts' = [d \in 1 .. n + 1 |->
                   IF d \notin Drafted THEN NewDraft
                   ELSE IF Active(d) THEN Superseded(drafts, d)[d] ELSE drafts[d]]
  BY <1>1 DEF CreateDraft, NewDraft
<1>7. drafts' = [d \in 1 .. n + 1 |-> IF d \notin Drafted THEN NewDraft
                                      ELSE Outdated(d)]
  BY <1>5, <1>6, Zenon DEF Outdated
<1>8. drafts' \in [1 .. n + 1 -> Drafts] /\ n + 1 \in Nat
  BY <1>1, <1>3, <1>4, <1>7
<1>9. drafts' \in Seq(Drafts) /\ DOMAIN drafts' = 1 .. n + 1
  BY <1>8, SeqDef
<1>10. Len(drafts') = n + 1
  BY <1>8, <1>9, LenProperties
<1>11. n + 1 \in DraftIds \ Drafted /\ 1 .. n + 1 = Drafted \cup {n + 1}
  BY <1>1, <1>2 DEF DraftIds
<1>12. drafts'[n + 1] = NewDraft /\ \A d \in Drafted : drafts'[d] = Outdated(d)
  BY <1>7, <1>11
<1> QED
  BY <1>2, <1>1, <1>9, <1>10, <1>11, <1>12

-----------------------------------------------------------------------------
(* Rows of attempts.                                                       *)

LEMMA NoneIsNoRow == None \notin Attempts /\ None \notin Versions
BY DEF None, Attempts, Versions

\* An attempt keeps all but its status, and ends at most once.
Keeps(k) ==
  /\ (attempts'[k] = None) <=> (attempts[k] = None)
  /\ attempts[k] # None =>
       /\ attempts'[k].command = attempts[k].command
       /\ attempts'[k].fence = attempts[k].fence
       /\ attempts'[k].lease = attempts[k].lease
       /\ attempts'[k].basis = attempts[k].basis
       /\ attempts'[k].head = attempts[k].head
       /\ attempts'[k].binding = attempts[k].binding
       /\ attempts'[k].authority = attempts[k].authority
       /\ ~Pending(k) => attempts'[k] = attempts[k]
AttemptsKept ==
  /\ attempts' \in [Keys -> Attempts \cup {None}]
  /\ \A k \in Keys : Keeps(k)

\* Only attempt k may have moved, to the given row.
LEMMA OneAttempt ==
  ASSUME TypeOK, NEW k \in Keys, NEW row, attempts' = [attempts EXCEPT ![k] = row],
         row \in Attempts \cup {None}
  PROVE  /\ attempts' \in [Keys -> Attempts \cup {None}]
         /\ attempts'[k] = row
         /\ \A j \in Keys : j # k => attempts'[j] = attempts[j]
BY DEF TypeOK

LEMMA SettleAttempt ==
  ASSUME TypeOK, NEW k \in Keys, attempts[k] # None, Pending(k),
         NEW st \in {"succeeded", "failed", "superseded"},
         attempts' = [attempts EXCEPT ![k].status = st]
  PROVE  AttemptsKept /\ attempts'[k].status = st
<1>1. PICK a \in Attempts : a = attempts[k]
  BY DEF TypeOK
<1>2. attempts' = [attempts EXCEPT ![k] = [a EXCEPT !.status = st]]
  BY <1>1
<1>3. [a EXCEPT !.status = st] \in Attempts
  BY DEF Attempts
<1>4. /\ attempts' \in [Keys -> Attempts \cup {None}]
      /\ attempts'[k] = [a EXCEPT !.status = st]
      /\ \A j \in Keys : j # k => attempts'[j] = attempts[j]
  BY <1>2, <1>3, OneAttempt
<1>5. /\ [a EXCEPT !.status = st].command = a.command
      /\ [a EXCEPT !.status = st].fence = a.fence
      /\ [a EXCEPT !.status = st].lease = a.lease
      /\ [a EXCEPT !.status = st].basis = a.basis
      /\ [a EXCEPT !.status = st].head = a.head
      /\ [a EXCEPT !.status = st].binding = a.binding
      /\ [a EXCEPT !.status = st].authority = a.authority
      /\ [a EXCEPT !.status = st].status = st
  BY DEF Attempts
<1>6. Keeps(k)
  BY <1>1, <1>3, <1>4, <1>5, NoneIsNoRow DEF Keeps
<1>7. \A j \in Keys : j # k => Keeps(j)
  BY <1>4 DEF Keeps
<1> QED
  BY <1>4, <1>5, <1>6, <1>7 DEF AttemptsKept

LEMMA LoadAttempt ==
  ASSUME TypeOK, NEW k \in Keys, NEW c \in Contents, attempts[k] # None, Pending(k),
         attempts[k].command.draft \in Drafted,
         drafts[attempts[k].command.draft].revision <= MaxDraftRevision,
         Loaded(k, c)
  PROVE  AttemptsKept
<1> DEFINE n == drafts[attempts[k].command.draft].revision + 1
<1>1. PICK a \in Attempts : a = attempts[k]
  BY DEF TypeOK
<1>2. n \in 0 .. MaxDraftRevision + 1
  <2>1. drafts[attempts[k].command.draft] \in Drafts
    BY DraftRows
  <2>2. drafts[attempts[k].command.draft].revision \in Nat
    BY <2>1 DEF Drafts
  <2> QED
    BY <2>2, ConstantsAssumption
<1> DEFINE row == [[a EXCEPT !.status = "succeeded"] EXCEPT !.loaded = n]
<1>3. attempts' = [attempts EXCEPT ![k] = row]
  BY <1>1 DEF Loaded, TypeOK
<1>4. row \in Attempts
  <2>1. [a EXCEPT !.status = "succeeded"] \in Attempts
    BY DEF Attempts
  <2> HIDE DEF n
  <2> QED
    BY <1>2, <2>1 DEF Attempts
<1>5. /\ row.command = a.command /\ row.fence = a.fence /\ row.lease = a.lease
      /\ row.basis = a.basis /\ row.head = a.head
      /\ row.binding = a.binding /\ row.authority = a.authority
  BY DEF Attempts
<1> HIDE DEF row
<1>6. /\ attempts' \in [Keys -> Attempts \cup {None}]
      /\ attempts'[k] = row
      /\ \A j \in Keys : j # k => attempts'[j] = attempts[j]
  BY <1>3, <1>4, OneAttempt
<1>7. Keeps(k)
  BY <1>1, <1>4, <1>5, <1>6, NoneIsNoRow DEF Keeps
<1>8. \A j \in Keys : j # k => Keeps(j)
  BY <1>6 DEF Keeps
<1> QED
  BY <1>6, <1>7, <1>8 DEF AttemptsKept

-----------------------------------------------------------------------------
(* What a step does to the drafts.                                         *)

\* A draft keeps what it was made on, never becomes active again, and ends
\* while it is current only if the head moves.
RowKept(d) ==
  /\ drafts'[d].base = drafts[d].base /\ drafts'[d].basis = drafts[d].basis
  /\ drafts[d].source # "none" => drafts'[d].source # "none"
  /\ drafts'[d].status = "active" => drafts[d].status = "active"
  /\ Current(d) /\ head'.revision = head.revision =>
       drafts'[d].status = drafts[d].status
DraftsKept ==
  /\ drafts' \in Seq(Drafts) /\ Len(drafts') <= MaxDrafts
  /\ Drafted \subseteq DOMAIN drafts'
  /\ \A d \in Drafted : RowKept(d)

LEMMA OtherRowsKept ==
  ASSUME TypeOK, NEW d \in Drafted, NEW row, RowBecomes(d, row),
         row.base = drafts[d].base, row.basis = drafts[d].basis,
         drafts[d].source # "none" => row.source # "none",
         row.status = "active" => drafts[d].status = "active",
         Current(d) /\ head'.revision = head.revision =>
           row.status = drafts[d].status
  PROVE  DraftsKept /\ DOMAIN drafts' = Drafted
BY DEF RowBecomes, DraftsKept, RowKept, TypeOK

LEMMA EndKeeps ==
  ASSUME TypeOK, NEW d \in Drafted, NEW st \in {"confirmed", "superseded"},
         drafts' = [drafts EXCEPT ![d].status = st],
         ~Current(d) \/ head'.revision # head.revision
  PROVE  DraftsKept /\ DOMAIN drafts' = Drafted
<1> DEFINE row == [drafts[d] EXCEPT !.status = st]
<1>1. RowBecomes(d, row)
  BY EndRow
<1>2. /\ row.base = drafts[d].base /\ row.basis = drafts[d].basis
      /\ row.source = drafts[d].source /\ row.status = st
  BY DraftRows DEF Drafts
<1> QED
  BY <1>1, <1>2, OtherRowsKept

\* A save finds the draft it replaces active, current and as the page shows it.
SavesOver(p, c) ==
  LET d == pages[p].draft IN
  /\ pages[p] # None /\ Active(d) /\ Current(d) /\ Exact(pages[p])
  /\ drafts[d].revision <= MaxDraftRevision
  /\ drafts' = [drafts EXCEPT ![d].content = c, ![d].revision = @ + 1]
\* A landing finds its draft active and as it was requested.
Lands(k, c) ==
  LET d == attempts[k].command.draft IN
  /\ Pending(k) /\ StillCurrent(k) /\ Active(d) /\ Exact(attempts[k].command)
  /\ drafts[d].revision <= MaxDraftRevision
  /\ Loaded(k, c)
\* A confirmation takes the active draft as the page shows it.
Confirms(q, p) ==
  LET v == pages[p] d == pages[p].draft IN
  /\ pages[p] # None /\ Active(d) /\ Current(d) /\ Exact(v)
  /\ head.revision < MaxHead
  /\ ProvenanceHolds(d) /\ drafts[d].content \in Complete
  /\ ContinuationHolds(drafts[d].content)
  /\ confirmed[q] = None
  /\ head' = [revision |-> head.revision + 1, basis |-> basis,
              content |-> drafts[d].content]
  /\ drafts' = [drafts EXCEPT ![d].status = "confirmed"]
  /\ confirmed' = [confirmed EXCEPT ![q] =
       [status |-> "succeeded", draft |-> d, revision |-> v.revision,
        content |-> v.content, result |-> head.revision + 1]]
\* Either of them meets a draft that has gone stale.
Retires(d) ==
  /\ Active(d) /\ ~Current(d)
  /\ drafts' = [drafts EXCEPT ![d].status = "superseded"]

LEMMA SaveMoves ==
  ASSUME NEW p \in Pages, NEW c \in Contents, SaveDraft(p, c)
  PROVE  \/ SavesOver(p, c) /\ pages' = [pages EXCEPT ![p] = Version(drafts', pages[p].draft)]
         \/ Retires(pages[p].draft) /\ UNCHANGED pages
BY DEF SaveDraft, SavesOver, Retires, Superseded, Seen

LEMMA ConfirmMoves ==
  ASSUME NEW q \in ConfirmKeys, NEW p \in Pages, ConfirmDraft(q, p)
  PROVE  \/ Confirms(q, p)
         \/ Retires(pages[p].draft) /\ UNCHANGED <<head, confirmed>>
BY DEF ConfirmDraft, Confirms, Retires, Superseded, Seen

LEMMA PublishMoves ==
  ASSUME TypeOK, NEW k \in Keys, NEW c \in Contents, Publish(k, c)
  PROVE  \/ Lands(k, c) /\ attempts[k] # None
         \/ /\ UNCHANGED drafts
            /\ \/ UNCHANGED attempts
               \/ /\ Pending(k) /\ attempts[k] # None
                  /\ \E st \in {"failed", "superseded"} :
                       attempts' = [attempts EXCEPT ![k].status = st]
<1>1. Pending(k) => attempts[k] # None
  BY DEF Pending, None
<1> QED
  BY <1>1 DEF Publish, Open, Lands, Loadable

LEMMA StepOnDrafts ==
  ASSUME TypeOK, Next
  PROVE  DraftsKept /\ (DOMAIN drafts' = Drafted \/ CreateDraft)
<1>1. CASE UNCHANGED drafts
  BY <1>1 DEF DraftsKept, RowKept, TypeOK, Drafted
<1>2. CASE CreateDraft
  <2>1. ASSUME NEW d \in Drafted PROVE RowKept(d)
    <3>1. drafts'[d] = Outdated(d) /\ drafts[d] \in Drafts
      BY <1>2, CreatedRow, DraftRows
    <3>2. ~Active(d) \/ ~Current(d)
      BY <1>2 DEF CreateDraft, ActiveDrafts
    <3>3. CASE Active(d)
      BY <3>1, <3>2, <3>3 DEF Outdated, RowKept, Drafts
    <3>4. CASE ~Active(d)
      BY <3>1, <3>4 DEF Outdated, RowKept
    <3> QED
      BY <3>3, <3>4
  <2> QED
    BY <1>2, <2>1, CreatedRow DEF DraftsKept
<1>3. ASSUME NEW d, Retires(d) PROVE DraftsKept /\ DOMAIN drafts' = Drafted
  BY <1>3, EndKeeps DEF Retires, Active
<1>4. ASSUME NEW p \in Pages, NEW c \in Contents, SavesOver(p, c)
      PROVE  DraftsKept /\ DOMAIN drafts' = Drafted
  <2> DEFINE d == pages[p].draft
  <2>1. d \in Drafted /\ drafts[d].revision <= MaxDraftRevision
        /\ RowBecomes(d, Text(d, c, drafts[d].source))
    BY <1>4, SavedRow DEF SavesOver, Active
  <2>2. drafts[d].source \in Keys \cup {"none"}
    BY <2>1, DraftRows DEF Drafts
  <2> HIDE DEF d
  <2> QED
    BY <2>1, <2>2, TextTyped, OtherRowsKept
<1>5. ASSUME NEW k \in Keys, NEW c \in Contents, Lands(k, c)
      PROVE  DraftsKept /\ DOMAIN drafts' = Drafted
  <2> DEFINE d == attempts[k].command.draft
  <2>1. d \in Drafted /\ drafts[d].revision <= MaxDraftRevision
        /\ RowBecomes(d, Text(d, c, k))
    BY <1>5, LoadedRow DEF Lands, Active
  <2>2. k # "none"
    BY ConstantsAssumption
  <2> HIDE DEF d
  <2> QED
    BY <2>1, <2>2, TextTyped, OtherRowsKept
<1>6. ASSUME NEW q \in ConfirmKeys, NEW p \in Pages, Confirms(q, p)
      PROVE  DraftsKept /\ DOMAIN drafts' = Drafted
  <2>1. head'.revision # head.revision
    BY <1>6 DEF Confirms, TypeOK, Heads
  <2> QED
    BY <1>6, <2>1, EndKeeps DEF Confirms, Active
<1>7. ASSUME NEW k \in Keys, NEW c \in Contents, Publish(k, c)
      PROVE  DraftsKept /\ (DOMAIN drafts' = Drafted \/ CreateDraft)
  BY <1>1, <1>5, <1>7, PublishMoves
<1>8. ASSUME NEW p \in Pages, NEW c \in Contents, SaveDraft(p, c)
      PROVE  DraftsKept /\ (DOMAIN drafts' = Drafted \/ CreateDraft)
  BY <1>3, <1>4, <1>8, SaveMoves
<1>9. ASSUME NEW q \in ConfirmKeys, NEW p \in Pages, ConfirmDraft(q, p)
      PROVE  DraftsKept /\ (DOMAIN drafts' = Drafted \/ CreateDraft)
  BY <1>3, <1>6, <1>9, ConfirmMoves
<1> QED
  BY <1>1, <1>2, <1>7, <1>8, <1>9, AuthorMoves, WorkerMoves, WorldMoves DEF Next

-----------------------------------------------------------------------------
(* What a step does to the attempts.                                       *)

\* No attempt succeeds in this step.
NoneSucceeds ==
  \A k \in Keys :
    attempts[k] # None /\ attempts'[k].status = "succeeded" =>
      attempts[k].status = "succeeded"

LEMMA SettleKeeps ==
  ASSUME TypeOK, NEW k \in Keys, attempts[k] # None, Pending(k),
         NEW st \in {"failed", "superseded"},
         attempts' = [attempts EXCEPT ![k].status = st]
  PROVE  AttemptsKept /\ NoneSucceeds
<1>1. AttemptsKept /\ attempts'[k].status = st
  BY SettleAttempt
<1>2. \A j \in Keys : j # k => attempts'[j] = attempts[j]
  BY DEF TypeOK
<1> QED
  BY <1>1, <1>2 DEF NoneSucceeds

LEMMA StepOnAttempts ==
  ASSUME TypeOK, Next
  PROVE  \/ AttemptsKept /\ NoneSucceeds
         \/ \E k \in Keys, c \in Contents :
              Publish(k, c) /\ Lands(k, c) /\ attempts[k] # None /\ AttemptsKept
         \/ \E k \in Keys, p \in Pages, m \in Modes : Reserve(k, p, m)
<1>1. ASSUME UNCHANGED attempts PROVE AttemptsKept /\ NoneSucceeds
  BY <1>1 DEF AttemptsKept, Keeps, NoneSucceeds, TypeOK
<1>2. ASSUME NEW k \in Keys, RetireElapsed(k) \/ CancelByKey(k)
      PROVE  AttemptsKept /\ NoneSucceeds
  BY <1>2, SettleKeeps DEF RetireElapsed, CancelByKey
<1>3. ASSUME NEW k \in Keys, RecordFailure(k)
      PROVE  AttemptsKept /\ NoneSucceeds
  <2>1. CASE Pending(k)
    <3>1. attempts[k] # None
      BY <2>1 DEF Pending, None
    <3> QED
      BY <1>3, <2>1, <3>1, SettleKeeps DEF RecordFailure
  <2>2. CASE ~Pending(k)
    <3>1. attempts' = attempts
      BY <1>3, <2>2, Zenon DEF RecordFailure
    <3> QED
      BY <1>1, <3>1
  <2> QED
    BY <2>1, <2>2
<1>4. ASSUME NEW k \in Keys, NEW c \in Contents, Publish(k, c)
      PROVE  \/ AttemptsKept /\ NoneSucceeds
             \/ Lands(k, c) /\ attempts[k] # None /\ AttemptsKept
  <2>1. CASE Lands(k, c) /\ attempts[k] # None
    BY <2>1, LoadAttempt DEF Lands, Active
  <2>2. ASSUME Pending(k), attempts[k] # None, NEW st \in {"failed", "superseded"},
               attempts' = [attempts EXCEPT ![k].status = st]
        PROVE  AttemptsKept /\ NoneSucceeds
    BY <2>2, SettleKeeps
  <2> QED
    BY <1>1, <1>4, <2>1, <2>2, PublishMoves, Zenon
<1> QED
  BY <1>1, <1>2, <1>3, <1>4 DEF Next, Author, Worker, World, rows, others,
     CreateDraft, LoadPage, SaveDraft, ConfirmDraft, Answer, Break, NoticeEnded,
     Archive, Restore, MoveBasis, Rebind, OpenChapter, FinalizeChapter, Tick, Die

-----------------------------------------------------------------------------
(* Fences.                                                                 *)

LEMMA AttemptRows ==
  ASSUME TypeOK
  PROVE  /\ Attempted \subseteq Keys
         /\ \A k \in Attempted : /\ attempts[k] \in Attempts
                                 /\ attempts[k].command \in Commands
                                 /\ attempts[k].command.draft \in DraftIds
                                 /\ attempts[k].fence \in Nat \ {0}
BY DEF TypeOK, Attempted, Attempts, Commands

\* The next fence is above every fence of the draft, and at most their
\* number and one.
LEMMA NextFenceIsNew ==
  ASSUME TypeOK, FencesCounted, NEW d \in DraftIds
  PROVE  /\ NextFence(d) \in Nat \ {0}
         /\ \A j \in OnDraft(d) : attempts[j].fence < NextFence(d)
         /\ NextFence(d) <= Cardinality(OnDraft(d)) + 1
<1>1. /\ IsFiniteSet(OnDraft(d)) /\ Cardinality(OnDraft(d)) \in Nat
      /\ \A j \in OnDraft(d) : attempts[j].fence \in Nat \ {0}
  BY ConstantsAssumption, AttemptRows, FS_Subset, FS_CardinalityType DEF OnDraft
<1>2. Fences(d) = {attempts[j].fence : j \in OnDraft(d)}
  BY DEF Fences, OnDraft
<1>3. CASE Fences(d) = {}
  <2>1. OnDraft(d) = {} /\ NextFence(d) = 1
    BY <1>2, <1>3 DEF NextFence
  <2> QED
    BY <1>1, <2>1
<1>4. CASE Fences(d) # {}
  <2>1. PICK l \in OnDraft(d) : LastFence(d, l)
    BY <1>2, <1>4 DEF FencesCounted
  <2>2. /\ attempts[l].fence \in Fences(d)
        /\ \A g \in Fences(d) : g <= attempts[l].fence
    BY <1>2, <2>1 DEF LastFence
  <2> DEFINE f == CHOOSE f \in Fences(d) : \A g \in Fences(d) : g <= f
  <2>3. f \in Fences(d) /\ \A g \in Fences(d) : g <= f
    BY <2>2
  <2>4. NextFence(d) = f + 1
    BY <1>4 DEF NextFence
  <2> HIDE DEF f
  <2>5. Fences(d) \subseteq Nat \ {0}
    BY <1>1, <1>2
  <2>6. f <= attempts[l].fence /\ attempts[l].fence <= f
    BY <2>2, <2>3
  <2>7. f = attempts[l].fence
    BY <2>2, <2>3, <2>5, <2>6
  <2>8. f <= Cardinality(OnDraft(d))
    BY <2>1, <2>7 DEF LastFence
  <2>9. \A j \in OnDraft(d) : attempts[j].fence <= f
    BY <1>2, <2>3
  <2> QED
    BY <1>1, <2>3, <2>4, <2>5, <2>8, <2>9
<1> QED
  BY <1>3, <1>4

\* A reservation adds one row, with the next fence of its draft.
LEMMA ReservedRow ==
  ASSUME TypeOK, FencesCounted, NEW k \in Keys, NEW p \in Pages, NEW m \in Modes,
         Reserve(k, p, m)
  PROVE  /\ attempts[k] = None /\ ~archived
         /\ attempts' \in [Keys -> Attempts \cup {None}]
         /\ attempts'[k] # None /\ attempts'[k].status = "pending"
         /\ attempts'[k].command.draft = pages[p].draft
         /\ attempts'[k].fence = NextFence(pages[p].draft)
         /\ attempts'[k].basis = basis /\ attempts'[k].head = head.revision
         /\ \A j \in Keys : j # k => attempts'[j] = attempts[j]
         /\ Active(pages[p].draft) /\ Current(pages[p].draft)
         /\ SlotFree(pages[p].draft)
<1> DEFINE v == pages[p]
           c == [draft |-> v.draft, revision |-> v.revision,
                 content |-> v.content, mode |-> m]
           row == [status |-> "pending", command |-> c, fence |-> NextFence(v.draft),
                   lease |-> clock + Lease, basis |-> basis, head |-> head.revision,
                   binding |-> binding, authority |-> ExpansionAuthority,
                   loaded |-> 0]
<1>1. /\ attempts[k] = None /\ ~archived /\ v \in Versions
      /\ Active(v.draft) /\ Current(v.draft) /\ SlotFree(v.draft)
      /\ attempts' = [attempts EXCEPT ![k] = row]
  BY DEF Reserve, TypeOK
<1>2. v.draft \in DraftIds /\ c \in Commands
  BY <1>1 DEF Versions, Commands
<1>3. NextFence(v.draft) \in 1 .. Cardinality(Keys)
  <2> DEFINE O == OnDraft(v.draft)
  <2>1. k \notin O /\ O \cup {k} \subseteq Keys /\ IsFiniteSet(O)
    BY <1>1, AttemptRows, ConstantsAssumption, FS_Subset DEF OnDraft, Attempted
  <2> HIDE DEF O
  <2>2. Cardinality(O \cup {k}) = Cardinality(O) + 1
    BY <2>1, FS_AddElement
  <2>3. Cardinality(O \cup {k}) <= Cardinality(Keys)
    BY <2>1, ConstantsAssumption, FS_Subset
  <2>4. Cardinality(O) \in Nat /\ Cardinality(Keys) \in Nat
    BY <2>1, ConstantsAssumption, FS_CardinalityType
  <2>5. NextFence(v.draft) \in Nat \ {0} /\ NextFence(v.draft) <= Cardinality(O) + 1
    BY <1>2, NextFenceIsNew DEF O
  <2> QED
    BY <2>2, <2>3, <2>4, <2>5
<1>4. clock + Lease \in 0 .. MaxClock + Lease
  BY ConstantsAssumption DEF TypeOK
<1>5. ExpansionAuthority \in Authorities
  BY DEF ExpansionAuthority, Authorities, TypeOK, Heads
<1>6. /\ basis \in 0 .. MaxBasis /\ head.revision \in 0 .. MaxHead
      /\ binding \in 0 .. MaxBinding /\ 0 \in 0 .. MaxDraftRevision + 1
  BY ConstantsAssumption DEF TypeOK, Heads
<1>7. row \in Attempts
  BY <1>2, <1>3, <1>4, <1>5, <1>6 DEF Attempts
<1>8. /\ attempts' \in [Keys -> Attempts \cup {None}]
      /\ attempts'[k] = row
      /\ \A j \in Keys : j # k => attempts'[j] = attempts[j]
  BY <1>1, <1>7, OneAttempt
<1> QED
  BY <1>1, <1>7, <1>8, NoneIsNoRow

LEMMA KeptRows ==
  ASSUME TypeOK, AttemptsKept
  PROVE  /\ Attempted' = Attempted
         /\ \A d : OnDraft(d)' = OnDraft(d)
         /\ \A k \in Attempted : /\ attempts'[k].fence = attempts[k].fence
                                 /\ Pending(k)' => Pending(k)
BY DEF AttemptsKept, Keeps, Attempted, OnDraft, Pending

\* The fences stay in order.
LEMMA StepKeepsFences ==
  ASSUME TypeOK, FencesOrdered, FencesCounted, Next
  PROVE  FencesOrdered' /\ FencesCounted'
<1>1. CASE AttemptsKept
  <2>1. /\ Attempted' = Attempted /\ \A d : OnDraft(d)' = OnDraft(d)
        /\ \A k \in Attempted :
             /\ attempts'[k].fence = attempts[k].fence
             /\ attempts'[k].command.draft = attempts[k].command.draft
             /\ Pending(k)' => Pending(k)
    BY <1>1, KeptRows DEF AttemptsKept, Keeps, Attempted
  <2>2. FencesOrdered'
    BY <2>1 DEF FencesOrdered
  <2>3. ASSUME NEW d \in DraftIds, OnDraft(d)' # {}
        PROVE  (\E l \in OnDraft(d) : LastFence(d, l))'
    <3>1. PICK l \in OnDraft(d) : LastFence(d, l)
      BY <2>1, <2>3 DEF FencesCounted
    <3>2. LastFence(d, l)'
      BY <2>1, <3>1 DEF LastFence, OnDraft
    <3> QED
      BY <2>1, <3>1, <3>2
  <2> QED
    BY <2>2, <2>3 DEF FencesCounted
<1>2. ASSUME NEW k \in Keys, NEW p \in Pages, NEW m \in Modes, Reserve(k, p, m)
      PROVE  FencesOrdered' /\ FencesCounted'
  <2>0. PICK e : e = pages[p].draft
    OBVIOUS
  <2>1. /\ attempts[k] = None /\ attempts'[k] # None
        /\ attempts'[k].command.draft = e /\ attempts'[k].fence = NextFence(e)
        /\ \A j \in Keys : j # k => attempts'[j] = attempts[j]
        /\ e \in DraftIds /\ PendingOn(e) = {}
    BY <1>2, <2>0, ReservedRow, DraftRows DEF Active, SlotFree
  <2>2. /\ Attempted' = Attempted \cup {k} /\ k \notin Attempted
        /\ OnDraft(e)' = OnDraft(e) \cup {k} /\ k \notin OnDraft(e)
        /\ \A d \in DraftIds : d # e => OnDraft(d)' = OnDraft(d)
        /\ \A j \in Attempted : attempts'[j] = attempts[j]
    <3>1. /\ Attempted' = Attempted \cup {k} /\ k \notin Attempted
          /\ \A j \in Attempted : attempts'[j] = attempts[j]
      BY <2>1 DEF Attempted
    <3> QED
      BY <2>1, <3>1 DEF OnDraft
  <2>3. /\ NextFence(e) \in Nat \ {0}
        /\ \A j \in OnDraft(e) : attempts[j].fence < NextFence(e)
        /\ NextFence(e) <= Cardinality(OnDraft(e)) + 1
    BY <2>1, NextFenceIsNew
  <2>4. \A j \in Attempted : attempts[j].fence \in Nat
    BY AttemptRows
  <2>5. \A j \in OnDraft(e) : ~Pending(j)
    BY <2>1 DEF PendingOn, OnDraft
  <2>6. FencesOrdered'
    <3> SUFFICES ASSUME NEW i \in Attempted', NEW j \in Attempted', j # i,
                        attempts'[j].command.draft = attempts'[i].command.draft
                 PROVE  /\ attempts'[j].fence # attempts'[i].fence
                        /\ Pending(i)' => attempts'[j].fence < attempts'[i].fence
      BY DEF FencesOrdered
    <3>1. CASE i # k /\ j # k
      BY <2>2, <3>1 DEF FencesOrdered, Pending
    <3>2. CASE i = k
      <4>1. j \in OnDraft(e)
        BY <2>1, <2>2, <3>2 DEF OnDraft
      <4> QED
        BY <2>1, <2>2, <2>3, <2>4, <3>2, <4>1 DEF OnDraft
    <3>3. CASE j = k
      <4>1. i \in OnDraft(e)
        BY <2>1, <2>2, <3>3 DEF OnDraft
      <4>2. ~Pending(i)'
        BY <2>2, <2>5, <4>1 DEF OnDraft, Pending
      <4> QED
        BY <2>1, <2>2, <2>3, <2>4, <3>3, <4>1, <4>2 DEF OnDraft
    <3> QED
      BY <3>1, <3>2, <3>3
  <2>7. FencesCounted'
    <3> SUFFICES ASSUME NEW d \in DraftIds, OnDraft(d)' # {}
                 PROVE  (\E l \in OnDraft(d) : LastFence(d, l))'
      BY DEF FencesCounted
    <3>1. CASE d = e
      <4>1. IsFiniteSet(OnDraft(e)) /\ Cardinality(OnDraft(e)) \in Nat
        BY ConstantsAssumption, AttemptRows, FS_Subset, FS_CardinalityType DEF OnDraft
      <4>2. Cardinality(OnDraft(e)') = Cardinality(OnDraft(e)) + 1
        BY <2>2, <4>1, FS_AddElement
      <4>3. \A j \in OnDraft(e)' : attempts'[j].fence <= attempts'[k].fence
        BY <2>1, <2>2, <2>3, <2>4 DEF OnDraft
      <4>4. attempts'[k].fence <= Cardinality(OnDraft(e)')
        BY <2>1, <2>3, <4>2
      <4>5. LastFence(e, k)'
        BY <4>3, <4>4 DEF LastFence
      <4> QED
        BY <2>2, <3>1, <4>5
    <3>2. CASE d # e
      <4>1. PICK l \in OnDraft(d) : LastFence(d, l)
        BY <2>2, <3>2 DEF FencesCounted
      <4>2. LastFence(d, l)'
        BY <2>2, <3>2, <4>1 DEF LastFence, OnDraft
      <4> QED
        BY <2>2, <3>2, <4>1, <4>2
    <3> QED
      BY <3>1, <3>2
  <2> QED
    BY <2>6, <2>7
<1> QED
  BY <1>1, <1>2, StepOnAttempts

-----------------------------------------------------------------------------
(* Types.                                                                  *)

LEMMA InitTyped == Init => TypeOK
<1> SUFFICES ASSUME Init PROVE TypeOK
  OBVIOUS
<1>1. /\ 0 \in 0 .. MaxClock /\ 0 \in 0 .. MaxBasis /\ 0 \in 0 .. MaxBinding
      /\ 0 \in 0 .. MaxHead /\ 0 \in 0 .. MaxWriting /\ 0 <= MaxDrafts
      /\ Empty \in Contents
  BY ConstantsAssumption
<1>2. <<>> \in Seq(Drafts) /\ Len(<<>>) = 0
  BY EmptySeq
<1>3. drafts \in Seq(Drafts) /\ Len(drafts) <= MaxDrafts
  BY <1>1, <1>2 DEF Init
<1>4. head \in Heads /\ writing \in Writings
  BY <1>1 DEF Init, Heads, Writings
<1> QED
  BY <1>1, <1>3, <1>4 DEF Init, TypeOK

LEMMA ClockTyped ==
  ASSUME TypeOK, Next
  PROVE  /\ clock' \in 0 .. MaxClock /\ clock' >= clock
         /\ archived' \in BOOLEAN /\ binding' \in 0 .. MaxBinding
<1>1. CASE Tick
  BY <1>1, ConstantsAssumption DEF Tick, rows, TypeOK
<1>2. CASE Archive \/ Restore
  <2>1. UNCHANGED <<clock, binding>> /\ archived' \in BOOLEAN
    BY <1>2 DEF Archive, Restore, others
  <2> QED
    BY <2>1, ConstantsAssumption DEF TypeOK
<1>3. CASE Rebind
  BY <1>3, ConstantsAssumption DEF Rebind, others, TypeOK
<1>4. CASE UNCHANGED <<clock, archived, binding>>
  BY <1>4, ConstantsAssumption DEF TypeOK
<1> QED
  BY <1>1, <1>2, <1>3, <1>4, AuthorMoves, WorkerMoves, WorldMoves DEF Next

\* What the head and the writing become; basis and head only grow.
LEMMA HeadMoves ==
  ASSUME TypeOK, WritingHasPlan, Next
  PROVE  /\ basis' \in 0 .. MaxBasis /\ basis' >= basis
         /\ head' \in Heads /\ head'.revision >= head.revision
         /\ writing' \in Writings /\ WritingHasPlan'
<1>1. /\ basis \in 0 .. MaxBasis /\ head \in Heads /\ writing \in Writings
      /\ MaxHead \in Nat /\ MaxBasis \in Nat /\ MaxWriting \in Nat
      /\ Complete \subseteq Contents
  BY ConstantsAssumption DEF TypeOK
<1>2. head.revision \in 0 .. MaxHead /\ writing.revision \in 0 .. MaxWriting
  BY <1>1 DEF Heads, Writings
<1>3. CASE UNCHANGED <<basis, head, writing>>
  BY <1>1, <1>2, <1>3 DEF WritingHasPlan
<1>4. CASE MoveBasis
  BY <1>1, <1>2, <1>4 DEF MoveBasis, others, WritingHasPlan
<1>5. CASE OpenChapter
  <2>1. writing' \in Writings /\ writing'.revision = writing.revision
    BY <1>1, <1>5 DEF OpenChapter, Writings
  <2>2. /\ basis' = basis /\ head' = head /\ head.revision > 0
        /\ writing.revision < MaxWriting
    BY <1>5 DEF OpenChapter
  <2> QED
    BY <1>1, <1>2, <2>1, <2>2 DEF WritingHasPlan
<1>6. CASE FinalizeChapter
  <2>1. writing.revision + 1 \in 0 .. MaxWriting
    <3>1. writing.revision < MaxWriting
      BY <1>6, Zenon DEF FinalizeChapter, WritingHasPlan
    <3> QED
      BY <1>1, <1>2, <3>1
  <2>2. writing' \in Writings /\ ~writing'.drafting
    BY <1>6, <2>1 DEF FinalizeChapter, Writings
  <2>3. CASE UNCHANGED head
    BY <1>1, <1>2, <1>6, <2>2, <2>3 DEF FinalizeChapter, others, WritingHasPlan
  <2>4. ASSUME head.revision < MaxHead, NEW c \in Complete,
               head' = [head EXCEPT !.content = c, !.revision = @ + 1]
        PROVE  head' \in Heads /\ head'.revision >= head.revision
    <3>1. head.revision + 1 \in 0 .. MaxHead
      BY <1>1, <1>2, <2>4
    <3>2. [head EXCEPT !.content = c] \in Heads
      BY <1>1 DEF Heads
    <3>3. /\ head' = [[head EXCEPT !.content = c] EXCEPT !.revision = head.revision + 1]
      BY <1>1, <2>4 DEF Heads
    <3>4. PICK r \in Heads : r = [head EXCEPT !.content = c]
      BY <3>2
    <3>5. head' = [r EXCEPT !.revision = head.revision + 1]
      BY <3>3, <3>4
    <3>6. head' \in Heads /\ head'.revision = head.revision + 1
      BY <3>1, <3>5 DEF Heads
    <3> QED
      BY <1>2, <3>6
  <2>5. head' \in Heads /\ head'.revision >= head.revision
    BY <1>1, <1>2, <1>6, <2>3, <2>4 DEF FinalizeChapter
  <2>6. basis' = basis
    BY <1>6 DEF FinalizeChapter
  <2> QED
    BY <1>1, <2>2, <2>5, <2>6 DEF WritingHasPlan
<1>7. ASSUME NEW q \in ConfirmKeys, NEW p \in Pages, ConfirmDraft(q, p)
      PROVE  /\ basis' \in 0 .. MaxBasis /\ basis' >= basis
             /\ head' \in Heads /\ head'.revision >= head.revision
             /\ writing' \in Writings /\ WritingHasPlan'
  <2>1. basis' = basis /\ writing' = writing
    BY <1>7 DEF ConfirmDraft
  <2>2. CASE Confirms(q, p)
    <3>1. /\ head.revision + 1 \in 0 .. MaxHead
          /\ drafts[pages[p].draft].content \in Contents
      BY <1>1, <1>2, <2>2 DEF Confirms
    <3>2. head' \in Heads /\ head'.revision = head.revision + 1
      BY <1>1, <2>2, <3>1 DEF Confirms, Heads
    <3> QED
      BY <1>1, <1>2, <2>1, <3>2 DEF WritingHasPlan
  <2> QED
    BY <1>3, <1>7, <2>1, <2>2, ConfirmMoves
<1> QED
  <2>1. CASE Author
    <3>1. \/ UNCHANGED <<basis, head, writing>>
          \/ \E q \in ConfirmKeys, p \in Pages : ConfirmDraft(q, p)
      BY <2>1, AuthorMoves
    <3> QED
      BY <1>3, <1>7, <3>1
  <2>2. CASE World
    BY <1>3, <1>4, <1>5, <1>6, <2>2 DEF World, rows, others, Archive, Restore,
       Rebind, Tick, Die
  <2>3. ASSUME NEW k \in Keys, Worker(k)
        PROVE  UNCHANGED <<basis, head, writing>>
    BY <2>3, WorkerMoves
  <2> QED
    BY <1>3, <2>1, <2>2, <2>3 DEF Next

LEMMA AttemptsTyped ==
  ASSUME TypeOK, FencesCounted, Next
  PROVE  attempts' \in [Keys -> Attempts \cup {None}]
BY StepOnAttempts, ReservedRow DEF AttemptsKept

LEMMA VersionTyped ==
  ASSUME NEW ds \in Seq(Drafts), NEW d \in DOMAIN ds \cap DraftIds
  PROVE  Version(ds, d) \in Versions
<1>1. ds[d] \in Drafts
  BY ElementOfSeq, LenProperties
<1> QED
  BY <1>1 DEF Version, Versions, Drafts

LEMMA PagesTyped ==
  ASSUME TypeOK, Next
  PROVE  /\ pages' \in [Pages -> Versions \cup {None}]
         /\ workers' \in [Keys -> {"idle", "calling", "answered", "broken", "gone"}]
<1>1. CASE UNCHANGED pages
  <2>1. pages' \in [Pages -> Versions \cup {None}]
    BY <1>1 DEF TypeOK
  <2>2. \/ workers' = workers
        \/ \E k \in Keys :
             \E w \in {"idle", "calling", "answered", "broken", "gone"} :
               workers' = [workers EXCEPT ![k] = w]
    <3>1. CASE Author
      BY <3>1, AuthorMoves
    <3>2. CASE World
      BY <3>2 DEF World, Archive, Restore, MoveBasis, Rebind, OpenChapter,
         FinalizeChapter, Tick, Die, rows, others
    <3>3. ASSUME NEW k \in Keys, Worker(k)
          PROVE  \E w \in {"idle", "calling", "answered", "broken", "gone"} :
                   workers' = [workers EXCEPT ![k] = w]
      BY <3>3 DEF Worker, Answer, Break, NoticeEnded, RecordFailure, Publish
    <3> QED
      BY <3>1, <3>2, <3>3 DEF Next
  <2>3. workers' \in [Keys -> {"idle", "calling", "answered", "broken", "gone"}]
    BY <2>2 DEF TypeOK
  <2> QED
    BY <2>1, <2>3
<1>2. ASSUME NEW p \in Pages, LoadPage(p)
      PROVE  pages' \in [Pages -> Versions \cup {None}] /\ workers' = workers
  <2>1. PICK d \in ActiveDrafts : pages' = [pages EXCEPT ![p] = Version(drafts, d)]
    BY <1>2 DEF LoadPage
  <2>2. Version(drafts, d) \in Versions
    BY DraftRows, VersionTyped DEF ActiveDrafts, Drafted, TypeOK
  <2> QED
    BY <1>2, <2>1, <2>2 DEF TypeOK, LoadPage
<1>3. ASSUME NEW p \in Pages, NEW c \in Contents, SaveDraft(p, c)
      PROVE  pages' \in [Pages -> Versions \cup {None}] /\ workers' = workers
  <2>1. workers' = workers
    BY <1>3 DEF SaveDraft
  <2>2. ASSUME SavesOver(p, c),
               pages' = [pages EXCEPT ![p] = Version(drafts', pages[p].draft)]
        PROVE  pages' \in [Pages -> Versions \cup {None}]
    <3>1. pages[p].draft \in Drafted
          /\ RowBecomes(pages[p].draft,
                        Text(pages[p].draft, c, drafts[pages[p].draft].source))
      BY <2>2, SavedRow DEF SavesOver, Active
    <3>2. Version(drafts', pages[p].draft) \in Versions
      BY <3>1, DraftRows, VersionTyped DEF RowBecomes
    <3> QED
      BY <2>2, <3>2 DEF TypeOK
  <2>3. CASE UNCHANGED pages
    BY <2>1, <2>3 DEF TypeOK
  <2> QED
    BY <1>3, <2>1, <2>2, <2>3, SaveMoves
<1> QED
  <2>1. \/ UNCHANGED pages \/ \E p \in Pages : LoadPage(p)
        \/ \E p \in Pages, c \in Contents : SaveDraft(p, c)
    <3>1. CASE Author
      BY <3>1, AuthorMoves
    <3>2. CASE World
      BY <3>2 DEF World, rows, others, Archive, Restore, MoveBasis, Rebind,
         OpenChapter, FinalizeChapter, Tick, Die
    <3>3. CASE \E k \in Keys : Worker(k)
      BY <3>3 DEF Worker, rows, Answer, Break, NoticeEnded, RecordFailure, Publish
    <3> QED
      BY <3>1, <3>2, <3>3 DEF Next
  <2> QED
    BY <1>1, <1>2, <1>3, <2>1 DEF TypeOK

Confirmations ==
  [status : {"succeeded"}, draft : DraftIds, revision : 1 .. MaxDraftRevision + 1,
   content : Contents, result : 1 .. MaxHead]

LEMMA ConfirmedTyped ==
  ASSUME TypeOK, Next
  PROVE  confirmed' \in [ConfirmKeys -> {None} \cup Confirmations]
<1>1. confirmed \in [ConfirmKeys -> {None} \cup Confirmations]
  BY DEF TypeOK, Confirmations
<1>2. ASSUME NEW q \in ConfirmKeys, NEW p \in Pages, Confirms(q, p)
      PROVE  confirmed' \in [ConfirmKeys -> {None} \cup Confirmations]
  <2> DEFINE new == [status |-> "succeeded", draft |-> pages[p].draft,
                     revision |-> pages[p].revision,
                     content |-> pages[p].content, result |-> head.revision + 1]
  <2>1. pages[p] \in Versions /\ head.revision + 1 \in 1 .. MaxHead
    <3>1. pages[p] \in Versions
      BY <1>2 DEF Confirms, TypeOK
    <3>2. head.revision \in 0 .. MaxHead /\ head.revision < MaxHead
      BY <1>2 DEF Confirms, TypeOK, Heads
    <3> QED
      BY <3>1, <3>2, ConstantsAssumption
  <2>2. new \in Confirmations
    BY <2>1 DEF Versions, Confirmations
  <2>3. confirmed' = [confirmed EXCEPT ![q] = new]
    BY <1>2 DEF Confirms
  <2> QED
    BY <1>1, <2>2, <2>3
<1>3. ASSUME NEW q \in ConfirmKeys, NEW p \in Pages, ConfirmDraft(q, p)
      PROVE  confirmed' \in [ConfirmKeys -> {None} \cup Confirmations]
  BY <1>1, <1>2, <1>3, ConfirmMoves
<1>4. confirmed' = confirmed \/ \E q \in ConfirmKeys, p \in Pages : ConfirmDraft(q, p)
  BY AuthorMoves, WorkerMoves, WorldMoves DEF Next
<1> QED
  BY <1>1, <1>3, <1>4

LEMMA StepTyped ==
  ASSUME TypeOK, WritingHasPlan, FencesCounted, Next
  PROVE  TypeOK'
BY ClockTyped, HeadMoves, AttemptsTyped, PagesTyped, ConfirmedTyped, StepOnDrafts
   DEF TypeOK, DraftsKept, Confirmations

-----------------------------------------------------------------------------
(* The invariant.                                                          *)

LEMMA StepKeepsOneActive ==
  ASSUME TypeOK, OneActive, Next
  PROVE  OneActive'
<1>1. \A d \in Drafted : Active(d)' => Active(d)
  BY StepOnDrafts DEF DraftsKept, RowKept, Active, Drafted
<1>2. CASE DOMAIN drafts' = Drafted
  BY <1>1, <1>2 DEF OneActive, Active, Drafted
<1>3. CASE CreateDraft
  <2>1. \A d \in Drafted : ~Active(d)'
    <3> SUFFICES ASSUME NEW d \in Drafted PROVE drafts'[d].status # "active"
      BY DEF Active
    <3>1. drafts'[d] = Outdated(d) /\ drafts[d] \in Drafts
      BY <1>3, CreatedRow, DraftRows
    <3> QED
      BY <3>1 DEF Outdated, Active, Drafts
  <2>2. DOMAIN drafts' = Drafted \cup {Len(drafts) + 1}
    BY <1>3, CreatedRow
  <2> QED
    BY <2>1, <2>2 DEF OneActive, Active, Drafted
<1> QED
  BY <1>2, <1>3, StepOnDrafts

LEMMA StepKeepsDraftsFollow ==
  ASSUME TypeOK, WritingHasPlan, DraftsFollow, Next
  PROVE  DraftsFollow'
<1>1. /\ basis \in Nat /\ basis' \in Nat /\ basis' >= basis
      /\ head.revision \in Nat /\ head'.revision \in Nat
      /\ head'.revision >= head.revision
  BY HeadMoves DEF TypeOK, Heads
<1>2. ASSUME NEW d \in Drafted
      PROVE  /\ drafts'[d].basis <= basis' /\ drafts'[d].base <= head'.revision
             /\ Current(d)' => drafts'[d].status = "active"
  <2>1. /\ drafts[d].basis \in Nat /\ drafts[d].base \in Nat
        /\ drafts[d].basis <= basis /\ drafts[d].base <= head.revision
    BY DraftRows DEF DraftsFollow, Drafts
  <2>2. RowKept(d) /\ drafts'[d].basis = drafts[d].basis
        /\ drafts'[d].base = drafts[d].base
    BY StepOnDrafts DEF DraftsKept, RowKept
  <2>3. ASSUME Current(d)' PROVE Current(d) /\ head'.revision = head.revision
    BY <1>1, <2>1, <2>2, <2>3 DEF Current
  <2>4. ASSUME Current(d)' PROVE drafts'[d].status = "active"
    BY <2>2, <2>3, <2>4 DEF RowKept, DraftsFollow, Active
  <2> QED
    BY <1>1, <2>1, <2>2, <2>4
<1>3. CASE DOMAIN drafts' = Drafted
  BY <1>2, <1>3 DEF DraftsFollow, Active, Drafted
<1>4. CASE CreateDraft
  <2>1. /\ DOMAIN drafts' = Drafted \cup {Len(drafts) + 1}
        /\ drafts'[Len(drafts) + 1] = NewDraft
        /\ basis' = basis /\ head' = head
    BY <1>4, CreatedRow DEF CreateDraft
  <2>2. PICK n : n = Len(drafts) + 1
    OBVIOUS
  <2>3. /\ drafts'[n].basis = basis /\ drafts'[n].base = head.revision
        /\ drafts'[n].status = "active"
    BY <2>1, <2>2 DEF NewDraft
  <2>4. \A d \in DOMAIN drafts' : d \in Drafted \/ d = n
    BY <2>1, <2>2
  <2>5. drafts'[n].basis <= basis' /\ drafts'[n].base <= head'.revision
    BY <1>1, <2>1, <2>3
  <2> QED
    BY <1>2, <2>3, <2>4, <2>5 DEF DraftsFollow, Active, Drafted
<1> QED
  BY <1>3, <1>4, StepOnDrafts

LEMMA StepKeepsAttemptsOnDrafts ==
  ASSUME TypeOK, FencesCounted, AttemptsOnDrafts, Next
  PROVE  AttemptsOnDrafts'
<1>1. ASSUME NEW k \in Attempted, Keeps(k),
             \/ attempts'[k].status # "succeeded"
             \/ attempts[k].status = "succeeded"
             \/ drafts'[attempts[k].command.draft].source # "none"
      PROVE  OnItsDraft(k)'
  <2>1. PICK d : d = attempts[k].command.draft
    OBVIOUS
  <2>2. /\ attempts[k] # None /\ attempts'[k].command = attempts[k].command
        /\ attempts'[k].basis = attempts[k].basis
        /\ attempts'[k].head = attempts[k].head
    BY <1>1 DEF Keeps, Attempted
  <2>3. OnItsDraft(k)
    BY DEF AttemptsOnDrafts
  <2>4. /\ d \in Drafted
        /\ attempts[k].basis = drafts[d].basis /\ attempts[k].head = drafts[d].base
        /\ attempts[k].status = "succeeded" => drafts[d].source # "none"
    BY <2>1, <2>3 DEF OnItsDraft
  <2>5. RowKept(d) /\ d \in DOMAIN drafts'
    BY <2>4, StepOnDrafts DEF DraftsKept
  <2>6. attempts'[k].status = "succeeded" => drafts'[d].source # "none"
    BY <1>1, <2>1, <2>4, <2>5 DEF RowKept
  <2>7. d = attempts'[k].command.draft
    BY <2>1, <2>2
  <2>8. /\ attempts'[k].basis = drafts'[d].basis
        /\ attempts'[k].head = drafts'[d].base
    BY <2>2, <2>4, <2>5 DEF RowKept
  <2> QED
    BY <2>5, <2>6, <2>7, <2>8 DEF OnItsDraft, Drafted
<1>2. CASE AttemptsKept /\ NoneSucceeds
  <2> SUFFICES ASSUME NEW k \in Attempted' PROVE OnItsDraft(k)'
    BY DEF AttemptsOnDrafts
  <2>1. k \in Attempted /\ Keeps(k) /\ k \in Keys /\ attempts[k] # None
    BY <1>2, KeptRows DEF AttemptsKept, Attempted
  <2> QED
    BY <1>1, <1>2, <2>1 DEF NoneSucceeds
<1>3. ASSUME NEW j \in Keys, NEW c \in Contents, Lands(j, c), attempts[j] # None,
             AttemptsKept
      PROVE  AttemptsOnDrafts'
  <2> SUFFICES ASSUME NEW k \in Attempted' PROVE OnItsDraft(k)'
    BY DEF AttemptsOnDrafts
  <2>1. k \in Attempted /\ Keeps(k)
    BY <1>3, KeptRows DEF AttemptsKept, Attempted
  <2>2. CASE k = j
    <3> DEFINE d == attempts[j].command.draft
    <3>1. /\ d \in Drafted /\ drafts[d].revision <= MaxDraftRevision
          /\ RowBecomes(d, Text(d, c, j))
      BY <1>3, LoadedRow DEF Lands, Active
    <3>2. drafts'[d].source = j
      BY <3>1, TextTyped DEF RowBecomes
    <3>3. j # "none"
      BY ConstantsAssumption
    <3> QED
      BY <1>1, <2>1, <2>2, <3>2, <3>3
  <2>3. CASE k # j
    <3>1. attempts'[k].status = attempts[k].status
      BY <1>3, <2>1, <2>3 DEF Lands, Loaded, TypeOK, Attempted
    <3> QED
      BY <1>1, <2>1, <3>1
  <2> QED
    BY <2>2, <2>3
<1>4. ASSUME NEW j \in Keys, NEW p \in Pages, NEW m \in Modes, Reserve(j, p, m)
      PROVE  AttemptsOnDrafts'
  <2> SUFFICES ASSUME NEW k \in Attempted' PROVE OnItsDraft(k)'
    BY DEF AttemptsOnDrafts
  <2>1. PICK e : e = pages[p].draft
    OBVIOUS
  <2>2. /\ attempts[j] = None /\ attempts'[j].status = "pending"
        /\ attempts'[j].command.draft = e
        /\ attempts'[j].basis = basis /\ attempts'[j].head = head.revision
        /\ \A i \in Keys : i # j => attempts'[i] = attempts[i]
        /\ e \in Drafted /\ Current(e)
    BY <1>4, <2>1, ReservedRow DEF Active
  <2>3. CASE k = j
    <3>1. RowKept(e) /\ e \in DOMAIN drafts'
      BY <2>2, StepOnDrafts DEF DraftsKept
    <3>2. drafts'[e].basis = basis /\ drafts'[e].base = head.revision
      BY <2>2, <3>1 DEF RowKept, Current
    <3> QED
      BY <2>2, <2>3, <3>1, <3>2 DEF OnItsDraft, Drafted
  <2>4. CASE k # j
    <3>1. k \in Keys /\ attempts'[k] = attempts[k] /\ k \in Attempted
      BY <2>2, <2>4 DEF Attempted
    <3> QED
      BY <1>1, <3>1 DEF Keeps, Attempted
  <2> QED
    BY <2>3, <2>4
<1> QED
  BY <1>2, <1>3, <1>4, StepOnAttempts

LEMMA StepKeepsArchivedIdle ==
  ASSUME TypeOK, FencesCounted, ArchivedIdle, Next
  PROVE  ArchivedIdle'
<1>1. clock \in Nat /\ clock' \in Nat /\ clock' >= clock
  BY ClockTyped DEF TypeOK
<1>2. ASSUME NEW k \in Attempted, attempts'[k].lease = attempts[k].lease,
             Elapsed(k)
      PROVE  Elapsed(k)'
  <2>1. attempts[k].lease \in Nat
    BY AttemptRows, ConstantsAssumption DEF Attempts
  <2> QED
    BY <1>1, <1>2, <2>1 DEF Elapsed
<1>3. CASE archived /\ AttemptsKept
  <2> SUFFICES ASSUME NEW k \in Attempted', Pending(k)' PROVE Elapsed(k)'
    BY DEF ArchivedIdle
  <2>1. k \in Attempted /\ Pending(k) /\ attempts'[k].lease = attempts[k].lease
    BY <1>3, KeptRows DEF AttemptsKept, Keeps, Attempted
  <2> QED
    BY <1>2, <1>3, <2>1 DEF ArchivedIdle
<1>4. CASE Archive
  BY <1>4 DEF Archive, others, Busy, ArchivedIdle, Attempted, Pending, Elapsed
<1>5. ASSUME NEW k \in Keys, NEW p \in Pages, NEW m \in Modes, Reserve(k, p, m)
      PROVE  ArchivedIdle'
  <2>1. archived' = FALSE
    BY <1>5 DEF Reserve, rows, TypeOK
  <2> QED
    BY <2>1 DEF ArchivedIdle
<1>6. ~archived /\ ~Archive => ~archived'
  <2>1. ~archived => ~Restore
    BY DEF Restore
  <2> QED
    BY <2>1, AuthorMoves, WorkerMoves, WorldMoves DEF Next
<1>7. CASE ~archived /\ ~Archive
  BY <1>6, <1>7 DEF ArchivedIdle
<1> QED
  BY <1>3, <1>4, <1>5, <1>7, StepOnAttempts

LEMMA InitInv == Init => IInv
<1> SUFFICES ASSUME Init PROVE IInv
  OBVIOUS
<1>1. Drafted = {} /\ Attempted = {} /\ ~writing.drafting /\ ~archived
  BY EmptySeq, LenProperties DEF Init, Drafted, Attempted
<1>2. \A d : OnDraft(d) = {}
  BY <1>1 DEF OnDraft
<1> QED
  BY <1>1, <1>2, InitTyped DEF IInv, WritingHasPlan, OneActive, DraftsFollow,
     AttemptsOnDrafts, FencesOrdered, FencesCounted, ArchivedIdle

LEMMA StutterInv == IInv /\ UNCHANGED vars => IInv'
<1> SUFFICES ASSUME IInv, UNCHANGED vars PROVE IInv'
  OBVIOUS
<1> USE DEF vars
<1>1. TypeOK'
  BY DEF IInv, TypeOK
<1>2. WritingHasPlan' /\ OneActive' /\ DraftsFollow'
  BY DEF IInv, WritingHasPlan, OneActive, DraftsFollow, Drafted, Active, Current
<1>3. AttemptsOnDrafts' /\ ArchivedIdle'
  BY DEF IInv, AttemptsOnDrafts, OnItsDraft, Attempted, Drafted, ArchivedIdle,
     Pending, Elapsed
<1>4. FencesOrdered' /\ FencesCounted'
  BY DEF IInv, FencesOrdered, FencesCounted, OnDraft, LastFence, Attempted, Pending
<1> QED
  BY <1>1, <1>2, <1>3, <1>4 DEF IInv

LEMMA StepInv == IInv /\ [Next]_vars => IInv'
<1>1. ASSUME IInv, Next PROVE IInv'
  <2>1. TypeOK' /\ WritingHasPlan'
    BY <1>1, StepTyped, HeadMoves DEF IInv
  <2>2. OneActive' /\ DraftsFollow' /\ AttemptsOnDrafts'
    BY <1>1, StepKeepsOneActive, StepKeepsDraftsFollow, StepKeepsAttemptsOnDrafts
       DEF IInv
  <2>3. FencesOrdered' /\ FencesCounted' /\ ArchivedIdle'
    BY <1>1, StepKeepsFences, StepKeepsArchivedIdle DEF IInv
  <2> QED
    BY <2>1, <2>2, <2>3 DEF IInv
<1> QED
  BY <1>1, StutterInv

\* The types, what the rows remember of each other, the order of the fences
\* and the idle archive are inductive together.
THEOREM Inductive == Spec => []IInv
BY InitInv, StepInv, PTL DEF Spec

\* Every row stays well typed; no fence exceeds the number of requests.
THEOREM TypeCorrect == Spec => []TypeOK
<1>1. IInv => TypeOK
  BY DEF IInv
<1> QED
  BY <1>1, Inductive, PTL

-----------------------------------------------------------------------------
(* The slot.                                                               *)

LEMMA AtMostOne ==
  ASSUME NEW S, \A x, y \in S : x = y
  PROVE  Cardinality(S) <= 1
<1>1. CASE S = {}
  BY <1>1, FS_EmptySet
<1>2. ASSUME NEW x \in S PROVE Cardinality(S) <= 1
  <2>1. S = {x}
    BY <1>2
  <2> QED
    BY <2>1, FS_Singleton
<1> QED
  BY <1>1, <1>2

\* One draft is active, one of its attempts at most is pending, with the
\* last fence.
LEMMA SlotAndFenceHold == IInv => SlotAndFence
<1> SUFFICES ASSUME IInv PROVE SlotAndFence
  OBVIOUS
<1>1. Cardinality(ActiveDrafts) <= 1
  BY AtMostOne DEF ActiveDrafts, IInv, OneActive
<1>2. ASSUME NEW d \in Drafted PROVE Cardinality(PendingOn(d)) <= 1
  <2> SUFFICES ASSUME NEW k \in PendingOn(d), NEW j \in PendingOn(d), k # j
               PROVE  FALSE
    BY AtMostOne
  <2>1. /\ k \in Attempted /\ j \in Attempted /\ Pending(k) /\ Pending(j)
        /\ attempts[k].command.draft = attempts[j].command.draft
    BY DEF PendingOn
  <2>2. /\ attempts[j].fence < attempts[k].fence
        /\ attempts[k].fence < attempts[j].fence
    BY <2>1 DEF IInv, FencesOrdered
  <2>3. attempts[j].fence \in Nat /\ attempts[k].fence \in Nat
    BY <2>1, AttemptRows DEF IInv
  <2> QED
    BY <2>2, <2>3
<1>3. \A k, j \in Attempted :
        Pending(k) /\ k # j
        /\ attempts[k].command.draft = attempts[j].command.draft
          => attempts[j].fence < attempts[k].fence
  BY DEF IInv, FencesOrdered
<1> QED
  BY <1>1, <1>2, <1>3 DEF SlotAndFence

\* A draft on the basis and the head its attempt froze is still the active one.
LEMMA LoadNeverRefusedHolds == IInv => LoadNeverRefused
<1> SUFFICES ASSUME IInv, NEW k \in Keys, Pending(k), StillCurrent(k)
             PROVE  Loadable(k)
  BY DEF LoadNeverRefused
<1> DEFINE d == attempts[k].command.draft
<1>1. k \in Attempted
  BY DEF Attempted, Pending, None
<1>2. /\ d \in Drafted
      /\ attempts[k].basis = drafts[d].basis /\ attempts[k].head = drafts[d].base
  BY <1>1 DEF IInv, AttemptsOnDrafts, OnItsDraft
<1>3. /\ attempts[k].basis = basis /\ attempts[k].head = head.revision
      /\ Exact(attempts[k].command)
  BY DEF StillCurrent
<1>4. Current(d)
  BY <1>2, <1>3 DEF Current
<1>5. Active(d)
  BY <1>2, <1>4 DEF IInv, DraftsFollow
<1> QED
  BY <1>3, <1>5 DEF Loadable

\* The slot has one owner with the last fence, what passes the comparison of
\* _publish finds its draft, and nothing can land in an archive.
THEOREM SlotIsSound == Spec => []SlotSound
<1>1. IInv => SlotSound
  BY SlotAndFenceHold, LoadNeverRefusedHolds DEF IInv, SlotSound
<1> QED
  BY <1>1, Inductive, PTL

-----------------------------------------------------------------------------
(* What a step may never do.                                               *)

\* A draft moves on by a save or by a landing.
LEMMA RevisionMoves ==
  ASSUME TypeOK, [Next]_vars, NEW d \in Drafted,
         drafts'[d].revision # drafts[d].revision
  PROVE  \/ \E p \in Pages, c \in Contents :
              /\ SavesOver(p, c) /\ pages[p].draft = d
              /\ drafts'[d].source = drafts[d].source
         \/ \E k \in Keys, c \in Contents :
              /\ Lands(k, c) /\ attempts[k] # None /\ attempts[k].command.draft = d
              /\ drafts'[d].source = k
<1>1. drafts[d] \in Drafts /\ drafts' # drafts
  BY DraftRows
<1>2. ASSUME NEW e, Retires(e) PROVE FALSE
  <2>1. RowBecomes(e, [drafts[e] EXCEPT !.status = "superseded"]) /\ e \in Drafted
    BY <1>2, EndRow DEF Retires, Active
  <2> QED
    BY <1>1, <2>1 DEF RowBecomes, Drafts
<1>3. ASSUME CreateDraft PROVE FALSE
  BY <1>1, <1>3, CreatedRow DEF Outdated, Drafts
<1>4. ASSUME NEW q \in ConfirmKeys, NEW p \in Pages, Confirms(q, p) PROVE FALSE
  <2>1. /\ pages[p].draft \in Drafted
        /\ RowBecomes(pages[p].draft,
                      [drafts[pages[p].draft] EXCEPT !.status = "confirmed"])
    BY <1>4, EndRow DEF Confirms, Active
  <2> QED
    BY <1>1, <2>1 DEF RowBecomes, Drafts
<1>5. ASSUME NEW p \in Pages, NEW c \in Contents, SavesOver(p, c)
      PROVE  pages[p].draft = d /\ drafts'[d].source = drafts[d].source
  <2> DEFINE e == pages[p].draft
  <2>1. /\ e \in Drafted /\ drafts[e].revision <= MaxDraftRevision
        /\ RowBecomes(e, Text(e, c, drafts[e].source))
        /\ drafts[e].source \in Keys \cup {"none"}
    BY <1>5, SavedRow, DraftRows DEF SavesOver, Active, Drafts
  <2> HIDE DEF e
  <2>2. e = d
    BY <2>1 DEF RowBecomes
  <2> QED
    BY <2>1, <2>2, TextTyped DEF RowBecomes, e
<1>6. ASSUME NEW k \in Keys, NEW c \in Contents, Lands(k, c)
      PROVE  attempts[k].command.draft = d /\ drafts'[d].source = k
  <2> DEFINE e == attempts[k].command.draft
  <2>1. /\ e \in Drafted /\ drafts[e].revision <= MaxDraftRevision
        /\ RowBecomes(e, Text(e, c, k))
    BY <1>6, LoadedRow DEF Lands, Active
  <2> HIDE DEF e
  <2>2. e = d
    BY <2>1 DEF RowBecomes
  <2> QED
    BY <2>1, <2>2, TextTyped DEF RowBecomes, e
<1>7. \/ CreateDraft
      \/ \E p \in Pages, c \in Contents : SaveDraft(p, c)
      \/ \E q \in ConfirmKeys, p \in Pages : ConfirmDraft(q, p)
      \/ \E k \in Keys, c \in Contents : Publish(k, c)
  <2>1. drafts' # drafts
    BY <1>1
  <2> QED
    BY <1>1, <2>1, AuthorMoves, WorkerMoves, WorldMoves DEF Next, vars
<1>8. ASSUME NEW q \in ConfirmKeys, NEW p \in Pages, ConfirmDraft(q, p) PROVE FALSE
  BY <1>2, <1>4, <1>8, ConfirmMoves
<1>9. ASSUME NEW p \in Pages, NEW c \in Contents, SaveDraft(p, c)
      PROVE  SavesOver(p, c)
  BY <1>2, <1>9, SaveMoves
<1>10. ASSUME NEW k \in Keys, NEW c \in Contents, Publish(k, c)
       PROVE  Lands(k, c) /\ attempts[k] # None
  BY <1>1, <1>10, PublishMoves
<1> QED
  BY <1>3, <1>5, <1>6, <1>7, <1>8, <1>9, <1>10

\* A version and the row it shows.
LEMMA ExactIsVersion ==
  ASSUME TypeOK, NEW v \in Versions, Exact(v)
  PROVE  v = Version(drafts, v.draft)
BY DEF Exact, Version, Versions

\* A save replaces only what its page shows, and a result only what it was
\* requested for (update_draft_cas, load_generation_result_into_draft).
THEOREM NothingIsOverwrittenUnseen == Spec => NothingOverwrittenUnseen
<1> DEFINE Saved(d) == /\ drafts'[d].source = drafts[d].source
                       /\ \E p \in Pages : pages[p] = Version(drafts, d)
           Landed(d) == LET a == attempts[drafts'[d].source] IN
                        /\ a.status = "pending"
                        /\ a.command.draft = d
                        /\ a.command.revision = drafts[d].revision
                        /\ a.command.content = drafts[d].content
                        /\ a.basis = basis /\ a.head = head.revision
<1>1. ASSUME TypeOK, [Next]_vars, NEW d \in Drafted,
             drafts'[d].revision # drafts[d].revision
      PROVE  Saved(d) \/ Landed(d)
  <2>1. ASSUME NEW p \in Pages, NEW c \in Contents, SavesOver(p, c),
               pages[p].draft = d, drafts'[d].source = drafts[d].source
        PROVE  Saved(d)
    <3>1. pages[p] \in Versions /\ Exact(pages[p])
      BY <1>1, <2>1 DEF SavesOver, TypeOK
    <3>2. pages[p] = Version(drafts, d)
      BY <1>1, <2>1, <3>1, ExactIsVersion
    <3> QED
      BY <2>1, <3>2
  <2>2. ASSUME NEW k \in Keys, NEW c \in Contents, Lands(k, c),
               attempts[k].command.draft = d, drafts'[d].source = k
        PROVE  Landed(d)
    BY <2>2 DEF Lands, Pending, StillCurrent, Exact
  <2> QED
    BY <1>1, <2>1, <2>2, RevisionMoves
<1>2. TypeOK /\ [Next]_vars
        => [\A d \in Drafted : drafts'[d].revision # drafts[d].revision =>
              \/ /\ drafts'[d].source = drafts[d].source
                 /\ \E p \in Pages : pages[p] = Version(drafts, d)
              \/ LET a == attempts[drafts'[d].source] IN
                 /\ a.status = "pending"
                 /\ a.command.draft = d
                 /\ a.command.revision = drafts[d].revision
                 /\ a.command.content = drafts[d].content
                 /\ a.basis = basis /\ a.head = head.revision]_vars
  BY <1>1
<1> QED
  BY <1>2, TypeCorrect, PTL DEF Spec, NothingOverwrittenUnseen

\* A confirmation is recorded only with the head it made.
LEMMA ConfirmationMoves ==
  ASSUME TypeOK, [Next]_vars, NEW q \in ConfirmKeys, confirmed'[q] # confirmed[q]
  PROVE  \E p \in Pages : Confirms(q, p)
<1>1. confirmed' # confirmed
  OBVIOUS
<1>2. PICK r \in ConfirmKeys, p \in Pages : ConfirmDraft(r, p)
  BY <1>1, AuthorMoves, WorkerMoves, WorldMoves DEF Next, vars
<1>3. Confirms(r, p)
  BY <1>1, <1>2, ConfirmMoves
<1>4. r = q
  BY <1>3 DEF Confirms, TypeOK
<1> QED
  BY <1>3, <1>4

\* A plan becomes the head only as a page showed it, from a draft made on
\* the head it follows (confirm_draft).
THEOREM ShownIsConfirmed == Spec => ConfirmedAsShown
<1>1. ASSUME TypeOK, [Next]_vars, NEW q \in ConfirmKeys, confirmed'[q] # confirmed[q]
      PROVE  \E p \in Pages :
               /\ pages[p] # None
               /\ pages[p].content = head'.content
               /\ drafts[pages[p].draft].base = head.revision
               /\ head'.revision = head.revision + 1
  <2>1. PICK p \in Pages : Confirms(q, p)
    BY <1>1, ConfirmationMoves
  <2>2. /\ pages[p] # None
        /\ drafts[pages[p].draft].base = head.revision
        /\ drafts[pages[p].draft].content = pages[p].content
        /\ head' = [revision |-> head.revision + 1, basis |-> basis,
                    content |-> drafts[pages[p].draft].content]
    BY <2>1 DEF Confirms, Current, Exact
  <2> QED
    BY <2>2
<1>2. TypeOK /\ [Next]_vars
        => [\A q \in ConfirmKeys : confirmed'[q] # confirmed[q] =>
              \E p \in Pages :
                /\ pages[p] # None
                /\ pages[p].content = head'.content
                /\ drafts[pages[p].draft].base = head.revision
                /\ head'.revision = head.revision + 1]_vars
  BY <1>1
<1> QED
  BY <1>2, TypeCorrect, PTL DEF Spec, ConfirmedAsShown

\* Nothing is replaced or confirmed that its author has not seen.
THEOREM OnlyWhatIsShown == Spec => OnlyAsShown
BY NothingIsOverwrittenUnseen, ShownIsConfirmed DEF OnlyAsShown

\* An attempt that has ended keeps its outcome and every other column,
\* whatever a late worker, a stop or a takeover does (_publish, _fail,
\* _supersede_expired_attempt, cancel_by_key).
THEOREM OutcomeIsFinal == Spec => EndedForever
<1>1. ASSUME IInv, [Next]_vars, NEW k \in Attempted, ~Pending(k)
      PROVE  attempts'[k] = attempts[k]
  <2>1. k \in Keys /\ attempts[k] # None
    BY DEF Attempted
  <2>2. CASE AttemptsKept
    BY <1>1, <2>1, <2>2 DEF AttemptsKept, Keeps
  <2>3. ASSUME NEW j \in Keys, NEW p \in Pages, NEW m \in Modes, Reserve(j, p, m)
        PROVE  attempts'[k] = attempts[k]
    BY <1>1, <2>1, <2>3, ReservedRow DEF IInv
  <2>4. CASE UNCHANGED vars
    BY <2>4 DEF vars
  <2> QED
    BY <1>1, <2>2, <2>3, <2>4, StepOnAttempts DEF IInv
<1>2. IInv /\ [Next]_vars
        => [\A k \in Attempted : ~Pending(k) => attempts'[k] = attempts[k]]_vars
  BY <1>1
<1> QED
  BY <1>2, Inductive, PTL DEF Spec, EndedForever

\* The latest expansion of a draft is the one ProvenanceHolds looks at, and
\* the draft does remember that it was filled.
LEMMA LatestExpansion ==
  ASSUME IInv, NEW d \in Drafted, ProvenanceHolds(d), NEW k \in Expansions(d),
         \A j \in Expansions(d) : attempts[j].fence <= attempts[k].fence
  PROVE  attempts[k].authority = ExpansionAuthority
<1> DEFINE Latest(i) == \A j \in Expansions(d) : attempts[j].fence <= attempts[i].fence
           latest == CHOOSE i \in Expansions(d) : Latest(i)
<1>1. latest \in Expansions(d) /\ Latest(latest)
  OBVIOUS
<1>2. k \in Attempted /\ attempts[k].command.draft = d /\ attempts[k].status = "succeeded"
  BY DEF Expansions
<1>3. drafts[d].source # "none"
  BY <1>2 DEF IInv, AttemptsOnDrafts, OnItsDraft
<1>4. attempts[latest].authority = ExpansionAuthority
  BY <1>3 DEF ProvenanceHolds
<1> HIDE DEF latest
<1>5. latest \in Attempted /\ attempts[latest].command.draft = d
  BY <1>1 DEF Expansions
<1>6. attempts[latest].fence = attempts[k].fence
  <2>1. attempts[latest].fence \in Nat /\ attempts[k].fence \in Nat
    BY <1>2, <1>5, AttemptRows DEF IInv
  <2>2. /\ attempts[latest].fence <= attempts[k].fence
        /\ attempts[k].fence <= attempts[latest].fence
    BY <1>1
  <2> QED
    BY <2>1, <2>2
<1>7. latest = k
  BY <1>2, <1>5, <1>6 DEF IInv, FencesOrdered
<1> QED
  BY <1>4, <1>7

\* A plan that a continuation extended is confirmed only under the writing
\* progress it was made for (read_draft_generation_manifest).
THEOREM ContinuationIsOnItsProgress == Spec => ContinuationOnItsProgress
<1>1. ASSUME IInv, [Next]_vars, NEW q \in ConfirmKeys, confirmed'[q] # confirmed[q],
             NEW k \in Expansions(confirmed'[q].draft),
             \A j \in Expansions(confirmed'[q].draft) :
               attempts[j].fence <= attempts[k].fence
      PROVE  attempts[k].authority = ExpansionAuthority
  <2>1. PICK p \in Pages : Confirms(q, p)
    BY <1>1, ConfirmationMoves DEF IInv
  <2>2. confirmed'[q].draft = pages[p].draft
    <3>1. DOMAIN confirmed = ConfirmKeys
      BY <1>1 DEF IInv, TypeOK
    <3>2. PICK row : row.draft = pages[p].draft
                     /\ confirmed' = [confirmed EXCEPT ![q] = row]
      BY <2>1 DEF Confirms
    <3> QED
      BY <3>1, <3>2
  <2>3. pages[p].draft \in Drafted /\ ProvenanceHolds(pages[p].draft)
    BY <2>1 DEF Confirms, Active
  <2> QED
    BY <1>1, <2>2, <2>3, LatestExpansion
<1>2. IInv /\ [Next]_vars
        => [\A q \in ConfirmKeys : confirmed'[q] # confirmed[q] =>
              LET d == confirmed'[q].draft IN
              \A k \in Expansions(d) :
                (\A j \in Expansions(d) : attempts[j].fence <= attempts[k].fence)
                  => attempts[k].authority = ExpansionAuthority]_vars
  BY <1>1
<1> QED
  BY <1>2, Inductive, PTL DEF Spec, ContinuationOnItsProgress

\* While a chapter is drafted on a plan of the current basis, neither a
\* confirmation nor a finalized chapter moves the active block
\* (validate_manual_continuation).
THEOREM ActiveBlockStays == Spec => ActiveBlockStill
<1>1. ASSUME IInv, [Next]_vars, writing.drafting, head.basis = basis,
             head'.revision # head.revision
      PROVE  Block[head'.content] = Block[head.content]
  <2>1. head' # head
    BY <1>1
  <2>2. CASE FinalizeChapter
    <3>1. PICK c \in Complete :
            /\ Block[c] = Block[head.content]
            /\ head' = [head EXCEPT !.content = c, !.revision = @ + 1]
      BY <2>1, <2>2 DEF FinalizeChapter
    <3>2. head'.content = c
      BY <1>1, <3>1 DEF IInv, TypeOK, Heads
    <3> QED
      BY <3>1, <3>2
  <2>3. ASSUME NEW q \in ConfirmKeys, NEW p \in Pages, ConfirmDraft(q, p)
        PROVE  Block[head'.content] = Block[head.content]
    <3>1. Confirms(q, p)
      BY <2>1, <2>3, ConfirmMoves
    <3>2. /\ head'.content = drafts[pages[p].draft].content
          /\ ContinuationHolds(drafts[pages[p].draft].content)
      BY <3>1 DEF Confirms
    <3>3. head.revision > 0 /\ HeadMatchesBasis
      BY <1>1, Zenon DEF IInv, WritingHasPlan, HeadMatchesBasis
    <3> QED
      BY <1>1, <3>2, <3>3, Zenon DEF ContinuationHolds
  <2> QED
    BY <1>1, <2>1, <2>2, <2>3, AuthorMoves, WorkerMoves, WorldMoves DEF Next, vars
<1> QED
  BY <1>1, Inductive, PTL DEF Spec, ActiveBlockStill
=============================================================================
