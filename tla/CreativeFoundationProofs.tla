----------------------- MODULE CreativeFoundationProofs -----------------------
(***************************************************************************)
(* Proofs about CreativeFoundation for any seeds, contents, keys and       *)
(* bounds.  The invariant of the runs is strengthened by what is known of  *)
(* the calls of a batch and of what an old page still shows.               *)
(***************************************************************************)
EXTENDS CreativeFoundation, TLAPS

\* A batch that is not there yet, waits, or ended without a start was never
\* sent; no batch is sent twice.
CallInv ==
  \A k \in Keys :
    /\ called[k] \in {0, 1}
    /\ project # "deleted" /\ batches[k] = None => called[k] = 0
    /\ Is(k, "reserved") \/ Is(k, "not_started") => called[k] = 0

\* A page shows a seed that was there: the same, an earlier revision, or one
\* whose key has been used again since.
PageInv ==
  page \in SeedViews /\ project # "deleted" =>
    /\ seeds[page.seed] # None
    /\ Exists(page.seed) /\ ~seeds[page.seed].again =>
         /\ page.row.revision <= seeds[page.seed].revision
         /\ page.row.revision = seeds[page.seed].revision
              => page.row.content = seeds[page.seed].content

IInv ==
  /\ TypeOK /\ CallInv /\ PageInv /\ FoundationSound /\ ChosenAsShown

-----------------------------------------------------------------------------
(* Rows.                                                                   *)

\* A new batch row.
LEMMA RowTyped ==
  ASSUME NEW st \in Open \cup {"succeeded", "failed", "not_started", "outcome_unknown"}
  PROVE  Row(st) \in Batches /\ Row(st).status = st
BY DEF Row, Batches

\* A row of a batch or of a seed that exists has its fields.
LEMMA Rows ==
  ASSUME TypeOK
  PROVE  /\ \A k \in Keys : batches[k] # None => batches[k] \in Batches
         /\ \A s \in Seeds : Exists(s) => seeds[s] \in SeedRows
BY DEF TypeOK, Exists

\* The verdict on a call that returned ends its batch.
LEMMA VerdictEnds ==
  ASSUME NEW k, workers[k] \in {"answered", "refused", "timed_out"}
  PROVE  Verdict(k) \in {"succeeded", "failed", "outcome_unknown"}
BY DEF Verdict

-----------------------------------------------------------------------------
(* Types.                                                                  *)

LEMMA InitTyped == Init => TypeOK
BY BoundsAssumption DEF Init, TypeOK

LEMMA SeedStepTyped == TypeOK /\ SeedStep => TypeOK'
<1> SUFFICES ASSUME TypeOK, SeedStep PROVE TypeOK'
  OBVIOUS
<1> USE DEF idea, engines, terms
<1>1. PICK s \in Seeds :
        \/ ReadSeed(s) \/ DeleteSeed(s) \/ ArchiveSeed(s) \/ RestoreSeed(s)
        \/ \E c \in Contents : CreateSeed(s, c) \/ EditSeed(s, c)
        \/ Exists(s) /\ SelectSeed(SeedView(s))
  BY DEF SeedStep
<1>2. Exists(s) => seeds[s] \in SeedRows
  BY Rows
<1>3. CASE ReadSeed(s)
  BY <1>2, <1>3 DEF ReadSeed, TypeOK, SeedView, SeedViews
<1>4. CASE DeleteSeed(s)
  BY <1>4 DEF DeleteSeed, TypeOK
<1>5. CASE ArchiveSeed(s)
  <2>1. [seeds[s] EXCEPT !.status = "archived"] \in SeedRows
    BY <1>2, <1>5 DEF ArchiveSeed, SeedRows
  <2> QED
    BY <2>1, <1>5 DEF ArchiveSeed, TypeOK
<1>6. CASE RestoreSeed(s)
  <2>1. [seeds[s] EXCEPT !.status = "candidate"] \in SeedRows
    BY <1>2, <1>6 DEF RestoreSeed, SeedRows
  <2> QED
    BY <2>1, <1>6 DEF RestoreSeed, TypeOK
<1>7. ASSUME NEW c \in Contents, CreateSeed(s, c) PROVE TypeOK'
  <2>1. [status |-> "candidate", revision |-> 1, content |-> c,
         again |-> seeds[s] = Gone] \in SeedRows
    BY BoundsAssumption DEF SeedRows
  <2> QED
    BY <2>1, <1>7 DEF CreateSeed, TypeOK
<1>8. ASSUME NEW c \in Contents, EditSeed(s, c) PROVE TypeOK'
  <2>1. seeds[s] \in SeedRows /\ seeds[s].revision < MaxRevision
    BY <1>2, <1>8 DEF EditSeed, Editable
  <2>2. seeds[s].revision + 1 \in 1 .. MaxRevision
    BY <2>1, BoundsAssumption DEF SeedRows
  <2>3. Edited(seeds[s], c) \in SeedRows
    BY <2>1, <2>2 DEF SeedRows, Edited
  <2> QED
    BY <2>3, <1>8 DEF EditSeed, TypeOK
<1>9. CASE Exists(s) /\ SelectSeed(SeedView(s))
  <2>1. [seed |-> s, row |-> seeds[s], shown |-> seeds[s]] \in Selections
    BY <1>2, <1>9 DEF Selections
  <2> QED
    BY <2>1, <1>9 DEF SelectSeed, SeedView, TypeOK
<1> QED
  BY <1>1, <1>3, <1>4, <1>5, <1>6, <1>7, <1>8, <1>9

LEMMA EngineStepTyped == TypeOK /\ EngineStep => TypeOK'
<1> SUFFICES ASSUME TypeOK, EngineStep PROVE TypeOK'
  OBVIOUS
<1> USE DEF idea, engines, terms
<1>1. PICK k \in Keys :
        \/ CreateManual(k) \/ ReserveProvider(k) \/ StartAttempt(k)
        \/ FailConfiguration(k) \/ EndAttempt(k) \/ LosesAttempt(k)
        \/ WorkerDies(k) \/ Elapse(k) \/ Reconcile(k)
        \/ \E outcome \in Returns : ProviderReturns(k, outcome)
  BY DEF EngineStep
<1>2. CASE CreateManual(k)
  BY <1>2, RowTyped DEF CreateManual, TypeOK
<1>3. CASE ReserveProvider(k)
  BY <1>3, RowTyped DEF ReserveProvider, TypeOK, Open
<1>4. CASE StartAttempt(k)
  BY <1>4, RowTyped DEF StartAttempt, TypeOK, Open
<1>5. CASE FailConfiguration(k)
  BY <1>5, RowTyped DEF FailConfiguration, TypeOK
<1>6. CASE EndAttempt(k)
  <2>1. Row(Verdict(k)) \in Batches
    BY <1>6, VerdictEnds, RowTyped DEF EndAttempt
  <2> QED
    BY <2>1, <1>6 DEF EndAttempt, TypeOK
<1>7. CASE LosesAttempt(k)
  BY <1>7 DEF LosesAttempt, TypeOK
<1>8. CASE WorkerDies(k)
  BY <1>8 DEF WorkerDies, TypeOK
<1>9. CASE Elapse(k)
  <2>1. [batches[k] EXCEPT !.late = TRUE] \in Batches
    BY <1>9, Rows DEF Elapse, Is, Batches
  <2> QED
    BY <2>1, <1>9 DEF Elapse, TypeOK
<1>10. CASE Reconcile(k)
  BY <1>10, RowTyped DEF Reconcile, TypeOK
<1>11. ASSUME NEW o \in Returns, ProviderReturns(k, o) PROVE TypeOK'
  BY <1>11 DEF ProviderReturns, Returns, TypeOK
<1> QED
  BY <1>1, <1>2, <1>3, <1>4, <1>5, <1>6, <1>7, <1>8, <1>9, <1>10, <1>11

LEMMA ContractStepTyped == TypeOK /\ ContractStep => TypeOK'
<1> SUFFICES ASSUME TypeOK, ContractStep PROVE TypeOK'
  OBVIOUS
<1> USE DEF idea, engines, terms
<1>1. CASE ReplaceBinding
  BY <1>1, BoundsAssumption DEF ReplaceBinding, TypeOK
<1>2. CASE ReadDraft
  BY <1>2 DEF ReadDraft, TypeOK
<1>3. ASSUME NEW seen \in Seen, Confirm(seen) PROVE TypeOK'
  <2>1. draft \in Drafts /\ seen = draft
    BY <1>3 DEF Seen, Confirm, Confirmable
  <2>2. [draft |-> draft, shown |-> seen] \in Contracts
    BY <2>1 DEF Contracts
  <2> QED
    BY <2>2, <1>3 DEF Confirm, TypeOK
<1>4. ASSUME NEW k \in Keys, NEW complete \in BOOLEAN, SaveFirst(k, complete)
      PROVE  TypeOK'
  <2>1. [version |-> 1, engine |-> k, complete |-> complete,
         binding |-> binding] \in Drafts
    BY BoundsAssumption DEF Drafts, TypeOK
  <2> QED
    BY <2>1, <1>4 DEF SaveFirst, TypeOK
<1>5. ASSUME NEW k \in Keys, NEW complete \in BOOLEAN, SaveDraft(k, complete)
      PROVE  TypeOK'
  <2>1. draft \in Drafts /\ draft.version < MaxVersion
    BY <1>5 DEF SaveDraft, TypeOK
  <2>2. draft.version + 1 \in 1 .. MaxVersion
    BY <2>1, BoundsAssumption DEF Drafts
  <2>3. [version |-> draft.version + 1, engine |-> k, complete |-> complete,
         binding |-> binding] \in Drafts
    BY <2>2 DEF Drafts, TypeOK
  <2> QED
    BY <2>3, <1>5 DEF SaveDraft, TypeOK
<1> QED
  BY <1>1, <1>2, <1>3, <1>4, <1>5 DEF ContractStep

\* An old page that selects is as typed as a fresh one.
LEMMA OldSelectTyped ==
  TypeOK /\ page \in SeedViews /\ SelectSeed(page) => TypeOK'
<1> SUFFICES ASSUME TypeOK, page \in SeedViews, SelectSeed(page) PROVE TypeOK'
  OBVIOUS
<1>1. page.seed \in Seeds /\ page.row \in SeedRows
  BY DEF SeedViews
<1>2. seeds[page.seed] \in SeedRows
  BY <1>1, Rows DEF SelectSeed, Selectable
<1>3. [seed |-> page.seed, row |-> seeds[page.seed], shown |-> page.row] \in Selections
  BY <1>1, <1>2 DEF Selections
<1> QED
  BY <1>3 DEF SelectSeed, TypeOK, idea, engines, terms

LEMMA ProjectStepTyped == TypeOK /\ (Archive \/ Restore \/ DeleteProject) => TypeOK'
BY DEF Archive, Restore, DeleteProject, TypeOK, idea, engines, terms

LEMMA StepTyped == TypeOK /\ [Next]_vars => TypeOK'
<1>1. TypeOK /\ UNCHANGED vars => TypeOK'
  BY DEF TypeOK, vars
<1> QED
  BY <1>1, SeedStepTyped, EngineStepTyped, ContractStepTyped, OldSelectTyped,
     ProjectStepTyped DEF Next

\* Every reachable state is well typed, for any seeds, keys and bounds.
THEOREM TypeCorrect == Spec => []TypeOK
BY InitTyped, StepTyped, PTL DEF Spec

-----------------------------------------------------------------------------
(* Calls.                                                                  *)

\* What a step does to the batches other than one.
LEMMA OtherKeys ==
  ASSUME TypeOK, CallInv, NEW k \in Keys, project' = project,
         \A j \in Keys \ {k} : batches'[j] = batches[j] /\ called'[j] = called[j],
         /\ called'[k] \in {0, 1}
         /\ project # "deleted" /\ batches'[k] = None => called'[k] = 0
         /\ Is(k, "reserved")' \/ Is(k, "not_started")' => called'[k] = 0
  PROVE  CallInv'
BY DEF CallInv, Is

\* Steps that leave the batches alone.
LEMMA CallsStill ==
  CallInv /\ UNCHANGED <<project, batches, called>> => CallInv'
BY DEF CallInv, Is

LEMMA EngineStepCalls == TypeOK /\ CallInv /\ EngineStep => CallInv'
<1> SUFFICES ASSUME TypeOK, CallInv, EngineStep PROVE CallInv'
  OBVIOUS
<1>1. PICK k \in Keys :
        \/ CreateManual(k) \/ ReserveProvider(k) \/ StartAttempt(k)
        \/ FailConfiguration(k) \/ EndAttempt(k) \/ LosesAttempt(k)
        \/ WorkerDies(k) \/ Elapse(k) \/ Reconcile(k)
        \/ \E outcome \in Returns : ProviderReturns(k, outcome)
  BY DEF EngineStep
<1>2. /\ batches \in [Keys -> Batches \cup {None}]
      /\ called \in [Keys -> Nat]
      /\ called[k] \in {0, 1}
      /\ project # "deleted" /\ batches[k] = None => called[k] = 0
      /\ Is(k, "reserved") \/ Is(k, "not_started") => called[k] = 0
  BY DEF TypeOK, CallInv
<1>3. CASE LosesAttempt(k) \/ WorkerDies(k) \/ \E o \in Returns : ProviderReturns(k, o)
  BY <1>3, CallsStill DEF LosesAttempt, WorkerDies, ProviderReturns
<1> SUFFICES ASSUME \/ CreateManual(k) \/ ReserveProvider(k) \/ StartAttempt(k)
                    \/ FailConfiguration(k) \/ EndAttempt(k)
                    \/ Elapse(k) \/ Reconcile(k)
             PROVE  CallInv'
  BY <1>1, <1>3
<1>4. /\ project' = project
      /\ \A j \in Keys \ {k} : batches'[j] = batches[j] /\ called'[j] = called[j]
  BY <1>2 DEF CreateManual, ReserveProvider, StartAttempt, FailConfiguration,
     EndAttempt, Elapse, Reconcile
<1>5. CASE CreateManual(k)
  <2>1. called'[k] = called[k] /\ batches'[k] = Row("succeeded") /\ called[k] = 0
    BY <1>2, <1>5 DEF CreateManual, Active
  <2> QED
    BY <2>1, <1>4, RowTyped, OtherKeys, NullAssumption DEF Is
<1>6. CASE ReserveProvider(k)
  <2>1. called'[k] = called[k] /\ batches'[k] = Row("reserved") /\ called[k] = 0
    BY <1>2, <1>6 DEF ReserveProvider, Active
  <2> QED
    BY <2>1, <1>4, RowTyped, OtherKeys, NullAssumption DEF Is
<1>7. CASE StartAttempt(k)
  <2>1. called'[k] = 1 /\ batches'[k] = Row("running")
    BY <1>2, <1>7 DEF StartAttempt, Startable
  <2>2. Row("running") \in Batches /\ Row("running").status = "running"
    BY RowTyped DEF Open
  <2> QED
    BY <2>1, <2>2, <1>4, OtherKeys, NullAssumption DEF Is
<1>8. CASE FailConfiguration(k)
  <2>1. called'[k] = called[k] /\ batches'[k] = Row("failed")
    BY <1>2, <1>8 DEF FailConfiguration
  <2>2. Row("failed") \in Batches /\ Row("failed").status = "failed"
    BY RowTyped
  <2> QED
    BY <2>1, <2>2, <1>2, <1>4, OtherKeys, NullAssumption DEF Is
<1>9. CASE EndAttempt(k)
  <2>1. called'[k] = called[k] /\ batches'[k] = Row(Verdict(k))
    BY <1>2, <1>9 DEF EndAttempt
  <2>2. /\ Row(Verdict(k)) \in Batches
        /\ Row(Verdict(k)).status \in {"succeeded", "failed", "outcome_unknown"}
    BY <1>9, VerdictEnds, RowTyped DEF EndAttempt
  <2> QED
    BY <2>1, <2>2, <1>2, <1>4, OtherKeys, NullAssumption DEF Is
<1>10. CASE Elapse(k)
  <2>1. /\ called'[k] = called[k] /\ batches[k] \in Batches
        /\ batches'[k] = [batches[k] EXCEPT !.late = TRUE]
    BY <1>2, <1>10 DEF Elapse, Is
  <2>2. batches'[k] \in Batches /\ batches'[k].status = batches[k].status
    BY <2>1 DEF Batches
  <2> QED
    BY <2>1, <2>2, <1>2, <1>4, OtherKeys, NullAssumption DEF Is
<1>11. CASE Reconcile(k)
  <2>1. /\ called'[k] = called[k]
        /\ \/ Is(k, "reserved") /\ batches'[k] = Row("not_started")
           \/ batches'[k] = Row("outcome_unknown")
    BY <1>2, <1>11 DEF Reconcile
  <2>2. /\ Row("not_started") \in Batches
        /\ Row("outcome_unknown") \in Batches
        /\ Row("outcome_unknown").status = "outcome_unknown"
    BY RowTyped
  <2> QED
    BY <2>1, <2>2, <1>2, <1>4, OtherKeys, NullAssumption DEF Is
<1> QED
  BY <1>5, <1>6, <1>7, <1>8, <1>9, <1>10, <1>11

LEMMA StepCalls == TypeOK /\ CallInv /\ [Next]_vars => CallInv'
<1> SUFFICES ASSUME TypeOK, CallInv, [Next]_vars PROVE CallInv'
  OBVIOUS
<1>1. CASE UNCHANGED vars
  BY <1>1, CallsStill DEF vars
<1>2. CASE SeedStep
  BY <1>2, CallsStill DEF SeedStep, ReadSeed, DeleteSeed, ArchiveSeed,
     RestoreSeed, CreateSeed, EditSeed, SelectSeed, engines
<1>3. CASE ContractStep
  BY <1>3, CallsStill DEF ContractStep, ReplaceBinding, ReadDraft, Confirm,
     SaveFirst, SaveDraft, engines
<1>4. CASE page \in SeedViews /\ SelectSeed(page)
  BY <1>4, CallsStill DEF SelectSeed, engines
<1>5. CASE Archive \/ Restore
  BY <1>5 DEF Archive, Restore, Active, engines, CallInv, Is
<1>6. CASE DeleteProject
  BY <1>6 DEF DeleteProject, CallInv, Is
<1> QED
  BY <1>1, <1>2, <1>3, <1>4, <1>5, <1>6, EngineStepCalls DEF Next

-----------------------------------------------------------------------------
(* What an old page shows.                                                 *)

\* A page of seeds is kept while seeds change; what it says of its seed
\* stays true as long as that seed only advances.
LEMMA PageKept ==
  ASSUME TypeOK, PageInv, page' = page, project' = project,
         page \in SeedViews /\ project # "deleted" =>
           LET s == page.seed IN
           \/ seeds'[s] = seeds[s]
           \/ seeds'[s] = Gone
           \/ ~Exists(s) /\ seeds[s] # None /\ seeds'[s] # None /\ seeds'[s].again
           \/ /\ Exists(s) /\ seeds'[s] # None
              /\ seeds'[s].again = seeds[s].again
              /\ \/ /\ seeds'[s].revision = seeds[s].revision
                    /\ seeds'[s].content = seeds[s].content
                 \/ seeds'[s].revision = seeds[s].revision + 1
  PROVE  PageInv'
<1> SUFFICES ASSUME page \in SeedViews, project # "deleted"
             PROVE  PageInv'
  BY DEF PageInv
<1>1. page.seed \in Seeds /\ page.row \in SeedRows
  BY DEF SeedViews
<1>2. /\ page.row.revision \in Nat
      /\ Exists(page.seed) => seeds[page.seed].revision \in Nat
  BY <1>1, Rows DEF SeedRows
<1> QED
  BY <1>1, <1>2, NullAssumption DEF PageInv, Exists

LEMMA StepPage == TypeOK /\ PageInv /\ [Next]_vars => PageInv'
<1> SUFFICES ASSUME TypeOK, PageInv, [Next]_vars PROVE PageInv'
  OBVIOUS
<1>1. CASE UNCHANGED <<project, seeds, page>>
  BY <1>1 DEF PageInv, Exists
<1>2. ASSUME page' = None \/ page' \in Drafts PROVE PageInv'
  <2>1. page' \notin SeedViews
    BY <1>2, NullAssumption DEF SeedViews, Drafts
  <2> QED
    BY <2>1 DEF PageInv
<1>3. CASE SeedStep
  <2>1. PICK s \in Seeds :
          \/ ReadSeed(s) \/ DeleteSeed(s) \/ ArchiveSeed(s) \/ RestoreSeed(s)
          \/ \E c \in Contents : CreateSeed(s, c) \/ EditSeed(s, c)
          \/ Exists(s) /\ SelectSeed(SeedView(s))
    BY <1>3 DEF SeedStep
  <2>2. seeds \in [Seeds -> SeedRows \cup {None, Gone}]
    BY DEF TypeOK
  <2>3. page \in SeedViews => page.seed \in Seeds
    BY DEF SeedViews
  <2>4. CASE ReadSeed(s)
    <3>1. seeds[s] \in SeedRows /\ page' = [seed |-> s, row |-> seeds[s]]
      BY <2>4, Rows DEF ReadSeed, SeedView
    <3>2. seeds[s].revision \in Nat
      BY <3>1 DEF SeedRows
    <3> QED
      BY <3>1, <3>2, <2>4, NullAssumption DEF ReadSeed, PageInv, Exists, idea
  <2>5. CASE DeleteSeed(s)
    BY <2>2, <2>3, <2>5, PageKept DEF DeleteSeed
  <2>6. CASE ArchiveSeed(s)
    <3>1. /\ Exists(s) /\ seeds[s] \in SeedRows
          /\ seeds'[s] = [seeds[s] EXCEPT !.status = "archived"]
      BY <2>2, <2>6, Rows DEF ArchiveSeed
    <3>2. /\ seeds'[s] \in SeedRows /\ seeds'[s].again = seeds[s].again
          /\ seeds'[s].revision = seeds[s].revision
          /\ seeds'[s].content = seeds[s].content
      BY <3>1 DEF SeedRows
    <3>3. \A t \in Seeds \ {s} : seeds'[t] = seeds[t]
      BY <2>2, <2>6 DEF ArchiveSeed
    <3> QED
      BY <3>1, <3>2, <3>3, <2>3, <2>6, PageKept, NullAssumption DEF ArchiveSeed
  <2>7. CASE RestoreSeed(s)
    <3>1. /\ Exists(s) /\ seeds[s] \in SeedRows
          /\ seeds'[s] = [seeds[s] EXCEPT !.status = "candidate"]
      BY <2>2, <2>7, Rows DEF RestoreSeed
    <3>2. /\ seeds'[s] \in SeedRows /\ seeds'[s].again = seeds[s].again
          /\ seeds'[s].revision = seeds[s].revision
          /\ seeds'[s].content = seeds[s].content
      BY <3>1 DEF SeedRows
    <3>3. \A t \in Seeds \ {s} : seeds'[t] = seeds[t]
      BY <2>2, <2>7 DEF RestoreSeed
    <3> QED
      BY <3>1, <3>2, <3>3, <2>3, <2>7, PageKept, NullAssumption DEF RestoreSeed
  <2>8. ASSUME NEW c \in Contents, CreateSeed(s, c) PROVE PageInv'
    <3>1. /\ ~Exists(s)
          /\ seeds'[s] = [status |-> "candidate", revision |-> 1, content |-> c,
                          again |-> seeds[s] = Gone]
          /\ \A t \in Seeds \ {s} : seeds'[t] = seeds[t]
      BY <2>2, <2>8 DEF CreateSeed
    <3> DEFINE row == [status |-> "candidate", revision |-> 1, content |-> c,
                       again |-> seeds[s] = Gone]
    <3>0. row \in SeedRows
      BY BoundsAssumption DEF SeedRows
    <3>2. seeds'[s] \in SeedRows /\ (seeds[s] = Gone => seeds'[s].again)
      <4>1. seeds[s] = Gone => row.again
        OBVIOUS
      <4> QED
        BY <3>0, <3>1, <4>1
    <3>3. page \in SeedViews /\ project # "deleted" => seeds[page.seed] # None
      BY DEF PageInv
    <3>4. seeds'[s] # None /\ page' = page /\ project' = project
      BY <3>2, <2>8, NullAssumption DEF CreateSeed
    <3>5. ASSUME page \in SeedViews, project # "deleted", page.seed = s
          PROVE  ~Exists(s) /\ seeds[s] # None /\ seeds'[s] # None /\ seeds'[s].again
      BY <3>1, <3>2, <3>3, <3>4, <3>5 DEF Exists
    <3> QED
      BY <3>1, <3>4, <3>5, <2>3, PageKept
  <2>9. ASSUME NEW c \in Contents, EditSeed(s, c) PROVE PageInv'
    <3>1. /\ Exists(s) /\ seeds[s] \in SeedRows
          /\ seeds'[s] = Edited(seeds[s], c)
          /\ seeds[s].revision < MaxRevision
          /\ \A t \in Seeds \ {s} : seeds'[t] = seeds[t]
      BY <2>2, <2>9, Rows DEF EditSeed, Editable
    <3>2. seeds[s].revision + 1 \in 1 .. MaxRevision
      BY <3>1, BoundsAssumption DEF SeedRows
    <3>3. /\ seeds'[s] \in SeedRows /\ seeds'[s].again = seeds[s].again
          /\ seeds'[s].revision = seeds[s].revision + 1
      BY <3>1, <3>2 DEF SeedRows, Edited
    <3> QED
      BY <3>1, <3>3, <2>3, <2>9, PageKept, NullAssumption DEF EditSeed
  <2>10. CASE Exists(s) /\ SelectSeed(SeedView(s))
    BY <2>10, <1>2 DEF SelectSeed
  <2> QED
    BY <2>1, <2>4, <2>5, <2>6, <2>7, <2>8, <2>9, <2>10
<1>4. CASE EngineStep
  BY <1>4, <1>1 DEF EngineStep, CreateManual, ReserveProvider, StartAttempt,
     FailConfiguration, EndAttempt, LosesAttempt, WorkerDies, Elapse, Reconcile,
     ProviderReturns, idea
<1>5. CASE ContractStep
  <2>1. CASE ReplaceBinding
    BY <2>1, <1>1 DEF ReplaceBinding, idea
  <2>2. CASE ReadDraft
    BY <2>2, <1>2 DEF ReadDraft, TypeOK
  <2>3. ASSUME NEW seen \in Seen, Confirm(seen) PROVE PageInv'
    BY <2>3, <1>2 DEF Confirm
  <2>4. ASSUME NEW k \in Keys, NEW complete \in BOOLEAN, SaveFirst(k, complete)
        PROVE  PageInv'
    <3>1. [version |-> 1, engine |-> k, complete |-> complete,
           binding |-> binding] \in Drafts
      BY BoundsAssumption DEF Drafts, TypeOK
    <3> QED
      BY <3>1, <2>4, <1>2 DEF SaveFirst
  <2>5. ASSUME NEW k \in Keys, NEW complete \in BOOLEAN, SaveDraft(k, complete)
        PROVE  PageInv'
    BY <2>5, <1>1 DEF SaveDraft, idea
  <2> QED
    BY <1>5, <2>1, <2>2, <2>3, <2>4, <2>5 DEF ContractStep
<1>6. CASE page \in SeedViews /\ SelectSeed(page)
  BY <1>6, <1>2 DEF SelectSeed
<1>7. CASE Archive \/ Restore
  BY <1>7 DEF Archive, Restore, Active, PageInv, Exists, idea
<1>8. CASE DeleteProject
  BY <1>8 DEF DeleteProject, PageInv
<1> QED
  BY <1>1, <1>3, <1>4, <1>5, <1>6, <1>7, <1>8 DEF Next, vars

-----------------------------------------------------------------------------
(* What holds of the foundation.                                           *)

\* A step of the engines touches only batches that are not there, which
\* takes a selected seed, or open; and in an archive only unfinished ones.
LEMMA EngineTouches ==
  TypeOK /\ EngineStep =>
    /\ UNCHANGED <<project, idea, terms>>
    /\ \A k \in Keys : batches'[k] # batches[k] =>
         /\ batches[k] = None => selection # None
         /\ batches[k] # None => batches[k].status \in Open
         /\ Active \/ Unfinished(k)
<1> SUFFICES ASSUME TypeOK, EngineStep
             PROVE  /\ UNCHANGED <<project, idea, terms>>
                    /\ \A k \in Keys : batches'[k] # batches[k] =>
                         /\ batches[k] = None => selection # None
                         /\ batches[k] # None => batches[k].status \in Open
                         /\ Active \/ Unfinished(k)
  OBVIOUS
<1>1. PICK k \in Keys :
        \/ CreateManual(k) \/ ReserveProvider(k) \/ StartAttempt(k)
        \/ FailConfiguration(k) \/ EndAttempt(k) \/ LosesAttempt(k)
        \/ WorkerDies(k) \/ Elapse(k) \/ Reconcile(k)
        \/ \E outcome \in Returns : ProviderReturns(k, outcome)
  BY DEF EngineStep
<1>2. UNCHANGED <<project, idea, terms>>
  BY <1>1 DEF CreateManual, ReserveProvider, StartAttempt, FailConfiguration,
     EndAttempt, LosesAttempt, WorkerDies, Elapse, Reconcile, ProviderReturns
<1>3. \A j \in Keys \ {k} : batches'[j] = batches[j]
  BY <1>1 DEF CreateManual, ReserveProvider, StartAttempt, FailConfiguration,
     EndAttempt, LosesAttempt, WorkerDies, Elapse, Reconcile, ProviderReturns,
     TypeOK
<1>4. CASE CreateManual(k) \/ ReserveProvider(k)
  BY <1>2, <1>3, <1>4 DEF CreateManual, ReserveProvider
<1>5. CASE StartAttempt(k) \/ FailConfiguration(k) \/ EndAttempt(k)
  BY <1>2, <1>3, <1>5 DEF StartAttempt, FailConfiguration, EndAttempt,
     Startable, Mine, Is, Open
<1>6. CASE Elapse(k)
  BY <1>2, <1>3, <1>6 DEF Elapse, Unfinished, Is
<1>7. CASE Reconcile(k)
  BY <1>2, <1>3, <1>7 DEF Reconcile, Is, Open
<1>8. CASE LosesAttempt(k) \/ WorkerDies(k)
           \/ \E outcome \in Returns : ProviderReturns(k, outcome)
  BY <1>2, <1>3, <1>8 DEF LosesAttempt, WorkerDies, ProviderReturns
<1> QED
  BY <1>1, <1>4, <1>5, <1>6, <1>7, <1>8

LEMMA EngineStepSound == TypeOK /\ FoundationSound /\ EngineStep => FoundationSound'
<1> SUFFICES ASSUME TypeOK, FoundationSound, EngineStep PROVE FoundationSound'
  OBVIOUS
<1>1. /\ UNCHANGED <<project, seeds, selection, draft, contract>>
      /\ \A k \in Keys : batches'[k] # batches[k] =>
           /\ batches[k] = None => selection # None
           /\ batches[k] # None => batches[k].status \in Open
           /\ Active \/ Unfinished(k)
  BY EngineTouches DEF idea, terms
<1>2. \A k \in Keys : Is(k, "succeeded") => Is(k, "succeeded")'
  BY <1>1 DEF Is, Open
<1>3. draft # None => Is(draft.engine, "succeeded")'
  BY <1>1, <1>2 DEF FoundationSound, TypeOK, Drafts
<1>4. contract # None => Is(contract.draft.engine, "succeeded")'
  BY <1>1, <1>2 DEF FoundationSound, TypeOK, Contracts, Drafts
<1>5. selection = None => \A k \in Keys : batches'[k] = None
  BY <1>1 DEF FoundationSound
<1>6. ArchivedIsQuiet'
  BY <1>1 DEF FoundationSound, ArchivedIsQuiet, Unfinished, Is, Active
<1> QED
  BY <1>1, <1>3, <1>4, <1>5, <1>6 DEF FoundationSound, Is

\* Steps that leave the engines and the terms alone owe only the selection.
LEMMA TermsStill ==
  ASSUME FoundationSound, UNCHANGED <<project, engines, terms>>,
         selection = None => draft = None /\ contract = None
                             /\ \A k \in Keys : batches[k] = None,
         selection # None => selection' # None,
         selection' # None => seeds'[selection'.seed] = selection'.row
  PROVE  FoundationSound'
BY DEF FoundationSound, ArchivedIsQuiet, Unfinished, Is, engines, terms

LEMMA SelectSound ==
  ASSUME TypeOK, FoundationSound, NEW view \in SeedViews, SelectSeed(view)
  PROVE  FoundationSound'
<1>1. view.seed \in Seeds /\ seeds[view.seed] \in SeedRows
  BY Rows DEF SelectSeed, Selectable, SeedViews
<1>2. /\ selection' = [seed |-> view.seed, row |-> seeds[view.seed],
                       shown |-> view.row]
      /\ view.row \in SeedRows
  BY DEF SelectSeed, SeedViews
<1>3. selection' \in Selections
  BY <1>1, <1>2 DEF Selections
<1> QED
  BY <1>2, <1>3, NullAssumption
     DEF SelectSeed, FoundationSound, ArchivedIsQuiet, Unfinished, Is, engines, terms

LEMMA SeedStepSound == TypeOK /\ FoundationSound /\ SeedStep => FoundationSound'
<1> SUFFICES ASSUME TypeOK, FoundationSound, SeedStep PROVE FoundationSound'
  OBVIOUS
<1>1. PICK s \in Seeds :
        \/ ReadSeed(s) \/ DeleteSeed(s) \/ ArchiveSeed(s) \/ RestoreSeed(s)
        \/ \E c \in Contents : CreateSeed(s, c) \/ EditSeed(s, c)
        \/ Exists(s) /\ SelectSeed(SeedView(s))
  BY DEF SeedStep
<1>2. CASE Exists(s) /\ SelectSeed(SeedView(s))
  <2>1. SeedView(s) \in SeedViews
    BY <1>2, Rows DEF SeedView, SeedViews
  <2> QED
    BY <2>1, <1>2, SelectSound
<1>3. CASE DeleteSeed(s) \/ ArchiveSeed(s)
  <2>1. selection # None => selection.seed # s /\ selection.seed \in Seeds
    BY <1>3 DEF DeleteSeed, ArchiveSeed, Referenced, TypeOK, Selections
  <2>2. \A t \in Seeds \ {s} : seeds'[t] = seeds[t]
    BY <1>3 DEF DeleteSeed, ArchiveSeed, TypeOK
  <2>3. UNCHANGED <<project, selection, engines, terms>>
    BY <1>3 DEF DeleteSeed, ArchiveSeed
  <2> QED
    BY <2>1, <2>2, <2>3, TermsStill DEF FoundationSound
<1>4. CASE RestoreSeed(s) \/ \E c \in Contents : CreateSeed(s, c) \/ EditSeed(s, c)
  <2>1. selection = None /\ UNCHANGED <<project, selection, engines, terms>>
    BY <1>4 DEF RestoreSeed, CreateSeed, EditSeed, Editable
  <2> QED
    BY <2>1, TermsStill DEF FoundationSound
<1>5. CASE ReadSeed(s)
  <2>1. UNCHANGED <<project, selection, seeds, engines, terms>>
    BY <1>5 DEF ReadSeed, idea
  <2> QED
    BY <2>1, TermsStill DEF FoundationSound
<1> QED
  BY <1>1, <1>2, <1>3, <1>4, <1>5

LEMMA ContractStepSound ==
  TypeOK /\ FoundationSound /\ ContractStep => FoundationSound'
<1> SUFFICES ASSUME TypeOK, FoundationSound, ContractStep PROVE FoundationSound'
  OBVIOUS
<1>1. CASE ReplaceBinding \/ ReadDraft
  <2>1. UNCHANGED <<project, selection, seeds, engines, terms>>
    BY <1>1 DEF ReplaceBinding, ReadDraft, idea
  <2> QED
    BY <2>1, TermsStill DEF FoundationSound
<1>2. ASSUME NEW seen \in Seen, Confirm(seen) PROVE FoundationSound'
  <2>1. draft \in Drafts /\ draft # None
    BY <1>2, NullAssumption DEF Seen, Confirm, Confirmable
  <2>2. contract'.draft = draft /\ draft' = None
    BY <1>2 DEF Confirm
  <2>3. selection # None /\ Is(draft.engine, "succeeded")
    BY <2>1 DEF FoundationSound
  <2> QED
    BY <2>2, <2>3, <1>2 DEF Confirm, FoundationSound, ArchivedIsQuiet,
       Unfinished, Is, idea, engines
<1>3. ASSUME NEW k \in Keys, NEW complete \in BOOLEAN,
             SaveFirst(k, complete) \/ SaveDraft(k, complete)
      PROVE  FoundationSound'
  <2>1. contract = None /\ contract' = None /\ Is(k, "succeeded")
        /\ draft'.engine = k
    BY <1>3 DEF SaveFirst, SaveDraft
  <2>2. selection # None /\ UNCHANGED <<project, idea, engines>>
    BY <1>3 DEF SaveFirst, SaveDraft, FoundationSound
  <2> QED
    BY <2>1, <2>2 DEF FoundationSound, ArchivedIsQuiet, Unfinished, Is, idea, engines
<1> QED
  BY <1>1, <1>2, <1>3 DEF ContractStep

LEMMA ProjectStepSound ==
  FoundationSound /\ (Archive \/ Restore \/ DeleteProject) => FoundationSound'
<1> SUFFICES ASSUME FoundationSound, Archive \/ Restore \/ DeleteProject
             PROVE  FoundationSound'
  OBVIOUS
<1>1. CASE Archive \/ Restore
  BY <1>1 DEF Archive, Restore, Busy, FoundationSound, ArchivedIsQuiet,
     Unfinished, Is, idea, engines, terms
<1>2. CASE DeleteProject
  BY <1>2 DEF DeleteProject, FoundationSound, ArchivedIsQuiet
<1> QED
  BY <1>1, <1>2

LEMMA StepSound == TypeOK /\ FoundationSound /\ [Next]_vars => FoundationSound'
<1> SUFFICES ASSUME TypeOK, FoundationSound, [Next]_vars PROVE FoundationSound'
  OBVIOUS
<1>1. CASE UNCHANGED vars
  BY <1>1 DEF vars, FoundationSound, ArchivedIsQuiet, Unfinished, Is
<1>2. CASE page \in SeedViews /\ SelectSeed(page)
  BY <1>2, SelectSound
<1> QED
  BY <1>1, <1>2, SeedStepSound, EngineStepSound, ContractStepSound,
     ProjectStepSound DEF Next

-----------------------------------------------------------------------------
(* What was chosen.                                                        *)

\* A selection made from a page: an equal revision is equal content.
LEMMA SelectShown ==
  ASSUME TypeOK, ChosenAsShown, NEW view \in SeedViews, SelectSeed(view),
         view.row.revision = seeds[view.seed].revision =>
           seeds[view.seed].again \/ view.row.content = seeds[view.seed].content
  PROVE  ChosenAsShown'
<1>1. /\ selection' = [seed |-> view.seed, row |-> seeds[view.seed],
                       shown |-> view.row]
      /\ contract' = contract
      /\ seeds[view.seed].revision = view.row.revision
  BY DEF SelectSeed, Selectable, terms
<1> QED
  BY <1>1 DEF ChosenAsShown

LEMMA StepShown ==
  TypeOK /\ PageInv /\ ChosenAsShown /\ [Next]_vars => ChosenAsShown'
<1> SUFFICES ASSUME TypeOK, PageInv, ChosenAsShown, [Next]_vars
             PROVE  ChosenAsShown'
  OBVIOUS
<1>1. CASE UNCHANGED <<selection, contract>>
  BY <1>1 DEF ChosenAsShown
<1>2. CASE SeedStep
  <2>1. PICK s \in Seeds :
          \/ ReadSeed(s) \/ DeleteSeed(s) \/ ArchiveSeed(s) \/ RestoreSeed(s)
          \/ \E c \in Contents : CreateSeed(s, c) \/ EditSeed(s, c)
          \/ Exists(s) /\ SelectSeed(SeedView(s))
    BY <1>2 DEF SeedStep
  <2>2. CASE Exists(s) /\ SelectSeed(SeedView(s))
    <3>1. /\ SeedView(s) \in SeedViews
          /\ SeedView(s).seed = s /\ SeedView(s).row = seeds[s]
      BY <2>2, Rows DEF SeedView, SeedViews
    <3> QED
      BY <3>1, <2>2, SelectShown
  <2> QED
    BY <2>1, <2>2, <1>1 DEF ReadSeed, DeleteSeed, ArchiveSeed, RestoreSeed,
       CreateSeed, EditSeed, idea, terms
<1>3. CASE EngineStep
  BY <1>3, <1>1, EngineTouches DEF idea, terms
<1>4. CASE ContractStep
  <2>1. ASSUME NEW seen \in Seen, Confirm(seen) PROVE ChosenAsShown'
    BY <2>1 DEF Confirm, Confirmable, ChosenAsShown, idea
  <2> QED
    BY <1>4, <1>1, <2>1 DEF ContractStep, ReplaceBinding, ReadDraft, SaveFirst,
       SaveDraft, idea, terms
<1>5. CASE page \in SeedViews /\ SelectSeed(page)
  <2>1. Exists(page.seed) /\ project # "deleted"
    BY <1>5 DEF SelectSeed, Selectable, Active
  <2>2. page.row.revision = seeds[page.seed].revision =>
          seeds[page.seed].again \/ page.row.content = seeds[page.seed].content
    BY <1>5, <2>1 DEF PageInv
  <2> QED
    BY <1>5, <2>2, SelectShown
<1>6. CASE Archive \/ Restore
  BY <1>6, <1>1 DEF Archive, Restore, idea, terms
<1>7. CASE DeleteProject
  BY <1>7 DEF DeleteProject, ChosenAsShown
<1> QED
  BY <1>1, <1>2, <1>3, <1>4, <1>5, <1>6, <1>7 DEF Next, vars

-----------------------------------------------------------------------------
(* The invariant and the theorems.                                         *)

LEMMA InitHolds == Init => IInv
<1> SUFFICES ASSUME Init PROVE IInv
  OBVIOUS
<1>1. CallInv
  BY DEF Init, CallInv, Is
<1>2. PageInv
  BY NullAssumption DEF Init, PageInv
<1>3. FoundationSound /\ ChosenAsShown
  BY DEF Init, FoundationSound, ArchivedIsQuiet, ChosenAsShown
<1> QED
  BY <1>1, <1>2, <1>3, InitTyped DEF IInv

LEMMA StepHolds == IInv /\ [Next]_vars => IInv'
BY StepTyped, StepCalls, StepPage, StepSound, StepShown DEF IInv

\* Types, the calls of a batch, what an old page shows and soundness are
\* inductive together.
THEOREM Inductive == Spec => []IInv
BY InitHolds, StepHolds, PTL DEF Spec

\* The selected seed stays what was selected, nothing is built before it, the
\* terms stand on an engine that exists, and an archive holds no open request.
THEOREM FoundationIsSound == Spec => []FoundationSound
<1>1. IInv => FoundationSound
  BY DEF IInv
<1> QED
  BY <1>1, Inductive, PTL

\* What is selected and what is confirmed is what the page showed, however
\* old the page is.
THEOREM ShownIsChosen == Spec => []ChosenAsShown
<1>1. IInv => ChosenAsShown
  BY DEF IInv
<1> QED
  BY <1>1, Inductive, PTL

\* A step leaves an ended batch as it ended.
LEMMA StepEnds ==
  ASSUME TypeOK, Next, NEW k \in Keys, batches[k] # None,
         batches[k].status \notin Open, project' # "deleted"
  PROVE  batches'[k] = batches[k]
<1>1. CASE EngineStep
  BY <1>1, EngineTouches
<1>2. CASE SeedStep
  BY <1>2 DEF SeedStep, ReadSeed, DeleteSeed, ArchiveSeed, RestoreSeed,
     CreateSeed, EditSeed, SelectSeed, engines
<1>3. CASE ContractStep
  BY <1>3 DEF ContractStep, ReplaceBinding, ReadDraft, Confirm, SaveFirst,
     SaveDraft, engines
<1>4. CASE page \in SeedViews /\ SelectSeed(page)
  BY <1>4 DEF SelectSeed, engines
<1>5. CASE Archive \/ Restore \/ DeleteProject
  BY <1>5 DEF Archive, Restore, DeleteProject, engines
<1> QED
  BY <1>1, <1>2, <1>3, <1>4, <1>5 DEF Next

\* The provider is called once for a request, a batch that is said not to
\* have started was never sent, and an ended batch stays as it ended.
THEOREM AskedOnlyOnce == Spec => AskedOnce
<1>1. IInv => CalledOnce
  BY DEF IInv, CallInv, CalledOnce
<1>2. IInv /\ [Next]_vars =>
        [\A k \in Keys :
           batches[k] # None /\ batches[k].status \notin Open /\ project' # "deleted"
             => batches'[k] = batches[k]]_vars
  BY StepEnds DEF IInv
<1> QED
  BY <1>1, <1>2, Inductive, PTL DEF AskedOnce, EndedForever, Spec
=============================================================================
