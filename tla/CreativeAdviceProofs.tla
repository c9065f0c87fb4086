------------------------- MODULE CreativeAdviceProofs -------------------------
(***************************************************************************)
(* Proofs about CreativeAdvice.  A step of a request leaves the foundation *)
(* as it is and every other step is a step of the foundation, so what is   *)
(* proved of the foundation alone holds with requests beside it.           *)
(***************************************************************************)
EXTENDS CreativeAdvice, CreativeFoundationProofs

-----------------------------------------------------------------------------
(* The foundation does not notice.                                         *)

\* Every step is one of the foundation, or leaves it as it is.
LEMMA StepOfFoundation == [AdvisedNext]_advisedVars => [Next]_vars
BY DEF AdvisedNext, AdviceStep, FoundationStep, advisedVars

\* Trials and rankings add nothing to what the foundation may do: they hold
\* up no archive, and no part of the book comes from them.
THEOREM Conservative == AdvisedSpec => Spec
<1>1. AdvisedInit => Init
  BY DEF AdvisedInit
<1> QED
  BY <1>1, StepOfFoundation, PTL DEF AdvisedSpec, Spec

\* The foundation stays sound with trials and rankings beside it.
THEOREM AdvisedFoundationIsSound == AdvisedSpec => []FoundationSound
BY Conservative, FoundationIsSound

\* What was chosen and confirmed is what the page showed, with trials and
\* rankings beside it.
THEOREM AdvisedShownIsChosen == AdvisedSpec => []ChosenAsShown
BY Conservative, ShownIsChosen

-----------------------------------------------------------------------------
(* Types.                                                                  *)

AdviceTyped ==
  /\ advice \in [Requests -> Advices \cup {None}]
  /\ asking \subseteq Requests

\* A new row is well typed, and so is a row that is settled.
LEMMA AskedTyped ==
  ASSUME TypeOK, NEW kind \in {"trial", "ranking"}, NEW st \in {"running", "failed"}
  PROVE  Asked(kind, st) \in Advices
BY DEF Asked, Advices, TypeOK

LEMMA SettleTyped ==
  ASSUME AdviceTyped, NEW r \in Requests, advice[r] # None,
         NEW st \in {"succeeded", "failed", "outcome_unknown"}, Settle(r, st)
  PROVE  advice' \in [Requests -> Advices \cup {None}]
BY DEF AdviceTyped, Settle, Advices

LEMMA AdviceStepTyped == TypeOK /\ AdviceTyped /\ AdviceStep => AdviceTyped'
<1> SUFFICES ASSUME TypeOK, AdviceTyped, AdviceStep PROVE AdviceTyped'
  OBVIOUS
<1>1. PICK r \in Requests :
        \/ AskAgain(r) \/ Publish(r) \/ GiveUp(r) \/ CleanUp(r) \/ CallEnds(r)
        \/ AskInVain(r)
        \/ \E kind \in {"trial", "ranking"} : Ask(r, kind)
  BY DEF AdviceStep
<1>2. asking' \subseteq Requests
  BY <1>1 DEF AdviceTyped, AskAgain, Publish, GiveUp, CleanUp, CallEnds,
     AskInVain, Ask, Ends
<1>3. advice' \in [Requests -> Advices \cup {None}]
  <2>1. CASE AskAgain(r)
    BY <2>1, SettleTyped DEF AskAgain, Running
  <2>2. CASE Publish(r)
    <3>1. PICK same \in BOOLEAN :
            Settle(r, IF Matches(r) /\ same THEN "succeeded" ELSE "failed")
      BY <2>2 DEF Publish
    <3>2. advice[r] # None
      BY <2>2 DEF Publish, Running
    <3> QED
      BY <3>1, <3>2, SettleTyped
  <2>3. CASE GiveUp(r)
    BY <2>3, SettleTyped DEF GiveUp, Running
  <2>4. CASE CleanUp(r)
    BY <2>4, SettleTyped DEF CleanUp, Cleans, Running
  <2>5. CASE CallEnds(r)
    BY <2>5 DEF CallEnds, AdviceTyped
  <2>6. CASE AskInVain(r)
    <3>1. Asked("ranking", "failed") \in Advices
      BY AskedTyped
    <3> QED
      BY <2>6, <3>1 DEF AskInVain, AdviceTyped
  <2>7. CASE \E kind \in {"trial", "ranking"} : Ask(r, kind)
    <3>1. PICK kind \in {"trial", "ranking"} : Ask(r, kind)
      BY <2>7
    <3>2. Asked(kind, "running") \in Advices
      BY AskedTyped
    <3> QED
      BY <3>1, <3>2 DEF Ask, AdviceTyped
  <2> QED
    BY <1>1, <2>1, <2>2, <2>3, <2>4, <2>5, <2>6, <2>7
<1> QED
  BY <1>2, <1>3 DEF AdviceTyped

LEMMA AdvisedStepTyped ==
  TypeOK /\ AdviceTyped /\ [AdvisedNext]_advisedVars => AdviceTyped'
<1>1. AdviceTyped /\ UNCHANGED advisedVars => AdviceTyped'
  BY DEF AdviceTyped, advisedVars
<1>2. AdviceTyped /\ FoundationStep => AdviceTyped'
  BY DEF AdviceTyped, FoundationStep
<1> QED
  BY <1>1, <1>2, AdviceStepTyped DEF AdvisedNext

\* Every row of the foundation and of the requests stays well typed.
THEOREM AdviceTypeCorrect == AdvisedSpec => []AdviceTypeOK
<1>1. AdvisedInit => AdviceTyped
  BY DEF AdvisedInit, AdviceTyped
<1>2. AdvisedSpec => []TypeOK
  BY Conservative, TypeCorrect
<1>3. TypeOK /\ AdviceTyped => AdviceTypeOK
  BY DEF AdviceTyped, AdviceTypeOK
<1> QED
  BY <1>1, <1>2, <1>3, AdvisedStepTyped, PTL DEF AdvisedSpec

-----------------------------------------------------------------------------
(* What was found.                                                         *)

\* A step that touches the row of a request that is there settles one that
\* runs, or goes with the project.
LEMMA StepKeeps ==
  ASSUME AdviceTyped, [AdvisedNext]_advisedVars, NEW r \in Requests,
         advice[r] # None, ~Running(r), project' # "deleted"
  PROVE  advice'[r] = advice[r]
<1>1. CASE UNCHANGED advisedVars
  BY <1>1 DEF advisedVars
<1>2. CASE FoundationStep
  BY <1>2 DEF FoundationStep
<1>3. CASE AdviceStep
  <2>1. PICK j \in Requests :
          \/ AskAgain(j) \/ Publish(j) \/ GiveUp(j) \/ CleanUp(j) \/ CallEnds(j)
          \/ AskInVain(j)
          \/ \E kind \in {"trial", "ranking"} : Ask(j, kind)
    BY <1>3 DEF AdviceStep
  <2>2. CASE AskAgain(j) \/ Publish(j) \/ GiveUp(j) \/ CleanUp(j)
    <3>1. Running(j) /\ \E st : Settle(j, st)
      BY <2>2 DEF AskAgain, Publish, GiveUp, CleanUp, Cleans
    <3> QED
      BY <3>1 DEF Settle, AdviceTyped
  <2>3. CASE CallEnds(j)
    BY <2>3 DEF CallEnds
  <2>4. CASE AskInVain(j) \/ \E kind \in {"trial", "ranking"} : Ask(j, kind)
    <3>1. advice[j] = None /\ \E row : advice' = [advice EXCEPT ![j] = row]
      BY <2>4 DEF AskInVain, Ask, Askable
    <3> QED
      BY <3>1 DEF AdviceTyped
  <2> QED
    BY <2>1, <2>2, <2>3, <2>4
<1> QED
  BY <1>1, <1>2, <1>3 DEF AdvisedNext

\* How a request ended is never rewritten.
THEOREM AdviceEndsOnce == AdvisedSpec => EndedAdvice
<1>1. AdviceTypeOK => AdviceTyped
  BY DEF AdviceTypeOK, AdviceTyped
<1>2. AdviceTypeOK /\ [AdvisedNext]_advisedVars =>
        [\A r \in Requests :
           advice[r] # None /\ ~Running(r) /\ project' # "deleted"
             => advice'[r] = advice[r]]_advisedVars
  BY <1>1, StepKeeps
<1> QED
  BY <1>2, AdviceTypeCorrect, PTL DEF AdvisedSpec, EndedAdvice

\* A row comes to count only when its request publishes.
LEMMA StepCounts ==
  ASSUME AdviceTyped, [AdvisedNext]_advisedVars, NEW r \in Requests,
         Running(r), advice'[r] # None, advice'[r].status = "succeeded"
  PROVE  advice[r].binding = binding /\ (Trial(r) => Active)
<1>0. advice[r] \in Advices /\ advice[r] # None
      /\ advice[r].status = "running" /\ advice'[r] # advice[r]
  BY DEF Running, AdviceTyped
<1>1. CASE UNCHANGED advisedVars
  BY <1>0, <1>1 DEF advisedVars
<1>2. CASE FoundationStep
  BY <1>0, <1>2 DEF FoundationStep
<1>3. CASE AdviceStep
  <2>1. PICK j \in Requests :
          \/ AskAgain(j) \/ Publish(j) \/ GiveUp(j) \/ CleanUp(j) \/ CallEnds(j)
          \/ AskInVain(j)
          \/ \E kind \in {"trial", "ranking"} : Ask(j, kind)
    BY <1>3 DEF AdviceStep
  <2>2. CASE AskAgain(j) \/ GiveUp(j) \/ CleanUp(j)
    <3>1. \E st \in {"failed", "outcome_unknown"} : Settle(j, st)
      BY <2>2 DEF AskAgain, GiveUp, CleanUp
    <3>2. PICK st \in {"failed", "outcome_unknown"} :
            advice' = [advice EXCEPT ![j] = [@ EXCEPT !.status = st]]
      BY <3>1 DEF Settle
    <3>3. r = j
      BY <1>0, <3>2 DEF AdviceTyped
    <3>4. advice'[r].status = st
      BY <1>0, <3>2, <3>3 DEF AdviceTyped, Advices
    <3> QED
      BY <3>4
  <2>3. CASE Publish(j)
    <3>1. PICK same \in BOOLEAN :
            Settle(j, IF Matches(j) /\ same THEN "succeeded" ELSE "failed")
      BY <2>3 DEF Publish
    <3>2. r = j
      BY <1>0, <3>1 DEF AdviceTyped, Settle
    <3>3. CASE Matches(j)
      BY <3>2, <3>3 DEF Matches
    <3>4. CASE ~Matches(j)
      <4>1. advice' = [advice EXCEPT ![r] = [@ EXCEPT !.status = "failed"]]
        BY <3>1, <3>2, <3>4 DEF Settle
      <4>2. advice'[r].status = "failed"
        BY <1>0, <4>1 DEF AdviceTyped, Advices
      <4> QED
        BY <4>2
    <3> QED
      BY <3>3, <3>4
  <2>4. CASE CallEnds(j)
    BY <1>0, <2>4 DEF CallEnds
  <2>5. CASE AskInVain(j) \/ \E kind \in {"trial", "ranking"} : Ask(j, kind)
    <3>1. advice[j] = None /\ \E row : advice' = [advice EXCEPT ![j] = row]
      BY <2>5 DEF AskInVain, Ask, Askable
    <3> QED
      BY <1>0, <3>1 DEF AdviceTyped
  <2> QED
    BY <2>1, <2>2, <2>3, <2>4, <2>5
<1> QED
  BY <1>1, <1>2, <1>3 DEF AdvisedNext

\* How a request ended is never rewritten, and what was found counts only for
\* the binding it was asked under and, of a trial, for an active project.
THEOREM AdviceIsKept == AdvisedSpec => AdviceKept
<1>1. AdviceTypeOK => AdviceTyped
  BY DEF AdviceTypeOK, AdviceTyped
<1>2. AdviceTypeOK /\ [AdvisedNext]_advisedVars =>
        [\A r \in Requests :
           Running(r) /\ advice'[r] # None /\ advice'[r].status = "succeeded" =>
             advice[r].binding = binding /\ (Trial(r) => Active)]_advisedVars
  BY <1>1, StepCounts
<1>3. AdvisedSpec => CountsForTheBook
  BY <1>2, AdviceTypeCorrect, PTL DEF AdvisedSpec, CountsForTheBook
<1> QED
  BY <1>3, AdviceEndsOnce DEF AdviceKept
=============================================================================
