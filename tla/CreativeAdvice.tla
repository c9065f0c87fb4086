---------------------------- MODULE CreativeAdvice ----------------------------
(***************************************************************************)
(* The two things a provider is asked for beside the engines: a trial of a *)
(* style (style_trials.py) and a ranking of assets (assets.py).  Neither   *)
(* becomes a part of the book, so neither keeps the project busy: while    *)
(* the provider thinks, the binding is replaced, the draft saved, and the  *)
(* project archived or removed.  The row that is reserved freezes what was *)
(* asked of; the answer counts only if that still holds.                   *)
(*                                                                         *)
(* A request and its attempt are two rows that every write changes         *)
(* together, one row here.  A ranking reads the corpus between two         *)
(* transactions, of which the second reads everything again.  Time is left *)
(* out: a row that runs may be as old as it takes to be given up.  So are  *)
(* the moment the provider answers, which nothing tells from the write     *)
(* that follows, and what else is compared, the catalogue of assets, the  *)
(* styles of the draft and the corpus: they may have changed meanwhile.    *)
(***************************************************************************)
EXTENDS CreativeFoundation

CONSTANT Requests  \* the idempotency keys of both

VARIABLES
  advice,  \* the requests and their attempts, by key
  asking   \* the calls of generate and recommend that are under way

advisedVars == <<vars, advice, asking>>

-----------------------------------------------------------------------------
(* The rows.                                                               *)

Advices == [kind : {"trial", "ranking"},
            status : {"running", "succeeded", "failed", "outcome_unknown"},
            binding : 1 .. MaxBinding]

ASSUME NoAdviceAssumption == None \notin Advices

\* Types, of the foundation too.
AdviceTypeOK ==
  /\ TypeOK
  /\ advice \in [Requests -> Advices \cup {None}]
  /\ asking \subseteq Requests

Running(r) == advice[r] # None /\ advice[r].status = "running"
Trial(r) == advice[r].kind = "trial"

Asked(kind, status) == [kind |-> kind, status |-> status, binding |-> binding]

Settle(r, status) == advice' = [advice EXCEPT ![r] = [@ EXCEPT !.status = status]]

AdvisedInit ==
  /\ Init
  /\ advice = [r \in Requests |-> None]
  /\ asking = {}

-----------------------------------------------------------------------------
(* A request.                                                              *)

\* It is about an engine of the selected seed.
Askable(r) ==
  /\ Active /\ selection # None /\ advice[r] = None
  /\ \E e \in Keys : Is(e, "succeeded")

\* _reserve, recommend: the row is there before the provider is called.
Ask(r, kind) ==
  /\ Askable(r)
  /\ advice' = [advice EXCEPT ![r] = Asked(kind, "running")]
  /\ asking' = asking \cup {r}

\* A ranking without a provider that is ready, or without candidates, has
\* failed before it is asked; a trial is refused and leaves no row.
AskInVain(r) ==
  /\ Askable(r)
  /\ advice' = [advice EXCEPT ![r] = Asked("ranking", "failed")]
  /\ UNCHANGED asking

\* The same request again, four minutes later and more: it settles the row of
\* a call that may still be on its way (STYLE_TRIAL_RUNNING_STALE_MS,
\* _RECOMMENDATION_STALE_AFTER_MS).
AskAgain(r) ==
  /\ Active /\ Running(r)
  /\ Settle(r, "outcome_unknown")
  /\ UNCHANGED asking

\* input_facts_hash and _publication_inputs_match.  The selection and the
\* engine cannot change; a ranking does not look at the project.
Matches(r) == advice[r].binding = binding /\ (Trial(r) => Active)

\* The call is over, or is cancelled as its end commits and still cleans up.
Ends(r) == asking' \in {asking, asking \ {r}}

\* publish, publish_recommendation
Publish(r) ==
  /\ r \in asking /\ Running(r)
  /\ \E same \in BOOLEAN :
       Settle(r, IF Matches(r) /\ same THEN "succeeded" ELSE "failed")
  /\ Ends(r)

\* fail, fail_recommendation
GiveUp(r) ==
  /\ r \in asking /\ Running(r)
  /\ Settle(r, "failed")
  /\ Ends(r)

\* cleanup_interrupted, cleanup_cancelled_recommendation: the call was
\* cancelled, or a trial broke in a way nobody expected.  A task of its own,
\* that further cancellations do not reach, settles the row.  Fault: it does
\* not look at how the request ended.
CleansWhatIsThere(r) == advice[r] # None
Cleans(r) == Running(r)

CleanUp(r) ==
  /\ r \in asking /\ Cleans(r)
  /\ Settle(r, "outcome_unknown")
  /\ asking' = asking \ {r}

\* The terminal write or the clean-up finds no running row; or the process
\* stops, or a ranking is cancelled as its reservation commits.
CallEnds(r) ==
  /\ r \in asking
  /\ asking' = asking \ {r}
  /\ UNCHANGED advice

AdviceStep ==
  /\ \E r \in Requests :
       \/ AskAgain(r) \/ Publish(r) \/ GiveUp(r) \/ CleanUp(r) \/ CallEnds(r)
       \/ AskInVain(r)
       \/ \E kind \in {"trial", "ranking"} : Ask(r, kind)
  /\ UNCHANGED vars

\* The removal of the project takes the rows along, the calls go on.
FoundationStep ==
  /\ Next
  /\ \/ project' # "deleted" /\ UNCHANGED advice
     \/ project' = "deleted" /\ advice' = [r \in Requests |-> None]
  /\ UNCHANGED asking

AdvisedNext == AdviceStep \/ FoundationStep

AdvisedSpec == AdvisedInit /\ [][AdvisedNext]_advisedVars

-----------------------------------------------------------------------------
(* Properties.                                                             *)

\* How a request ended is never rewritten: not by a late answer, not by the
\* clean-up of a cancelled call, not by the same request sent again.
EndedAdvice ==
  [][\A r \in Requests :
       advice[r] # None /\ ~Running(r) /\ project' # "deleted"
         => advice'[r] = advice[r]]_advisedVars

\* What a provider found counts only for the book it was asked about: no
\* binding was put in place of the one it was asked under, and no trial is
\* written into an archive.
CountsForTheBook ==
  [][\A r \in Requests :
       Running(r) /\ advice'[r] # None /\ advice'[r].status = "succeeded" =>
         advice[r].binding = binding /\ (Trial(r) => Active)]_advisedVars

AdviceKept == EndedAdvice /\ CountsForTheBook
=============================================================================
