-------------------------- MODULE CreativeFoundation --------------------------
(***************************************************************************)
(* What a book is founded on, from the first idea to the contract: the     *)
(* seeds of one project and the one that is selected, the batches of story *)
(* engines a provider or the author writes for it, the model binding, the  *)
(* draft of the creation contract and its confirmation, and the archive    *)
(* and the removal of the whole project.                                   *)
(*                                                                         *)
(* Every command locks the project's row for the whole of its transaction, *)
(* so each is one action here; what can go wrong lies between commands.    *)
(* A provider batch takes three of them and a call that may take minutes;  *)
(* its worker is not stopped by anything: what it brings back is taken or  *)
(* refused by the state of its row.  An author works from a page, which    *)
(* may be old, while others work from fresh ones.                          *)
(*                                                                         *)
(* Left out: a seed handed over by the topic centre, and the locks of a    *)
(* project with final chapters, which has its contract; the revision that  *)
(* an archive, a restore and a removal compare, since any fresh page has   *)
(* it.  A confirmation sent again is answered from its row and changes     *)
(* nothing.  A definition marked "Fault:" is a mistake the one after it    *)
(* avoids.                                                                 *)
(***************************************************************************)
EXTENDS Naturals

CONSTANTS
  Seeds,     \* seeds, as the keys of their creation name them
  Contents,  \* what a seed may say
  Keys,      \* idempotency keys of story engine batches
  None, Gone, \* no row; a seed that was there and was deleted
  MaxRevision, MaxBinding, MaxVersion  \* bounds, in the guards they limit

ASSUME BoundsAssumption == {MaxRevision, MaxBinding, MaxVersion} \subseteq Nat \ {0}

VARIABLES
  project,    \* "active", "archived" or "deleted"
  seeds,      \* creative_seeds with their heads
  selection,  \* project_selected_seeds: None, or the seed chosen
  binding,    \* the revision of the model binding
  batches,    \* story_engine_batches, by key
  workers,    \* the generate_provider calls, by key
  called,     \* how often the provider was called, by key
  draft,      \* project_contract_drafts
  contract,   \* the confirmed creation contract
  page        \* the seed or the draft an author's page shows, or None

vars == <<project, seeds, selection, binding, batches, workers, called, draft,
          contract, page>>
idea == <<seeds, selection>>
engines == <<batches, workers, called>>
terms == <<draft, contract>>

-----------------------------------------------------------------------------
(* The rows.                                                               *)

\* again: the id was given out, deleted and given out once more.
SeedRows == [status : {"candidate", "archived"}, revision : 1 .. MaxRevision,
             content : Contents, again : BOOLEAN]
SeedViews == [seed : Seeds, row : SeedRows]
\* shown: what the page of the one who chose or confirmed showed.
Selections == [seed : Seeds, row : SeedRows, shown : SeedRows]
\* The engine of a draft is an option, named by the batch it is of.
Drafts == [version : 1 .. MaxVersion, engine : Keys, complete : BOOLEAN,
           binding : 1 .. MaxBinding]
Contracts == [draft : Drafts, shown : Drafts]
\* "not_started" is the failure of a batch that was never sent.
Open == {"reserved", "running"}
Batches == [status : Open \cup
              {"succeeded", "failed", "not_started", "outcome_unknown"},
            late : BOOLEAN]

ASSUME NullAssumption ==
  /\ None # Gone /\ None \notin SeedRows /\ Gone \notin SeedRows
  /\ None \notin Selections /\ None \notin Batches
  /\ None \notin Drafts /\ None \notin Contracts /\ None \notin SeedViews

TypeOK ==
  /\ project \in {"active", "archived", "deleted"}
  /\ seeds \in [Seeds -> SeedRows \cup {None, Gone}]
  /\ selection \in Selections \cup {None}
  /\ binding \in 1 .. MaxBinding
  /\ batches \in [Keys -> Batches \cup {None}]
  /\ workers \in [Keys -> {"idle", "reserved", "calling", "answered",
                           "refused", "timed_out"}]
  /\ called \in [Keys -> Nat]
  /\ draft \in Drafts \cup {None}
  /\ contract \in Contracts \cup {None}
  /\ page \in SeedViews \cup Drafts \cup {None}

Exists(s) == seeds[s] \notin {None, Gone}
Is(k, status) == batches[k] # None /\ batches[k].status = status
Unfinished(k) == \E s \in Open \cup {"outcome_unknown"} : Is(k, s)
Active == project = "active"

Init ==
  /\ project = "active"
  /\ seeds = [s \in Seeds |-> None]
  /\ selection = None /\ binding = 1
  /\ batches = [k \in Keys |-> None]
  /\ workers = [k \in Keys |-> "idle"]
  /\ called = [k \in Keys |-> 0]
  /\ draft = None /\ contract = None /\ page = None

-----------------------------------------------------------------------------
(* Seeds (seeds.py).                                                       *)

SeedView(s) == [seed |-> s, row |-> seeds[s]]

\* The pool of seeds, open at one of them.
ReadSeed(s) ==
  /\ Exists(s) /\ selection = None /\ page' = SeedView(s)
  /\ UNCHANGED <<project, idea, binding, engines, terms>>

\* _create_once.  A key that is known is answered with the seed it made.
CreateSeed(s, c) ==
  /\ Active /\ selection = None /\ ~Exists(s)
  /\ seeds' = [seeds EXCEPT ![s] =
       [status |-> "candidate", revision |-> 1, content |-> c,
        again |-> seeds[s] = Gone]]
  /\ UNCHANGED <<project, selection, binding, engines, terms, page>>

Editable(s) ==
  Active /\ selection = None /\ Exists(s) /\ seeds[s].status = "candidate"

Edited(row, c) == [row EXCEPT !.revision = @ + 1, !.content = c]

EditSeed(s, c) ==
  /\ Editable(s) /\ seeds[s].revision < MaxRevision
  /\ seeds' = [seeds EXCEPT ![s] = Edited(@, c)]
  /\ UNCHANGED <<project, selection, binding, engines, terms, page>>

\* select takes the head; the page gives the revision to expect.  Fault:
\* it is not compared.
SelectableAsIs(view) ==
  /\ Active /\ selection = None /\ Exists(view.seed)
  /\ seeds[view.seed].status = "candidate"
Selectable(view) ==
  /\ Active /\ selection = None /\ Exists(view.seed)
  /\ seeds[view.seed].status = "candidate"
  /\ seeds[view.seed].revision = view.row.revision

SelectSeed(view) ==
  /\ Selectable(view)
  /\ selection' =
       [seed |-> view.seed, row |-> seeds[view.seed], shown |-> view.row]
  /\ page' = None
  /\ UNCHANGED <<project, seeds, binding, engines, terms>>

\* What a seed is needed for, in the rows that refer to it.
Referenced(s) == selection # None /\ selection.seed = s

DeleteSeed(s) ==
  /\ Active /\ Exists(s) /\ ~Referenced(s)
  /\ seeds' = [seeds EXCEPT ![s] = Gone]
  /\ UNCHANGED <<project, selection, binding, engines, terms, page>>

ArchiveSeed(s) ==
  /\ Active /\ Exists(s) /\ seeds[s].status = "candidate" /\ ~Referenced(s)
  /\ seeds' = [seeds EXCEPT ![s] = [@ EXCEPT !.status = "archived"]]
  /\ UNCHANGED <<project, selection, binding, engines, terms, page>>

RestoreSeed(s) ==
  /\ Active /\ selection = None /\ Exists(s) /\ seeds[s].status = "archived"
  /\ seeds' = [seeds EXCEPT ![s] = [@ EXCEPT !.status = "candidate"]]
  /\ UNCHANGED <<project, selection, binding, engines, terms, page>>

-----------------------------------------------------------------------------
(* Story engines (story_engines.py).  A selection is never replaced, so the *)
(* batches of a project are all for its selected seed.                     *)

Row(status) == [status |-> status, late |-> FALSE]

\* create_manual: the options come with the request.
CreateManual(k) ==
  /\ Active /\ selection # None /\ batches[k] = None
  /\ batches' = [batches EXCEPT ![k] = Row("succeeded")]
  /\ UNCHANGED <<project, idea, binding, workers, called, terms, page>>

\* _reserve_provider.  A key that is known is answered with its batch and
\* the request ends there.
ReserveProvider(k) ==
  /\ Active /\ selection # None /\ batches[k] = None
  /\ batches' = [batches EXCEPT ![k] = Row("reserved")]
  /\ workers' = [workers EXCEPT ![k] = "reserved"]
  /\ UNCHANGED <<project, idea, binding, called, terms, page>>

\* cas_start_attempt: the call follows the commit.  Fault: the status of
\* the row is not compared.
StartableAnyway(k) == Active /\ batches[k] # None
Startable(k) == Active /\ Is(k, "reserved")

StartAttempt(k) ==
  /\ workers[k] = "reserved" /\ Startable(k)
  /\ batches' = [batches EXCEPT ![k] = Row("running")]
  /\ workers' = [workers EXCEPT ![k] = "calling"]
  /\ called' = [called EXCEPT ![k] = @ + 1]
  /\ UNCHANGED <<project, idea, binding, terms, page>>

\* cas_fail_configuration: the provider was edited or disabled meanwhile.
FailConfiguration(k) ==
  /\ workers[k] = "reserved" /\ Startable(k)
  /\ batches' = [batches EXCEPT ![k] = Row("failed")]
  /\ workers' = [workers EXCEPT ![k] = "idle"]
  /\ UNCHANGED <<project, idea, binding, called, terms, page>>

\* The provider's call returns: three options, something else, or silence.
ProviderReturns(k, outcome) ==
  /\ workers[k] = "calling"
  /\ workers' = [workers EXCEPT ![k] = outcome]
  /\ UNCHANGED <<project, idea, binding, batches, called, terms, page>>

\* Fault: what the gateway reported is written down as it is.
VerdictAsReturned(k) == workers[k]
Verdict(k) ==
  CASE workers[k] = "answered" -> "succeeded"
    [] workers[k] = "refused" -> "failed"
    [] workers[k] = "timed_out" -> "outcome_unknown"

\* succeed_attempt, fail_attempt, mark_outcome_unknown: the row is still
\* running with this attempt, of which there is one for a batch.
Mine(k) == Active /\ Is(k, "running")

EndAttempt(k) ==
  /\ workers[k] \in {"answered", "refused", "timed_out"} /\ Mine(k)
  /\ batches' = [batches EXCEPT ![k] = Row(Verdict(k))]
  /\ workers' = [workers EXCEPT ![k] = "idle"]
  /\ UNCHANGED <<project, idea, binding, called, terms, page>>

\* StoryEngineBatchConflict, or the project is archived or gone.
LosesAttempt(k) ==
  /\ \/ workers[k] = "reserved" /\ ~Startable(k)
     \/ workers[k] \in {"answered", "refused", "timed_out"} /\ ~Mine(k)
  /\ workers' = [workers EXCEPT ![k] = "idle"]
  /\ UNCHANGED <<project, idea, binding, batches, called, terms, page>>

\* The process stops, or the request is cancelled, which nothing catches.
WorkerDies(k) ==
  /\ workers[k] # "idle"
  /\ workers' = [workers EXCEPT ![k] = "idle"]
  /\ UNCHANGED <<project, idea, binding, batches, called, terms, page>>

\* The five minutes of a reservation, or the lease of an attempt, are over.
Elapse(k) ==
  /\ \E s \in Open : Is(k, s)
  /\ ~batches[k].late
  /\ batches' = [batches EXCEPT ![k] = [@ EXCEPT !.late = TRUE]]
  /\ UNCHANGED <<project, idea, binding, workers, called, terms, page>>

\* reconcile, which the author asks for.
Reconcile(k) ==
  /\ Active /\ batches[k] # None /\ batches[k].late
  /\ \/ /\ Is(k, "reserved")
        /\ batches' = [batches EXCEPT ![k] = Row("not_started")]
     \/ /\ Is(k, "running")
        /\ batches' = [batches EXCEPT ![k] = Row("outcome_unknown")]
  /\ UNCHANGED <<project, idea, binding, workers, called, terms, page>>

-----------------------------------------------------------------------------
(* The binding and the contract (model_bindings.py, contracts/).           *)

\* replace_all: nothing else is looked at, the contract included.
ReplaceBinding ==
  /\ Active /\ binding < MaxBinding
  /\ binding' = binding + 1
  /\ UNCHANGED <<project, idea, engines, terms, page>>

ReadDraft ==
  /\ draft # None /\ page' = draft
  /\ UNCHANGED <<project, idea, binding, engines, terms>>

\* The draft a request was written on: the one of the page, or the last.
Seen == {page, draft} \cap Drafts

\* save_draft.  The engine is an option that exists (a foreign key); the
\* seed and the binding are frozen with the draft.
SaveFirst(k, complete) ==
  /\ Active /\ selection # None /\ contract = None /\ draft = None
  /\ Is(k, "succeeded")
  /\ draft' = [version |-> 1, engine |-> k, complete |-> complete,
               binding |-> binding]
  /\ page' = draft'
  /\ UNCHANGED <<project, idea, binding, engines, contract>>

SaveDraft(k, complete) ==
  /\ Active /\ contract = None /\ draft # None /\ draft.version < MaxVersion
  /\ Is(k, "succeeded")
  /\ draft' = [version |-> draft.version + 1, engine |-> k,
               complete |-> complete, binding |-> binding]
  /\ UNCHANGED <<project, idea, binding, engines, contract, page>>

\* confirm: draft_matches, and what _assemble_confirmation compares.
Confirmable(seen) ==
  Active /\ draft = seen /\ draft.complete /\ draft.binding = binding

Confirm(seen) ==
  /\ Confirmable(seen)
  /\ contract' = [draft |-> draft, shown |-> seen]
  /\ draft' = None /\ page' = None
  /\ UNCHANGED <<project, idea, binding, engines>>

-----------------------------------------------------------------------------
(* The project (project_lifecycle.py).                                     *)

\* has_unfinished_operation.  Fault: a batch counts while it is awaited.
BusyWhileAwaited == \E k \in Keys : Unfinished(k) /\ workers[k] # "idle"
Busy == \E k \in Keys : Unfinished(k)

Archive ==
  /\ Active /\ ~Busy /\ project' = "archived"
  /\ UNCHANGED <<idea, binding, engines, terms, page>>

Restore ==
  /\ project = "archived" /\ ~Busy /\ project' = "active"
  /\ UNCHANGED <<idea, binding, engines, terms, page>>

\* permanently_delete takes every row along; workers are not told.
DeleteProject ==
  /\ project = "archived" /\ ~Busy /\ project' = "deleted"
  /\ seeds' = [s \in Seeds |-> None] /\ selection' = None
  /\ batches' = [k \in Keys |-> None]
  /\ draft' = None /\ contract' = None
  /\ UNCHANGED <<binding, workers, called, page>>

-----------------------------------------------------------------------------
SeedStep ==
  \E s \in Seeds :
    \/ ReadSeed(s) \/ DeleteSeed(s) \/ ArchiveSeed(s) \/ RestoreSeed(s)
    \/ \E c \in Contents : CreateSeed(s, c) \/ EditSeed(s, c)
    \/ Exists(s) /\ SelectSeed(SeedView(s))

Returns == {"answered", "refused", "timed_out"}

EngineStep ==
  \E k \in Keys :
    \/ CreateManual(k) \/ ReserveProvider(k) \/ StartAttempt(k)
    \/ FailConfiguration(k) \/ EndAttempt(k) \/ LosesAttempt(k)
    \/ WorkerDies(k) \/ Elapse(k) \/ Reconcile(k)
    \/ \E outcome \in Returns : ProviderReturns(k, outcome)

ContractStep ==
  \/ ReplaceBinding \/ ReadDraft
  \/ \E seen \in Seen : Confirm(seen)
  \/ \E k \in Keys, complete \in BOOLEAN :
       SaveFirst(k, complete) \/ SaveDraft(k, complete)

Next ==
  \/ SeedStep \/ EngineStep \/ ContractStep
  \/ page \in SeedViews /\ SelectSeed(page)
  \/ Archive \/ Restore \/ DeleteProject

Spec == Init /\ [][Next]_vars

-----------------------------------------------------------------------------
(* Properties.                                                             *)

\* The provider is called once for a batch, however its request is sent
\* again, its worker dies or its row is reconciled; and a batch that is said
\* not to have started was never sent.
CalledOnce ==
  \A k \in Keys :
    called[k] <= 1 /\ (Is(k, "not_started") => called[k] = 0)

\* An ended batch stays as it ended, for a late answer, a second request and
\* a reconciliation, while the project is there.
EndedForever ==
  [][\A k \in Keys :
       batches[k] # None /\ batches[k].status \notin Open /\ project' # "deleted"
         => batches'[k] = batches[k]]_vars

\* One request is asked once and has one outcome.
AskedOnce == []CalledOnce /\ EndedForever

\* A project that is archived has nothing in it that only an active one can
\* settle: it can always be restored or removed (has_unfinished_operation).
ArchivedIsQuiet == project = "archived" => \A k \in Keys : ~Unfinished(k)

\* The selected seed is still what it was when it was selected; nothing is
\* built before there is one; the contract stands on an engine that exists
\* and leaves no draft behind; and an archive is quiet.
FoundationSound ==
  /\ selection # None => seeds[selection.seed] = selection.row
  /\ selection = None =>
       draft = None /\ contract = None /\ \A k \in Keys : batches[k] = None
  /\ draft # None => contract = None /\ Is(draft.engine, "succeeded")
  /\ contract # None => Is(contract.draft.engine, "succeeded")
  /\ ArchivedIsQuiet

\* The seed that was selected and the terms that were confirmed are what the
\* page showed.  A seed deleted and made again under its key is the exception
\* (_idempotent_seed_id): its revisions start over, and an old page cannot
\* tell.
ChosenAsShown ==
  /\ selection # None =>
       selection.row.again \/ selection.row.content = selection.shown.content
  /\ contract # None => contract.draft = contract.shown
=============================================================================
