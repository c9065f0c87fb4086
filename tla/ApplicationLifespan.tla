------------------------- MODULE ApplicationLifespan -------------------------
(* Server processes, their shutdown and the scripts that change the product *)
(* database.  A process takes the lifecycle lock before it reads the local  *)
(* document, runs draft workers, and on shutdown cancels them.  Workers     *)
(* that outlast the bounded close are drained in the background: the pool,  *)
(* the configuration and the lock then belong to that background work.  The *)
(* cutover moves the document between two databases and holds the lock only *)
(* while it writes, not while the switched application is tried out.        *)
(* One step runs from one await to the next.  A definition marked "Fault:"  *)
(* is a mistake the one after it avoids.                                    *)
EXTENDS Naturals, FiniteSets

CONSTANTS
  Processes,   \* server processes; a crash leaves a fresh process in place
  Ops,         \* draft operations a process can launch a worker for
  Script,      \* the administrative script, as a holder of the lock
  Nobody,      \* no holder
  NoDoc,       \* no configuration snapshot, no pool
  MaxEdition   \* bound: writes of the local document

ASSUME HoldersDistinct ==
  /\ Script \notin Processes
  /\ Nobody \notin Processes \cup {Script}

ASSUME MaxEditionNat == MaxEdition \in Nat

Databases == {"legacy", "new"}

(* The local document: the database it names, and which write produced it.  *)
(* A snapshot compares file identity and content, so no two writes agree.   *)
Document == [db : Databases, edition : 0 .. MaxEdition]

ASSUME NoDocument == NoDoc \notin Document

VARIABLES
  windows,     \* the platform: a recursive mutex, or an advisory file lock
  lock,        \* its owner, how often it is held, whether it was abandoned
  document,    \* .env.local.json
  script,      \* where the administrative script is, and its snapshot
  phase,       \* per process: where its lifespan is
  config,      \* per process: the installed configuration snapshot
  pool,        \* per process: the snapshot its database pool was opened with
  registry,    \* per process: state of the draft task registry
  tasks,       \* per process: its registered workers
  drain,       \* per process: the drain handed to the background
  poolClose,   \* per process: the pool close that waits for the drain
  completion,  \* per process: app.state.draft_operation_shutdown_transfer
  torn         \* per process: the event loop is being torn down

server == <<phase, config, pool, registry, tasks, drain, poolClose, completion,
            torn>>
vars == <<windows, lock, document, script, server>>

-----------------------------------------------------------------------------
(* The lifecycle lock. *)

Free == [owner |-> Nobody, depth |-> 0, abandoned |-> FALSE]

(* Zero-wait: a Windows mutex lets its own thread in again, a second flock  *)
(* in the same process is refused, an abandoned mutex is refused once.      *)
CanAcquire(a) ==
  /\ ~lock.abandoned
  /\ lock.owner = Nobody \/ (windows /\ lock.owner = a)

Acquire(a) == lock' = [lock EXCEPT !.owner = a, !.depth = @ + 1]

\* Fault: the owner goes, the count stays.
ReleaseOwner == lock' = [lock EXCEPT !.owner = Nobody]

Release ==
  lock' = IF lock.depth > 1 THEN [lock EXCEPT !.depth = @ - 1] ELSE Free

(* Whoever meets the abandoned mutex fails, and releases it by failing. *)
MeetAbandoned ==
  /\ lock.abandoned
  /\ lock' = Free
  /\ UNCHANGED <<windows, document, script, server>>

(* A dead holder: the system frees the file lock; a mutex may stay behind. *)
HolderDies(a) ==
  IF lock.owner = a
  THEN \E left \in BOOLEAN :
         /\ left => windows
         /\ lock' = [Free EXCEPT !.abandoned = left]
  ELSE UNCHANGED lock

-----------------------------------------------------------------------------
(* One process. *)

Unfinished(p) == {o \in Ops : tasks[p][o] \in {"running", "cancelled"}}

UsesDatabase(p) == pool[p] # NoDoc \/ Unfinished(p) # {}

(* The registry takes a new generation of workers only after the previous   *)
(* drain succeeded, and the pool close that followed it, if any.            *)
AllowsRestart(p) ==
  \/ drain[p] = "none"
  \/ drain[p] = "drained" /\ poolClose[p] \in {"none", "done"}

\* _previous_shutdown_transfer_failed.  Fault: one that is under way passes.
PreviousTransferBroke(p) == completion[p] = "failed"

PreviousTransferFailed(p) ==
  \/ completion[p] \notin {"none", "ok"}
  \/ completion[p] # "none" /\ registry[p] # "closed"

(* Lock, read and install the configuration, look at the previous shutdown: *)
(* nothing is awaited in between, and a refusal takes everything back.  A   *)
(* loop that was torn down must have ended; the next lifespan has another.  *)
Enter(p) ==
  /\ phase[p] = "idle"
  /\ torn[p] => Unfinished(p) = {}
  /\ CanAcquire(p)
  /\ config[p] = NoDoc
  /\ ~PreviousTransferFailed(p)
  /\ Acquire(p)
  /\ phase' = [phase EXCEPT ![p] = "verifying"]
  /\ config' = [config EXCEPT ![p] = document]
  /\ completion' = [completion EXCEPT ![p] = "none"]
  /\ torn' = [torn EXCEPT ![p] = FALSE]
  /\ UNCHANGED <<windows, document, script, pool, registry, tasks, drain,
                 poolClose>>

(* The pool opens with the first connection, and would open again for any   *)
(* worker that is still there.                                              *)
NeedsPool(p) == phase[p] = "verifying" \/ Unfinished(p) # {}

OpenPool(p) ==
  /\ pool[p] = NoDoc
  /\ config[p] # NoDoc
  /\ NeedsPool(p)
  /\ pool' = [pool EXCEPT ![p] = config[p]]
  /\ UNCHANGED <<windows, lock, document, script, phase, config, registry,
                 tasks, drain, poolClose, completion, torn>>

(* No database, or the wrong schema: the registry was not started. *)
StartupFails(p) ==
  /\ phase[p] = "verifying"
  /\ phase' = [phase EXCEPT ![p] = "closing pool"]
  /\ UNCHANGED <<windows, lock, document, script, config, pool, registry,
                 tasks, drain, poolClose, completion, torn>>

(* Schema verified: the registry starts a generation. *)
StartRegistry(p) ==
  /\ phase[p] = "verifying"
  /\ pool[p] # NoDoc
  /\ registry[p] # "closing" /\ AllowsRestart(p)
  /\ phase' = [phase EXCEPT ![p] = "serving"]
  /\ registry' = [registry EXCEPT ![p] = "active"]
  /\ drain' = [drain EXCEPT ![p] = "none"]
  /\ poolClose' = [poolClose EXCEPT ![p] = "none"]
  /\ UNCHANGED <<windows, lock, document, script, config, pool, tasks,
                 completion, torn>>

Launch(p, o) ==
  /\ phase[p] = "serving"
  /\ registry[p] = "active"
  /\ tasks[p][o] = "none"
  /\ tasks' = [tasks EXCEPT ![p][o] = "running"]
  /\ UNCHANGED <<windows, lock, document, script, phase, config, pool,
                 registry, drain, poolClose, completion, torn>>

Cancel(p, o) ==
  /\ phase[p] = "serving"
  /\ tasks[p][o] = "running"
  /\ tasks' = [tasks EXCEPT ![p][o] = "cancelled"]
  /\ UNCHANGED <<windows, lock, document, script, phase, config, pool,
                 registry, drain, poolClose, completion, torn>>

(* A worker ends.  Its entry goes with it, unless a close is counting. *)
TaskEnds(p, o) ==
  /\ o \in Unfinished(p)
  /\ tasks' = [tasks EXCEPT ![p][o] =
                 IF registry[p] = "closing" THEN "done" ELSE "none"]
  /\ UNCHANGED <<windows, lock, document, script, phase, config, pool,
                 registry, drain, poolClose, completion, torn>>

NoEntries == [o \in Ops |-> "none"]

(* The application ends: every registered worker is told to stop. *)
BeginClose(p) ==
  /\ phase[p] = "serving"
  /\ phase' = [phase EXCEPT ![p] = "closing registry"]
  /\ registry' = [registry EXCEPT ![p] = "closing"]
  /\ tasks' = [tasks EXCEPT ![p] =
                 [o \in Ops |-> IF @[o] = "none" THEN "none" ELSE "cancelled"]]
  /\ UNCHANGED <<windows, lock, document, script, config, pool, drain,
                 poolClose, completion, torn>>

(* All workers ended within the five seconds. *)
FinishClose(p) ==
  /\ phase[p] = "closing registry"
  /\ Unfinished(p) = {}
  /\ phase' = [phase EXCEPT ![p] = "closing pool"]
  /\ registry' = [registry EXCEPT ![p] = "closed"]
  /\ tasks' = [tasks EXCEPT ![p] = NoEntries]
  /\ UNCHANGED <<windows, lock, document, script, config, pool, drain,
                 poolClose, completion, torn>>

(* They did not: the drain goes on in the background. *)
TimeOut(p) ==
  /\ phase[p] = "closing registry"
  /\ Unfinished(p) # {}
  /\ phase' = [phase EXCEPT ![p] = "handing over"]
  /\ drain' = [drain EXCEPT ![p] = "draining"]
  /\ UNCHANGED <<windows, lock, document, script, config, pool, registry,
                 tasks, poolClose, completion, torn>>

ClosePool(p) ==
  /\ phase[p] = "closing pool"
  /\ phase' = [phase EXCEPT ![p] = "leaving"]
  /\ pool' = [pool EXCEPT ![p] = NoDoc]
  /\ UNCHANGED <<windows, lock, document, script, config, registry, tasks,
                 drain, poolClose, completion, torn>>

(* Configuration cleared, lock released: nothing is left behind. *)
Leave(p) ==
  /\ phase[p] = "leaving"
  /\ phase' = [phase EXCEPT ![p] = "idle"]
  /\ config' = [config EXCEPT ![p] = NoDoc]
  /\ Release
  /\ UNCHANGED <<windows, document, script, pool, registry, tasks, drain,
                 poolClose, completion, torn>>

\* Fault: the lock goes with the lifespan, not with its transfer.
LeaveUndeferred(p) ==
  /\ phase[p] = "handing over"
  /\ phase' = [phase EXCEPT ![p] = "idle"]
  /\ poolClose' = [poolClose EXCEPT ![p] = "waiting"]
  /\ completion' = [completion EXCEPT ![p] = "pending"]
  /\ Release
  /\ UNCHANGED <<windows, document, script, config, pool, registry, tasks,
                 drain, torn>>

(* The lifespan is over, but pool, configuration and lock stay with the     *)
(* background transfer.                                                     *)
LeaveDeferred(p) ==
  /\ phase[p] = "handing over"
  /\ phase' = [phase EXCEPT ![p] = "idle"]
  /\ poolClose' = [poolClose EXCEPT ![p] = "waiting"]
  /\ completion' = [completion EXCEPT ![p] = "pending"]
  /\ UNCHANGED <<windows, lock, document, script, config, pool, registry,
                 tasks, drain, torn>>

-----------------------------------------------------------------------------
(* The background transfer. *)

(* The last worker has ended.  A drain that was cancelled with its loop     *)
(* leaves the registry closing.                                             *)
Drain(p) ==
  /\ drain[p] = "draining"
  /\ Unfinished(p) = {}
  /\ IF torn[p]
     THEN /\ drain' = [drain EXCEPT ![p] = "failed"]
          /\ UNCHANGED <<registry, tasks>>
     ELSE /\ drain' = [drain EXCEPT ![p] = "drained"]
          /\ registry' = [registry EXCEPT ![p] = "closed"]
          /\ tasks' = [tasks EXCEPT ![p] = NoEntries]
  /\ UNCHANGED <<windows, lock, document, script, phase, config, pool,
                 poolClose, completion, torn>>

TransferPoolClose(p) ==
  /\ poolClose[p] = "waiting"
  /\ drain[p] \in {"drained", "failed"}
  /\ IF drain[p] = "drained" /\ ~torn[p]
     THEN /\ pool' = [pool EXCEPT ![p] = NoDoc]
          /\ \E result \in {"done", "failed"} :
               poolClose' = [poolClose EXCEPT ![p] = result]
     ELSE /\ poolClose' = [poolClose EXCEPT ![p] = "failed"]
          /\ UNCHANGED pool
  /\ UNCHANGED <<windows, lock, document, script, phase, config, registry,
                 tasks, drain, completion, torn>>

\* Fault: a transfer that failed keeps the configuration.
CompleteOnSuccess(p) ==
  /\ completion[p] = "pending"
  /\ poolClose[p] = "done" \/ torn[p]
  /\ completion' = [completion EXCEPT ![p] =
                      IF torn[p] THEN "failing" ELSE "succeeding"]
  /\ config' = [config EXCEPT ![p] = NoDoc]
  /\ UNCHANGED <<windows, lock, document, script, phase, pool, registry, tasks,
                 drain, poolClose, torn>>

(* The transfer settled, or its waiter was cancelled with the loop: the     *)
(* configuration goes either way.                                           *)
CompleteConfiguration(p) ==
  /\ completion[p] = "pending"
  /\ poolClose[p] \in {"done", "failed"} \/ torn[p]
  /\ \E outcome \in {"succeeding", "failing"} :
       /\ outcome = "succeeding" => poolClose[p] = "done"
       /\ outcome = "failing" => poolClose[p] # "done" \/ torn[p]
       /\ completion' = [completion EXCEPT ![p] = outcome]
  /\ config' = [config EXCEPT ![p] = NoDoc]
  /\ UNCHANGED <<windows, lock, document, script, phase, pool, registry, tasks,
                 drain, poolClose, torn>>

FinishLease(p) ==
  /\ completion[p] \in {"succeeding", "failing"}
  /\ completion' = [completion EXCEPT ![p] =
                      IF @ = "succeeding" THEN "ok" ELSE "failed"]
  /\ Release
  /\ UNCHANGED <<windows, document, script, phase, config, pool, registry,
                 tasks, drain, poolClose, torn>>

(* The loop ends with the server: every task that is left is cancelled. *)
TearDown(p) ==
  /\ phase[p] = "idle"
  /\ completion[p] = "pending"
  /\ ~torn[p]
  /\ torn' = [torn EXCEPT ![p] = TRUE]
  /\ UNCHANGED <<windows, lock, document, script, phase, config, pool,
                 registry, tasks, drain, poolClose, completion>>

(* The process dies, or exits; the next one in its place is fresh. *)
Crash(p) ==
  /\ phase' = [phase EXCEPT ![p] = "idle"]
  /\ config' = [config EXCEPT ![p] = NoDoc]
  /\ pool' = [pool EXCEPT ![p] = NoDoc]
  /\ registry' = [registry EXCEPT ![p] = "inactive"]
  /\ tasks' = [tasks EXCEPT ![p] = NoEntries]
  /\ drain' = [drain EXCEPT ![p] = "none"]
  /\ poolClose' = [poolClose EXCEPT ![p] = "none"]
  /\ completion' = [completion EXCEPT ![p] = "none"]
  /\ torn' = [torn EXCEPT ![p] = FALSE]
  /\ HolderDies(p)
  /\ UNCHANGED <<windows, document, script>>

-----------------------------------------------------------------------------
(* The administrative scripts; one runs at a time, in a process of its own. *)

Off == [pc |-> "off", seen |-> NoDoc]

Write(db) ==
  /\ document.edition < MaxEdition
  /\ document' = [db |-> db, edition |-> document.edition + 1]

(* cutover and recover_legacy take the lock and then read the document. *)
BeginScript(pc, db) ==
  /\ script = Off
  /\ CanAcquire(Script)
  /\ document.db = db
  /\ Acquire(Script)
  /\ script' = [pc |-> pc, seen |-> document]
  /\ UNCHANGED <<windows, document, server>>

BeginCutover == BeginScript("cutover", "legacy")
BeginRecovery == BeginScript("recovery", "new")

(* A schema upgrade works on the database under the lock. *)
BeginUpgrade == \E db \in Databases : BeginScript("upgrade", db)

(* The evidence differs, the compare-and-swap misses, or the upgrade ends. *)
EndSection ==
  /\ script.pc \in {"cutover", "recovery", "upgrade"}
  /\ Release
  /\ script' = Off
  /\ UNCHANGED <<windows, document, server>>

(* The document is switched if it is still the one that was read. *)
Switch ==
  /\ script.pc = "cutover"
  /\ document = script.seen
  /\ Write("new")
  /\ Release
  /\ script' = [pc |-> "smoke", seen |-> document']
  /\ UNCHANGED <<windows, server>>

Recover ==
  /\ script.pc = "recovery"
  /\ document = script.seen
  /\ Write("legacy")
  /\ Release
  /\ script' = Off
  /\ UNCHANGED <<windows, server>>

(* The tried-out application has stopped; the document is compared again    *)
(* under the lock, and nothing more is written.                             *)
SmokePasses ==
  /\ script.pc = "smoke"
  /\ script' = Off
  /\ UNCHANGED <<windows, lock, document, server>>

(* One attempt to take the switch back, if the lock is free and the         *)
(* document is still the switched one.                                      *)
\* Fault: the rollback does not take the lock again.
CanRollBackUnlocked == document = script.seen

CanRollBack == CanAcquire(Script) /\ document = script.seen

SmokeFails ==
  /\ script.pc = "smoke"
  /\ IF CanRollBack THEN Write("legacy") ELSE UNCHANGED document
  /\ script' = Off
  /\ UNCHANGED <<windows, lock, server>>

ScriptDies ==
  /\ script # Off
  /\ script' = Off
  /\ HolderDies(Script)
  /\ UNCHANGED <<windows, document, server>>

(* configure_local_mysql writes the document without the lock. *)
ConfigureLocalMysql ==
  /\ \E db \in Databases : Write(db)
  /\ UNCHANGED <<windows, lock, script, server>>

-----------------------------------------------------------------------------
Init ==
  /\ windows \in BOOLEAN
  /\ lock = Free
  /\ document = [db |-> "legacy", edition |-> 0]
  /\ script = Off
  /\ phase = [p \in Processes |-> "idle"]
  /\ config = [p \in Processes |-> NoDoc]
  /\ pool = [p \in Processes |-> NoDoc]
  /\ registry = [p \in Processes |-> "inactive"]
  /\ tasks = [p \in Processes |-> NoEntries]
  /\ drain = [p \in Processes |-> "none"]
  /\ poolClose = [p \in Processes |-> "none"]
  /\ completion = [p \in Processes |-> "none"]
  /\ torn = [p \in Processes |-> FALSE]

Working(p) ==
  \/ Enter(p)
  \/ OpenPool(p)
  \/ StartupFails(p)
  \/ StartRegistry(p)
  \/ \E o \in Ops : Launch(p, o) \/ Cancel(p, o) \/ TaskEnds(p, o)

Closing(p) ==
  \/ BeginClose(p)
  \/ FinishClose(p)
  \/ TimeOut(p)
  \/ ClosePool(p)
  \/ Leave(p)
  \/ LeaveDeferred(p)
  \/ Drain(p)
  \/ TransferPoolClose(p)
  \/ CompleteConfiguration(p)
  \/ FinishLease(p)
  \/ TearDown(p)

Administration ==
  \/ BeginCutover
  \/ BeginRecovery
  \/ BeginUpgrade
  \/ EndSection
  \/ Switch
  \/ Recover
  \/ SmokePasses
  \/ SmokeFails
  \/ ScriptDies
  \/ ConfigureLocalMysql

Next ==
  \/ \E p \in Processes : Working(p) \/ Closing(p) \/ Crash(p)
  \/ Administration
  \/ MeetAbandoned

Spec == Init /\ [][Next]_vars

(* A shutdown that began is carried on by the event loop; a worker that was *)
(* cancelled ends.                                                          *)
CloseGoesOn(p) ==
  \/ FinishClose(p) \/ TimeOut(p) \/ ClosePool(p) \/ Leave(p)
  \/ LeaveDeferred(p) \/ Drain(p) \/ TransferPoolClose(p)
  \/ CompleteConfiguration(p) \/ FinishLease(p)

FairSpec ==
  /\ Spec
  /\ \A p \in Processes : WF_vars(CloseGoesOn(p))
  /\ \A p \in Processes, o \in Ops :
       WF_vars(tasks[p][o] = "cancelled" /\ TaskEnds(p, o))

-----------------------------------------------------------------------------
(* Properties. *)

(* Every variable keeps to its values, and the lock is held by its owner. *)
TypeOK ==
  /\ windows \in BOOLEAN
  /\ lock \in [owner : Processes \cup {Script, Nobody}, depth : 0 .. 2,
               abandoned : BOOLEAN]
  /\ lock.depth = 0 <=> lock.owner = Nobody
  /\ document \in Document
  /\ script \in [pc : {"off", "cutover", "recovery", "upgrade", "smoke"},
                 seen : Document \cup {NoDoc}]
  /\ phase \in [Processes -> {"idle", "verifying", "serving", "closing registry",
                              "handing over", "closing pool", "leaving"}]
  /\ config \in [Processes -> Document \cup {NoDoc}]
  /\ pool \in [Processes -> Document \cup {NoDoc}]
  /\ registry \in [Processes -> {"inactive", "active", "closing", "closed"}]
  /\ tasks \in [Processes -> [Ops -> {"none", "running", "cancelled", "done"}]]
  /\ drain \in [Processes -> {"none", "draining", "drained", "failed"}]
  /\ poolClose \in [Processes -> {"none", "waiting", "done", "failed"}]
  /\ completion \in [Processes -> {"none", "pending", "succeeding", "failing",
                                   "ok", "failed"}]
  /\ torn \in [Processes -> BOOLEAN]

(* The lock outlasts the database: a process with an open pool or a worker  *)
(* that has not ended owns the lock, still has the configuration its pool   *)
(* was opened with, and has it only once, whoever else starts, stops or     *)
(* switches.  Only a loop that is torn down under the background transfer   *)
(* is exempt (lifespan, _complete_runtime_configuration, defer_until).      *)
LockCoversDatabase ==
  \A p \in Processes :
    UsesDatabase(p) =>
      \/ torn[p]
      \/ /\ lock.owner = p
         /\ config[p] # NoDoc
         /\ pool[p] \in {NoDoc, config[p]}

(* A lifespan that starts finds nothing of the one before it in its         *)
(* process: no worker, no drain, a registry that will start; it opens its   *)
(* own pool, and the lock is held for it alone (_application_lifespan,      *)
(* DraftOperationTaskRegistry.start).                                       *)
StartsFresh ==
  \A p \in Processes :
    phase[p] = "verifying" =>
      /\ tasks[p] = NoEntries
      /\ registry[p] # "closing" /\ AllowsRestart(p)
      /\ lock = [owner |-> p, depth |-> 1, abandoned |-> FALSE]

(* cutover and recover_legacy never change the document underneath a        *)
(* process that runs on it, also not when the switch is taken back after a  *)
(* failed trial.                                                            *)
DocumentStill ==
  [][script' # script /\ document' # document =>
       \A p \in Processes : config[p] = NoDoc]_vars

(* A process that shuts down gives the lock up, whatever its workers, its   *)
(* pool and its loop do: the next start or cutover is not refused for ever. *)
LockReleased ==
  \A p \in Processes : phase[p] = "closing registry" ~> lock.owner # p
=============================================================================
