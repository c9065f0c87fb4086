----------------------- MODULE ApplicationLifespanProofs -----------------------
(***************************************************************************)
(* Proofs about ApplicationLifespan for any processes, workers and number  *)
(* of document writes.  The inductive invariant says who holds the lock in *)
(* each phase, what a lifespan has of its registry, its pool and its       *)
(* transfer there, and that nothing is left when the next one may start.   *)
(***************************************************************************)
EXTENDS ApplicationLifespan, TLAPS

\* A process holds the lock from the start of its lifespan to the end of the
\* transfer; the script holds it in the sections that may write.
Holds(p) ==
  phase[p] # "idle" \/ completion[p] \in {"pending", "succeeding", "failing"}
Sections == {"cutover", "recovery", "upgrade"}
LockHeld ==
  /\ \A p \in Processes : lock.owner = p <=> Holds(p)
  /\ lock.owner = Script <=> script.pc \in Sections
  /\ lock.owner # Nobody => lock.depth = 1 /\ ~lock.abandoned
  /\ lock.owner = Nobody => lock.depth = 0

\* Nothing of an earlier lifespan is left but a drain that succeeded.
Rested(p) ==
  /\ tasks[p] = NoEntries
  /\ registry[p] \notin {"active", "closing"}
  /\ \/ drain[p] = "none" /\ poolClose[p] = "none"
     \/ drain[p] = "drained" /\ poolClose[p] = "done"

\* The process between its start and its end.
Foreground(p) ==
  /\ phase[p] # "idle" => completion[p] = "none" /\ ~torn[p]
  /\ phase[p] \in {"verifying", "closing pool", "leaving"} => Rested(p)
  /\ phase[p] \in {"serving", "closing registry"} =>
       drain[p] = "none" /\ poolClose[p] = "none"
  /\ phase[p] = "serving" => registry[p] = "active"
  /\ phase[p] = "closing registry" => registry[p] = "closing"
  /\ phase[p] = "handing over" =>
       drain[p] \in {"draining", "drained"} /\ poolClose[p] = "none"
  /\ phase[p] = "leaving" => pool[p] = NoDoc

\* The transfer in the background, once the lifespan is over.
Background(p) ==
  /\ completion[p] = "none" => ~torn[p]
  /\ phase[p] = "idle" /\ completion[p] \in {"none", "succeeding", "ok"} =>
       Rested(p) /\ pool[p] = NoDoc
  /\ phase[p] = "idle" /\ completion[p] = "pending" => drain[p] # "none"
  /\ completion[p] \in {"failing", "failed"} /\ ~torn[p] =>
       tasks[p] = NoEntries /\ pool[p] = NoDoc
  /\ drain[p] = "draining" => phase[p] \in {"handing over", "idle"}
  /\ drain[p] = "draining" => poolClose[p] \in {"none", "waiting", "failed"}
  /\ drain[p] = "drained" => tasks[p] = NoEntries /\ registry[p] = "closed"
  /\ drain[p] = "failed" => torn[p]
  /\ poolClose[p] = "waiting" => phase[p] = "idle"
  /\ poolClose[p] \in {"done", "failed"} => drain[p] \in {"drained", "failed"}
  /\ poolClose[p] = "done" => drain[p] = "drained"
  /\ phase[p] = "idle" /\ poolClose[p] \in {"done", "failed"} =>
       torn[p] \/ pool[p] = NoDoc
  /\ phase[p] = "idle" /\ poolClose[p] = "done" => pool[p] = NoDoc

\* The configuration is there while somebody may need it, and the pool was
\* opened with it.
ConfigKept(p) ==
  /\ config[p] # NoDoc <=> phase[p] # "idle" \/ completion[p] = "pending"
  /\ torn[p] \/ pool[p] \in {NoDoc, config[p]}

Lifespan(p) == Foreground(p) /\ Background(p) /\ ConfigKept(p)

IInv == TypeOK /\ LockHeld /\ \A p \in Processes : Lifespan(p)

-----------------------------------------------------------------------------
(* The lock.                                                               *)

\* Whoever takes the lock finds it free: nobody who holds it asks again.
LEMMA LockTaken ==
  ASSUME TypeOK, LockHeld, NEW a \in Processes \cup {Script},
         CanAcquire(a), lock.owner # a, Acquire(a)
  PROVE  /\ lock.owner = Nobody
         /\ lock' = [owner |-> a, depth |-> 1, abandoned |-> FALSE]
<1>1. lock.owner = Nobody
  BY DEF CanAcquire
<1>2. lock.depth = 0
  BY <1>1 DEF LockHeld
<1>3. /\ lock \in [owner : Processes \cup {Script, Nobody}, depth : Nat,
                   abandoned : BOOLEAN]
      /\ a \in Processes \cup {Script, Nobody}
  <2>1. PICK o \in Processes \cup {Script, Nobody}, d \in 0 .. 2, b \in BOOLEAN :
          lock = [owner |-> o, depth |-> d, abandoned |-> b]
    BY DEF TypeOK
  <2>2. d \in Nat
    OBVIOUS
  <2> QED
    BY <2>1, <2>2
<1>4. lock.abandoned = FALSE
  <2>1. lock.abandoned \in BOOLEAN
    BY <1>3
  <2>2. ~lock.abandoned
    BY DEF CanAcquire
  <2> QED
    BY <2>1, <2>2, Zenon
<1>5. lock' = [owner |-> a, depth |-> 1, abandoned |-> FALSE]
  <2>1. PICK R, B : /\ B = BOOLEAN
                    /\ R = [owner : Processes \cup {Script, Nobody},
                            depth : Nat, abandoned : B]
    OBVIOUS
  <2>2. lock \in R
    BY <1>3, <2>1
  <2>3. PICK m : m = [lock EXCEPT !.owner = a]
    OBVIOUS
  <2>4. m \in R
    BY <1>3, <2>1, <2>2, <2>3
  <2>5. m.owner = a /\ m.depth = lock.depth /\ m.abandoned = lock.abandoned
    BY <2>1, <2>2, <2>3
  <2>6. PICK n : n = [m EXCEPT !.depth = 1]
    OBVIOUS
  <2>7. n \in R
    BY <2>1, <2>4, <2>6
  <2>8. n.owner = a /\ n.depth = 1 /\ n.abandoned = FALSE
    <3>1. n.owner = m.owner /\ n.depth = 1 /\ n.abandoned = m.abandoned
      BY <2>1, <2>4, <2>6
    <3> QED
      BY <1>4, <2>5, <3>1, Zenon
  <2>9. n = [owner |-> n.owner, depth |-> n.depth, abandoned |-> n.abandoned]
    BY <2>1, <2>7
  <2>10. lock' = n
    BY <1>2, <2>3, <2>6 DEF Acquire
  <2> QED
    BY <2>8, <2>9, <2>10, Zenon
<1> QED
  BY <1>1, <1>5

\* Whoever releases the lock held it once.
LEMMA LockGiven ==
  ASSUME TypeOK, LockHeld, lock.owner # Nobody, Release
  PROVE  lock' = Free
<1>1. lock.depth = 1
  BY DEF LockHeld
<1> QED
  BY <1>1 DEF Release

LEMMA LockDies ==
  ASSUME TypeOK, LockHeld, NEW a, HolderDies(a)
  PROVE  \/ /\ lock.owner = a /\ lock'.owner = Nobody /\ lock'.depth = 0
            /\ lock'.abandoned \in BOOLEAN
            /\ lock' \in [owner : {Nobody}, depth : {0}, abandoned : BOOLEAN]
         \/ lock.owner # a /\ lock' = lock
BY DEF HolderDies, Free

LEMMA FreeLock == /\ Free.owner = Nobody /\ Free.depth = 0
                  /\ Free \in [owner : Processes \cup {Script, Nobody},
                               depth : 0 .. 2, abandoned : BOOLEAN]
BY DEF Free

\* The lock stays with its holder if nobody begins or ends to hold it.
LEMMA SameHolders ==
  ASSUME LockHeld, lock' = lock,
         \A q \in Processes : Holds(q)' <=> Holds(q),
         (script'.pc \in Sections) <=> (script.pc \in Sections)
  PROVE  LockHeld'
BY DEF LockHeld

LEMMA NewHolder ==
  ASSUME LockHeld, lock.owner = Nobody, NEW p \in Processes, Holds(p)',
         lock' = [owner |-> p, depth |-> 1, abandoned |-> FALSE],
         \A q \in Processes : q # p => (Holds(q)' <=> Holds(q)),
         script' = script
  PROVE  LockHeld'
BY HoldersDistinct DEF LockHeld

LEMMA LastHolder ==
  ASSUME LockHeld, NEW p \in Processes, lock.owner = p, ~Holds(p)',
         lock'.owner = Nobody, lock'.depth = 0,
         \A q \in Processes : q # p => (Holds(q)' <=> Holds(q)),
         script' = script
  PROVE  LockHeld'
BY HoldersDistinct DEF LockHeld

LEMMA ScriptSteps ==
  ASSUME TypeOK, LockHeld, Administration
  PROVE  /\ LockHeld'
         /\ lock' \in [owner : Processes \cup {Script, Nobody}, depth : 0 .. 2,
                       abandoned : BOOLEAN]
<1>1. \A q \in Processes : Holds(q)' <=> Holds(q)
  BY DEF Administration, BeginCutover, BeginRecovery, BeginUpgrade, BeginScript,
     EndSection, Switch, Recover, SmokePasses, SmokeFails, ScriptDies,
     ConfigureLocalMysql, server, Holds
<1>2. ASSUME NEW pc \in Sections, NEW db \in Databases, BeginScript(pc, db)
      PROVE  /\ LockHeld'
             /\ lock' \in [owner : Processes \cup {Script, Nobody}, depth : 0 .. 2,
                           abandoned : BOOLEAN]
  <2>1. lock.owner # Script
    BY <1>2 DEF BeginScript, Off, LockHeld, Sections
  <2>2. /\ lock.owner = Nobody
        /\ lock' = [owner |-> Script, depth |-> 1, abandoned |-> FALSE]
    BY <1>2, <2>1, LockTaken DEF BeginScript
  <2>3. script'.pc = pc
    BY <1>2 DEF BeginScript
  <2> QED
    BY <1>1, <2>2, <2>3, HoldersDistinct DEF LockHeld
<1>3. CASE EndSection \/ Switch \/ Recover
  <2>1. script.pc \in Sections /\ script'.pc \notin Sections /\ Release
    BY <1>3 DEF EndSection, Switch, Recover, Sections, Off
  <2>2. lock.owner = Script /\ lock' = Free
    BY <2>1, LockGiven, HoldersDistinct DEF LockHeld
  <2> QED
    BY <1>1, <2>1, <2>2, FreeLock, HoldersDistinct DEF LockHeld
<1>4. CASE ScriptDies
  <2>1. script'.pc \notin Sections
    BY <1>4 DEF ScriptDies, Off, Sections
  <2>2. CASE lock.owner = Script
    <3>1. /\ lock'.owner = Nobody /\ lock'.depth = 0
          /\ lock' \in [owner : {Nobody}, depth : {0}, abandoned : BOOLEAN]
      BY <1>4, <2>2, LockDies DEF ScriptDies
    <3> QED
      BY <1>1, <2>1, <2>2, <3>1, HoldersDistinct DEF LockHeld
  <2>3. CASE lock.owner # Script
    <3>1. lock' = lock
      BY <1>4, <2>3, LockDies DEF ScriptDies
    <3> QED
      BY <1>1, <2>1, <2>3, <3>1, SameHolders DEF LockHeld, TypeOK
  <2> QED
    BY <2>2, <2>3
<1>5. CASE SmokePasses \/ SmokeFails \/ ConfigureLocalMysql
  <2>1. /\ lock' = lock
        /\ (script'.pc \in Sections) <=> (script.pc \in Sections)
    BY <1>5 DEF SmokePasses, SmokeFails, ConfigureLocalMysql, Sections, Off
  <2> QED
    BY <1>1, <2>1, SameHolders DEF TypeOK
<1> QED
  BY <1>2, <1>3, <1>4, <1>5 DEF Administration, BeginCutover, BeginRecovery,
     BeginUpgrade, Sections, Databases

\* A step of one process leaves what the others have as it is.
Elsewhere(p) ==
  \A q \in Processes : q # p =>
    /\ phase'[q] = phase[q] /\ config'[q] = config[q] /\ pool'[q] = pool[q]
    /\ registry'[q] = registry[q] /\ tasks'[q] = tasks[q] /\ drain'[q] = drain[q]
    /\ poolClose'[q] = poolClose[q] /\ completion'[q] = completion[q]
    /\ torn'[q] = torn[q]

\* What the step makes of the process itself.
After(p, ph, c, po, r, t, d, pc, co, to) ==
  /\ phase'[p] = ph /\ config'[p] = c /\ pool'[p] = po /\ registry'[p] = r
  /\ tasks'[p] = t /\ drain'[p] = d /\ poolClose'[p] = pc
  /\ completion'[p] = co /\ torn'[p] = to

LEMMA ProcessAlone ==
  ASSUME TypeOK, NEW p \in Processes, Working(p) \/ Closing(p) \/ Crash(p)
  PROVE  Elsewhere(p) /\ script' = script /\ document' = document
         /\ windows' = windows
<1>1. CASE Enter(p)
  BY <1>1 DEF TypeOK, Elsewhere, Enter
<1>2. CASE OpenPool(p)
  BY <1>2 DEF TypeOK, Elsewhere, OpenPool
<1>3. CASE StartupFails(p)
  BY <1>3 DEF TypeOK, Elsewhere, StartupFails
<1>4. CASE StartRegistry(p)
  BY <1>4 DEF TypeOK, Elsewhere, StartRegistry
<1>5. ASSUME NEW o \in Ops, Launch(p, o) \/ Cancel(p, o) \/ TaskEnds(p, o)
      PROVE  Elsewhere(p) /\ script' = script /\ document' = document
             /\ windows' = windows
  <2>1. PICK t : tasks' = [tasks EXCEPT ![p] = t]
    BY <1>5, Zenon DEF Launch, Cancel, TaskEnds
  <2> QED
    BY <1>5, <2>1 DEF TypeOK, Elsewhere, Launch, Cancel, TaskEnds
<1>6. CASE BeginClose(p)
  BY <1>6 DEF TypeOK, Elsewhere, BeginClose
<1>7. CASE FinishClose(p)
  BY <1>7 DEF TypeOK, Elsewhere, FinishClose
<1>8. CASE TimeOut(p)
  BY <1>8 DEF TypeOK, Elsewhere, TimeOut
<1>9. CASE ClosePool(p)
  BY <1>9 DEF TypeOK, Elsewhere, ClosePool
<1>10. CASE Leave(p)
  BY <1>10 DEF TypeOK, Elsewhere, Leave
<1>11. CASE LeaveDeferred(p)
  BY <1>11 DEF TypeOK, Elsewhere, LeaveDeferred
<1>12. CASE Drain(p)
  <2>1. CASE torn[p]
    <3>1. /\ drain' = [drain EXCEPT ![p] = "failed"]
          /\ registry' = registry /\ tasks' = tasks
      BY <1>12, <2>1, Zenon DEF Drain
    <3> QED
      BY <1>12, <3>1 DEF TypeOK, Elsewhere, Drain
  <2>2. CASE ~torn[p]
    <3>1. /\ drain' = [drain EXCEPT ![p] = "drained"]
          /\ registry' = [registry EXCEPT ![p] = "closed"]
          /\ tasks' = [tasks EXCEPT ![p] = NoEntries]
      BY <1>12, <2>2, Zenon DEF Drain
    <3> QED
      BY <1>12, <3>1 DEF TypeOK, Elsewhere, Drain
  <2> QED
    BY <2>1, <2>2
<1>13. CASE TransferPoolClose(p)
  <2>1. CASE drain[p] = "drained" /\ ~torn[p]
    <3>1. PICK result : poolClose' = [poolClose EXCEPT ![p] = result]
      BY <1>13, <2>1, Zenon DEF TransferPoolClose
    <3> QED
      BY <1>13, <2>1, <3>1 DEF TypeOK, Elsewhere, TransferPoolClose
  <2>2. CASE ~(drain[p] = "drained" /\ ~torn[p])
    <3>1. poolClose' = [poolClose EXCEPT ![p] = "failed"] /\ pool' = pool
      BY <1>13, <2>2, Zenon DEF TransferPoolClose
    <3> QED
      BY <1>13, <3>1 DEF TypeOK, Elsewhere, TransferPoolClose
  <2> QED
    BY <2>1, <2>2
<1>14. CASE CompleteConfiguration(p)
  <2>1. PICK outcome : completion' = [completion EXCEPT ![p] = outcome]
    BY <1>14, Zenon DEF CompleteConfiguration
  <2> QED
    BY <1>14, <2>1 DEF TypeOK, Elsewhere, CompleteConfiguration
<1>15. CASE FinishLease(p)
  BY <1>15 DEF TypeOK, Elsewhere, FinishLease
<1>16. CASE TearDown(p)
  BY <1>16 DEF TypeOK, Elsewhere, TearDown
<1>17. CASE Crash(p)
  <2>1. ASSUME NEW q \in Processes, q # p
        PROVE  /\ phase'[q] = phase[q] /\ config'[q] = config[q]
               /\ pool'[q] = pool[q] /\ registry'[q] = registry[q]
               /\ tasks'[q] = tasks[q]
    BY <1>17, <2>1 DEF TypeOK, Crash
  <2>2. ASSUME NEW q \in Processes, q # p
        PROVE  /\ drain'[q] = drain[q] /\ poolClose'[q] = poolClose[q]
               /\ completion'[q] = completion[q] /\ torn'[q] = torn[q]
    BY <1>17, <2>2 DEF TypeOK, Crash
  <2>3. script' = script /\ document' = document /\ windows' = windows
    BY <1>17 DEF Crash
  <2> QED
    BY <2>1, <2>2, <2>3 DEF Elsewhere
<1> QED
  BY <1>1, <1>2, <1>3, <1>4, <1>5, <1>6, <1>7, <1>8, <1>9, <1>10, <1>11,
     <1>12, <1>13, <1>14, <1>15, <1>16, <1>17 DEF Working, Closing

LEMMA ProcessSteps ==
  ASSUME TypeOK, LockHeld, NEW p \in Processes, Lifespan(p),
         Working(p) \/ Closing(p) \/ Crash(p)
  PROVE  /\ LockHeld'
         /\ lock' \in [owner : Processes \cup {Script, Nobody}, depth : 0 .. 2,
                       abandoned : BOOLEAN]
<1>1. \A q \in Processes : q # p => (Holds(q)' <=> Holds(q))
  BY ProcessAlone DEF Elsewhere, Holds
<1>2. script' = script
  BY ProcessAlone
<1>3. CASE Enter(p)
  <2>1. ~Holds(p)
    BY <1>3 DEF Enter, Holds, PreviousTransferFailed
  <2>2. lock.owner # p
    BY <2>1 DEF LockHeld
  <2>3. /\ lock.owner = Nobody
        /\ lock' = [owner |-> p, depth |-> 1, abandoned |-> FALSE]
    BY <1>3, <2>2, LockTaken DEF Enter
  <2>4. Holds(p)'
    BY <1>3 DEF Enter, Holds, TypeOK
  <2> QED
    BY <1>1, <1>2, <2>3, <2>4, NewHolder
<1>4. CASE Leave(p) \/ FinishLease(p)
  <2>1. Holds(p) /\ ~Holds(p)' /\ Release
    BY <1>4 DEF Leave, FinishLease, Holds, TypeOK, Lifespan, Foreground
  <2>2. lock.owner = p /\ lock' = Free
    BY <2>1, LockGiven, HoldersDistinct DEF LockHeld
  <2> QED
    BY <1>1, <1>2, <2>1, <2>2, LastHolder, FreeLock
<1>5. CASE Crash(p)
  <2>1. ~Holds(p)'
    BY <1>5 DEF Crash, Holds, TypeOK
  <2>2. CASE lock.owner = p
    <3>1. /\ lock'.owner = Nobody /\ lock'.depth = 0
          /\ lock' \in [owner : {Nobody}, depth : {0}, abandoned : BOOLEAN]
      BY <1>5, <2>2, LockDies DEF Crash
    <3> QED
      BY <1>1, <1>2, <2>1, <2>2, <3>1, LastHolder
  <2>3. CASE lock.owner # p
    <3>1. lock' = lock /\ ~Holds(p)
      BY <1>5, <2>3, LockDies DEF Crash, LockHeld
    <3> QED
      BY <1>1, <1>2, <2>1, <3>1, SameHolders DEF TypeOK
  <2> QED
    BY <2>2, <2>3
<1>6. CASE lock' = lock /\ (Holds(p)' <=> Holds(p))
  BY <1>1, <1>2, <1>6, SameHolders DEF TypeOK
<1>7. ASSUME ~Enter(p), ~Leave(p), ~FinishLease(p), ~Crash(p)
      PROVE  lock' = lock /\ (Holds(p)' <=> Holds(p))
  <2>1. CASE \/ OpenPool(p) \/ StartupFails(p) \/ StartRegistry(p)
             \/ \E o \in Ops : Launch(p, o) \/ Cancel(p, o) \/ TaskEnds(p, o)
    BY <2>1 DEF TypeOK, Holds, OpenPool, StartupFails, StartRegistry, Launch,
       Cancel, TaskEnds
  <2>2. CASE BeginClose(p) \/ FinishClose(p) \/ TimeOut(p) \/ ClosePool(p)
    BY <2>2 DEF TypeOK, Holds, BeginClose, FinishClose, TimeOut, ClosePool
  <2>3. CASE LeaveDeferred(p) \/ Drain(p) \/ TransferPoolClose(p) \/ TearDown(p)
    BY <2>3 DEF TypeOK, Holds, LeaveDeferred, Drain, TransferPoolClose, TearDown
  <2>4. CASE CompleteConfiguration(p)
    <3>1. PICK outcome \in {"succeeding", "failing"} :
            completion' = [completion EXCEPT ![p] = outcome]
      BY <2>4, Zenon DEF CompleteConfiguration
    <3> QED
      BY <2>4, <3>1 DEF TypeOK, Holds, CompleteConfiguration
  <2> QED
    BY <1>7, <2>1, <2>2, <2>3, <2>4 DEF Working, Closing
<1> QED
  BY <1>3, <1>4, <1>5, <1>6, <1>7

LEMMA NoneLeft ==
  ASSUME NEW p \in Processes, tasks[p] = NoEntries
  PROVE  Unfinished(p) = {}
BY DEF Unfinished, NoEntries

\* A step into or within the foreground keeps what is said of a lifespan.
LEMMA ForegroundSteps ==
  ASSUME TypeOK, NEW p \in Processes, Lifespan(p),
         \/ Working(p)
         \/ BeginClose(p) \/ FinishClose(p) \/ TimeOut(p) \/ ClosePool(p)
         \/ Leave(p) \/ LeaveDeferred(p) \/ TearDown(p) \/ Crash(p)
  PROVE  Lifespan(p)'
<1>1. CASE Enter(p)
  <2>1. After(p, "verifying", document, pool[p], registry[p],
               tasks[p], drain[p], poolClose[p], "none", FALSE)
    BY <1>1 DEF TypeOK, After, Enter
  <2> QED
    BY <1>1, <2>1, NoDocument DEF TypeOK, After, Lifespan, Foreground, Background,
       ConfigKept, Rested, Enter, PreviousTransferFailed
<1>2. CASE OpenPool(p)
  <2>1. After(p, phase[p], config[p], config[p], registry[p],
               tasks[p], drain[p], poolClose[p], completion[p], torn[p])
    BY <1>2 DEF TypeOK, After, OpenPool
  <2> QED
    BY <1>2, <2>1, NoneLeft DEF TypeOK, After, Lifespan, Foreground, Background,
       ConfigKept, Rested, OpenPool, NeedsPool
<1>3. CASE StartupFails(p)
  <2>1. After(p, "closing pool", config[p], pool[p], registry[p],
               tasks[p], drain[p], poolClose[p], completion[p], torn[p])
    BY <1>3 DEF TypeOK, After, StartupFails
  <2> QED
    BY <1>3, <2>1 DEF TypeOK, After, Lifespan, Foreground, Background,
       ConfigKept, Rested, StartupFails
<1>4. CASE StartRegistry(p)
  <2>1. After(p, "serving", config[p], pool[p], "active",
               tasks[p], "none", "none", completion[p], torn[p])
    BY <1>4 DEF TypeOK, After, StartRegistry
  <2> QED
    BY <1>4, <2>1 DEF TypeOK, After, Lifespan, Foreground, Background,
       ConfigKept, Rested, StartRegistry
<1>5. CASE FinishClose(p)
  <2>1. After(p, "closing pool", config[p], pool[p], "closed",
               NoEntries, drain[p], poolClose[p], completion[p], torn[p])
    BY <1>5 DEF TypeOK, After, FinishClose
  <2> QED
    BY <1>5, <2>1 DEF TypeOK, After, Lifespan, Foreground, Background,
       ConfigKept, Rested, FinishClose
<1>6. CASE TimeOut(p)
  <2>1. After(p, "handing over", config[p], pool[p], registry[p],
               tasks[p], "draining", poolClose[p], completion[p], torn[p])
    BY <1>6 DEF TypeOK, After, TimeOut
  <2> QED
    BY <1>6, <2>1 DEF TypeOK, After, Lifespan, Foreground, Background,
       ConfigKept, Rested, TimeOut
<1>7. CASE ClosePool(p)
  <2>1. After(p, "leaving", config[p], NoDoc, registry[p],
               tasks[p], drain[p], poolClose[p], completion[p], torn[p])
    BY <1>7 DEF TypeOK, After, ClosePool
  <2> QED
    BY <1>7, <2>1 DEF TypeOK, After, Lifespan, Foreground, Background,
       ConfigKept, Rested, ClosePool
<1>8. CASE Leave(p)
  <2>1. After(p, "idle", NoDoc, pool[p], registry[p],
               tasks[p], drain[p], poolClose[p], completion[p], torn[p])
    BY <1>8 DEF TypeOK, After, Leave
  <2> QED
    BY <1>8, <2>1 DEF TypeOK, After, Lifespan, Foreground, Background,
       ConfigKept, Rested, Leave
<1>9. CASE LeaveDeferred(p)
  <2>1. After(p, "idle", config[p], pool[p], registry[p],
               tasks[p], drain[p], "waiting", "pending", torn[p])
    BY <1>9 DEF TypeOK, After, LeaveDeferred
  <2> QED
    BY <1>9, <2>1 DEF TypeOK, After, Lifespan, Foreground, Background,
       ConfigKept, Rested, LeaveDeferred
<1>10. CASE TearDown(p)
  <2>1. After(p, phase[p], config[p], pool[p], registry[p],
               tasks[p], drain[p], poolClose[p], completion[p], TRUE)
    BY <1>10 DEF TypeOK, After, TearDown
  <2> QED
    BY <1>10, <2>1 DEF TypeOK, After, Lifespan, Foreground, Background,
       ConfigKept, Rested, TearDown
<1>11. CASE Crash(p)
  <2>1. After(p, "idle", NoDoc, NoDoc, "inactive",
               NoEntries, "none", "none", "none", FALSE)
    <3>1. /\ phase'[p] = "idle" /\ config'[p] = NoDoc /\ pool'[p] = NoDoc
          /\ registry'[p] = "inactive" /\ tasks'[p] = NoEntries
      BY <1>11 DEF TypeOK, Crash
    <3>2. /\ drain'[p] = "none" /\ poolClose'[p] = "none"
          /\ completion'[p] = "none" /\ torn'[p] = FALSE
      BY <1>11 DEF TypeOK, Crash
    <3> QED
      BY <3>1, <3>2 DEF After
  <2> QED
    BY <1>11, <2>1 DEF TypeOK, After, Lifespan, Foreground, Background,
       ConfigKept, Rested, Crash
<1>12. CASE BeginClose(p)
  <2>1. PICK t : After(p, "closing registry", config[p], pool[p], "closing",
               t, drain[p], poolClose[p], completion[p], torn[p])
    BY <1>12 DEF TypeOK, After, BeginClose
  <2> QED
    BY <1>12, <2>1 DEF TypeOK, After, Lifespan, Foreground, Background,
       ConfigKept, Rested, BeginClose
<1>13. ASSUME NEW o \in Ops, Launch(p, o) \/ Cancel(p, o) \/ TaskEnds(p, o)
      PROVE  Lifespan(p)'
  <2>1. PICK t : tasks' = [tasks EXCEPT ![p] = t]
    BY <1>13, Zenon DEF Launch, Cancel, TaskEnds
  <2>2. After(p, phase[p], config[p], pool[p], registry[p],
               t, drain[p], poolClose[p], completion[p], torn[p])
    BY <1>13, <2>1 DEF TypeOK, After, Launch, Cancel, TaskEnds
  <2>3. CASE phase[p] = "serving"
    BY <2>2, <2>3 DEF TypeOK, After, Lifespan, Foreground, Background, ConfigKept
  <2>4. CASE phase[p] # "serving"
    <3>1. tasks[p] # NoEntries
      BY <1>13, <2>4, NoneLeft DEF Launch, Cancel, TaskEnds
    <3>2. ~Rested(p)
      BY <3>1 DEF Rested
    <3>3. Foreground(p)'
      BY <2>2, <2>4, <3>2 DEF After, Lifespan, Foreground
    <3>4. Background(p)'
      BY <2>2, <2>4, <3>1, <3>2 DEF After, Lifespan, Background
    <3>5. ConfigKept(p)'
      BY <2>2 DEF After, Lifespan, ConfigKept
    <3> QED
      BY <3>3, <3>4, <3>5 DEF Lifespan
  <2> QED
    BY <2>3, <2>4
<1> QED
  BY <1>1, <1>2, <1>3, <1>4, <1>5, <1>6, <1>7, <1>8, <1>9, <1>10, <1>11,
     <1>12, <1>13 DEF Working

\* So does a step of the background transfer.
LEMMA BackgroundSteps ==
  ASSUME TypeOK, NEW p \in Processes, Lifespan(p),
         \/ Drain(p) \/ TransferPoolClose(p)
         \/ CompleteConfiguration(p) \/ FinishLease(p)
  PROVE  Lifespan(p)'
<1>1. CASE Drain(p)
  <2>1. CASE torn[p]
    <3>1. After(p, phase[p], config[p], pool[p], registry[p],
               tasks[p], "failed", poolClose[p], completion[p], torn[p])
      BY <1>1, <2>1 DEF TypeOK, After, Drain
    <3> QED
      BY <1>1, <2>1, <3>1 DEF TypeOK, After, Lifespan, Foreground, Background,
         ConfigKept, Rested, Drain
  <2>2. CASE ~torn[p]
    <3>1. After(p, phase[p], config[p], pool[p], "closed",
               NoEntries, "drained", poolClose[p], completion[p], FALSE)
      <4>1. /\ phase'[p] = phase[p] /\ config'[p] = config[p] /\ pool'[p] = pool[p]
            /\ registry'[p] = "closed" /\ tasks'[p] = NoEntries
            /\ drain'[p] = "drained" /\ poolClose'[p] = poolClose[p]
            /\ completion'[p] = completion[p]
        <5>1. /\ drain' = [drain EXCEPT ![p] = "drained"]
              /\ registry' = [registry EXCEPT ![p] = "closed"]
              /\ tasks' = [tasks EXCEPT ![p] = NoEntries]
          BY <1>1, <2>2, Zenon DEF Drain
        <5> QED
          BY <1>1, <5>1 DEF TypeOK, Drain
      <4>2. torn[p] \in BOOLEAN /\ torn'[p] = torn[p]
        BY <1>1 DEF TypeOK, Drain
      <4>3. torn'[p] = FALSE
        BY <2>2, <4>2, Zenon
      <4> QED
        BY <4>1, <4>3, Zenon DEF After
    <3> QED
      BY <1>1, <2>2, <3>1 DEF TypeOK, After, Lifespan, Foreground, Background,
         ConfigKept, Rested, Drain
  <2> QED
    BY <2>1, <2>2
<1>2. CASE TransferPoolClose(p)
  <2>1. CASE drain[p] = "drained" /\ ~torn[p]
    <3>1. PICK result \in {"done", "failed"} :
            After(p, phase[p], config[p], NoDoc, registry[p],
               tasks[p], drain[p], result, completion[p], torn[p])
      <4>1. PICK result \in {"done", "failed"} :
              poolClose' = [poolClose EXCEPT ![p] = result]
        BY <1>2, <2>1, Zenon DEF TransferPoolClose
      <4> QED
        BY <1>2, <2>1, <4>1 DEF TypeOK, After, TransferPoolClose
    <3> QED
      BY <1>2, <2>1, <3>1 DEF TypeOK, After, Lifespan, Foreground, Background,
         ConfigKept, Rested, TransferPoolClose
  <2>2. CASE ~(drain[p] = "drained" /\ ~torn[p])
    <3>1. After(p, phase[p], config[p], pool[p], registry[p],
               tasks[p], drain[p], "failed", completion[p], torn[p])
      BY <1>2, <2>2 DEF TypeOK, After, TransferPoolClose
    <3> QED
      BY <1>2, <2>2, <3>1 DEF TypeOK, After, Lifespan, Foreground, Background,
         ConfigKept, Rested, TransferPoolClose
  <2> QED
    BY <2>1, <2>2
<1>3. CASE CompleteConfiguration(p)
  <2>1. PICK outcome \in {"succeeding", "failing"} :
          /\ outcome = "succeeding" => poolClose[p] = "done"
          /\ outcome = "failing" => poolClose[p] # "done" \/ torn[p]
          /\ completion' = [completion EXCEPT ![p] = outcome]
    BY <1>3 DEF CompleteConfiguration
  <2>2. After(p, phase[p], NoDoc, pool[p], registry[p],
               tasks[p], drain[p], poolClose[p], outcome, torn[p])
    BY <1>3, <2>1 DEF TypeOK, After, CompleteConfiguration
  <2> QED
    BY <1>3, <2>1, <2>2 DEF TypeOK, After, Lifespan, Foreground, Background,
       ConfigKept, Rested, CompleteConfiguration
<1>4. CASE FinishLease(p)
  <2>1. After(p, phase[p], config[p], pool[p], registry[p],
               tasks[p], drain[p], poolClose[p],
               IF completion[p] = "succeeding" THEN "ok" ELSE "failed", torn[p])
    BY <1>4 DEF TypeOK, After, FinishLease
  <2> QED
    BY <1>4, <2>1 DEF TypeOK, After, Lifespan, Foreground, Background,
       ConfigKept, Rested, FinishLease
<1> QED
  BY <1>1, <1>2, <1>3, <1>4

\* A lifespan is about its own process only.
LEMMA Untouched ==
  ASSUME NEW q \in Processes, Lifespan(q),
         phase'[q] = phase[q], config'[q] = config[q], pool'[q] = pool[q],
         registry'[q] = registry[q], tasks'[q] = tasks[q], drain'[q] = drain[q],
         poolClose'[q] = poolClose[q], completion'[q] = completion[q],
         torn'[q] = torn[q]
  PROVE  Lifespan(q)'
BY DEF Lifespan, Foreground, Background, ConfigKept, Rested

ServerOK ==
  /\ phase \in [Processes -> {"idle", "verifying", "serving", "closing registry",
                              "handing over", "closing pool", "leaving"}]
  /\ config \in [Processes -> Document \cup {NoDoc}]
  /\ pool \in [Processes -> Document \cup {NoDoc}]
  /\ registry \in [Processes -> {"inactive", "active", "closing", "closed"}]
  /\ tasks \in [Processes -> [Ops -> {"none", "running", "cancelled", "done"}]]
  /\ drain \in [Processes -> {"none", "draining", "drained", "failed"}]
  /\ poolClose \in [Processes -> {"none", "waiting", "done", "failed"}]
  /\ completion \in [Processes -> {"none", "pending", "succeeding", "failing",
                                   "ok", "failed"}]
  /\ torn \in [Processes -> BOOLEAN]

LEMMA ServerTyped ==
  ASSUME TypeOK, NEW p \in Processes, Working(p) \/ Closing(p) \/ Crash(p)
  PROVE  ServerOK'
<1>1. NoEntries \in [Ops -> {"none", "running", "cancelled", "done"}]
  BY DEF NoEntries
<1>2. CASE Enter(p)
  BY <1>1, <1>2 DEF TypeOK, ServerOK, Enter
<1>3. CASE OpenPool(p)
  BY <1>1, <1>3 DEF TypeOK, ServerOK, OpenPool
<1>4. CASE StartupFails(p)
  BY <1>1, <1>4 DEF TypeOK, ServerOK, StartupFails
<1>5. CASE StartRegistry(p)
  BY <1>1, <1>5 DEF TypeOK, ServerOK, StartRegistry
<1>6. CASE BeginClose(p)
  BY <1>1, <1>6 DEF TypeOK, ServerOK, BeginClose
<1>7. CASE FinishClose(p)
  BY <1>1, <1>7 DEF TypeOK, ServerOK, FinishClose
<1>8. CASE TimeOut(p)
  BY <1>1, <1>8 DEF TypeOK, ServerOK, TimeOut
<1>9. CASE ClosePool(p)
  BY <1>1, <1>9 DEF TypeOK, ServerOK, ClosePool
<1>10. CASE Leave(p)
  BY <1>1, <1>10 DEF TypeOK, ServerOK, Leave
<1>11. CASE LeaveDeferred(p)
  BY <1>1, <1>11 DEF TypeOK, ServerOK, LeaveDeferred
<1>12. CASE Drain(p)
  <2>1. PICK d \in {"failed", "drained"}, r \in [Processes -> {"inactive",
               "active", "closing", "closed"}],
            t \in [Processes -> [Ops -> {"none", "running", "cancelled", "done"}]] :
          drain' = [drain EXCEPT ![p] = d] /\ registry' = r /\ tasks' = t
    <3>1. CASE torn[p]
      <4>1. /\ drain' = [drain EXCEPT ![p] = "failed"]
            /\ registry' = registry /\ tasks' = tasks
        BY <1>12, <3>1, Zenon DEF Drain
      <4> QED
        BY <4>1 DEF TypeOK
    <3>2. CASE ~torn[p]
      <4>1. /\ [registry EXCEPT ![p] = "closed"] \in [Processes -> {"inactive",
                   "active", "closing", "closed"}]
            /\ [tasks EXCEPT ![p] = NoEntries] \in
                 [Processes -> [Ops -> {"none", "running", "cancelled", "done"}]]
        BY <1>1 DEF TypeOK
      <4>2. /\ drain' = [drain EXCEPT ![p] = "drained"]
            /\ registry' = [registry EXCEPT ![p] = "closed"]
            /\ tasks' = [tasks EXCEPT ![p] = NoEntries]
        BY <1>12, <3>2, Zenon DEF Drain
      <4> QED
        BY <4>1, <4>2
    <3> QED
      BY <3>1, <3>2
  <2> QED
    BY <1>12, <2>1 DEF TypeOK, ServerOK, Drain
<1>13. CASE TransferPoolClose(p)
  <2>1. PICK c \in {"done", "failed"}, o \in [Processes -> Document \cup {NoDoc}] :
          poolClose' = [poolClose EXCEPT ![p] = c] /\ pool' = o
    BY <1>13 DEF TypeOK, TransferPoolClose
  <2> QED
    BY <1>13, <2>1 DEF TypeOK, ServerOK, TransferPoolClose
<1>14. CASE CompleteConfiguration(p)
  <2>1. PICK outcome \in {"succeeding", "failing"} :
          completion' = [completion EXCEPT ![p] = outcome]
    BY <1>14, Zenon DEF CompleteConfiguration
  <2> QED
    BY <1>14, <2>1 DEF TypeOK, ServerOK, CompleteConfiguration
<1>15. CASE FinishLease(p)
  BY <1>1, <1>15 DEF TypeOK, ServerOK, FinishLease
<1>16. CASE TearDown(p)
  BY <1>1, <1>16 DEF TypeOK, ServerOK, TearDown
<1>17. CASE Crash(p)
  BY <1>1, <1>17 DEF TypeOK, ServerOK, Crash
<1>18. ASSUME NEW o \in Ops, Launch(p, o) \/ Cancel(p, o) \/ TaskEnds(p, o)
      PROVE  ServerOK'
  <2>1. PICK s \in {"none", "running", "cancelled", "done"} :
          tasks' = [tasks EXCEPT ![p][o] = s]
    BY <1>18 DEF Launch, Cancel, TaskEnds
  <2>2. tasks' \in [Processes -> [Ops -> {"none", "running", "cancelled", "done"}]]
    BY <2>1 DEF TypeOK
  <2>3. UNCHANGED <<phase, config, pool, registry, drain, poolClose, completion,
                    torn>>
    BY <1>18 DEF Launch, Cancel, TaskEnds
  <2> QED
    BY <2>2, <2>3 DEF TypeOK, ServerOK
<1> QED
  BY <1>2, <1>3, <1>4, <1>5, <1>6, <1>7, <1>8, <1>9, <1>10, <1>11, <1>12,
     <1>13, <1>14, <1>15, <1>16, <1>17, <1>18 DEF Working, Closing

\* The document and the script keep to their values; the servers do not move.
LEMMA ScriptTyped ==
  ASSUME TypeOK, Administration
  PROVE  /\ document' \in Document
         /\ script' \in [pc : {"off", "cutover", "recovery", "upgrade", "smoke"},
                         seen : Document \cup {NoDoc}]
         /\ windows' = windows /\ UNCHANGED server
<1>1. Off \in [pc : {"off", "cutover", "recovery", "upgrade", "smoke"},
              seen : Document \cup {NoDoc}]
  BY DEF Off
<1>2. ASSUME NEW db \in Databases, Write(db)
      PROVE  document' \in Document
  <2>1. document.edition + 1 \in 0 .. MaxEdition
    <3>1. document.edition \in 0 .. MaxEdition /\ document.edition < MaxEdition
      BY <1>2 DEF Write, Document, TypeOK
    <3> QED
      BY <3>1, MaxEditionNat
  <2> QED
    BY <1>2, <2>1 DEF Write, Document
<1>3. ASSUME NEW pc \in {"cutover", "recovery", "upgrade"}, NEW db,
             BeginScript(pc, db)
      PROVE  /\ document' \in Document
             /\ script' \in [pc : {"off", "cutover", "recovery", "upgrade", "smoke"},
                             seen : Document \cup {NoDoc}]
             /\ windows' = windows /\ UNCHANGED server
  BY <1>3 DEF BeginScript, TypeOK
<1>4. CASE Switch
  <2>1. document' \in Document
    BY <1>2, <1>4 DEF Switch, Databases
  <2> QED
    BY <1>4, <2>1 DEF Switch, TypeOK
<1>5. CASE SmokeFails
  <2>1. document' \in Document
    BY <1>2, <1>5 DEF SmokeFails, Databases, TypeOK
  <2> QED
    BY <1>1, <1>5, <2>1 DEF SmokeFails
<1>6. CASE EndSection \/ Recover \/ SmokePasses \/ ScriptDies
  <2>1. document' \in Document
    BY <1>2, <1>6 DEF EndSection, Recover, SmokePasses, ScriptDies, Databases,
       TypeOK
  <2> QED
    BY <1>1, <1>6, <2>1 DEF EndSection, Recover, SmokePasses, ScriptDies
<1>7. CASE ConfigureLocalMysql
  BY <1>2, <1>7 DEF ConfigureLocalMysql, TypeOK
<1> QED
  BY <1>3, <1>4, <1>5, <1>6, <1>7 DEF Administration, BeginCutover, BeginRecovery,
     BeginUpgrade

LEMMA InitIInv == Init => IInv
<1> SUFFICES ASSUME Init PROVE IInv
  OBVIOUS
<1>1. NoEntries \in [Ops -> {"none", "running", "cancelled", "done"}]
  BY DEF NoEntries
<1>2. TypeOK
  <2>1. lock \in [owner : Processes \cup {Script, Nobody}, depth : 0 .. 2,
                 abandoned : BOOLEAN]
    BY FreeLock DEF Init
  <2>2. lock.depth = 0 <=> lock.owner = Nobody
    BY FreeLock DEF Init
  <2>3. document \in Document
    BY MaxEditionNat DEF Init, Document, Databases
  <2> QED
    BY <1>1, <2>1, <2>2, <2>3 DEF Init, TypeOK, Off
<1>3. LockHeld
  BY FreeLock, HoldersDistinct DEF Init, LockHeld, Holds, Off, Sections
<1>4. \A p \in Processes : Lifespan(p)
  BY DEF Init, Lifespan, Foreground, Background, ConfigKept, Rested
<1> QED
  BY <1>2, <1>3, <1>4 DEF IInv

LEMMA NextIInv == IInv /\ [Next]_vars => IInv'
<1> SUFFICES ASSUME IInv, [Next]_vars PROVE IInv'
  OBVIOUS
<1>1. ASSUME NEW p \in Processes, Working(p) \/ Closing(p) \/ Crash(p)
      PROVE  IInv'
  <2>1. /\ LockHeld'
        /\ lock' \in [owner : Processes \cup {Script, Nobody}, depth : 0 .. 2,
                      abandoned : BOOLEAN]
    BY <1>1, ProcessSteps DEF IInv
  <2>2. Elsewhere(p) /\ script' = script /\ document' = document /\ windows' = windows
    BY <1>1, ProcessAlone DEF IInv
  <2>3. ServerOK'
    BY <1>1, ServerTyped DEF IInv
  <2>4. (lock.depth = 0 <=> lock.owner = Nobody)'
    BY <2>1 DEF LockHeld
  <2>5. TypeOK'
    BY <2>1, <2>2, <2>3, <2>4 DEF IInv, TypeOK, ServerOK
  <2>6. Lifespan(p)'
    BY <1>1, ForegroundSteps, BackgroundSteps DEF IInv, Closing
  <2>7. ASSUME NEW q \in Processes, q # p PROVE Lifespan(q)'
    BY <2>2, <2>7, Untouched DEF IInv, Elsewhere
  <2> QED
    BY <2>1, <2>5, <2>6, <2>7 DEF IInv
<1>2. CASE Administration
  <2>1. /\ LockHeld'
        /\ lock' \in [owner : Processes \cup {Script, Nobody}, depth : 0 .. 2,
                      abandoned : BOOLEAN]
    BY <1>2, ScriptSteps DEF IInv
  <2>2. /\ document' \in Document
        /\ script' \in [pc : {"off", "cutover", "recovery", "upgrade", "smoke"},
                        seen : Document \cup {NoDoc}]
        /\ windows' = windows /\ UNCHANGED server
    BY <1>2, ScriptTyped DEF IInv
  <2>3. (lock.depth = 0 <=> lock.owner = Nobody)'
    BY <2>1 DEF LockHeld
  <2>4. TypeOK'
    BY <2>1, <2>2, <2>3 DEF IInv, TypeOK, server
  <2>5. ASSUME NEW q \in Processes PROVE Lifespan(q)'
    BY <2>2, Untouched DEF IInv, server
  <2> QED
    BY <2>1, <2>4, <2>5 DEF IInv
<1>3. CASE MeetAbandoned
  <2>1. lock.owner = Nobody
    <3>1. lock.owner # Nobody => ~lock.abandoned
      BY DEF IInv, LockHeld
    <3> QED
      BY <1>3, <3>1, Zenon DEF MeetAbandoned
  <2>2. lock' = Free /\ UNCHANGED <<windows, document, script, server>>
    BY <1>3, Zenon DEF MeetAbandoned
  <2>3. LockHeld'
    BY <2>1, <2>2, FreeLock DEF IInv, LockHeld, Holds, server
  <2>4. TypeOK'
    BY <2>2, <2>3, FreeLock DEF IInv, TypeOK, server
  <2>5. ASSUME NEW q \in Processes PROVE Lifespan(q)'
    BY <2>2, Untouched DEF IInv, server
  <2> QED
    BY <2>3, <2>4, <2>5 DEF IInv
<1>4. CASE UNCHANGED vars
  <2>1. TypeOK'
    BY <1>4 DEF IInv, TypeOK, vars, server
  <2>2. LockHeld'
    BY <1>4 DEF IInv, LockHeld, Holds, vars, server
  <2>3. ASSUME NEW q \in Processes PROVE Lifespan(q)'
    BY <1>4, Untouched DEF IInv, vars, server
  <2> QED
    BY <2>1, <2>2, <2>3 DEF IInv
<1> QED
  BY <1>1, <1>2, <1>3, <1>4 DEF Next

(* The invariant holds in every reachable state, for any processes, workers *)
(* and number of writes (local_database_config, app lifespan, scripts).     *)
THEOREM Inductive == Spec => []IInv
BY InitIInv, NextIInv, PTL DEF Spec

(* Every variable keeps to its values, and the lock has an owner exactly    *)
(* while it is held.                                                        *)
THEOREM TypeCorrect == Spec => []TypeOK
<1>1. IInv => TypeOK
  BY DEF IInv
<1> QED
  BY Inductive, <1>1, PTL

(* A process that has an open pool or a worker owns the lock and still has  *)
(* the configuration the pool was opened with, unless its loop is torn down *)
(* (lifespan, defer_until, _complete_runtime_configuration).                *)
THEOREM LockOutlastsDatabase == Spec => []LockCoversDatabase
<1>1. ASSUME IInv, NEW p \in Processes, UsesDatabase(p), ~torn[p]
      PROVE  lock.owner = p /\ config[p] # NoDoc /\ pool[p] \in {NoDoc, config[p]}
  <2>1. tasks[p] # NoEntries \/ pool[p] # NoDoc
    BY <1>1, NoneLeft DEF UsesDatabase
  <2>2. phase[p] # "idle" \/ completion[p] = "pending"
    BY <1>1, <2>1 DEF IInv, TypeOK, Lifespan, Background, Rested
  <2>3. lock.owner = p
    BY <1>1, <2>2 DEF IInv, LockHeld, Holds
  <2>4. config[p] # NoDoc /\ pool[p] \in {NoDoc, config[p]}
    BY <1>1, <2>2 DEF IInv, Lifespan, ConfigKept
  <2> QED
    BY <2>3, <2>4
<1>2. IInv => LockCoversDatabase
  BY <1>1, Zenon DEF LockCoversDatabase
<1> QED
  BY Inductive, <1>2, PTL

(* A lifespan that starts finds no worker, no drain and a registry that     *)
(* will start, and has the lock for itself (_application_lifespan,          *)
(* DraftOperationTaskRegistry.start).                                       *)
THEOREM EveryStartIsFresh == Spec => []StartsFresh
<1>1. ASSUME IInv, NEW p \in Processes, phase[p] = "verifying"
      PROVE  /\ tasks[p] = NoEntries
             /\ registry[p] # "closing" /\ AllowsRestart(p)
             /\ lock = [owner |-> p, depth |-> 1, abandoned |-> FALSE]
  <2>1. Rested(p)
    BY <1>1 DEF IInv, Lifespan, Foreground
  <2>2. lock.owner = p
    BY <1>1 DEF IInv, LockHeld, Holds
  <2>3. lock.depth = 1 /\ ~lock.abandoned
    BY <1>1, <2>2, HoldersDistinct DEF IInv, LockHeld
  <2>4. PICK o \in Processes \cup {Script, Nobody}, d \in 0 .. 2, b \in BOOLEAN :
          lock = [owner |-> o, depth |-> d, abandoned |-> b]
    BY <1>1 DEF IInv, TypeOK
  <2>5. o = p /\ d = 1
    BY <2>2, <2>3, <2>4
  <2>6. lock.abandoned = b
    BY <2>4
  <2>7. b = FALSE
    BY <2>3, <2>6, Zenon
  <2> QED
    BY <2>1, <2>4, <2>5, <2>7 DEF Rested, AllowsRestart
<1>2. IInv => StartsFresh
  BY <1>1, Zenon DEF StartsFresh
<1> QED
  BY Inductive, <1>2, PTL

(* cutover, recover_legacy and the rollback of a failed trial change the    *)
(* document only while no process has it installed.                         *)
THEOREM DocumentStaysStill == Spec => DocumentStill
<1>1. ASSUME IInv, Next, script' # script, document' # document,
             NEW p \in Processes
      PROVE  config[p] = NoDoc
  <2>1. Switch \/ Recover \/ (SmokeFails /\ CanAcquire(Script))
    <3>1. ~(\E q \in Processes : Working(q) \/ Closing(q) \/ Crash(q))
      BY <1>1, ProcessAlone DEF IInv
    <3>2. ~MeetAbandoned
      BY <1>1 DEF MeetAbandoned
    <3>3. Administration
      BY <1>1, <3>1, <3>2 DEF Next
    <3> QED
      BY <1>1, <3>3 DEF Administration, BeginCutover, BeginRecovery, BeginUpgrade,
         BeginScript, EndSection, SmokePasses, ScriptDies, ConfigureLocalMysql,
         SmokeFails, CanRollBack
  <2>2. lock.owner # p
    <3>1. CASE Switch \/ Recover
      BY <1>1, <3>1, HoldersDistinct DEF IInv, LockHeld, Sections, Switch, Recover
    <3>2. CASE CanAcquire(Script)
      BY <3>2, HoldersDistinct DEF CanAcquire
    <3> QED
      BY <2>1, <3>1, <3>2
  <2> QED
    BY <1>1, <2>2 DEF IInv, LockHeld, Holds, Lifespan, ConfigKept
<1>2. IInv /\ [Next]_vars =>
        [script' # script /\ document' # document =>
           \A p \in Processes : config[p] = NoDoc]_vars
  BY <1>1 DEF vars
<1> QED
  BY Inductive, <1>2, PTL DEF Spec, DocumentStill
=============================================================================
