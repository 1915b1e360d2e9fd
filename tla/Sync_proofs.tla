---------------------------- MODULE Sync_proofs ----------------------------
(* Sync, for any tasks and objects: the locks exclude and are handed over  *)
(* first come, first served, permits are conserved and barriers hold.      *)
EXTENDS Programs, QueueLemmas

\* A condition is no call site.
LEMMA Sites ==
  /\ "none" \notin Condition /\ "lock_acquire" \notin Condition /\ "condition_wait" \notin Condition
  /\ "semaphore_down" \notin Condition /\ "barrier_wait" \notin Condition
  BY SyncAssumption DEF CallSite

LEMMA InitInv == Init => Inv
  <1> SUFFICES ASSUME Init PROVE Inv
    OBVIOUS
  <1> USE SyncAssumption DEF Init
  <1>1. TypeOK
    BY DEF TypeOK, CallSite
  <1>2. \A x \in Object : \A t : ~InQueue(queue, x, t)
    BY DEF InQueue
  <1>3. LinkedOnce(queue)
    BY DEF LinkedOnce
  <1>4. ArgumentKept
    BY Sites DEF ArgumentKept
  <1>5. BlockedInQueue
    BY <1>2, <1>3 DEF BlockedInQueue
  <1>6. \A lk \in Lock : lock_status[lk] = "UNLOCKED" /\ \A t \in Task : ~Owns(t, lk) /\ ~InQueue(queue, lk, t)
    BY <1>2 DEF Owns, HandedTo, Runs, BackFrom, Object
  <1>7. LockHandedOver
    BY <1>6 DEF LockHandedOver
  <1> QED
    BY <1>1, <1>4, <1>5, <1>7 DEF Inv

\* Steps of t that leave the queues and the ready and blocked tasks alone.
LEMMA QuietWaits ==
  ASSUME Inv, NEW t \in Task, UNCHANGED <<queue, status>>, status[t] = "READY",
         \A u \in Task \ {t} :
           at'[u] = at[u] /\ blocking_lock'[u] = blocking_lock[u] /\ arg'[u] = arg[u]
  PROVE  BlockedInQueue'
  BY DEF Inv, BlockedInQueue, WaitsFor

\* block() called by t.
LEMMA BlockWaits ==
  ASSUME Inv, NEW t \in Task, NEW x \in Object, NEW site, Block(t, x, site),
         status[t] = "READY", WaitsFor(t, x)',
         \A u \in Task \ {t} : blocking_lock'[u] = blocking_lock[u] /\ arg'[u] = arg[u]
  PROVE  /\ BlockedInQueue'
         /\ queue' \in [Object -> Seq(Task)]
         /\ \A y \in Object : \A u : InQueue(queue', y, u) <=> InQueue(queue, y, u) \/ (y = x /\ u = t)
  <1>1. queue \in [Object -> Seq(Task)] /\ LinkedOnce(queue)
    BY DEF Inv, TypeOK, BlockedInQueue
  <1>2. \A y \in Object : ~InQueue(queue, y, t)
    BY DEF Inv, BlockedInQueue
  <1>3. queue' = Enqueue(queue, x, t)
    BY DEF Block
  <1>4. /\ queue' \in [Object -> Seq(Task)]
        /\ \A y \in Object : \A u : InQueue(queue', y, u) <=> InQueue(queue, y, u) \/ (y = x /\ u = t)
    BY <1>1, <1>3, EnqueueIn
  <1>5. LinkedOnce(queue')
    BY <1>1, <1>2, <1>3, EnqueueOnce
  <1>6. /\ status'[t] = "BLOCKED" /\ \A u \in Task \ {t} : status'[u] = status[u]
        /\ \A u \in Task \ {t} : at'[u] = at[u]
    BY DEF Block, Inv, TypeOK
  <1>7. \A u \in Task : status'[u] = "BLOCKED" => \E y \in Object : InQueue(queue', y, u)
    BY <1>4, <1>6 DEF Inv, BlockedInQueue
  <1>8. \A u \in Task, y \in Object : InQueue(queue', y, u) => status'[u] = "BLOCKED" /\ WaitsFor(u, y)'
    <2> SUFFICES ASSUME NEW u \in Task, NEW y \in Object, InQueue(queue', y, u)
                 PROVE  status'[u] = "BLOCKED" /\ WaitsFor(u, y)'
      OBVIOUS
    <2>1. CASE u = t
      BY <1>2, <1>4, <1>6, <2>1
    <2>2. CASE u # t
      BY <1>4, <1>6, <2>2 DEF Inv, BlockedInQueue, WaitsFor
    <2> QED
      BY <2>1, <2>2
  <1> QED
    BY <1>4, <1>5, <1>7, <1>8 DEF BlockedInQueue

\* unblock_one() on a queue that is not empty.
LEMMA UnblockOneWaits ==
  ASSUME Inv, NEW x \in Object, queue[x] # <<>>, UnblockOne(x),
         \A u \in Task : status[u] = "BLOCKED" =>
           at'[u] = at[u] /\ blocking_lock'[u] = blocking_lock[u] /\ arg'[u] = arg[u]
  PROVE  /\ BlockedInQueue'
         /\ queue' \in [Object -> Seq(Task)]
         /\ Head(queue[x]) \in Task /\ InQueue(queue, x, Head(queue[x]))
         /\ \A y \in Object : \A u : InQueue(queue', y, u) <=> InQueue(queue, y, u) /\ u # Head(queue[x])
  <1>1. queue \in [Object -> Seq(Task)] /\ LinkedOnce(queue)
    BY DEF Inv, TypeOK, BlockedInQueue
  <1>2. queue' = Dequeue(queue, x)
    BY DEF UnblockOne
  <1>3. /\ queue' \in [Object -> Seq(Task)] /\ LinkedOnce(queue')
        /\ Head(queue[x]) \in Task /\ InQueue(queue, x, Head(queue[x]))
        /\ \A y \in Object : \A u : InQueue(queue', y, u) <=> InQueue(queue, y, u) /\ u # Head(queue[x])
    BY <1>1, <1>2, DequeueOnce
  <1>4. /\ status'[Head(queue[x])] = "READY"
        /\ \A u \in Task : u # Head(queue[x]) => status'[u] = status[u]
    BY <1>3 DEF UnblockOne, Inv, TypeOK
  <1>5. \A u \in Task : status'[u] = "BLOCKED" => \E y \in Object : InQueue(queue', y, u)
    BY <1>3, <1>4 DEF Inv, BlockedInQueue
  <1>6. \A u \in Task, y \in Object : InQueue(queue', y, u) => status'[u] = "BLOCKED" /\ WaitsFor(u, y)'
    BY <1>3, <1>4 DEF Inv, BlockedInQueue, WaitsFor
  <1> QED
    BY <1>3, <1>5, <1>6 DEF BlockedInQueue

LEMMA UnblockAllWaits ==
  ASSUME Inv, NEW t \in Task, NEW x \in Object, UnblockAll(x), status[t] = "READY",
         \A u \in Task \ {t} :
           at'[u] = at[u] /\ blocking_lock'[u] = blocking_lock[u] /\ arg'[u] = arg[u]
  PROVE  /\ BlockedInQueue'
         /\ queue' \in [Object -> Seq(Task)]
         /\ \A y \in Object : \A u : InQueue(queue', y, u) <=> InQueue(queue, y, u) /\ y # x
  <1>1. queue \in [Object -> Seq(Task)] /\ LinkedOnce(queue)
    BY DEF Inv, TypeOK, BlockedInQueue
  <1>2. /\ queue' \in [Object -> Seq(Task)] /\ LinkedOnce(queue')
        /\ \A y \in Object : \A u : InQueue(queue', y, u) <=> InQueue(queue, y, u) /\ y # x
    BY <1>1, FlushOnce DEF UnblockAll
  <1>3. \A u \in Task : status'[u] = IF InQueue(queue, x, u) THEN "READY" ELSE status[u]
    BY DEF UnblockAll
  <1>4. \A u \in Task, y \in Object : InQueue(queue', y, u) => ~InQueue(queue, x, u)
    <2> SUFFICES ASSUME NEW u \in Task, NEW y \in Object, InQueue(queue', y, u), InQueue(queue, x, u)
                 PROVE  FALSE
      OBVIOUS
    <2>1. y # x /\ InQueue(queue, y, u)
      BY <1>2
    <2>2. DOMAIN queue = Object
      BY <1>1
    <2> QED
      BY <1>1, <2>1, <2>2 DEF InQueue, LinkedOnce
  <1>5. \A u \in Task : status'[u] = "BLOCKED" => \E y \in Object : InQueue(queue', y, u)
    BY <1>2, <1>3 DEF Inv, BlockedInQueue
  <1>6. \A u \in Task, y \in Object : InQueue(queue', y, u) => status'[u] = "BLOCKED" /\ WaitsFor(u, y)'
    <2> SUFFICES ASSUME NEW u \in Task, NEW y \in Object, InQueue(queue', y, u)
                 PROVE  status'[u] = "BLOCKED" /\ WaitsFor(u, y)'
      OBVIOUS
    <2>1. status[u] = "BLOCKED" /\ WaitsFor(u, y) /\ status'[u] = status[u]
      BY <1>2, <1>3, <1>4 DEF Inv, BlockedInQueue
    <2>2. u # t
      BY <2>1
    <2> QED
      BY <2>1, <2>2 DEF WaitsFor
  <1> QED
    BY <1>2, <1>5, <1>6 DEF BlockedInQueue

\* lock_acquire_helper(), called by lock_acquire() or by condition_wait().
LEMMA LockAcquireHelperInv ==
  ASSUME Inv, NEW t \in Task, NEW lk \in Lock,
         Runs(t, "none") \/ Runs(t, "condition_wait"),
         LockAcquireHelper(t, lk), UNCHANGED <<held_task, sem, count, arg, round>>
  PROVE  Inv'
  <1>1. status[t] = "READY" /\ at[t] # "lock_acquire" /\ t # NULL
    BY SyncAssumption DEF Runs, BackFrom
  <1>2. CASE lock_status[lk] = "UNLOCKED"
    <2>1. /\ lock_status' = [lock_status EXCEPT ![lk] = "LOCKED"]
          /\ holds' = [holds EXCEPT ![t] = @ \cup {lk}]
          /\ at' = [at EXCEPT ![t] = "none"]
          /\ UNCHANGED <<queue, status, blocking_lock, held_task, sem, count, arg, round>>
      BY <1>2 DEF LockAcquireHelper, Resume
    <2>2. TypeOK'
      BY <2>1 DEF Inv, TypeOK, CallSite
    <2>3. ArgumentKept'
      BY <2>1, Sites DEF Inv, TypeOK, ArgumentKept
    <2>4. BlockedInQueue'
      BY <1>1, <2>1, QuietWaits DEF Inv, TypeOK
    <2>5. ASSUME NEW k \in Lock, NEW u \in Task
          PROVE  Owns(u, k)' <=> Owns(u, k) \/ (u = t /\ k = lk)
      BY <1>1, <2>1 DEF Inv, TypeOK, Owns, HandedTo, Runs, BackFrom
    <2>6. LockHandedOver'
      BY <1>2, <2>1, <2>5 DEF Inv, TypeOK, LockHandedOver
    <2> QED
      BY <2>2, <2>3, <2>4, <2>6 DEF Inv
  <1>3. CASE lock_status[lk] # "UNLOCKED" /\ ClosesCycle(t, lk)
    <2>1. /\ at' = [at EXCEPT ![t] = "none"]
          /\ blocking_lock' = [blocking_lock EXCEPT ![t] = NULL]
          /\ UNCHANGED <<queue, status, lock_status, holds, held_task, sem, count, arg, round>>
      BY <1>3 DEF LockAcquireHelper, Resume
    <2>2. TypeOK'
      BY <2>1 DEF Inv, TypeOK, CallSite
    <2>3. ArgumentKept'
      BY <2>1, Sites DEF Inv, TypeOK, ArgumentKept
    <2>4. BlockedInQueue'
      BY <1>1, <2>1, QuietWaits DEF Inv, TypeOK
    <2>5. ASSUME NEW k \in Lock, NEW u \in Task
          PROVE  Owns(u, k)' <=> Owns(u, k)
      BY <1>1, <2>1 DEF Inv, TypeOK, Owns, HandedTo, Runs, BackFrom
    <2>6. LockHandedOver'
      BY <2>1, <2>5 DEF Inv, LockHandedOver
    <2> QED
      BY <2>2, <2>3, <2>4, <2>6 DEF Inv
  <1>4. CASE lock_status[lk] # "UNLOCKED" /\ ~ClosesCycle(t, lk)
    <2>1. /\ Block(t, lk, "lock_acquire")
          /\ blocking_lock' = [blocking_lock EXCEPT ![t] = lk]
          /\ UNCHANGED <<lock_status, holds, held_task, sem, count, arg, round>>
      BY <1>4 DEF LockAcquireHelper
    <2>2. /\ at' = [at EXCEPT ![t] = "lock_acquire"]
          /\ status' = [status EXCEPT ![t] = "BLOCKED"]
      BY <2>1 DEF Block
    <2>3. lk \in Object /\ WaitsFor(t, lk)'
      BY <2>1, <2>2 DEF WaitsFor, Object, Inv, TypeOK
    <2>4. \A u \in Task \ {t} : blocking_lock'[u] = blocking_lock[u] /\ arg'[u] = arg[u]
      BY <2>1 DEF Inv, TypeOK
    <2>5. /\ BlockedInQueue' /\ queue' \in [Object -> Seq(Task)]
          /\ \A y \in Object : \A u :
               InQueue(queue', y, u) <=> InQueue(queue, y, u) \/ (y = lk /\ u = t)
      BY <1>1, <2>1, <2>3, <2>4, BlockWaits
    <2>6. TypeOK'
      BY <2>1, <2>2, <2>5 DEF Inv, TypeOK, CallSite
    <2>7. ArgumentKept'
      BY <2>1, <2>2, Sites DEF Inv, TypeOK, ArgumentKept
    <2>8. ASSUME NEW k \in Lock, NEW u \in Task
          PROVE  Owns(u, k)' <=> Owns(u, k)
      BY <1>1, <2>1, <2>2 DEF Inv, TypeOK, Owns, HandedTo, Runs, BackFrom
    <2>9. \A k \in Lock, u \in Task :
            k # lk => (InQueue(queue', k, u) <=> InQueue(queue, k, u))
      BY <2>5 DEF Object
    <2>10. LockHandedOver'
      BY <1>4, <2>1, <2>8, <2>9 DEF Inv, LockHandedOver
    <2> QED
      BY <2>5, <2>6, <2>7, <2>10 DEF Inv
  <1> QED
    BY <1>2, <1>3, <1>4

\* Steps that leave the locks and the tasks at block() in lock_acquire_helper() alone.
LEMMA LocksUntouched ==
  ASSUME Inv, UNCHANGED lock_status,
         \A u \in Task :
           /\ holds'[u] \cap Lock = holds[u] \cap Lock
           /\ at'[u] = "lock_acquire" <=> at[u] = "lock_acquire"
           /\ at[u] = "lock_acquire" => status'[u] = status[u] /\ blocking_lock'[u] = blocking_lock[u],
         \A u \in Task, lk \in Lock : InQueue(queue', lk, u) => InQueue(queue, lk, u)
  PROVE  LockHandedOver'
  <1>1. ASSUME NEW u \in Task, NEW lk \in Lock PROVE Owns(u, lk)' <=> Owns(u, lk)
    <2>1. lk \in holds'[u] <=> lk \in holds[u]
      OBVIOUS
    <2>2. HandedTo(u, lk)' <=> HandedTo(u, lk)
      BY DEF HandedTo, Runs, BackFrom
    <2> QED
      BY <2>1, <2>2 DEF Owns
  <1> QED
    BY <1>1 DEF Inv, LockHandedOver

\* The return from block() in lock_acquire_helper().
LEMMA LockAcquiredInv ==
  ASSUME Inv, NEW t \in Task, LockAcquired(t)
  PROVE  Inv'
  <1> DEFINE lk == blocking_lock[t]
  <1>1. /\ status[t] = "READY" /\ at[t] = "lock_acquire" /\ lk \in Lock
        /\ at' = [at EXCEPT ![t] = "none"]
        /\ blocking_lock' = [blocking_lock EXCEPT ![t] = NULL]
        /\ holds' = [holds EXCEPT ![t] = @ \cup {lk}]
        /\ UNCHANGED <<queue, status, objects, arg, round>>
    BY DEF LockAcquired, Runs, BackFrom, Resume, Inv, ArgumentKept
  <1>2. TypeOK'
    BY <1>1 DEF Inv, TypeOK, CallSite, objects
  <1>3. ArgumentKept'
    BY <1>1, Sites DEF Inv, TypeOK, ArgumentKept
  <1>4. BlockedInQueue'
    BY <1>1, QuietWaits DEF Inv, TypeOK
  <1>5. ASSUME NEW k \in Lock, NEW u \in Task PROVE Owns(u, k)' <=> Owns(u, k)
    BY <1>1 DEF Inv, TypeOK, Owns, HandedTo, Runs, BackFrom
  <1>6. LockHandedOver'
    BY <1>1, <1>5 DEF Inv, LockHandedOver, objects
  <1> QED
    BY <1>2, <1>3, <1>4, <1>6 DEF Inv

\* What t gives up when it releases lk, and to whom.
LEMMA LockReleased ==
  ASSUME Inv, NEW t \in Task, NEW lk \in Lock, status[t] = "READY", at[t] = "none",
         lk \in holds[t], LockReleaseHelper(t, lk),
         queue' \in [Object -> Seq(Task)],
         at'[t] # "lock_acquire", blocking_lock' = blocking_lock,
         \A u \in Task \ {t} : at'[u] = at[u],
         \A u \in Task \ {t} : status'[u] = IF queue[lk] # <<>> /\ u = Head(queue[lk])
                                            THEN "READY" ELSE status[u],
         \A k \in Lock, u \in Task :
           InQueue(queue', k, u) <=> InQueue(queue, k, u) /\ ~(queue[lk] # <<>> /\ u = Head(queue[lk]))
  PROVE  LockHandedOver'
  <1>1. lk \in Object /\ queue \in [Object -> Seq(Task)] /\ LinkedOnce(queue)
    BY DEF Object, Inv, TypeOK, BlockedInQueue
  <1>2. /\ lock_status' = [lock_status EXCEPT ![lk] = Released(lk)]
        /\ holds' = [holds EXCEPT ![t] = @ \ {lk}]
    BY DEF LockReleaseHelper
  <1>3. lock_status[lk] = "LOCKED"
    BY DEF Inv, TypeOK, LockHandedOver, Owns
  <1>4. CASE queue[lk] = <<>>
    <2>1. \A u \in Task : ~InQueue(queue, lk, u)
      BY <1>1, <1>4, EmptyQueue
    <2>2. ASSUME NEW u \in Task, NEW k \in Lock
          PROVE  Owns(u, k)' <=> Owns(u, k) /\ ~(u = t /\ k = lk)
      BY <1>2, <1>4 DEF Inv, TypeOK, Owns, HandedTo, Runs, BackFrom
    <2>3. \A u \in Task : Owns(u, lk) => u = t
      BY DEF Inv, LockHandedOver, Owns
    <2>4. lock_status'[lk] = "UNLOCKED" /\ \A k \in Lock \ {lk} : lock_status'[k] = lock_status[k]
      BY <1>2, <1>4 DEF Released, Inv, TypeOK
    <2>5. \A k \in Lock, u \in Task : InQueue(queue', k, u) => InQueue(queue, k, u)
      OBVIOUS
    <2> QED
      BY <2>1, <2>2, <2>3, <2>4, <2>5 DEF Inv, LockHandedOver
  <1>5. CASE queue[lk] # <<>>
    <2> DEFINE h == Head(queue[lk])
    <2>1. h \in Task /\ InQueue(queue, lk, h)
      BY <1>1, <1>5, DequeueOnce
    <2>2. status[h] = "BLOCKED" /\ at[h] = "lock_acquire" /\ blocking_lock[h] = lk /\ h # t
      BY <1>1, <2>1, SyncAssumption DEF Inv, BlockedInQueue, WaitsFor
    <2>3. lock_status' = lock_status
      BY <1>2, <1>5 DEF Released, Inv, TypeOK
    <2>4. ASSUME NEW u \in Task, NEW k \in Lock
          PROVE  Owns(u, k)' <=> (Owns(u, k) /\ ~(u = t /\ k = lk)) \/ (u = h /\ k = lk)
      BY <1>2, <1>5, <2>1, <2>2 DEF Inv, TypeOK, Owns, HandedTo, Runs, BackFrom
    <2>5. \A u \in Task : Owns(u, lk) => u = t
      BY DEF Inv, LockHandedOver, Owns
    <2> QED
      BY <1>3, <2>1, <2>2, <2>3, <2>4, <2>5 DEF Inv, LockHandedOver
  <1> QED
    BY <1>4, <1>5

LEMMA LockReleaseInv ==
  ASSUME Inv, NEW t \in Task, NEW lk \in Lock, LockRelease(t, lk)
  PROVE  Inv'
  <1>1. /\ status[t] = "READY" /\ at[t] = "none" /\ lk \in holds[t] /\ LockReleaseHelper(t, lk)
        /\ UNCHANGED <<sem, count, blocking_lock, at, arg, round>>
    BY DEF LockRelease, Runs, BackFrom
  <1>2. lk \in Object /\ queue \in [Object -> Seq(Task)] /\ status \in [Task -> {"READY", "BLOCKED"}]
    BY DEF Object, Inv, TypeOK
  <1>3. /\ BlockedInQueue'
        /\ queue' \in [Object -> Seq(Task)]
        /\ \A y \in Object : \A u : InQueue(queue', y, u)
              <=> InQueue(queue, y, u) /\ ~(queue[lk] # <<>> /\ u = Head(queue[lk]))
        /\ status' \in [Task -> {"READY", "BLOCKED"}]
        /\ \A u \in Task : status'[u] = IF queue[lk] # <<>> /\ u = Head(queue[lk])
                                        THEN "READY" ELSE status[u]
    <2>1. CASE queue[lk] = <<>>
      <3>1. UNCHANGED <<queue, status>>
        BY <2>1 DEF LockRelease
      <3> QED
        BY <1>1, <1>2, <2>1, <3>1, QuietWaits
    <2>2. CASE queue[lk] # <<>>
      <3>1. UnblockOne(lk)
        BY <2>2 DEF LockRelease
      <3>2. status' = [status EXCEPT ![Head(queue[lk])] = "READY"]
        BY <3>1 DEF UnblockOne
      <3> QED
        BY <1>1, <1>2, <2>2, <3>1, <3>2, UnblockOneWaits
    <2> QED
      BY <2>1, <2>2
  <1>4. TypeOK'
    BY <1>1, <1>3 DEF Inv, TypeOK, LockReleaseHelper, Released
  <1>5. ArgumentKept'
    BY <1>1, Sites DEF Inv, ArgumentKept
  <1>6. LockHandedOver'
    BY <1>1, <1>3, LockReleased DEF Object
  <1> QED
    BY <1>3, <1>4, <1>5, <1>6 DEF Inv

\* The release of condition_wait().
LEMMA ConditionReleaseInv ==
  ASSUME Inv, NEW t \in Task, NEW m \in Lock, NEW c \in Condition, ConditionRelease(t, m, c)
  PROVE  Inv'
  <1>1. /\ status[t] = "READY" /\ at[t] = "none" /\ m \in holds[t] /\ LockReleaseHelper(t, m)
        /\ at' = [at EXCEPT ![t] = c] /\ arg' = [arg EXCEPT ![t] = m]
        /\ UNCHANGED <<sem, count, blocking_lock, round>>
    BY DEF ConditionRelease, Runs, BackFrom
  <1>2. m \in Object /\ queue \in [Object -> Seq(Task)] /\ status \in [Task -> {"READY", "BLOCKED"}]
    BY DEF Object, Inv, TypeOK
  <1>3. /\ at'[t] = c /\ arg'[t] = m /\ c \notin CallSite
        /\ \A u \in Task \ {t} : at'[u] = at[u] /\ arg'[u] = arg[u] /\ blocking_lock'[u] = blocking_lock[u]
    BY <1>1, SyncAssumption DEF Inv, TypeOK
  <1>4. /\ BlockedInQueue'
        /\ queue' \in [Object -> Seq(Task)]
        /\ \A y \in Object : \A u : InQueue(queue', y, u)
              <=> InQueue(queue, y, u) /\ ~(queue[m] # <<>> /\ u = Head(queue[m]))
        /\ status' \in [Task -> {"READY", "BLOCKED"}]
        /\ \A u \in Task : status'[u] = IF queue[m] # <<>> /\ u = Head(queue[m])
                                        THEN "READY" ELSE status[u]
    <2>1. CASE queue[m] = <<>>
      <3>1. UNCHANGED <<queue, status>>
        BY <2>1 DEF ConditionRelease
      <3> QED
        BY <1>1, <1>2, <1>3, <2>1, <3>1, QuietWaits
    <2>2. CASE queue[m] # <<>>
      <3>1. UnblockOne(m)
        BY <2>2 DEF ConditionRelease
      <3>2. status' = [status EXCEPT ![Head(queue[m])] = "READY"]
        BY <3>1 DEF UnblockOne
      <3>3. \A u \in Task : status[u] = "BLOCKED" =>
              at'[u] = at[u] /\ blocking_lock'[u] = blocking_lock[u] /\ arg'[u] = arg[u]
        BY <1>1, <1>3
      <3> QED
        BY <1>1, <1>2, <2>2, <3>1, <3>2, <3>3, UnblockOneWaits
    <2> QED
      BY <2>1, <2>2
  <1>5. TypeOK'
    BY <1>1, <1>4 DEF Inv, TypeOK, LockReleaseHelper, Released
  <1>6. ArgumentKept'
    BY <1>1, <1>3, SyncAssumption, Sites DEF Inv, ArgumentKept, CallSite
  <1>7. at'[t] # "lock_acquire"
    BY <1>3 DEF CallSite
  <1>8. LockHandedOver'
    BY <1>1, <1>3, <1>4, <1>7, LockReleased DEF Object
  <1> QED
    BY <1>4, <1>5, <1>6, <1>8 DEF Inv

\* A task inside the critical section of condition_wait() is ready.
LEMMA DisturberReady ==
  ASSUME Inv, NEW t \in Task, at[t] \in Condition
  PROVE  status[t] = "READY" /\ at[t] \notin CallSite /\ \A x \in Object : ~InQueue(queue, x, t)
  <1>1. at[t] \notin CallSite
    BY SyncAssumption
  <1> QED
    BY <1>1 DEF Inv, TypeOK, BlockedInQueue, WaitsFor, CallSite

\* Its block().
LEMMA ConditionBlockInv ==
  ASSUME Inv, NEW t \in Task, ConditionBlock(t)
  PROVE  Inv'
  <1>a. PICK c \in Condition : c = at[t]
    BY DEF ConditionBlock
  <1>1. /\ c \in Condition /\ c \notin CallSite /\ c \in Object /\ c \notin Lock /\ status[t] = "READY"
        /\ Block(t, c, "condition_wait")
        /\ UNCHANGED <<objects, blocking_lock, arg, holds, round>>
    BY <1>a, DisturberReady, SyncAssumption DEF ConditionBlock, Object, program
  <1>2. /\ at' = [at EXCEPT ![t] = "condition_wait"]
        /\ status' = [status EXCEPT ![t] = "BLOCKED"]
    BY <1>1 DEF Block
  <1>3. WaitsFor(t, c)'
    <2>1. at'[t] = "condition_wait"
      BY <1>2 DEF Inv, TypeOK
    <2>2. ASSUME NEW x \in Condition PROVE WaitsFor(t, x)'
      BY <2>1 DEF WaitsFor
    <2> QED
      BY <1>1, <2>2
  <1>0. \A u \in Task \ {t} : blocking_lock'[u] = blocking_lock[u] /\ arg'[u] = arg[u]
    BY <1>1
  <1>4. /\ BlockedInQueue' /\ queue' \in [Object -> Seq(Task)]
        /\ \A y \in Object : \A u : InQueue(queue', y, u) <=> InQueue(queue, y, u) \/ (y = c /\ u = t)
    BY <1>0, <1>1, <1>3, BlockWaits
  <1>5. TypeOK'
    BY <1>1, <1>2, <1>4 DEF Inv, TypeOK, CallSite, objects
  <1>6. ArgumentKept'
    BY <1>a, <1>1, <1>2, Sites DEF Inv, TypeOK, ArgumentKept
  <1>7. at[t] # "lock_acquire"
    BY <1>1, <1>a DEF CallSite
  <1>8. LockHandedOver'
    <2>1. \A u \in Task, lk \in Lock : InQueue(queue', lk, u) => InQueue(queue, lk, u)
      BY <1>1, <1>4 DEF Object
    <2>2. \A u \in Task :
            /\ at'[u] = "lock_acquire" <=> at[u] = "lock_acquire"
            /\ at[u] = "lock_acquire" => status'[u] = status[u]
      BY <1>2, <1>7 DEF Inv, TypeOK
    <2> QED
      BY <1>1, <2>1, <2>2, LocksUntouched DEF objects
  <1> QED
    BY <1>4, <1>5, <1>6, <1>8 DEF Inv

\* Steps that only wake the first task of a queue that is not a lock's.
LEMMA WakeOneInv ==
  ASSUME Inv, NEW t \in Task, NEW x \in Object \ Lock, queue[x] # <<>>, UnblockOne(x),
         UNCHANGED <<objects, blocking_lock, at, arg, round>>,
         holds' \in [Task -> SUBSET (Lock \cup Semaphore)],
         \A u \in Task : holds'[u] \cap Lock = holds[u] \cap Lock
  PROVE  Inv'
  <1>1. /\ BlockedInQueue' /\ queue' \in [Object -> Seq(Task)]
        /\ Head(queue[x]) \in Task /\ InQueue(queue, x, Head(queue[x]))
        /\ \A y \in Object : \A u : InQueue(queue', y, u) <=> InQueue(queue, y, u) /\ u # Head(queue[x])
    BY UnblockOneWaits
  <1>2. status' = [status EXCEPT ![Head(queue[x])] = "READY"]
    BY DEF UnblockOne
  <1>3. TypeOK'
    BY <1>1, <1>2 DEF Inv, TypeOK, objects
  <1>4. ArgumentKept'
    BY Sites DEF Inv, ArgumentKept
  <1>5. at[Head(queue[x])] # "lock_acquire"
    BY <1>1 DEF Inv, BlockedInQueue, WaitsFor
  <1>6. LockHandedOver'
    BY <1>1, <1>2, <1>5, LocksUntouched DEF Object, objects, Inv, TypeOK
  <1> QED
    BY <1>1, <1>3, <1>4, <1>6 DEF Inv

LEMMA ConditionBroadcastInv ==
  ASSUME Inv, NEW t \in Task, NEW c \in Condition, ConditionBroadcast(t, c)
  PROVE  Inv'
  <1>1. /\ status[t] = "READY" /\ UnblockAll(c)
        /\ UNCHANGED <<objects, blocking_lock, at, arg, program>>
    BY DEF ConditionBroadcast, Runs, BackFrom
  <1>2. c \in Object /\ c \notin Lock
    BY SyncAssumption DEF Object
  <1>3. /\ BlockedInQueue' /\ queue' \in [Object -> Seq(Task)]
        /\ \A y \in Object : \A u : InQueue(queue', y, u) <=> InQueue(queue, y, u) /\ y # c
    BY <1>1, <1>2, UnblockAllWaits
  <1>4. status' = [u \in Task |-> IF InQueue(queue, c, u) THEN "READY" ELSE status[u]]
    BY <1>1 DEF UnblockAll
  <1>5. TypeOK'
    BY <1>1, <1>3, <1>4 DEF Inv, TypeOK, objects, program
  <1>6. ArgumentKept'
    BY <1>1, Sites DEF Inv, ArgumentKept
  <1>7. \A u \in Task : at[u] = "lock_acquire" => ~InQueue(queue, c, u)
    BY <1>2, SyncAssumption DEF Inv, BlockedInQueue, WaitsFor
  <1>8. LockHandedOver'
    BY <1>1, <1>3, <1>4, <1>7, LocksUntouched DEF Object, objects, program
  <1> QED
    BY <1>3, <1>5, <1>6, <1>8 DEF Inv

LEMMA SemaphoreDownInv ==
  ASSUME Inv, NEW t \in Task, NEW s \in Semaphore, SemaphoreDown(t, s)
  PROVE  Inv'
  <1>1. /\ status[t] = "READY" /\ at[t] = "none" /\ s \in Object /\ s \notin Lock
        /\ UNCHANGED <<lock_status, held_task, count, blocking_lock, round>>
    BY SyncAssumption DEF SemaphoreDown, Runs, BackFrom, Object
  <1>2. CASE NoPermit(s)
    <2>1. /\ Block(t, s, "semaphore_down") /\ arg' = [arg EXCEPT ![t] = s]
          /\ UNCHANGED <<sem, holds>>
      BY <1>2 DEF SemaphoreDown
    <2>2. /\ at' = [at EXCEPT ![t] = "semaphore_down"]
          /\ status' = [status EXCEPT ![t] = "BLOCKED"]
      BY <2>1 DEF Block
    <2>3. WaitsFor(t, s)' /\ \A u \in Task \ {t} : blocking_lock'[u] = blocking_lock[u] /\ arg'[u] = arg[u]
      BY <1>1, <2>1, <2>2 DEF WaitsFor, Inv, TypeOK
    <2>4. /\ BlockedInQueue' /\ queue' \in [Object -> Seq(Task)]
          /\ \A y \in Object : \A u : InQueue(queue', y, u) <=> InQueue(queue, y, u) \/ (y = s /\ u = t)
      BY <1>1, <2>1, <2>3, BlockWaits
    <2>5. TypeOK'
      BY <1>1, <2>1, <2>2, <2>4 DEF Inv, TypeOK, CallSite
    <2>6. ArgumentKept'
      BY <1>1, <2>1, <2>2, Sites DEF Inv, TypeOK, ArgumentKept
    <2>7. LockHandedOver'
      BY <1>1, <2>1, <2>2, <2>4, LocksUntouched DEF Object, Inv, TypeOK
    <2> QED
      BY <2>4, <2>5, <2>6, <2>7 DEF Inv
  <1>3. CASE ~NoPermit(s)
    <2>1. /\ sem' = [sem EXCEPT ![s] = @ - 1] /\ sem[s] \in Nat /\ sem[s] > 0
          /\ holds' = [holds EXCEPT ![t] = @ \cup {s}]
          /\ UNCHANGED <<queue, status, at, arg>>
      BY <1>3 DEF SemaphoreDown, NoPermit, Inv, TypeOK
    <2>2. TypeOK'
      BY <1>1, <2>1 DEF Inv, TypeOK
    <2>3. ArgumentKept'
      BY <1>1, <2>1, Sites DEF Inv, ArgumentKept
    <2>4. BlockedInQueue'
      BY <1>1, <2>1, QuietWaits
    <2>5. LockHandedOver'
      BY <1>1, <2>1, LocksUntouched DEF Inv, TypeOK
    <2> QED
      BY <2>2, <2>3, <2>4, <2>5 DEF Inv
  <1> QED
    BY <1>2, <1>3

LEMMA SemaphoreUpInv ==
  ASSUME Inv, NEW t \in Task, NEW s \in Semaphore, SemaphoreUp(t, s)
  PROVE  Inv'
  <1>1. /\ status[t] = "READY" /\ s \in Object /\ s \notin Lock
        /\ holds' = [holds EXCEPT ![t] = @ \ {s}]
        /\ UNCHANGED <<lock_status, held_task, count, blocking_lock, at, arg, round>>
    BY SyncAssumption DEF SemaphoreUp, Runs, BackFrom, Object
  <1>2. /\ holds' \in [Task -> SUBSET (Lock \cup Semaphore)]
        /\ \A u \in Task : holds'[u] \cap Lock = holds[u] \cap Lock
    BY <1>1 DEF Inv, TypeOK
  <1>3. CASE HandsOver(s)
    BY <1>1, <1>2, <1>3, WakeOneInv DEF SemaphoreUp, HandsOver, objects
  <1>4. CASE ~HandsOver(s)
    <2>1. sem' = [sem EXCEPT ![s] = @ + 1] /\ UNCHANGED <<queue, status>>
      BY <1>4 DEF SemaphoreUp
    <2>2. TypeOK'
      BY <1>1, <1>2, <2>1 DEF Inv, TypeOK
    <2>3. ArgumentKept'
      BY <1>1, Sites DEF Inv, ArgumentKept
    <2>4. BlockedInQueue'
      BY <1>1, <2>1, QuietWaits
    <2>5. LockHandedOver'
      BY <1>1, <1>2, <2>1, LocksUntouched
    <2> QED
      BY <2>2, <2>3, <2>4, <2>5 DEF Inv
  <1> QED
    BY <1>3, <1>4

\* A round stays a number modulo 4.
LEMMA PassType ==
  ASSUME NEW t \in Task, round \in [Task -> 0 .. 3], round' = [round EXCEPT ![t] = (@ + 1) % 4]
  PROVE  round' \in [Task -> 0 .. 3]
  <1>1. ASSUME NEW n \in 0 .. 3 PROVE (n + 1) % 4 \in 0 .. 3
    <2>1. n = 0 \/ n = 1 \/ n = 2 \/ n = 3
      OBVIOUS
    <2>2. (0 + 1) % 4 \in 0 .. 3 /\ (1 + 1) % 4 \in 0 .. 3 /\ (2 + 1) % 4 \in 0 .. 3 /\ (3 + 1) % 4 \in 0 .. 3
      OBVIOUS
    <2> QED
      BY <2>1, <2>2
  <1>2. round[t] \in 0 .. 3
    OBVIOUS
  <1>3. (round[t] + 1) % 4 \in 0 .. 3
    BY <1>1, <1>2
  <1> QED
    BY <1>3

LEMMA BarrierWaitInv ==
  ASSUME Inv, NEW t \in Task, NEW b \in Barrier, BarrierWait(t, b)
  PROVE  Inv'
  <1>1. /\ status[t] = "READY" /\ at[t] = "none" /\ b \in Object /\ b \notin Lock
        /\ UNCHANGED <<lock_status, held_task, sem, blocking_lock, arg, holds>>
    BY SyncAssumption DEF BarrierWait, Runs, BackFrom, Object
  <1>2. CASE LastToArrive(b)
    <2>1. /\ UnblockAll(b) /\ count' = [count EXCEPT ![b] = 0]
          /\ round' = [round EXCEPT ![t] = (@ + 1) % 4] /\ UNCHANGED at
      BY <1>2 DEF BarrierWait, Pass
    <2>2. /\ BlockedInQueue' /\ queue' \in [Object -> Seq(Task)]
          /\ \A y \in Object : \A u : InQueue(queue', y, u) <=> InQueue(queue, y, u) /\ y # b
      BY <1>1, <2>1, UnblockAllWaits
    <2>3. status' = [u \in Task |-> IF InQueue(queue, b, u) THEN "READY" ELSE status[u]]
      BY <2>1 DEF UnblockAll
    <2>4. TypeOK'
      <3>1. round' \in [Task -> 0 .. 3]
        BY <2>1, PassType DEF Inv, TypeOK
      <3> QED
        BY <1>1, <2>1, <2>2, <2>3, <3>1 DEF Inv, TypeOK
    <2>5. ArgumentKept'
      BY <1>1, <2>1, Sites DEF Inv, ArgumentKept
    <2>6. \A u \in Task : at[u] = "lock_acquire" => ~InQueue(queue, b, u)
      BY <1>1, SyncAssumption DEF Inv, BlockedInQueue, WaitsFor
    <2>7. LockHandedOver'
      BY <1>1, <2>1, <2>2, <2>3, <2>6, LocksUntouched DEF Object
    <2> QED
      BY <2>2, <2>4, <2>5, <2>7 DEF Inv
  <1>3. CASE ~LastToArrive(b)
    <2>1. /\ Block(t, b, "barrier_wait") /\ count' = [count EXCEPT ![b] = @ + 1]
          /\ UNCHANGED round
      BY <1>3 DEF BarrierWait
    <2>2. /\ at' = [at EXCEPT ![t] = "barrier_wait"]
          /\ status' = [status EXCEPT ![t] = "BLOCKED"]
      BY <2>1 DEF Block
    <2>3. WaitsFor(t, b)'
      BY <1>1, <2>1, <2>2 DEF WaitsFor, Inv, TypeOK
    <2>4. /\ BlockedInQueue' /\ queue' \in [Object -> Seq(Task)]
          /\ \A y \in Object : \A u : InQueue(queue', y, u) <=> InQueue(queue, y, u) \/ (y = b /\ u = t)
      BY <1>1, <2>1, <2>3, BlockWaits
    <2>5. TypeOK'
      BY <1>1, <2>1, <2>2, <2>4 DEF Inv, TypeOK, CallSite
    <2>6. ArgumentKept'
      BY <1>1, <2>1, <2>2, Sites DEF Inv, TypeOK, ArgumentKept
    <2>7. LockHandedOver'
      BY <1>1, <2>1, <2>2, <2>4, LocksUntouched DEF Object, Inv, TypeOK
    <2> QED
      BY <2>4, <2>5, <2>6, <2>7 DEF Inv
  <1> QED
    BY <1>2, <1>3

\* The returns from block() that take no lock: semaphore_down() and barrier_wait().
LEMMA OtherReturnInv ==
  ASSUME Inv, NEW t \in Task, SemaphoreDowned(t) \/ BarrierPassed(t)
  PROVE  Inv'
  <1>1. /\ status[t] = "READY" /\ at[t] # "lock_acquire"
        /\ at' = [at EXCEPT ![t] = "none"]
        /\ UNCHANGED <<queue, status, objects, blocking_lock, arg>>
    BY DEF SemaphoreDowned, BarrierPassed, Runs, BackFrom, Resume
  <1>2. /\ holds' \in [Task -> SUBSET (Lock \cup Semaphore)]
        /\ \A u \in Task : holds'[u] \cap Lock = holds[u] \cap Lock
        /\ round' \in [Task -> 0 .. 3]
    <2>1. CASE SemaphoreDowned(t)
      <3>1. arg[t] \in Semaphore /\ arg[t] \notin Lock
        BY <2>1, SyncAssumption DEF SemaphoreDowned, Runs, BackFrom, Inv, ArgumentKept
      <3>2. holds' = [holds EXCEPT ![t] = @ \cup {arg[t]}] /\ round' = round
        BY <2>1 DEF SemaphoreDowned
      <3> QED
        BY <3>1, <3>2 DEF Inv, TypeOK
    <2>2. CASE BarrierPassed(t)
      <3>1. round' \in [Task -> 0 .. 3]
        BY <2>2, PassType DEF BarrierPassed, Pass, Inv, TypeOK
      <3> QED
        BY <2>2, <3>1 DEF BarrierPassed, Inv, TypeOK
    <2> QED
      BY <2>1, <2>2
  <1>3. TypeOK'
    BY <1>1, <1>2 DEF Inv, TypeOK, CallSite, objects
  <1>4. ArgumentKept'
    BY <1>1, Sites DEF Inv, TypeOK, ArgumentKept
  <1>5. BlockedInQueue'
    BY <1>1, QuietWaits DEF Inv, TypeOK
  <1>6. LockHandedOver'
    BY <1>1, <1>2, LocksUntouched DEF objects, Inv, TypeOK
  <1> QED
    BY <1>3, <1>4, <1>5, <1>6 DEF Inv

LEMMA NextInv == Inv /\ [Next]_vars => Inv'
  <1> SUFFICES ASSUME Inv, [Next]_vars PROVE Inv'
    OBVIOUS
  <1>1. ASSUME NEW t \in Task, Return(t) PROVE Inv'
    <2>1. CASE ConditionReacquire(t)
      <3>1. arg[t] \in Lock
        BY <2>1 DEF ConditionReacquire, Runs, BackFrom, Inv, ArgumentKept
      <3> QED
        BY <2>1, <3>1, LockAcquireHelperInv DEF ConditionReacquire
    <2> QED
      BY <1>1, <2>1, LockAcquiredInv, ConditionBlockInv, OtherReturnInv DEF Return
  <1>2. ASSUME NEW t \in Task, Acquire(t) PROVE Inv'
    BY <1>2, LockAcquireHelperInv DEF Acquire, LockAcquire
  <1>3. ASSUME NEW t \in Task, GiveBack(t) PROVE Inv'
    BY <1>3, LockReleaseInv, ConditionReleaseInv, SemaphoreUpInv DEF GiveBack
  <1>4. ASSUME NEW t \in Task, Arrive(t) PROVE Inv'
    BY <1>4, BarrierWaitInv DEF Arrive
  <1>5. ASSUME NEW t \in Task, NEW c \in Condition, ConditionSignal(t, c) PROVE Inv'
    <2>1. c \in Object \ Lock /\ queue[c] # <<>> /\ UnblockOne(c)
      BY <1>5, SyncAssumption DEF ConditionSignal, Object
    <2> QED
      BY <1>5, <2>1, WakeOneInv DEF ConditionSignal, program, Inv, TypeOK
  <1>6. CASE UNCHANGED vars
    BY <1>6 DEF vars, objects, program, Inv, TypeOK, ArgumentKept, BlockedInQueue, WaitsFor,
                LockHandedOver, Owns, HandedTo, Runs, BackFrom
  <1> QED
    BY <1>1, <1>2, <1>3, <1>4, <1>5, <1>6, ConditionBroadcastInv, SemaphoreDownInv DEF Next, Step

LEMMA InvAlways == Spec => []Inv
  BY InitInv, NextInv, PTL DEF Spec

\* Whatever the tasks, the objects and the order in which tasks run, the fields
\* of sync.h keep their types; a semaphore is never negative.
THEOREM TypeCorrect == Spec => []TypeOK
  BY InvAlways, PTL DEF Inv

\* No two tasks hold a lock together, though a release hands the lock to a task
\* that runs later and a third task may call lock_acquire() in between.
THEOREM LocksExclude == Spec => []MutualExclusion
  <1>1. Inv => MutualExclusion
    BY DEF Inv, LockHandedOver, Owns, MutualExclusion
  <1> QED
    BY <1>1, InvAlways, PTL

\* No hand-off is lost: a LOCKED lock has one owner, who holds it or was woken
\* with it, and nobody waits for an UNLOCKED one.
THEOREM LocksHandedOver == Spec => []LockHandedOver
  BY InvAlways, PTL DEF Inv

\* Who acquires a lock, and how.
LEMMA AcquiredByHandOff ==
  ASSUME Inv, NEW t \in Task, NEW lk \in Lock, [Next]_vars,
         lk \in holds'[t] \ holds[t], queue[lk] # <<>>
  PROVE  HandedTo(t, lk)
  <1>1. holds \in [Task -> SUBSET (Lock \cup Semaphore)] /\ lk \notin Semaphore
        /\ queue \in [Object -> Seq(Task)] /\ lk \in Object
    BY SyncAssumption DEF Inv, TypeOK, Object
  <1>2. lock_status[lk] # "UNLOCKED"
    <2>1. PICK u : InQueue(queue, lk, u)
      BY <1>1, EmptyQueue
    <2>2. u \in Task
      BY <1>1, <2>1 DEF InQueue
    <2> QED
      BY <2>1, <2>2 DEF Inv, LockHandedOver
  \* Only a step that adds lk to what its task holds is possible.
  <1>3. ASSUME NEW u \in Task, NEW x, holds' = [holds EXCEPT ![u] = @ \cup {x}] PROVE u = t /\ x = lk
    BY <1>1, <1>3
  <1>4. ASSUME NEW u \in Task, NEW x, holds' = [holds EXCEPT ![u] = @ \ {x}] PROVE FALSE
    BY <1>1, <1>4
  <1>5. ASSUME NEW u \in Task, NEW k \in Lock, LockAcquireHelper(u, k) PROVE FALSE
    BY <1>2, <1>3, <1>5 DEF LockAcquireHelper
  <1>6. ASSUME NEW u \in Task, Return(u) PROVE HandedTo(t, lk)
    <2>1. CASE LockAcquired(u)
      BY <1>3, <2>1 DEF LockAcquired, Runs, BackFrom, HandedTo
    <2>2. CASE ConditionReacquire(u)
      BY <1>5, <2>2 DEF ConditionReacquire, Runs, BackFrom, Inv, ArgumentKept
    <2>3. CASE SemaphoreDowned(u)
      <3>1. arg[u] \in Semaphore
        BY <2>3 DEF SemaphoreDowned, Runs, BackFrom, Inv, ArgumentKept
      <3> QED
        BY <1>1, <1>3, <2>3, <3>1 DEF SemaphoreDowned
    <2>4. CASE BarrierPassed(u) \/ ConditionBlock(u)
      BY <2>4 DEF BarrierPassed, ConditionBlock, program
    <2> QED
      BY <1>6, <2>1, <2>2, <2>3, <2>4 DEF Return
  <1>7. ASSUME NEW u \in Task, GiveBack(u) PROVE FALSE
    BY <1>4, <1>7 DEF GiveBack, LockRelease, ConditionRelease, LockReleaseHelper, SemaphoreUp
  <1>8. ASSUME NEW u \in Task, NEW s \in Semaphore, SemaphoreDown(u, s) PROVE FALSE
    BY <1>1, <1>3, <1>8 DEF SemaphoreDown
  <1>9. holds' # holds
    OBVIOUS
  <1> QED
    BY <1>5, <1>6, <1>7, <1>8, <1>9
       DEF Next, Step, Acquire, LockAcquire, Arrive, BarrierWait, ConditionSignal,
           ConditionBroadcast, program, vars

\* What a step can do to the queue of a lock.
QueueStep(lk) ==
  \/ queue'[lk] = queue[lk]
  \/ \E p \in Task : queue'[lk] = Append(queue[lk], p)
  \/ queue[lk] # <<>> /\ queue'[lk] = Tail(queue[lk])

LEMMA LockQueueSteps ==
  ASSUME Inv, [Next]_vars, NEW lk \in Lock
  PROVE  QueueStep(lk)
  <1>1. /\ queue \in [Object -> Seq(Task)] /\ lk \in Object
        /\ lk \notin Condition /\ lk \notin Semaphore /\ lk \notin Barrier
    BY SyncAssumption DEF Inv, TypeOK, Object
  <1>2. CASE queue' = queue
    BY <1>2 DEF QueueStep
  <1>3. ASSUME NEW u \in Task, NEW x \in Object, NEW site, Block(u, x, site) PROVE QueueStep(lk)
    BY <1>1, <1>3 DEF Block, Enqueue, QueueStep
  <1>4. ASSUME NEW x \in Object, queue[x] # <<>>, UnblockOne(x) PROVE QueueStep(lk)
    BY <1>1, <1>4 DEF UnblockOne, Dequeue, QueueStep
  <1>5. ASSUME NEW x \in Condition \cup Barrier, UnblockAll(x) PROVE QueueStep(lk)
    BY <1>1, <1>5 DEF UnblockAll, Flush, QueueStep
  <1>6. ASSUME NEW u \in Task, NEW k \in Lock, LockAcquireHelper(u, k) PROVE QueueStep(lk)
    BY <1>2, <1>3, <1>6 DEF LockAcquireHelper, Resume, Object
  <1>7. ASSUME NEW u \in Task, Return(u) PROVE QueueStep(lk)
    <2>1. CASE LockAcquired(u) \/ SemaphoreDowned(u) \/ BarrierPassed(u)
      BY <1>2, <2>1 DEF LockAcquired, SemaphoreDowned, BarrierPassed, Resume
    <2>2. CASE ConditionBlock(u)
      BY <1>3, <2>2 DEF ConditionBlock, Object
    <2>3. CASE ConditionReacquire(u)
      BY <1>6, <2>3 DEF ConditionReacquire, Runs, BackFrom, Inv, ArgumentKept
    <2> QED
      BY <1>7, <2>1, <2>2, <2>3 DEF Return
  <1>8. ASSUME NEW u \in Task, GiveBack(u) PROVE QueueStep(lk)
    <2>1. ASSUME NEW k \in Lock, LockRelease(u, k) PROVE QueueStep(lk)
      BY <1>2, <1>4, <2>1 DEF LockRelease, Object
    <2>2. ASSUME NEW k \in Lock, NEW c \in Condition, ConditionRelease(u, k, c) PROVE QueueStep(lk)
      BY <1>2, <1>4, <2>2 DEF ConditionRelease, Object
    <2>3. ASSUME NEW s \in Semaphore, SemaphoreUp(u, s) PROVE QueueStep(lk)
      BY <1>2, <1>4, <2>3 DEF SemaphoreUp, HandsOver, Object
    <2> QED
      BY <1>8, <2>1, <2>2, <2>3 DEF GiveBack
  <1>9. ASSUME NEW u \in Task, NEW b \in Barrier, BarrierWait(u, b) PROVE QueueStep(lk)
    BY <1>3, <1>5, <1>9 DEF BarrierWait, Object
  <1>10. ASSUME NEW c \in Condition, NEW u \in Task, ConditionSignal(u, c) \/ ConditionBroadcast(u, c)
         PROVE  QueueStep(lk)
    BY <1>4, <1>5, <1>10 DEF ConditionSignal, ConditionBroadcast, Object
  <1>11. ASSUME NEW u \in Task, NEW s \in Semaphore, SemaphoreDown(u, s) PROVE QueueStep(lk)
    BY <1>2, <1>3, <1>11 DEF SemaphoreDown, Object
  <1> QED
    BY <1>2, <1>6, <1>7, <1>8, <1>9, <1>10, <1>11 DEF Next, Step, Acquire, LockAcquire, Arrive, vars

\* None of them lets a task overtake another.
LEMMA OrderKept ==
  ASSUME Inv, NEW lk \in Lock, QueueStep(lk), NEW t \in Task, NEW u \in Task, t # u,
         InQueue(queue, lk, t), InQueue(queue', lk, t),
         Ahead(queue, lk, t, u) \/ (InQueue(queue', lk, u) /\ ~InQueue(queue, lk, u))
  PROVE  Ahead(queue', lk, t, u)
  <1>1. PICK q : q = queue[lk]
    OBVIOUS
  <1>2. PICK r : r = queue'[lk]
    OBVIOUS
  <1>3. q \in Seq(Task) /\ \A m, n \in DOMAIN q : q[m] = q[n] => m = n
    BY <1>1 DEF Object, Inv, TypeOK, BlockedInQueue, LinkedOnce
  <1>4. PICK k \in 1 .. Len(q) : q[k] = t
    BY <1>1, <1>3 DEF InQueue
  <1>5. CASE r = q
    BY <1>1, <1>2, <1>5 DEF Ahead, InQueue
  <1>6. ASSUME NEW p \in Task, r = Append(q, p) PROVE Ahead(queue', lk, t, u)
    <2>1. /\ DOMAIN r = 1 .. Len(q) + 1 /\ r[Len(q) + 1] = p
          /\ DOMAIN q = 1 .. Len(q) /\ Len(q) \in Nat
          /\ \A n \in 1 .. Len(q) : r[n] = q[n]
      BY <1>3, <1>6
    <2>2. CASE Ahead(queue, lk, t, u)
      <3>1. PICK m \in DOMAIN q, n \in DOMAIN q : m < n /\ q[m] = t /\ q[n] = u
        BY <1>1, <2>2 DEF Ahead
      <3>2. m \in DOMAIN r /\ n \in DOMAIN r /\ r[m] = t /\ r[n] = u
        BY <2>1, <3>1
      <3> QED
        BY <1>2, <3>1, <3>2 DEF Ahead
    <2>3. CASE InQueue(queue', lk, u) /\ ~InQueue(queue, lk, u)
      <3>1. PICK n \in 1 .. Len(q) + 1 : r[n] = u
        BY <1>2, <2>1, <2>3 DEF InQueue
      <3>2. n \notin 1 .. Len(q)
        BY <1>1, <2>1, <2>3, <3>1 DEF InQueue
      <3>3. k < n /\ k \in DOMAIN r /\ n \in DOMAIN r /\ r[k] = t
        BY <1>4, <2>1, <3>1, <3>2
      <3> QED
        BY <1>2, <3>1, <3>3 DEF Ahead
    <2> QED
      BY <2>2, <2>3
  <1>7. CASE q # <<>> /\ r = Tail(q)
    <2>1. /\ DOMAIN r = 1 .. Len(q) - 1 /\ DOMAIN q = 1 .. Len(q) /\ Len(q) \in Nat
          /\ \A n \in 1 .. Len(q) - 1 : r[n] = q[n + 1]
      BY <1>3, <1>7
    <2>2. PICK j \in 1 .. Len(q) - 1 : r[j] = t
      BY <1>2, <2>1 DEF InQueue
    <2>3. Ahead(queue, lk, t, u)
      <3> SUFFICES ASSUME InQueue(queue', lk, u) PROVE InQueue(queue, lk, u)
        OBVIOUS
      <3>1. PICK n \in 1 .. Len(q) - 1 : r[n] = u
        BY <1>2, <2>1 DEF InQueue
      <3>2. n + 1 \in DOMAIN q /\ q[n + 1] = u
        BY <2>1, <3>1
      <3> QED
        BY <1>1, <3>2 DEF InQueue
    <2>4. PICK m \in DOMAIN q, n \in DOMAIN q : m < n /\ q[m] = t /\ q[n] = u
      BY <1>1, <2>3 DEF Ahead
    <2>5. j + 1 \in DOMAIN q /\ q[j + 1] = t
      BY <2>1, <2>2
    <2>6. m = j + 1
      BY <1>3, <2>4, <2>5
    <2>7. m - 1 \in DOMAIN r /\ n - 1 \in DOMAIN r /\ m - 1 < n - 1
      BY <2>1, <2>2, <2>4, <2>6
    <2>8. r[m - 1] = q[(m - 1) + 1] /\ r[n - 1] = q[(n - 1) + 1]
      BY <2>1, <2>7
    <2>9. (m - 1) + 1 = m /\ (n - 1) + 1 = n
      BY <2>1, <2>4
    <2>10. r[m - 1] = t /\ r[n - 1] = u
      BY <2>4, <2>8, <2>9
    <2> QED
      BY <1>2, <2>7, <2>10 DEF Ahead
  <1> QED
    BY <1>1, <1>2, <1>5, <1>6, <1>7 DEF QueueStep

\* Locks are granted first come, first served: nobody overtakes a task that waits,
\* neither in the queue nor by finding the lock free.
THEOREM LocksFair == Spec => FirstComeFirstServed
  <1>1. Inv /\ [Next]_vars => [GrantedInOrder]_vars
    BY AcquiredByHandOff, LockQueueSteps, OrderKept DEF GrantedInOrder
  <1> QED
    BY <1>1, InvAlways, PTL DEF Spec, FirstComeFirstServed

-----------------------------------------------------------------------------
(* Steps that leave the semaphores, or the barriers, alone. *)

SemaphoresKept ==
  /\ sem' = sem
  /\ \A s \in Semaphore : queue'[s] = queue[s]
  /\ \A u \in Task, s \in Semaphore : s \in holds'[u] <=> s \in holds[u]
  /\ \A u \in Task : at'[u] = "semaphore_down" <=> at[u] = "semaphore_down"
  /\ \A u \in Task : at[u] = "semaphore_down" => status'[u] = status[u] /\ arg'[u] = arg[u]

BarriersKept ==
  /\ UNCHANGED <<count, round>>
  /\ \A b \in Barrier : queue'[b] = queue[b]
  /\ \A u \in Task : at'[u] = "barrier_wait" <=> at[u] = "barrier_wait"
  /\ \A u \in Task : at[u] = "barrier_wait" => status'[u] = status[u]

Elsewhere == {"semaphore_down", "barrier_wait"}

\* Steps of t on the locks and condition variables R, which wake only who waits there.
LEMMA ElsewhereKept ==
  ASSUME Inv, NEW t \in Task, at[t] \notin Elsewhere, at'[t] \notin Elsewhere,
         NEW R \in SUBSET (Lock \cup Condition),
         UNCHANGED <<sem, count, round>>,
         \A x \in Object \ R : queue'[x] = queue[x],
         \A u \in Task \ {t} : at'[u] = at[u] /\ arg'[u] = arg[u],
         \A u \in Task \ {t} : (\A x \in R : ~InQueue(queue, x, u)) => status'[u] = status[u],
         \A u \in Task : holds'[u] \ Lock = holds[u] \ Lock
  PROVE  SemaphoresKept /\ BarriersKept
  <1>1. Semaphore \cup Barrier \subseteq Object \ R /\ Semaphore \cap Lock = {} /\ R \subseteq Object
    BY SyncAssumption DEF Object
  <1>2. \A u \in Task, x \in R : InQueue(queue, x, u) => at[u] \notin Elsewhere
    <2> SUFFICES ASSUME NEW u \in Task, NEW x \in R, InQueue(queue, x, u)
                 PROVE  at[u] \notin Elsewhere
      OBVIOUS
    <2>1. WaitsFor(u, x)
      BY <1>1 DEF Inv, BlockedInQueue
    <2>2. x \notin Semaphore /\ x \notin Barrier
      BY <1>1
    <2> QED
      BY <2>1, <2>2 DEF WaitsFor, Elsewhere
  <1>3. \A u \in Task \ {t} : at[u] \in Elsewhere => status'[u] = status[u]
    BY <1>2
  <1>4. \A u \in Task : at'[u] \in Elsewhere \/ at[u] \in Elsewhere => u # t
    OBVIOUS
  <1>5. SemaphoresKept
    BY <1>1, <1>3, <1>4 DEF SemaphoresKept, Elsewhere
  <1>6. BarriersKept
    BY <1>1, <1>3, <1>4 DEF BarriersKept, Elsewhere
  <1> QED
    BY <1>5, <1>6

LEMMA LockStepKept ==
  ASSUME Inv, NEW t \in Task, NEW lk \in Lock,
         Runs(t, "none") \/ Runs(t, "condition_wait"),
         LockAcquireHelper(t, lk), UNCHANGED <<held_task, sem, count, arg, round>>
  PROVE  SemaphoresKept /\ BarriersKept
  <1>1. at[t] \notin Elsewhere
    BY DEF Runs, BackFrom, Elsewhere
  <1>2. /\ at'[t] \notin Elsewhere /\ \A u \in Task \ {t} : at'[u] = at[u] /\ status'[u] = status[u]
        /\ \A x \in Object \ {lk} : queue'[x] = queue[x]
        /\ \A u \in Task : holds'[u] \ Lock = holds[u] \ Lock
    <2>1. CASE lock_status[lk] = "UNLOCKED"
      <3>1. /\ holds' = [holds EXCEPT ![t] = @ \cup {lk}] /\ at' = [at EXCEPT ![t] = "none"]
            /\ UNCHANGED <<queue, status>>
        BY <2>1 DEF LockAcquireHelper, Resume
      <3>2. \A u \in Task : holds'[u] \ Lock = holds[u] \ Lock
        BY <3>1 DEF Inv, TypeOK
      <3> QED
        BY <3>1, <3>2 DEF Inv, TypeOK, Elsewhere
    <2>2. CASE lock_status[lk] # "UNLOCKED" /\ ClosesCycle(t, lk)
      BY <2>2 DEF LockAcquireHelper, Resume, Inv, TypeOK, Elsewhere
    <2>3. CASE lock_status[lk] # "UNLOCKED" /\ ~ClosesCycle(t, lk)
      BY <2>3 DEF LockAcquireHelper, Block, Enqueue, Inv, TypeOK, Elsewhere
    <2> QED
      BY <2>1, <2>2, <2>3
  <1> DEFINE R == {lk}
  <1>3. R \in SUBSET (Lock \cup Condition) /\ \A x \in Object \ R : queue'[x] = queue[x]
    BY <1>2
  <1>4. \A u \in Task \ {t} : at'[u] = at[u] /\ arg'[u] = arg[u] /\ status'[u] = status[u]
    BY <1>2
  <1> HIDE DEF R
  <1> QED
    BY <1>1, <1>2, <1>3, <1>4, ElsewhereKept

LEMMA LockAcquiredKept ==
  ASSUME Inv, NEW t \in Task, LockAcquired(t)
  PROVE  SemaphoresKept /\ BarriersKept
  <1>1. /\ at[t] = "lock_acquire" /\ blocking_lock[t] \in Lock
        /\ at' = [at EXCEPT ![t] = "none"]
        /\ holds' = [holds EXCEPT ![t] = @ \cup {blocking_lock[t]}]
        /\ UNCHANGED <<queue, status, sem, count, arg, round>>
    BY DEF LockAcquired, Runs, BackFrom, Resume, Inv, ArgumentKept, objects
  <1>2. blocking_lock[t] \notin Semaphore
    BY <1>1, SyncAssumption
  <1> QED
    BY <1>1, <1>2 DEF Inv, TypeOK, SemaphoresKept, BarriersKept

LEMMA LockReleaseKept ==
  ASSUME Inv, NEW t \in Task, NEW lk \in Lock, LockRelease(t, lk)
  PROVE  SemaphoresKept /\ BarriersKept
  <1>1. /\ at[t] \notin Elsewhere /\ at'[t] \notin Elsewhere
        /\ UNCHANGED <<sem, count, round, at, arg>>
    BY DEF LockRelease, Runs, BackFrom, Elsewhere
  <1>2. \A u \in Task : holds'[u] \ Lock = holds[u] \ Lock
    BY DEF LockRelease, LockReleaseHelper, Inv, TypeOK
  <1>3. lk \in Object /\ queue \in [Object -> Seq(Task)] /\ LinkedOnce(queue)
    BY DEF Object, Inv, TypeOK, BlockedInQueue
  <1>4. /\ \A x \in Object \ {lk} : queue'[x] = queue[x]
        /\ \A u \in Task : ~InQueue(queue, lk, u) => status'[u] = status[u]
    <2>1. CASE queue[lk] = <<>>
      BY <2>1 DEF LockRelease
    <2>2. CASE queue[lk] # <<>>
      <3>1. InQueue(queue, lk, Head(queue[lk]))
        BY <1>3, <2>2, DequeueOnce
      <3> QED
        BY <1>3, <2>2, <3>1 DEF LockRelease, UnblockOne, Dequeue, Inv, TypeOK
    <2> QED
      BY <2>1, <2>2
  <1> DEFINE R == {lk}
  <1>5. /\ R \in SUBSET (Lock \cup Condition) /\ \A x \in Object \ R : queue'[x] = queue[x]
        /\ \A u \in Task \ {t} : (\A x \in R : ~InQueue(queue, x, u)) => status'[u] = status[u]
    BY <1>4
  <1> HIDE DEF R
  <1> QED
    BY <1>1, <1>2, <1>5, ElsewhereKept

LEMMA ConditionReleaseKept ==
  ASSUME Inv, NEW t \in Task, NEW m \in Lock, NEW c \in Condition, ConditionRelease(t, m, c)
  PROVE  SemaphoresKept /\ BarriersKept
  <1>1. /\ at[t] \notin Elsewhere /\ at'[t] \notin Elsewhere
        /\ UNCHANGED <<sem, count, round>>
        /\ \A u \in Task \ {t} : at'[u] = at[u] /\ arg'[u] = arg[u]
    BY SyncAssumption DEF ConditionRelease, Runs, BackFrom, Elsewhere, CallSite, Inv, TypeOK
  <1>2. \A u \in Task : holds'[u] \ Lock = holds[u] \ Lock
    BY DEF ConditionRelease, LockReleaseHelper, Inv, TypeOK
  <1>3. m \in Object /\ queue \in [Object -> Seq(Task)] /\ LinkedOnce(queue)
    BY DEF Object, Inv, TypeOK, BlockedInQueue
  <1>4. /\ \A x \in Object \ {m} : queue'[x] = queue[x]
        /\ \A u \in Task : ~InQueue(queue, m, u) => status'[u] = status[u]
    <2>1. CASE queue[m] = <<>>
      BY <2>1 DEF ConditionRelease
    <2>2. CASE queue[m] # <<>>
      <3>1. InQueue(queue, m, Head(queue[m]))
        BY <1>3, <2>2, DequeueOnce
      <3> QED
        BY <1>3, <2>2, <3>1 DEF ConditionRelease, UnblockOne, Dequeue, Inv, TypeOK
    <2> QED
      BY <2>1, <2>2
  <1> DEFINE R == {m}
  <1>5. /\ R \in SUBSET (Lock \cup Condition) /\ \A x \in Object \ R : queue'[x] = queue[x]
        /\ \A u \in Task \ {t} : (\A x \in R : ~InQueue(queue, x, u)) => status'[u] = status[u]
    BY <1>4
  <1> HIDE DEF R
  <1> QED
    BY <1>1, <1>2, <1>5, ElsewhereKept

LEMMA ConditionBlockKept ==
  ASSUME Inv, NEW t \in Task, ConditionBlock(t)
  PROVE  SemaphoresKept /\ BarriersKept
  <1>1. /\ at[t] \in Condition /\ at[t] \notin CallSite
        /\ queue' = Enqueue(queue, at[t], t) /\ status' = [status EXCEPT ![t] = "BLOCKED"]
        /\ at' = [at EXCEPT ![t] = "condition_wait"]
        /\ UNCHANGED <<sem, count, arg, holds, round>>
    BY SyncAssumption DEF ConditionBlock, Block, objects, program
  <1>2. /\ at[t] \notin Elsewhere /\ at'[t] \notin Elsewhere
        /\ \A u \in Task \ {t} : at'[u] = at[u] /\ arg'[u] = arg[u]
    BY <1>1 DEF Elsewhere, CallSite, Inv, TypeOK
  <1> DEFINE R == {at[t]}
  <1>3. /\ R \in SUBSET (Lock \cup Condition) /\ \A x \in Object \ R : queue'[x] = queue[x]
        /\ \A u \in Task \ {t} : (\A x \in R : ~InQueue(queue, x, u)) => status'[u] = status[u]
    BY <1>1 DEF Enqueue, Inv, TypeOK
  <1> HIDE DEF R
  <1> QED
    BY <1>1, <1>2, <1>3, ElsewhereKept

LEMMA WakeKept ==
  ASSUME Inv, NEW t \in Task, NEW c \in Condition, ConditionSignal(t, c) \/ ConditionBroadcast(t, c)
  PROVE  SemaphoresKept /\ BarriersKept
  <1>1. /\ at[t] \notin Elsewhere /\ at'[t] \notin Elsewhere
        /\ UNCHANGED <<sem, count, round, at, arg, holds>>
    BY DEF ConditionSignal, ConditionBroadcast, Runs, BackFrom, Elsewhere, objects, program
  <1>2. c \in Object /\ queue \in [Object -> Seq(Task)] /\ LinkedOnce(queue)
    BY DEF Object, Inv, TypeOK, BlockedInQueue
  <1>3. /\ \A x \in Object \ {c} : queue'[x] = queue[x]
        /\ \A u \in Task : ~InQueue(queue, c, u) => status'[u] = status[u]
    <2>1. CASE ConditionSignal(t, c)
      <3>1. InQueue(queue, c, Head(queue[c]))
        BY <1>2, <2>1, DequeueOnce DEF ConditionSignal
      <3> QED
        BY <1>2, <2>1, <3>1 DEF ConditionSignal, UnblockOne, Dequeue, Inv, TypeOK
    <2>2. CASE ConditionBroadcast(t, c)
      BY <1>2, <2>2 DEF ConditionBroadcast, UnblockAll, Flush
    <2> QED
      BY <2>1, <2>2
  <1> DEFINE R == {c}
  <1>4. /\ R \in SUBSET (Lock \cup Condition) /\ \A x \in Object \ R : queue'[x] = queue[x]
        /\ \A u \in Task \ {t} : (\A x \in R : ~InQueue(queue, x, u)) => status'[u] = status[u]
    BY <1>3
  <1> HIDE DEF R
  <1> QED
    BY <1>1, <1>4, ElsewhereKept

\* Every step that is not one of a semaphore or of a barrier.
LEMMA OtherStepsKept ==
  ASSUME Inv, NEW t \in Task, Step(t),
         ~SemaphoreDowned(t), ~BarrierPassed(t), ~Arrive(t),
         \A s \in Semaphore : ~SemaphoreDown(t, s) /\ ~SemaphoreUp(t, s)
  PROVE  SemaphoresKept /\ BarriersKept
  <1>1. CASE ConditionReacquire(t)
    <2>1. arg[t] \in Lock
      BY <1>1 DEF ConditionReacquire, Runs, BackFrom, Inv, ArgumentKept
    <2> QED
      BY <1>1, <2>1, LockStepKept DEF ConditionReacquire
  <1>2. CASE Acquire(t)
    BY <1>2, LockStepKept DEF Acquire, LockAcquire
  <1>3. CASE LockAcquired(t)
    BY <1>3, LockAcquiredKept
  <1>4. CASE GiveBack(t)
    BY <1>4, LockReleaseKept, ConditionReleaseKept DEF GiveBack
  <1>5. CASE \E c \in Condition : ConditionSignal(t, c) \/ ConditionBroadcast(t, c)
    BY <1>5, WakeKept
  <1> QED
    BY <1>1, <1>2, <1>3, <1>4, <1>5, ConditionBlockKept DEF Step, Return

-----------------------------------------------------------------------------
(* Permits. *)

\* Who has a permit of s, and who was handed one and has not run since.
Users(s) == {t \in Task : s \in holds[t]}
Woken(s) == {t \in Task : BackFrom(t, "semaphore_down") /\ arg[t] = s}

\* Who waits for a permit has none, so that nobody is counted twice.
PermitInv ==
  /\ PermitsConserved
  /\ \A t \in Task : at[t] = "semaphore_down" => arg[t] \notin holds[t]

LEMMA InitPermits == IsFiniteSet(Task) /\ Init => PermitInv
  <1> SUFFICES ASSUME Init PROVE PermitInv
    OBVIOUS
  <1>1. /\ \A t \in Task : holds[t] = {} /\ at[t] = "none"
        /\ sem = Permits /\ \A s \in Semaphore : queue[s] = <<>> /\ Permits[s] \in Nat
    BY SyncAssumption DEF Init, Object
  <1>2. ASSUME NEW s \in Semaphore PROVE Users(s) = {} /\ Woken(s) = {}
    BY <1>1 DEF Users, Woken, Runs, BackFrom
  <1>3. Cardinality({}) = 0
    BY FS_EmptySet
  <1>4. ASSUME NEW s \in Semaphore
        PROVE  /\ sem[s] + Cardinality(Users(s)) + Cardinality(Woken(s)) = Permits[s]
               /\ sem[s] > 0 => queue[s] = <<>>
    <2>1. Cardinality(Users(s)) = 0 /\ Cardinality(Woken(s)) = 0
      BY <1>2, <1>3
    <2>2. sem[s] = Permits[s] /\ sem[s] \in Nat /\ queue[s] = <<>>
      BY <1>1
    <2> QED
      BY <2>1, <2>2
  <1> QED
    BY <1>1, <1>4 DEF PermitInv, PermitsConserved, Users, Woken

\* The permits of a semaphore that a step leaves alone.
LEMMA PermitsOfKept ==
  ASSUME PermitsConserved, NEW s \in Semaphore,
         sem'[s] = sem[s], queue'[s] = queue[s], Users(s)' = Users(s), Woken(s)' = Woken(s)
  PROVE  /\ sem'[s] + Cardinality(Users(s)') + Cardinality(Woken(s)') = Permits[s]
         /\ sem'[s] > 0 => queue'[s] = <<>>
  BY DEF PermitsConserved, Users, Woken

LEMMA KeptPermits == Inv /\ PermitInv /\ SemaphoresKept => PermitInv'
  <1> SUFFICES ASSUME Inv, PermitInv, SemaphoresKept PROVE PermitInv'
    OBVIOUS
  <1>1. ASSUME NEW s \in Semaphore PROVE Users(s)' = Users(s) /\ Woken(s)' = Woken(s)
    BY DEF SemaphoresKept, Users, Woken, Runs, BackFrom
  <1>2. ASSUME NEW s \in Semaphore
        PROVE  /\ sem'[s] + Cardinality(Users(s)') + Cardinality(Woken(s)') = Permits[s]
               /\ sem'[s] > 0 => queue'[s] = <<>>
    BY <1>1, PermitsOfKept DEF PermitInv, SemaphoresKept
  <1>3. \A t \in Task : at'[t] = "semaphore_down" => arg'[t] \notin holds'[t]
    BY DEF PermitInv, SemaphoresKept, Inv, ArgumentKept
  <1> QED
    BY <1>2, <1>3 DEF PermitInv, PermitsConserved, Users, Woken

\* A step of t with the semaphore s, as far as the other semaphores see it.
LEMMA OtherPermits ==
  ASSUME Inv, PermitsConserved, NEW t \in Task, NEW s \in Semaphore,
         \A r \in Semaphore \ {s} : sem'[r] = sem[r] /\ queue'[r] = queue[r],
         \A u \in Task, r \in Semaphore \ {s} : r \in holds'[u] <=> r \in holds[u],
         \A r \in Semaphore \ {s} : Woken(r)' = Woken(r),
         sem'[s] + Cardinality(Users(s)') + Cardinality(Woken(s)') = Permits[s],
         sem'[s] > 0 => queue'[s] = <<>>
  PROVE  PermitsConserved'
  <1>1. ASSUME NEW r \in Semaphore \ {s}
        PROVE  /\ sem'[r] + Cardinality(Users(r)') + Cardinality(Woken(r)') = Permits[r]
               /\ sem'[r] > 0 => queue'[r] = <<>>
    <2>1. Users(r)' = Users(r)
      BY DEF Users
    <2> QED
      BY <2>1, PermitsOfKept
  <1>2. \A r \in Semaphore :
          /\ sem'[r] + Cardinality(Users(r)') + Cardinality(Woken(r)') = Permits[r]
          /\ sem'[r] > 0 => queue'[r] = <<>>
    BY <1>1
  <1> QED
    BY <1>2 DEF PermitsConserved, Users, Woken

\* semaphore_down() up to block(), or to its end with the permit it took.
LEMMA DownPermits ==
  ASSUME IsFiniteSet(Task), Inv, PermitInv, NEW t \in Task, NEW s \in Semaphore, SemaphoreDown(t, s)
  PROVE  PermitInv'
  <1>1. /\ status[t] = "READY" /\ at[t] = "none" /\ s \notin holds[t] /\ s \in Object
        /\ sem[s] \in Nat /\ sem \in [Semaphore -> Nat]
        /\ status \in [Task -> {"READY", "BLOCKED"}] /\ at \in [Task -> CallSite \cup Condition]
        /\ arg \in [Task -> Lock \cup Semaphore \cup {NULL}]
        /\ holds \in [Task -> SUBSET (Lock \cup Semaphore)]
        /\ queue \in [Object -> Seq(Task)]
    BY DEF SemaphoreDown, Runs, BackFrom, Object, Inv, TypeOK
  <1>2. IsFiniteSet(Users(s)) /\ IsFiniteSet(Woken(s))
    BY FS_Subset DEF Users, Woken
  <1>3. Semaphore \subseteq Object
    BY DEF Object
  <1>4. sem[s] + Cardinality(Users(s)) + Cardinality(Woken(s)) = Permits[s]
    BY DEF PermitInv, PermitsConserved, Users, Woken
  <1>5. sem[s] > 0 => queue[s] = <<>>
    BY DEF PermitInv, PermitsConserved
  <1>6. Cardinality(Users(s)) \in Nat /\ Cardinality(Woken(s)) \in Nat
    BY <1>2, FS_CardinalityType
  <1>7. CASE NoPermit(s)
    <2>1. /\ queue' = [queue EXCEPT ![s] = Append(@, t)]
          /\ status' = [status EXCEPT ![t] = "BLOCKED"]
          /\ at' = [at EXCEPT ![t] = "semaphore_down"]
          /\ arg' = [arg EXCEPT ![t] = s]
          /\ UNCHANGED <<sem, holds>>
      BY <1>7 DEF SemaphoreDown, Block, Enqueue
    <2>2. \A r \in Semaphore : Users(r)' = Users(r) /\ Woken(r)' = Woken(r)
      BY <1>1, <2>1 DEF Users, Woken, Runs, BackFrom
    <2>3. \A r \in Semaphore \ {s} : queue'[r] = queue[r] /\ sem'[r] = sem[r]
      BY <1>1, <1>3, <2>1
    <2>4. sem[s] = 0 /\ sem' = sem
      BY <1>1, <1>7, <2>1 DEF NoPermit
    <2>5. PermitsConserved'
      BY <1>4, <2>1, <2>2, <2>3, <2>4, OtherPermits DEF PermitInv
    <2>6. \A u \in Task : at'[u] = "semaphore_down" => arg'[u] \notin holds'[u]
      BY <1>1, <2>1 DEF PermitInv
    <2> QED
      BY <2>5, <2>6 DEF PermitInv
  <1>8. CASE ~NoPermit(s)
    <2>1. /\ sem' = [sem EXCEPT ![s] = @ - 1] /\ sem[s] > 0
          /\ holds' = [holds EXCEPT ![t] = @ \cup {s}]
          /\ UNCHANGED <<queue, status, at, arg>>
      BY <1>1, <1>8 DEF SemaphoreDown, NoPermit
    <2>2. Users(s)' = Users(s) \cup {t} /\ t \notin Users(s)
      BY <1>1, <2>1 DEF Users
    <2>3. \A r \in Semaphore : Woken(r)' = Woken(r)
      BY <2>1 DEF Woken, Runs, BackFrom
    <2>4. Cardinality(Users(s)') = Cardinality(Users(s)) + 1
      BY <1>2, <2>2, FS_AddElement
    <2>5. /\ sem'[s] = sem[s] - 1
          /\ \A r \in Semaphore \ {s} : sem'[r] = sem[r] /\ queue'[r] = queue[r]
          /\ \A u \in Task, r \in Semaphore \ {s} : r \in holds'[u] <=> r \in holds[u]
      BY <1>1, <2>1
    <2>6. sem'[s] + Cardinality(Users(s)') + Cardinality(Woken(s)') = Permits[s]
      BY <1>1, <1>4, <1>6, <2>3, <2>4, <2>5
    <2>7. queue'[s] = <<>>
      BY <1>5, <2>1
    <2>8. PermitsConserved'
      BY <2>3, <2>5, <2>6, <2>7, OtherPermits DEF PermitInv
    <2>9. \A u \in Task : at'[u] = "semaphore_down" => arg'[u] \notin holds'[u]
      BY <1>1, <2>1 DEF PermitInv
    <2> QED
      BY <2>8, <2>9 DEF PermitInv
  <1> QED
    BY <1>7, <1>8

\* The return from block() in semaphore_down(), with the permit that was handed over.
LEMMA DownedPermits ==
  ASSUME IsFiniteSet(Task), Inv, PermitInv, NEW t \in Task, SemaphoreDowned(t)
  PROVE  PermitInv'
  <1>0. PICK s \in Semaphore : s = arg[t]
    BY DEF SemaphoreDowned, Runs, BackFrom, Inv, ArgumentKept
  <1>1. /\ status[t] = "READY" /\ at[t] = "semaphore_down" /\ s = arg[t] /\ s \notin holds[t]
        /\ at \in [Task -> CallSite \cup Condition] /\ holds \in [Task -> SUBSET (Lock \cup Semaphore)]
        /\ at' = [at EXCEPT ![t] = "none"]
        /\ holds' = [holds EXCEPT ![t] = @ \cup {s}]
        /\ UNCHANGED <<queue, status, sem, arg>>
    BY <1>0 DEF SemaphoreDowned, Runs, BackFrom, Resume, objects, Inv, TypeOK, PermitInv
  <1>2. IsFiniteSet(Users(s)) /\ IsFiniteSet(Woken(s))
    BY FS_Subset DEF Users, Woken
  <1>3. sem[s] + Cardinality(Users(s)) + Cardinality(Woken(s)) = Permits[s] /\ sem[s] \in Nat
    BY <1>1 DEF PermitInv, PermitsConserved, Users, Woken, Inv, TypeOK
  <1>4. /\ Users(s)' = Users(s) \cup {t} /\ t \notin Users(s)
        /\ Woken(s)' = Woken(s) \ {t} /\ t \in Woken(s)
        /\ \A r \in Semaphore \ {s} : Woken(r)' = Woken(r)
        /\ \A u \in Task, r \in Semaphore \ {s} : r \in holds'[u] <=> r \in holds[u]
    BY <1>1 DEF Users, Woken, Runs, BackFrom
  <1>5. /\ Cardinality(Users(s)') = Cardinality(Users(s)) + 1
        /\ Cardinality(Woken(s)') = Cardinality(Woken(s)) - 1
    <2>1. Cardinality(Users(s)') = Cardinality(Users(s)) + 1
      BY <1>2, <1>4, FS_AddElement
    <2>2. Cardinality(Woken(s)') = Cardinality(Woken(s)) - 1
      BY <1>2, <1>4, FS_RemoveElement
    <2> QED
      BY <2>1, <2>2
  <1>6. Cardinality(Users(s)) \in Nat /\ Cardinality(Woken(s)) \in Nat
    BY <1>2, FS_CardinalityType
  <1>7. sem' = sem /\ queue' = queue /\ (sem[s] > 0 => queue[s] = <<>>)
    BY <1>1 DEF PermitInv, PermitsConserved
  <1>8. sem'[s] + Cardinality(Users(s)') + Cardinality(Woken(s)') = Permits[s]
    BY <1>3, <1>5, <1>6, <1>7
  <1>9. PermitsConserved'
    BY <1>1, <1>4, <1>7, <1>8, OtherPermits DEF PermitInv
  <1>10. \A u \in Task : at'[u] = "semaphore_down" => arg'[u] \notin holds'[u]
    BY <1>1 DEF PermitInv
  <1> QED
    BY <1>9, <1>10 DEF PermitInv

\* semaphore_up(): the permit is handed to the first that waits, or is free.
LEMMA UpPermits ==
  ASSUME IsFiniteSet(Task), Inv, PermitInv, NEW t \in Task, NEW s \in Semaphore, SemaphoreUp(t, s)
  PROVE  PermitInv'
  <1>1. /\ status[t] = "READY" /\ at[t] = "none" /\ s \in holds[t] /\ s \in Object
        /\ sem[s] \in Nat /\ sem \in [Semaphore -> Nat]
        /\ status \in [Task -> {"READY", "BLOCKED"}]
        /\ holds \in [Task -> SUBSET (Lock \cup Semaphore)]
        /\ queue \in [Object -> Seq(Task)] /\ LinkedOnce(queue)
        /\ holds' = [holds EXCEPT ![t] = @ \ {s}]
        /\ UNCHANGED <<at, arg>>
    BY DEF SemaphoreUp, Runs, BackFrom, Object, Inv, TypeOK, BlockedInQueue
  <1>2. IsFiniteSet(Users(s)) /\ IsFiniteSet(Woken(s))
    BY FS_Subset DEF Users, Woken
  <1>3. Semaphore \subseteq Object
    BY DEF Object
  <1>4. /\ sem[s] + Cardinality(Users(s)) + Cardinality(Woken(s)) = Permits[s]
        /\ sem[s] > 0 => queue[s] = <<>>
    BY DEF PermitInv, PermitsConserved, Users, Woken
  <1>5. Cardinality(Users(s)) \in Nat /\ Cardinality(Woken(s)) \in Nat
    BY <1>2, FS_CardinalityType
  <1>6. Users(s)' = Users(s) \ {t} /\ t \in Users(s)
    BY <1>1 DEF Users
  <1>7. Cardinality(Users(s)') = Cardinality(Users(s)) - 1
    BY <1>2, <1>6, FS_RemoveElement
  <1>8. /\ \A u \in Task, r \in Semaphore \ {s} : r \in holds'[u] <=> r \in holds[u]
        /\ \A u \in Task : at'[u] = "semaphore_down" => arg'[u] \notin holds'[u]
    BY <1>1 DEF PermitInv
  <1>9. CASE HandsOver(s)
    <2> DEFINE h == Head(queue[s])
    <2>1. /\ queue' = Dequeue(queue, s) /\ status' = [status EXCEPT ![h] = "READY"]
          /\ sem' = sem /\ queue[s] # <<>> /\ sem[s] = 0
      BY <1>1, <1>9 DEF SemaphoreUp, HandsOver, UnblockOne
    <2>2. h \in Task /\ InQueue(queue, s, h)
      BY <1>1, <2>1, DequeueOnce
    <2>3. status[h] = "BLOCKED" /\ at[h] = "semaphore_down" /\ arg[h] = s
      BY <1>1, <2>2, SyncAssumption DEF Inv, BlockedInQueue, WaitsFor
    <2> HIDE DEF h
    <2>4. /\ Woken(s)' = Woken(s) \cup {h} /\ h \notin Woken(s)
          /\ \A r \in Semaphore \ {s} : Woken(r)' = Woken(r)
      BY <1>1, <2>1, <2>2, <2>3 DEF Woken, Runs, BackFrom
    <2>5. Cardinality(Woken(s)') = Cardinality(Woken(s)) + 1
      BY <1>2, <2>4, FS_AddElement
    <2>6. sem'[s] + Cardinality(Users(s)') + Cardinality(Woken(s)') = Permits[s]
      BY <1>1, <1>4, <1>5, <1>7, <2>1, <2>5
    <2>7. \A r \in Semaphore \ {s} : sem'[r] = sem[r] /\ queue'[r] = queue[r]
      BY <1>1, <1>3, <2>1 DEF Dequeue
    <2>8. sem'[s] > 0 => queue'[s] = <<>>
      BY <2>1
    <2>9. PermitsConserved'
      BY <1>8, <2>4, <2>6, <2>7, <2>8, OtherPermits DEF PermitInv
    <2> QED
      BY <1>8, <2>9 DEF PermitInv
  <1>10. CASE ~HandsOver(s)
    <2>1. sem' = [sem EXCEPT ![s] = @ + 1] /\ UNCHANGED <<queue, status>>
      BY <1>10 DEF SemaphoreUp
    <2>2. \A r \in Semaphore : Woken(r)' = Woken(r)
      BY <1>1, <2>1 DEF Woken, Runs, BackFrom
    <2>3. sem'[s] = sem[s] + 1 /\ \A r \in Semaphore \ {s} : sem'[r] = sem[r] /\ queue'[r] = queue[r]
      BY <1>1, <2>1
    <2>4. sem'[s] + Cardinality(Users(s)') + Cardinality(Woken(s)') = Permits[s]
      BY <1>1, <1>4, <1>5, <1>7, <2>2, <2>3
    <2>5. queue'[s] = <<>>
      BY <1>1, <1>4, <1>10, <2>1 DEF HandsOver
    <2>6. PermitsConserved'
      BY <1>8, <2>2, <2>3, <2>4, <2>5, OtherPermits DEF PermitInv
    <2> QED
      BY <1>8, <2>6 DEF PermitInv
  <1> QED
    BY <1>9, <1>10

\* Barriers do not touch semaphores, nor semaphores barriers.
LEMMA BarrierSteps ==
  ASSUME Inv, NEW t \in Task, BarrierPassed(t) \/ Arrive(t)
  PROVE  SemaphoresKept
  <1>1. \A s \in Semaphore, b \in Barrier : s # b /\ s \in Object /\ b \in Object
    BY SyncAssumption DEF Object
  <1>2. CASE BarrierPassed(t)
    BY <1>2 DEF BarrierPassed, Runs, BackFrom, Resume, objects, SemaphoresKept, Inv, TypeOK
  <1>3. CASE Arrive(t)
    <2>1. PICK b \in Barrier : BarrierWait(t, b)
      BY <1>3 DEF Arrive
    <2>2. status[t] = "READY" /\ at[t] = "none" /\ UNCHANGED <<sem, arg, holds>>
      BY <2>1 DEF BarrierWait, Runs, BackFrom
    <2>3. CASE LastToArrive(b)
      <3>1. /\ queue' = Flush(queue, b) /\ UNCHANGED at
            /\ status' = [u \in Task |-> IF InQueue(queue, b, u) THEN "READY" ELSE status[u]]
        BY <2>1, <2>3 DEF BarrierWait, UnblockAll
      <3>2. \A u \in Task : at[u] = "semaphore_down" => ~InQueue(queue, b, u)
        <4>1. b \in Object /\ b \notin Semaphore
          BY SyncAssumption DEF Object
        <4> QED
          BY <4>1 DEF Inv, BlockedInQueue, WaitsFor
      <3>3. \A s \in Semaphore : queue'[s] = queue[s]
        BY <1>1, <3>1 DEF Flush, Inv, TypeOK
      <3> QED
        BY <2>2, <3>1, <3>2, <3>3 DEF SemaphoresKept
    <2>4. CASE ~LastToArrive(b)
      <3>1. /\ queue' = Enqueue(queue, b, t)
            /\ status' = [status EXCEPT ![t] = "BLOCKED"]
            /\ at' = [at EXCEPT ![t] = "barrier_wait"]
        BY <2>1, <2>4 DEF BarrierWait, Block
      <3>2. \A s \in Semaphore : queue'[s] = queue[s]
        BY <1>1, <3>1 DEF Enqueue, Inv, TypeOK
      <3> QED
        BY <2>2, <3>1, <3>2 DEF SemaphoresKept, Inv, TypeOK
    <2> QED
      BY <2>3, <2>4
  <1> QED
    BY <1>2, <1>3

LEMMA SemaphoreSteps ==
  ASSUME Inv, NEW t \in Task,
         SemaphoreDowned(t) \/ \E s \in Semaphore : SemaphoreDown(t, s) \/ SemaphoreUp(t, s)
  PROVE  BarriersKept
  <1>1. \A s \in Semaphore, b \in Barrier : s # b /\ s \in Object /\ b \in Object
    BY SyncAssumption DEF Object
  <1>2. queue \in [Object -> Seq(Task)] /\ LinkedOnce(queue)
    BY DEF Inv, TypeOK, BlockedInQueue
  <1>3. CASE SemaphoreDowned(t)
    BY <1>3 DEF SemaphoreDowned, Runs, BackFrom, Resume, objects, BarriersKept, Inv, TypeOK
  <1>4. ASSUME NEW s \in Semaphore, SemaphoreDown(t, s) PROVE BarriersKept
    <2>1. status[t] = "READY" /\ at[t] = "none" /\ UNCHANGED <<count, round>>
      BY <1>4 DEF SemaphoreDown, Runs, BackFrom
    <2>2. CASE NoPermit(s)
      <3>1. /\ queue' = Enqueue(queue, s, t)
            /\ status' = [status EXCEPT ![t] = "BLOCKED"]
            /\ at' = [at EXCEPT ![t] = "semaphore_down"]
        BY <1>4, <2>2 DEF SemaphoreDown, Block
      <3>2. \A b \in Barrier : queue'[b] = queue[b]
        BY <1>1, <1>2, <3>1 DEF Enqueue
      <3> QED
        BY <2>1, <3>1, <3>2 DEF BarriersKept, Inv, TypeOK
    <2>3. CASE ~NoPermit(s)
      BY <1>4, <2>1, <2>3 DEF SemaphoreDown, BarriersKept
    <2> QED
      BY <2>2, <2>3
  <1>5. ASSUME NEW s \in Semaphore, SemaphoreUp(t, s) PROVE BarriersKept
    <2>1. UNCHANGED <<count, round, at>>
      BY <1>5 DEF SemaphoreUp
    <2>2. CASE HandsOver(s)
      <3>1. /\ queue' = Dequeue(queue, s) /\ queue[s] # <<>>
            /\ status' = [status EXCEPT ![Head(queue[s])] = "READY"]
        BY <1>5, <2>2 DEF SemaphoreUp, HandsOver, UnblockOne
      <3>2. Head(queue[s]) \in Task /\ InQueue(queue, s, Head(queue[s])) /\ s \in Object
        BY <1>2, <3>1, DequeueOnce DEF Object
      <3>3. at[Head(queue[s])] = "semaphore_down"
        BY <3>2, SyncAssumption DEF Inv, BlockedInQueue, WaitsFor
      <3>4. \A b \in Barrier : queue'[b] = queue[b]
        BY <1>1, <1>2, <3>1 DEF Dequeue
      <3> QED
        BY <2>1, <3>1, <3>2, <3>3, <3>4 DEF BarriersKept, Inv, TypeOK
    <2>3. CASE ~HandsOver(s)
      BY <1>5, <2>1, <2>3 DEF SemaphoreUp, BarriersKept
    <2> QED
      BY <2>2, <2>3
  <1> QED
    BY <1>3, <1>4, <1>5

LEMMA NextPermits == IsFiniteSet(Task) /\ Inv /\ PermitInv /\ [Next]_vars => PermitInv'
  <1> SUFFICES ASSUME IsFiniteSet(Task), Inv, PermitInv, [Next]_vars PROVE PermitInv'
    OBVIOUS
  <1>1. CASE UNCHANGED vars
    BY <1>1, KeptPermits DEF vars, objects, program, SemaphoresKept
  <1>2. ASSUME NEW t \in Task, Step(t) PROVE PermitInv'
    <2>1. CASE SemaphoreDowned(t)
      BY <2>1, DownedPermits
    <2>2. CASE \E s \in Semaphore : SemaphoreDown(t, s) \/ SemaphoreUp(t, s)
      BY <2>2, DownPermits, UpPermits
    <2>3. CASE BarrierPassed(t) \/ Arrive(t)
      BY <2>3, BarrierSteps, KeptPermits
    <2> QED
      BY <1>2, <2>1, <2>2, <2>3, OtherStepsKept, KeptPermits
  <1> QED
    BY <1>1, <1>2 DEF Next

\* Permits are neither made nor lost: a permit is free, in use, or handed to a task
\* that was woken and has not run since (semaphore_up(), sync.c).
THEOREM PermitsKept ==
  ASSUME IsFiniteSet(Task)
  PROVE  Spec => []PermitsConserved
  <1>1. PermitInv => PermitsConserved
    BY DEF PermitInv
  <1>2. Init => PermitInv
    BY InitPermits
  <1>3. Inv /\ PermitInv /\ [Next]_vars => PermitInv'
    BY NextPermits
  <1> QED
    BY <1>1, <1>2, <1>3, InvAlways, PTL DEF Spec

-----------------------------------------------------------------------------
(* Barriers. *)

\* The count of a barrier is that of the tasks in its queue, and all tasks are in the
\* same round, but those that were woken and have not run since: they are one behind.
OneBehind(t) == BackFrom(t, "barrier_wait")
RoundInv ==
  /\ \A b \in Barrier : count[b] = Len(queue[b]) /\ count[b] < Total[b]
  /\ \E g \in 0 .. 3 : \A t \in Task : round[t] = IF OneBehind(t) THEN (g + 3) % 4 ELSE g

LEMMA InitRound == Init => RoundInv
  <1> SUFFICES ASSUME Init PROVE RoundInv
    OBVIOUS
  <1>1. \A b \in Barrier : count[b] = 0 /\ queue[b] = << >> /\ Total[b] \in Nat \ {0}
    BY SyncAssumption DEF Init, Object
  <1>2. \A t \in Task : round[t] = 0 /\ ~OneBehind(t)
    BY DEF Init, OneBehind, Runs, BackFrom
  <1> QED
    BY <1>1, <1>2 DEF RoundInv

LEMMA KeptRound == RoundInv /\ BarriersKept => RoundInv'
  <1> SUFFICES ASSUME RoundInv, BarriersKept PROVE RoundInv'
    OBVIOUS
  <1>1. \A t \in Task : OneBehind(t)' <=> OneBehind(t)
    BY DEF BarriersKept, OneBehind, Runs, BackFrom
  <1>2. PICK g \in 0 .. 3 : \A t \in Task : round[t] = IF OneBehind(t) THEN (g + 3) % 4 ELSE g
    BY DEF RoundInv
  <1>3. \A t \in Task : round'[t] = IF OneBehind(t)' THEN (g + 3) % 4 ELSE g
    BY <1>1, <1>2 DEF BarriersKept
  <1> QED
    BY <1>3 DEF RoundInv, BarriersKept

LEMMA Rounds == \A g \in 0 .. 3 : (g + 1) % 4 \in 0 .. 3 /\ (((g + 1) % 4) + 3) % 4 = g
                                  /\ (g + 3) % 4 \in 0 .. 3 /\ (((g + 3) % 4) + 1) % 4 = g
  <1> SUFFICES ASSUME NEW g \in 0 .. 3
               PROVE  (g + 1) % 4 \in 0 .. 3 /\ (((g + 1) % 4) + 3) % 4 = g
                      /\ (g + 3) % 4 \in 0 .. 3 /\ (((g + 3) % 4) + 1) % 4 = g
    OBVIOUS
  <1>1. CASE g = 0
    BY <1>1
  <1>2. CASE g = 1
    BY <1>2
  <1>3. CASE g = 2
    BY <1>3
  <1>4. CASE g = 3
    BY <1>4
  <1> QED
    BY <1>1, <1>2, <1>3, <1>4

\* When the last of S arrives at a barrier that is for S, all others of S are in its queue f.
LEMMA OthersWait ==
  ASSUME NEW S, IsFiniteSet(S), NEW t \in S, NEW f \in Seq(S \ {t}),
         \A j, k \in 1 .. Len(f) : f[j] = f[k] => j = k, Len(f) + 1 >= Cardinality(S)
  PROVE  \A u \in S \ {t} : \E j \in 1 .. Len(f) : f[j] = u
  <1>1. PICK T : T = S \ {t}
    OBVIOUS
  <1>2. PICK n \in Nat : n = Len(f)
    OBVIOUS
  <1>3. PICK c \in Nat : c = Cardinality(S)
    BY FS_CardinalityType
  <1>4. IsFiniteSet(T) /\ Cardinality(T) = c - 1
    BY <1>1, <1>3, FS_RemoveElement
  <1>5. Cardinality(1 .. n) = n
    <2>1. 1 \in Int /\ n \in Int
      OBVIOUS
    <2>2. Cardinality(1 .. n) = IF 1 > n THEN 0 ELSE n - 1 + 1
      BY <2>1, FS_Interval
    <2> QED
      BY <2>2
  <1>6. f \in [1 .. n -> T]
    BY <1>1, <1>2
  <1>7. f \in Injection(1 .. n, T)
    BY <1>2, <1>6 DEF Injection, IsInjective
  <1>8. IsFiniteSet(1 .. n)
    BY FS_Interval
  <1>9. n <= c - 1
    <2>1. Cardinality(1 .. n) <= Cardinality(T)
      BY <1>4, <1>7, FS_Injection
    <2> QED
      BY <1>4, <1>5, <2>1
  <1>10. n = c - 1
    BY <1>2, <1>3, <1>9
  <1>11. f \in Surjection(1 .. n, T)
    BY <1>4, <1>5, <1>7, <1>10, FS_Injection
  <1> QED
    BY <1>1, <1>2, <1>11 DEF Surjection

\* When the last task arrives at the barrier, all others wait there.
LEMMA AllArrived ==
  ASSUME IsFiniteSet(Task), Inv, RoundInv, NEW t \in Task, NEW b \in Barrier,
         Total[b] = Cardinality(Task), Runs(t, "none"), LastToArrive(b)
  PROVE  \A u \in Task \ {t} : InQueue(queue, b, u)
  <1>1. b \in Object /\ queue \in [Object -> Seq(Task)] /\ LinkedOnce(queue) /\ DOMAIN queue = Object
    BY DEF Object, Inv, TypeOK, BlockedInQueue
  <1>2. PICK f \in Seq(Task) : f = queue[b]
    BY <1>1
  <1>3. Len(f) + 1 >= Cardinality(Task)
    <2>1. Cardinality(Task) \in Nat
      BY FS_CardinalityType
    <2>2. count[b] = Len(f) /\ count[b] + 1 >= Total[b]
      BY <1>2 DEF RoundInv, LastToArrive
    <2> QED
      BY <2>1, <2>2
  <1>4. \A j \in 1 .. Len(f) : f[j] \in Task \ {t}
    <2>1. ~InQueue(queue, b, t)
      BY <1>1 DEF Inv, BlockedInQueue, Runs, BackFrom
    <2> QED
      BY <1>2, <2>1 DEF InQueue
  <1>5. f \in Seq(Task \ {t})
    BY <1>2, <1>4
  <1>6. \A j, k \in 1 .. Len(f) : f[j] = f[k] => j = k
    BY <1>1, <1>2 DEF LinkedOnce
  <1>7. \A u \in Task \ {t} : \E j \in 1 .. Len(f) : f[j] = u
    BY <1>3, <1>5, <1>6, OthersWait
  <1> QED
    BY <1>2, <1>7 DEF InQueue

\* There is one barrier, and it is for all tasks.
ForAllTasks == IsFiniteSet(Task) /\ (\A b \in Barrier : Total[b] = Cardinality(Task))
               /\ \A b, c \in Barrier : b = c

LEMMA ArriveRound ==
  ASSUME ForAllTasks, Inv, RoundInv, NEW t \in Task, NEW b \in Barrier, BarrierWait(t, b)
  PROVE  RoundInv'
  <1>1. /\ Runs(t, "none") /\ status[t] = "READY" /\ at[t] = "none" /\ b \in Object
        /\ \A c \in Barrier : c = b
        /\ count \in [Barrier -> Nat] /\ queue \in [Object -> Seq(Task)]
        /\ at \in [Task -> CallSite \cup Condition] /\ round \in [Task -> 0 .. 3]
        /\ status \in [Task -> {"READY", "BLOCKED"}]
    BY DEF BarrierWait, Runs, BackFrom, Object, Inv, TypeOK, ForAllTasks
  <1>2. count[b] = Len(queue[b]) /\ Total[b] \in Nat \ {0}
    BY SyncAssumption DEF RoundInv
  <1>3. PICK g \in 0 .. 3 : \A u \in Task : round[u] = IF OneBehind(u) THEN (g + 3) % 4 ELSE g
    BY DEF RoundInv
  <1>4. ~OneBehind(t)
    BY <1>1 DEF OneBehind, Runs, BackFrom
  <1>5. CASE LastToArrive(b)
    <2>1. /\ queue' = Flush(queue, b) /\ count' = [count EXCEPT ![b] = 0]
          /\ status' = [u \in Task |-> IF InQueue(queue, b, u) THEN "READY" ELSE status[u]]
          /\ round' = [round EXCEPT ![t] = (@ + 1) % 4] /\ at' = at
      BY <1>5 DEF BarrierWait, UnblockAll, Pass
    <2>2. \A u \in Task \ {t} : InQueue(queue, b, u) /\ status[u] = "BLOCKED" /\ at[u] = "barrier_wait"
      <3>1. \A u \in Task \ {t} : InQueue(queue, b, u)
        BY <1>1, <1>5, AllArrived DEF ForAllTasks
      <3> QED
        BY <1>1, <3>1, SyncAssumption DEF Inv, BlockedInQueue, WaitsFor
    <2>3. \A u \in Task \ {t} : OneBehind(u)' /\ ~OneBehind(u)
      BY <2>1, <2>2 DEF OneBehind, Runs, BackFrom
    <2>4. ~OneBehind(t)'
      BY <1>1, <2>1 DEF OneBehind, Runs, BackFrom
    <2>5. \A u \in Task : round[u] = g
      BY <1>3, <1>4, <2>3
    <2>6. \A u \in Task \ {t} : round'[u] = g
      BY <1>1, <2>1, <2>5
    <2>7. round'[t] = (g + 1) % 4
      BY <1>1, <2>1, <2>5
    <2>8. (g + 1) % 4 \in 0 .. 3 /\ (((g + 1) % 4) + 3) % 4 = g
      BY Rounds
    <2>9. PICK k \in 0 .. 3 : k = (g + 1) % 4
      BY <2>8
    <2>10. \A u \in Task : round'[u] = IF OneBehind(u)' THEN (k + 3) % 4 ELSE k
      BY <2>3, <2>4, <2>6, <2>7, <2>8, <2>9
    <2>11. count'[b] = 0 /\ queue'[b] = << >>
      BY <1>1, <2>1 DEF Flush
    <2>12. Len(<< >>) = 0 /\ 0 < Total[b]
      BY <1>2
    <2>13. \A c \in Barrier : count'[c] = Len(queue'[c]) /\ count'[c] < Total[c]
      BY <1>1, <2>11, <2>12
    <2> QED
      BY <2>10, <2>13 DEF RoundInv
  <1>6. CASE ~LastToArrive(b)
    <2>1. /\ queue' = [queue EXCEPT ![b] = Append(@, t)] /\ count' = [count EXCEPT ![b] = @ + 1]
          /\ status' = [status EXCEPT ![t] = "BLOCKED"]
          /\ at' = [at EXCEPT ![t] = "barrier_wait"] /\ round' = round
      BY <1>6 DEF BarrierWait, Block, Enqueue
    <2>2. \A u \in Task : OneBehind(u)' <=> OneBehind(u)
      BY <1>1, <1>4, <2>1 DEF OneBehind, Runs, BackFrom
    <2>3. count'[b] = count[b] + 1 /\ queue'[b] = Append(queue[b], t)
      BY <1>1, <2>1
    <2>4. Len(Append(queue[b], t)) = Len(queue[b]) + 1
      BY <1>1
    <2>5. count'[b] = Len(queue'[b]) /\ count'[b] < Total[b]
      BY <1>1, <1>2, <1>6, <2>3, <2>4 DEF LastToArrive
    <2>6. \A u \in Task : round'[u] = IF OneBehind(u)' THEN (g + 3) % 4 ELSE g
      BY <1>3, <2>1, <2>2
    <2> QED
      BY <1>1, <2>5, <2>6 DEF RoundInv
  <1> QED
    BY <1>5, <1>6

LEMMA PassedRound ==
  ASSUME Inv, RoundInv, NEW t \in Task, BarrierPassed(t)
  PROVE  RoundInv'
  <1>1. /\ status[t] = "READY" /\ at[t] = "barrier_wait"
        /\ at \in [Task -> CallSite \cup Condition] /\ round \in [Task -> 0 .. 3]
        /\ at' = [at EXCEPT ![t] = "none"]
        /\ round' = [round EXCEPT ![t] = (@ + 1) % 4]
        /\ UNCHANGED <<count, queue, status>>
    BY DEF BarrierPassed, Runs, BackFrom, Resume, Pass, objects, Inv, TypeOK
  <1>2. PICK g \in 0 .. 3 : \A u \in Task : round[u] = IF OneBehind(u) THEN (g + 3) % 4 ELSE g
    BY DEF RoundInv
  <1>3. OneBehind(t) /\ ~OneBehind(t)' /\ \A u \in Task \ {t} : OneBehind(u)' <=> OneBehind(u)
    BY <1>1 DEF OneBehind, Runs, BackFrom
  <1>4. round[t] = (g + 3) % 4 /\ round'[t] = (round[t] + 1) % 4
    BY <1>1, <1>2, <1>3
  <1>5. round'[t] = g
    BY <1>4, Rounds
  <1>6. \A u \in Task \ {t} : round'[u] = round[u]
    BY <1>1
  <1>7. \A u \in Task : round'[u] = IF OneBehind(u)' THEN (g + 3) % 4 ELSE g
    BY <1>2, <1>3, <1>5, <1>6
  <1> QED
    BY <1>1, <1>7 DEF RoundInv

LEMMA NextRound == ForAllTasks /\ Inv /\ RoundInv /\ [Next]_vars => RoundInv'
  <1> SUFFICES ASSUME ForAllTasks, Inv, RoundInv, [Next]_vars PROVE RoundInv'
    OBVIOUS
  <1>1. CASE UNCHANGED vars
    BY <1>1, KeptRound DEF vars, objects, program, BarriersKept
  <1>2. ASSUME NEW t \in Task, Step(t) PROVE RoundInv'
    <2>1. CASE SemaphoreDowned(t) \/ \E s \in Semaphore : SemaphoreDown(t, s) \/ SemaphoreUp(t, s)
      BY <2>1, SemaphoreSteps, KeptRound
    <2>2. CASE BarrierPassed(t)
      BY <2>2, PassedRound
    <2>3. CASE Arrive(t)
      BY <2>3, ArriveRound DEF Arrive
    <2> QED
      BY <1>2, <2>1, <2>2, <2>3, OtherStepsKept, KeptRound
  <1> QED
    BY <1>1, <1>2 DEF Next

\* A task that arrived is at most one round ahead of a task that was not woken, and
\* two of one that was.
LEMMA RoundsApart ==
  \A g \in 0 .. 3 : \A x \in {g, g + 1, ((g + 3) % 4) + 1} : \A y \in {g, (g + 3) % 4} :
    (x - y) % 4 \in {0, 1, 2}
  <1> SUFFICES ASSUME NEW g \in 0 .. 3, NEW x \in {g, g + 1, ((g + 3) % 4) + 1}, NEW y \in {g, (g + 3) % 4}
               PROVE  (x - y) % 4 \in {0, 1, 2}
    OBVIOUS
  <1>1. CASE g = 0
    BY <1>1
  <1>2. CASE g = 1
    BY <1>2
  <1>3. CASE g = 2
    BY <1>3
  <1>4. CASE g = 3
    BY <1>4
  <1> QED
    BY <1>1, <1>2, <1>3, <1>4

\* With one barrier for all tasks, no task passes it before all have arrived, round
\* after round, and they never all wait (barrier_wait(), sync.c).
THEOREM BarriersHold ==
  ASSUME ForAllTasks
  PROVE  Spec => []BarrierHolds
  <1>1. Inv /\ RoundInv => BarrierHolds
    <2> SUFFICES ASSUME Inv, RoundInv PROVE BarrierHolds
      OBVIOUS
    <2>1. PICK g \in 0 .. 3 : \A t \in Task : round[t] = IF OneBehind(t) THEN (g + 3) % 4 ELSE g
      BY DEF RoundInv
    <2>2. ASSUME NEW u \in Task PROVE Arrived(u) \in {g, g + 1, ((g + 3) % 4) + 1}
      BY <2>1 DEF Arrived, OneBehind, Runs, BackFrom
    <2>3. \A t \in Task : round[t] \in {g, (g + 3) % 4}
      BY <2>1
    <2>4. \A t, u \in Task : (Arrived(u) - round[t]) % 4 \in {0, 1, 2}
      BY <2>2, <2>3, RoundsApart
    <2>5. \A b \in Barrier : Len(queue[b]) < Total[b]
      BY DEF RoundInv
    <2> QED
      BY <2>4, <2>5 DEF BarrierHolds
  <1>2. Init => RoundInv
    BY InitRound
  <1>3. Inv /\ RoundInv /\ [Next]_vars => RoundInv'
    BY NextRound
  <1> QED
    BY <1>1, <1>2, <1>3, InvAlways, PTL DEF Spec

-----------------------------------------------------------------------------
(* The walk of lock_acquire_helper() over the holders of locks. *)

\* held_task is never anything but NULL.
NoHolder == held_task = [lk \in Lock |-> NULL]

\* So the walk ends with its first step and comes back to nobody.
LEMMA NoCycle ==
  ASSUME IsFiniteSet(Task), TypeOK, NoHolder, NEW t \in Task, NEW lk \in Lock
  PROVE  ~ClosesCycle(t, lk)
  <1>1. PICK waits : waits = [blocking_lock EXCEPT ![t] = lk]
    OBVIOUS
  <1>2. waits[t] = lk /\ lk # NULL /\ t # NULL /\ held_task[lk] = NULL
    BY <1>1, SyncAssumption DEF TypeOK, NoHolder, Object
  <1>3. PICK c \in Nat : c = Cardinality(Task)
    BY FS_CardinalityType
  <1> DEFINE body(f) == [n \in 0 .. c |-> IF n = 0 THEN t ELSE Holder(f[n - 1], waits)]
             g == [n \in 0 .. c |-> IF n = 0 THEN t ELSE NULL]
             w == CHOOSE f : f = body(f)
  <1>4. ClosesCycle(t, lk) <=> \E n \in 1 .. c : w[n] = t
    BY <1>1, <1>3 DEF ClosesCycle
  <1>5. \A n \in 0 .. c : n # 0 => Holder(g[n - 1], waits) = NULL
    <2> SUFFICES ASSUME NEW n \in 0 .. c, n # 0 PROVE Holder(g[n - 1], waits) = NULL
      OBVIOUS
    <2>1. n - 1 \in 0 .. c /\ g[n - 1] \in {t, NULL}
      OBVIOUS
    <2> QED
      BY <1>2, <2>1 DEF Holder
  <1>6. g = body(g)
    BY <1>5
  <1>7. w = body(w)
    BY <1>6
  <1> HIDE DEF w
  <1>8. \A n \in 0 .. c : w[n] = g[n]
    <2> DEFINE bad == {n \in 0 .. c : w[n] # g[n]}
    <2> SUFFICES ASSUME bad # {} PROVE FALSE
      OBVIOUS
    <2>1. PICK m \in bad : \A j \in bad : m <= j
      <3>1. bad \in SUBSET Nat
        OBVIOUS
      <3> HIDE DEF bad
      <3> QED
        BY <3>1, LeastNat
    <2>2. w[m] = IF m = 0 THEN t ELSE Holder(w[m - 1], waits)
      BY <1>7
    <2>3. CASE m = 0
      BY <2>1, <2>2, <2>3
    <2>4. CASE m # 0
      <3>1. m - 1 \in 0 .. c /\ m - 1 \notin bad
        BY <2>1, <2>4
      <3>2. w[m - 1] = g[m - 1]
        BY <3>1
      <3>3. w[m] = NULL /\ g[m] = NULL
        BY <1>5, <2>1, <2>2, <2>4, <3>2
      <3> QED
        BY <2>1, <3>3
    <2> QED
      BY <2>3, <2>4
  <1>9. \A n \in 1 .. c : w[n] = NULL
    BY <1>8
  <1> QED
    BY <1>2, <1>4, <1>9

LEMMA NoHolderNext == NoHolder /\ [Next]_vars => NoHolder'
  <1> SUFFICES ASSUME NoHolder, [Next]_vars PROVE NoHolder'
    OBVIOUS
  <1>1. ASSUME NEW t \in Task, NEW lk \in Lock, LockReleaseHelper(t, lk) PROVE NoHolder'
    BY <1>1 DEF LockReleaseHelper, NoHolder
  <1>2. CASE UNCHANGED held_task
    BY <1>2 DEF NoHolder
  <1>3. ASSUME NEW t \in Task, Return(t) PROVE NoHolder'
    BY <1>2, <1>3 DEF Return, LockAcquired, ConditionBlock, ConditionReacquire, SemaphoreDowned, BarrierPassed, objects
  <1>4. ASSUME NEW t \in Task, GiveBack(t) PROVE NoHolder'
    BY <1>1, <1>2, <1>4 DEF GiveBack, LockRelease, ConditionRelease, SemaphoreUp
  <1> QED
    BY <1>2, <1>3, <1>4
       DEF Next, Step, Acquire, LockAcquire, Arrive, BarrierWait, ConditionSignal,
           ConditionBroadcast, SemaphoreDown, vars, objects

LEMMA NoHolderAlways == Spec => []NoHolder
  <1>1. Init => NoHolder
    BY DEF Init, NoHolder
  <1> QED
    BY <1>1, NoHolderNext, PTL DEF Spec

\* lock_acquire() never reports a deadlock, whatever waits for what: the walk that
\* looks for one (sync.c:41-51) follows held_task, which nobody sets.
THEOREM DeadlockNeverReported ==
  ASSUME IsFiniteSet(Task)
  PROVE  Spec => [](\A t \in Task, lk \in Lock : ~ClosesCycle(t, lk))
  <1>1. TypeOK /\ NoHolder => \A t \in Task, lk \in Lock : ~ClosesCycle(t, lk)
    BY NoCycle
  <1> QED
    BY <1>1, TypeCorrect, NoHolderAlways, PTL

-----------------------------------------------------------------------------
(* th2.c, for any number of turns. *)

\* What a return from block() leaves alone.
LEMMA ReturnKeeps ==
  ASSUME NEW t \in Task, ReturnToProgram(t)
  PROVE  /\ Next /\ UNCHANGED programVars /\ arg' = arg
         /\ TypeOK => \A u \in Task : u # t =>
              at'[u] = at[u] /\ holds'[u] = holds[u] /\ blocking_lock'[u] = blocking_lock[u]
  <1>1. Return(t) /\ UNCHANGED programVars /\ Next
    BY DEF ReturnToProgram, Next, Step
  <1>2. arg' = arg
    BY <1>1 DEF Return, LockAcquired, ConditionBlock, ConditionReacquire, SemaphoreDowned, BarrierPassed
  <1>3. ASSUME TypeOK, NEW u \in Task, u # t
        PROVE  at'[u] = at[u] /\ holds'[u] = holds[u] /\ blocking_lock'[u] = blocking_lock[u]
    <2>1. CASE ConditionReacquire(t)
      BY <1>3, <2>1 DEF ConditionReacquire, LockAcquireHelper, Resume, Block, TypeOK
    <2>2. CASE ~ConditionReacquire(t)
      BY <1>1, <1>3, <2>2
         DEF Return, LockAcquired, ConditionBlock, SemaphoreDowned, BarrierPassed, Resume, Block, objects, program, TypeOK
    <2> QED
      BY <2>1, <2>2
  <1> QED
    BY <1>1, <1>2, <1>3

Threads == {thread2, thread3}
Inside == {"test", "read", "write", "signal", "leave", "count", "leave_last"}
Outside == {"start", "enter", "enter_last", "done"}

\* A thread in the monitor has the lock, or is in lock_acquire() or
\* condition_wait() for it.
Placed(t) ==
  /\ point[t] \in Inside /\ at[t] = "none" => l \in holds[t]
  /\ point[t] \in Outside => at[t] = "none" /\ l \notin holds[t]
  /\ \/ at[t] = "none"
     \/ at[t] \in {"condition_wait"} \cup Condition /\ point[t] = "test" /\ arg[t] = l
     \/ at[t] = "lock_acquire" /\ point[t] \in {"test", "count"} /\ blocking_lock[t] = l

\* What it knows of the variables.
Knows(t) ==
  /\ point[t] \in {"read", "write"} => MayUse(t)
  /\ point[t] = "write" => tmp[t] = shared_var
  /\ point[t] \in {"enter_last", "count", "leave_last", "done"} => i[t] = MonitorTurns(t)

Increments(t) == i[t] + (IF point[t] \in {"signal", "leave"} THEN 1 ELSE 0)
Exits(t) == IF point[t] \in {"leave_last", "done"} THEN 1 ELSE 0

MonitorTypes ==
  /\ point \in [Task -> Inside \cup Outside] /\ i \in [Task -> Nat] /\ tmp \in [Task -> Nat]
  /\ shared_var \in Nat /\ exit_count \in Nat /\ eating = [t \in Task |-> FALSE]

MonitorInv ==
  /\ MonitorTypes
  /\ \A t \in Threads : Placed(t) /\ Knows(t)
  /\ shared_var = Increments(thread2) + Increments(thread3)
  /\ exit_count = Exits(thread2) + Exits(thread3)

LEMMA MonitorInit == Init /\ ProgramInit => MonitorInv
  <1> SUFFICES ASSUME Init, ProgramInit PROVE MonitorInv
    OBVIOUS
  <1>1. Threads \subseteq Task
    BY ProgramsAssumption DEF Threads
  <1>2. MonitorTypes
    BY DEF ProgramInit, MonitorTypes, Outside
  <1>3. ASSUME NEW t \in Threads
        PROVE  Placed(t) /\ Knows(t) /\ Increments(t) = 0 /\ Exits(t) = 0
    BY <1>1 DEF Init, ProgramInit, Placed, Knows, Increments, Exits, Inside, Outside
  <1>4. shared_var = 0 /\ exit_count = 0
    BY DEF ProgramInit
  <1> QED
    BY <1>2, <1>3, <1>4 DEF MonitorInv, Threads

LEMMA MonitorAssertsIt == MonitorInv => AssertsHold
  <1> SUFFICES ASSUME MonitorInv PROVE AssertsHold
    OBVIOUS
  <1>1. \A t \in {thread2, thread3} :
          /\ point[t] \in {"read", "write"} => MayUse(t)
          /\ point[t] = "write" => tmp[t] = shared_var
    BY DEF MonitorInv, Threads, Knows
  <1>2. ASSUME exit_count = 2 PROVE shared_var = 3 * Turns
    <2>1. Exits(thread2) = 1 /\ Exits(thread3) = 1
      BY <1>2 DEF MonitorInv, Exits
    <2>2. i[thread2] = 2 * Turns /\ i[thread3] = Turns
      BY <2>1, ProgramsAssumption DEF Exits, MonitorInv, Threads, Knows, MonitorTurns
    <2>3. Increments(thread2) = 2 * Turns /\ Increments(thread3) = Turns
      BY <2>1, <2>2, ProgramsAssumption DEF Exits, Increments
    <2> QED
      BY <2>3, ProgramsAssumption DEF MonitorInv
  <1>3. BarrierAsserts
    BY ProgramsAssumption DEF MonitorInv, MonitorTypes, BarrierAsserts, Inside, Outside
  <1>4. PhilosopherAsserts
    BY ProgramsAssumption DEF MonitorInv, MonitorTypes, PhilosopherAsserts, Inside, Outside
  <1> QED
    BY <1>1, <1>2, <1>3, <1>4 DEF AssertsHold, MonitorAsserts

LEMMA OtherThread ==
  ASSUME NEW t \in Threads
  PROVE  \E u \in Threads : u # t /\ Threads = {t, u} /\ <<thread2, thread3>> \in {<<t, u>>, <<u, t>>}
  BY ProgramsAssumption DEF Threads

\* A step of the thread t, or its return from block().
LEMMA MonitorStepInv ==
  ASSUME Inv, MonitorInv, NEW t \in Threads,
         MonitorTypes', Placed(t)', Knows(t)',
         \A u \in Threads : u # t =>
           /\ at'[u] = at[u] /\ holds'[u] = holds[u] /\ blocking_lock'[u] = blocking_lock[u]
           /\ arg'[u] = arg[u] /\ point'[u] = point[u] /\ i'[u] = i[u] /\ tmp'[u] = tmp[u]
           /\ shared_var' = shared_var \/ point[u] \notin {"read", "write"},
         shared_var' - shared_var = Increments(t)' - Increments(t),
         exit_count' - exit_count = Exits(t)' - Exits(t)
  PROVE  MonitorInv'
  <1>1. PICK u \in Threads : u # t /\ Threads = {t, u} /\ <<thread2, thread3>> \in {<<t, u>>, <<u, t>>}
    BY OtherThread
  <1>2. Placed(u)'
    BY <1>1 DEF MonitorInv, Placed
  <1>3. Knows(u)'
    BY <1>1 DEF MonitorInv, Knows, MayUse
  <1>4. Increments(u)' = Increments(u) /\ Exits(u)' = Exits(u)
    BY <1>1 DEF Increments, Exits
  <1>5. /\ shared_var \in Nat /\ shared_var' \in Nat /\ exit_count \in Nat /\ exit_count' \in Nat
        /\ \A v \in Threads : Increments(v) \in Nat /\ Increments(v)' \in Nat
                              /\ Exits(v) \in Nat /\ Exits(v)' \in Nat
    <2>1. \A v \in Threads : v \in Task
      BY ProgramsAssumption DEF Threads
    <2>2. /\ shared_var \in Nat /\ shared_var' \in Nat /\ exit_count \in Nat /\ exit_count' \in Nat
          /\ i \in [Task -> Nat] /\ i' \in [Task -> Nat]
      BY DEF MonitorInv, MonitorTypes
    <2> QED
      BY <2>1, <2>2 DEF Increments, Exits
  <1>6. shared_var = Increments(t) + Increments(u) /\ exit_count = Exits(t) + Exits(u)
    BY <1>1, <1>5 DEF MonitorInv
  <1>7. shared_var' = Increments(t)' + Increments(u)' /\ exit_count' = Exits(t)' + Exits(u)'
    BY <1>4, <1>5, <1>6
  <1>8. /\ shared_var' = Increments(thread2)' + Increments(thread3)'
        /\ exit_count' = Exits(thread2)' + Exits(thread3)'
    BY <1>1, <1>5, <1>7
  <1>9. \A v \in Threads : Placed(v)' /\ Knows(v)'
    BY <1>1, <1>2, <1>3
  <1> QED
    BY <1>8, <1>9 DEF MonitorInv

\* In the monitor past block() there is one thread.
LEMMA AloneInMonitor ==
  ASSUME Inv, MonitorInv, NEW t \in Threads, NEW u \in Threads, u # t,
         point[t] \in Inside, at[t] = "none", point[u] \in Inside, at[u] = "none"
  PROVE  FALSE
  <1>1. l \in holds[t] /\ l \in holds[u]
    BY DEF MonitorInv, Placed
  <1>2. l \in Lock /\ t \in Task /\ u \in Task
    BY ProgramsAssumption DEF Threads
  <1> QED
    BY <1>1, <1>2 DEF Inv, LockHandedOver, Owns

\* lock_acquire_helper() of t for l: t gets l or waits for it.
LEMMA HelperPlaces ==
  ASSUME TypeOK, NoHolder, NEW t \in Task, LockAcquireHelper(t, l)
  PROVE  /\ \/ at'[t] = "none" /\ l \in holds'[t]
            \/ at'[t] = "lock_acquire" /\ blocking_lock'[t] = l
         /\ \A u \in Task : u # t =>
              at'[u] = at[u] /\ holds'[u] = holds[u] /\ blocking_lock'[u] = blocking_lock[u]
  <1>1. l \in Lock /\ IsFiniteSet(Task)
    BY ProgramsAssumption
  <1>2. ~ClosesCycle(t, l)
    BY <1>1, NoCycle
  <1>3. /\ at \in [Task -> CallSite \cup Condition] /\ blocking_lock \in [Task -> Lock \cup {NULL}]
        /\ holds \in [Task -> SUBSET (Lock \cup Semaphore)]
    BY DEF TypeOK
  <1>4. CASE lock_status[l] = "UNLOCKED"
    BY <1>3, <1>4 DEF LockAcquireHelper, Resume
  <1>5. CASE lock_status[l] # "UNLOCKED"
    BY <1>2, <1>3, <1>5 DEF LockAcquireHelper, Block
  <1> QED
    BY <1>4, <1>5

MonitorPremise(t) == Inv /\ NoHolder /\ MonitorInv /\ t \in Threads

LEMMA ThreadTypes ==
  ASSUME NEW t, MonitorPremise(t)
  PROVE  /\ t \in Task /\ Threads \subseteq Task /\ l \in Lock /\ TypeOK /\ MonitorTypes
         /\ Placed(t) /\ Knows(t)
         /\ at \in [Task -> CallSite \cup Condition] /\ blocking_lock \in [Task -> Lock \cup {NULL}]
         /\ arg \in [Task -> Lock \cup Semaphore \cup {NULL}]
         /\ holds \in [Task -> SUBSET (Lock \cup Semaphore)]
         /\ Own(t) \in Condition /\ Other(t) \in Condition
  BY ProgramsAssumption DEF MonitorPremise, Threads, MonitorInv, Inv, TypeOK, Own, Other

\* The steps that move t and nothing else of the program.
LEMMA MonitorGoto ==
  ASSUME NEW t, MonitorPremise(t), NEW p \in Inside \cup Outside, Goto(t, p), UNCHANGED <<i, monitor, eating>>,
         Placed(t)', Increments(t)' = Increments(t), Exits(t)' = Exits(t),
         p \in {"read", "write"} => MayUse(t), p # "write",
         p \in {"enter_last", "count", "leave_last", "done"} => i[t] = MonitorTurns(t),
         \A u \in Task : u # t =>
           at'[u] = at[u] /\ holds'[u] = holds[u] /\ blocking_lock'[u] = blocking_lock[u] /\ arg'[u] = arg[u]
  PROVE  MonitorInv'
  <1>1. t \in Task /\ Threads \subseteq Task /\ MonitorTypes /\ t \in Threads /\ Inv /\ MonitorInv
    BY ThreadTypes DEF MonitorPremise
  <1>2. /\ point' = [point EXCEPT ![t] = p]
        /\ i' = i /\ tmp' = tmp /\ shared_var' = shared_var /\ exit_count' = exit_count /\ eating' = eating
    BY DEF Goto, monitor
  <1>3. MonitorTypes'
    BY <1>1, <1>2 DEF MonitorTypes
  <1>4. point'[t] = p /\ \A u \in Threads : u # t => point'[u] = point[u]
    BY <1>1, <1>2 DEF MonitorTypes
  <1>5. Knows(t)'
    BY <1>2, <1>4 DEF Knows, MayUse, MonitorTurns
  <1>6. /\ shared_var' - shared_var = Increments(t)' - Increments(t)
        /\ exit_count' - exit_count = Exits(t)' - Exits(t)
    <2>1. Increments(t) \in Nat /\ Exits(t) \in Nat /\ shared_var \in Nat /\ exit_count \in Nat
      BY <1>1 DEF MonitorTypes, Increments, Exits
    <2> QED
      BY <1>2, <2>1
  <1> QED
    BY <1>1, <1>2, <1>3, <1>4, <1>5, <1>6, MonitorStepInv

LEMMA StartMonitor ==
  ASSUME NEW t, MonitorPremise(t), Start(t, thread2, "enter")
  PROVE  [Next]_vars /\ MonitorInv'
  <1>1. UNCHANGED vars /\ Goto(t, "enter") /\ UNCHANGED <<i, monitor, eating>> /\ point[t] = "start"
    BY DEF Start, AtPoint
  <1>2. point'[t] = "enter"
    BY <1>1, ThreadTypes DEF Goto, MonitorTypes
  <1>3. Placed(t)' /\ Increments(t)' = Increments(t) /\ Exits(t)' = Exits(t)
    BY <1>1, <1>2, ThreadTypes DEF vars, program, Placed, Increments, Exits, Inside, Outside
  <1>4. \A u \in Task : at'[u] = at[u] /\ holds'[u] = holds[u]
                         /\ blocking_lock'[u] = blocking_lock[u] /\ arg'[u] = arg[u]
    BY <1>1 DEF vars, program
  <1> QED
    BY <1>1, <1>3, <1>4, MonitorGoto DEF Outside

LEMMA EnterMonitor ==
  ASSUME NEW t, MonitorPremise(t), Enter(t)
  PROVE  [Next]_vars /\ MonitorInv'
  <1>1. PICK p \in {"test", "count"} :
          /\ LockAcquire(t, l) /\ Goto(t, p) /\ UNCHANGED <<i, monitor, eating>>
          /\ point[t] = IF p = "test" THEN "enter" ELSE "enter_last"
    BY DEF Enter, AtPoint
  <1>2. point'[t] = p /\ t \in Task /\ l \in Lock
    BY <1>1, ThreadTypes DEF Goto, MonitorTypes
  <1>3. LockAcquireHelper(t, l) /\ arg' = arg /\ l \notin holds[t]
    BY <1>1, ThreadTypes DEF LockAcquire, Placed, Outside
  <1>4. Next
    BY <1>1, <1>2, <1>3 DEF Next, Step, Acquire
  <1>5. /\ \/ at'[t] = "none" /\ l \in holds'[t]
           \/ at'[t] = "lock_acquire" /\ blocking_lock'[t] = l
        /\ \A u \in Task : u # t =>
             at'[u] = at[u] /\ holds'[u] = holds[u] /\ blocking_lock'[u] = blocking_lock[u] /\ arg'[u] = arg[u]
    BY <1>2, <1>3, HelperPlaces, ThreadTypes DEF MonitorPremise
  <1>6. Placed(t)' /\ Increments(t)' = Increments(t) /\ Exits(t)' = Exits(t)
    BY <1>1, <1>2, <1>5 DEF monitor, Placed, Increments, Exits, Inside, Outside
  <1>7. p = "count" => i[t] = MonitorTurns(t)
    BY <1>1, ThreadTypes DEF Knows
  <1> QED
    BY <1>1, <1>4, <1>5, <1>6, <1>7, MonitorGoto DEF Inside

LEMMA AwaitMonitor ==
  ASSUME NEW t, MonitorPremise(t), AwaitTurn(t)
  PROVE  [Next]_vars /\ MonitorInv'
  <1>1. point[t] = "test" /\ at[t] = "none" /\ l \in holds[t] /\ UNCHANGED <<i, monitor, eating>>
    BY ThreadTypes DEF AwaitTurn, AtPoint, Runs, BackFrom, Placed, Inside
  <1>2. CASE MayUse(t)
    <2>1. UNCHANGED vars /\ Goto(t, "read")
      BY <1>2 DEF AwaitTurn
    <2>2. point'[t] = "read"
      BY <2>1, ThreadTypes DEF Goto, MonitorTypes
    <2>3. Placed(t)' /\ Increments(t)' = Increments(t) /\ Exits(t)' = Exits(t)
      BY <1>1, <2>1, <2>2 DEF vars, program, Placed, Increments, Exits, Inside, Outside
    <2>4. \A u \in Task : at'[u] = at[u] /\ holds'[u] = holds[u]
                           /\ blocking_lock'[u] = blocking_lock[u] /\ arg'[u] = arg[u]
      BY <2>1 DEF vars, program
    <2> QED
      BY <1>1, <1>2, <2>1, <2>3, <2>4, MonitorGoto DEF Inside
  <1>3. CASE ~MayUse(t)
    <2>1. ConditionRelease(t, l, Own(t)) /\ UNCHANGED point
      BY <1>3 DEF AwaitTurn
    <2>2. Next
      BY <2>1, ThreadTypes DEF Next, Step, GiveBack
    <2>3. /\ at' = [at EXCEPT ![t] = Own(t)] /\ arg' = [arg EXCEPT ![t] = l]
          /\ holds' = [holds EXCEPT ![t] = @ \ {l}] /\ blocking_lock' = blocking_lock
      BY <2>1 DEF ConditionRelease, LockReleaseHelper
    <2>4. Goto(t, "test")
      BY <1>1, <2>1, ThreadTypes DEF Goto, MonitorTypes
    <2>5. Placed(t)' /\ Increments(t)' = Increments(t) /\ Exits(t)' = Exits(t)
      <3>1. at'[t] = Own(t) /\ arg'[t] = l /\ point'[t] = "test" /\ Own(t) \in Condition /\ i' = i
        BY <1>1, <2>1, <2>3, ThreadTypes
      <3> QED
        BY <1>1, <2>1, <3>1, Sites DEF Placed, Increments, Exits, Inside, Outside
    <2>6. \A u \in Task : u # t => at'[u] = at[u] /\ holds'[u] = holds[u]
                           /\ blocking_lock'[u] = blocking_lock[u] /\ arg'[u] = arg[u]
      BY <2>3, ThreadTypes
    <2> QED
      BY <1>1, <2>2, <2>4, <2>5, <2>6, MonitorGoto DEF Inside
  <1> QED
    BY <1>2, <1>3

LEMMA ReadMonitor ==
  ASSUME NEW t, MonitorPremise(t), Read(t)
  PROVE  [Next]_vars /\ MonitorInv'
  <1>1. /\ UNCHANGED vars /\ point[t] = "read" /\ at[t] = "none"
        /\ point' = [point EXCEPT ![t] = "write"] /\ tmp' = [tmp EXCEPT ![t] = shared_var]
        /\ i' = i /\ shared_var' = shared_var /\ exit_count' = exit_count /\ eating' = eating
    BY DEF Read, AtPoint, Runs, BackFrom, Goto
  <1>2. t \in Task /\ MonitorTypes /\ Placed(t) /\ Knows(t) /\ Threads \subseteq Task /\ t \in Threads
    BY ThreadTypes DEF MonitorPremise
  <1>3. point'[t] = "write" /\ tmp'[t] = shared_var
        /\ \A u \in Threads : u # t => point'[u] = point[u] /\ tmp'[u] = tmp[u]
    BY <1>1, <1>2 DEF MonitorTypes
  <1>4. MonitorTypes'
    BY <1>1, <1>2 DEF MonitorTypes, Inside
  <1>5. at' = at /\ holds' = holds /\ blocking_lock' = blocking_lock /\ arg' = arg
    BY <1>1 DEF vars, program
  <1>6. Placed(t)'
    BY <1>1, <1>2, <1>3, <1>5 DEF Placed, Inside, Outside
  <1>7. Knows(t)'
    BY <1>1, <1>2, <1>3 DEF Knows, MayUse
  <1>8. Increments(t)' = Increments(t) /\ Exits(t)' = Exits(t)
    BY <1>1, <1>3 DEF Increments, Exits
  <1>9. /\ shared_var' - shared_var = Increments(t)' - Increments(t)
        /\ exit_count' - exit_count = Exits(t)' - Exits(t)
    <2>1. Increments(t) \in Nat /\ Exits(t) \in Nat /\ shared_var \in Nat /\ exit_count \in Nat
      BY <1>2 DEF MonitorTypes, Increments, Exits
    <2> QED
      BY <1>1, <1>8, <2>1
  <1> QED
    BY <1>1, <1>2, <1>3, <1>4, <1>5, <1>6, <1>7, <1>9, MonitorStepInv DEF MonitorPremise

LEMMA WriteMonitor ==
  ASSUME NEW t, MonitorPremise(t), Write(t)
  PROVE  [Next]_vars /\ MonitorInv'
  <1>1. /\ UNCHANGED vars /\ point[t] = "write" /\ at[t] = "none"
        /\ point' = [point EXCEPT ![t] = "signal"] /\ shared_var' = tmp[t] + 1
        /\ i' = i /\ tmp' = tmp /\ exit_count' = exit_count /\ eating' = eating
    BY DEF Write, AtPoint, Runs, BackFrom, Goto
  <1>2. t \in Task /\ MonitorTypes /\ Placed(t) /\ Knows(t) /\ Threads \subseteq Task /\ t \in Threads
        /\ Inv /\ MonitorInv
    BY ThreadTypes DEF MonitorPremise
  <1>3. point'[t] = "signal" /\ \A u \in Threads : u # t => point'[u] = point[u]
    BY <1>1, <1>2 DEF MonitorTypes
  <1>4. shared_var' = shared_var + 1 /\ shared_var \in Nat /\ exit_count \in Nat /\ i[t] \in Nat
    BY <1>1, <1>2 DEF Knows, MonitorTypes
  <1>5. MonitorTypes'
    BY <1>1, <1>2, <1>4 DEF MonitorTypes, Inside
  <1>6. at' = at /\ holds' = holds /\ blocking_lock' = blocking_lock /\ arg' = arg
    BY <1>1 DEF vars, program
  <1>7. Placed(t)' /\ Knows(t)'
    BY <1>1, <1>2, <1>3, <1>6 DEF Placed, Knows, Inside, Outside
  <1>8. ASSUME NEW u \in Threads, u # t PROVE point[u] \notin {"read", "write"}
    <2> SUFFICES ASSUME point[u] \in {"read", "write"} PROVE FALSE
      OBVIOUS
    <2>1. at[u] = "none" /\ point[u] \in Inside
      BY <1>2 DEF MonitorInv, Placed, Inside
    <2> QED
      BY <1>1, <1>2, <1>8, <2>1, AloneInMonitor DEF Inside
  <1>9. /\ shared_var' - shared_var = Increments(t)' - Increments(t)
        /\ exit_count' - exit_count = Exits(t)' - Exits(t)
    <2>1. Increments(t)' = i[t] + 1 /\ Increments(t) = i[t] /\ Exits(t)' = 0 /\ Exits(t) = 0
      BY <1>1, <1>3, <1>4 DEF Increments, Exits
    <2> QED
      BY <1>1, <1>4, <2>1
  <1> QED
    BY <1>1, <1>2, <1>3, <1>5, <1>6, <1>7, <1>8, <1>9, MonitorStepInv

LEMMA CallMonitor ==
  ASSUME NEW t, MonitorPremise(t), Call(t)
  PROVE  [Next]_vars /\ MonitorInv'
  <1>1. point[t] = "signal" /\ at[t] = "none" /\ Goto(t, "leave") /\ UNCHANGED <<i, monitor, eating>>
    BY DEF Call, AtPoint, Runs, BackFrom
  <1>2. [Next]_vars /\ UNCHANGED <<at, holds, blocking_lock, arg>>
    <2>1. CASE UNCHANGED vars
      BY <2>1 DEF vars, program
    <2>2. CASE ConditionSignal(t, Other(t)) \/ ConditionBroadcast(t, Other(t))
      <3>1. t \in Task /\ Other(t) \in Condition
        BY ThreadTypes
      <3> QED
        BY <2>2, <3>1 DEF Next, Step, ConditionSignal, ConditionBroadcast, program
    <2> QED
      BY <2>1, <2>2 DEF Call
  <1>3. point'[t] = "leave"
    BY <1>1, ThreadTypes DEF Goto, MonitorTypes
  <1>4. Placed(t)' /\ Increments(t)' = Increments(t) /\ Exits(t)' = Exits(t)
    BY <1>1, <1>2, <1>3, ThreadTypes DEF Placed, Increments, Exits, Inside, Outside
  <1> QED
    BY <1>1, <1>2, <1>4, MonitorGoto DEF Inside

LEMMA LeaveMonitor ==
  ASSUME NEW t, MonitorPremise(t), Leave(t)
  PROVE  [Next]_vars /\ MonitorInv'
  <1>1. /\ at[t] = "none" /\ holds' = [holds EXCEPT ![t] = @ \ {l}]
        /\ at' = at /\ blocking_lock' = blocking_lock /\ arg' = arg
        /\ shared_var' = shared_var /\ exit_count' = exit_count /\ tmp' = tmp /\ eating' = eating
    BY DEF Leave, LockRelease, LockReleaseHelper, Runs, BackFrom, monitor
  <1>2. t \in Task /\ MonitorTypes /\ Placed(t) /\ Knows(t) /\ Threads \subseteq Task /\ t \in Threads
        /\ Inv /\ MonitorInv /\ l \in Lock /\ holds \in [Task -> SUBSET (Lock \cup Semaphore)]
    BY ThreadTypes DEF MonitorPremise
  <1>3. Next
    BY <1>2 DEF Leave, Next, Step, GiveBack
  <1>4. \A u \in Task : u # t => holds'[u] = holds[u]
    BY <1>1, <1>2
  <1>5. CASE point[t] = "leave"
    <2>1. PICK p \in {"enter", "enter_last"} :
            /\ point' = [point EXCEPT ![t] = p] /\ i' = [i EXCEPT ![t] = @ + 1]
            /\ p = "enter_last" => i[t] + 1 = MonitorTurns(t)
      BY <1>5 DEF Leave, AtPoint, NextTurn, Goto
    <2>2. point'[t] = p /\ i'[t] = i[t] + 1 /\ i[t] \in Nat
          /\ \A u \in Threads : u # t => point'[u] = point[u] /\ i'[u] = i[u]
      BY <1>2, <2>1 DEF MonitorTypes
    <2>3. MonitorTypes'
      BY <1>1, <1>2, <2>1 DEF MonitorTypes, Outside
    <2>4. Placed(t)' /\ Knows(t)'
      BY <1>1, <1>2, <2>1, <2>2 DEF Placed, Knows, Inside, Outside, MonitorTurns
    <2>5. Increments(t)' = i[t] + 1 /\ Increments(t) = i[t] + 1 /\ Exits(t)' = 0 /\ Exits(t) = 0
      BY <1>5, <2>2 DEF Increments, Exits
    <2>6. /\ shared_var' - shared_var = Increments(t)' - Increments(t)
          /\ exit_count' - exit_count = Exits(t)' - Exits(t)
      <3>1. shared_var \in Nat /\ exit_count \in Nat
        BY <1>2 DEF MonitorTypes
      <3> QED
        BY <1>1, <2>2, <2>5, <3>1
    <2> QED
      BY <1>1, <1>2, <1>3, <1>4, <2>2, <2>3, <2>4, <2>6, MonitorStepInv
  <1>6. CASE point[t] = "leave_last"
    <2>1. Goto(t, "done") /\ i' = i
      BY <1>6 DEF Leave, AtPoint
    <2>2. point'[t] = "done"
      BY <1>2, <2>1 DEF Goto, MonitorTypes
    <2>3. Placed(t)' /\ Increments(t)' = Increments(t) /\ Exits(t)' = Exits(t)
      BY <1>1, <1>2, <1>6, <2>1, <2>2 DEF Placed, Increments, Exits, Inside, Outside
    <2>4. i[t] = MonitorTurns(t)
      BY <1>2, <1>6 DEF Knows
    <2> QED
      BY <1>1, <1>3, <1>4, <2>1, <2>3, <2>4, MonitorGoto DEF Outside, monitor
  <1> QED
    BY <1>5, <1>6 DEF Leave, AtPoint

LEMMA CountMonitor ==
  ASSUME NEW t, MonitorPremise(t), CountExit(t)
  PROVE  [Next]_vars /\ MonitorInv'
  <1>1. /\ UNCHANGED vars /\ point[t] = "count" /\ at[t] = "none"
        /\ point' = [point EXCEPT ![t] = "leave_last"] /\ exit_count' = exit_count + 1
        /\ i' = i /\ tmp' = tmp /\ shared_var' = shared_var /\ eating' = eating
    BY DEF CountExit, AtPoint, Runs, BackFrom, Goto
  <1>2. t \in Task /\ MonitorTypes /\ Placed(t) /\ Knows(t) /\ Threads \subseteq Task /\ t \in Threads
        /\ Inv /\ MonitorInv
    BY ThreadTypes DEF MonitorPremise
  <1>3. point'[t] = "leave_last" /\ \A u \in Threads : u # t => point'[u] = point[u]
    BY <1>1, <1>2 DEF MonitorTypes
  <1>4. shared_var \in Nat /\ exit_count \in Nat /\ i[t] \in Nat
    BY <1>2 DEF MonitorTypes
  <1>5. MonitorTypes'
    BY <1>1, <1>2, <1>4 DEF MonitorTypes, Inside
  <1>6. at' = at /\ holds' = holds /\ blocking_lock' = blocking_lock /\ arg' = arg
    BY <1>1 DEF vars, program
  <1>7. Placed(t)' /\ Knows(t)'
    BY <1>1, <1>2, <1>3, <1>6 DEF Placed, Knows, Inside, Outside, MonitorTurns
  <1>8. /\ shared_var' - shared_var = Increments(t)' - Increments(t)
        /\ exit_count' - exit_count = Exits(t)' - Exits(t)
    <2>1. Increments(t)' = i[t] /\ Increments(t) = i[t] /\ Exits(t)' = 1 /\ Exits(t) = 0
      BY <1>1, <1>3, <1>4 DEF Increments, Exits
    <2> QED
      BY <1>1, <1>4, <2>1
  <1> QED
    BY <1>1, <1>2, <1>3, <1>5, <1>6, <1>7, <1>8, MonitorStepInv

LEMMA ReturnMonitor ==
  ASSUME Inv, NoHolder, MonitorInv, NEW t \in Task, ReturnToProgram(t)
  PROVE  [Next]_vars /\ MonitorInv'
  <1>1. Next /\ UNCHANGED programVars /\ arg' = arg /\ TypeOK /\ Threads \subseteq Task
        /\ \A u \in Task : u # t =>
              at'[u] = at[u] /\ holds'[u] = holds[u] /\ blocking_lock'[u] = blocking_lock[u]
    BY ReturnKeeps, ProgramsAssumption DEF Inv, Threads
  <1>2. point' = point /\ i' = i /\ tmp' = tmp /\ shared_var' = shared_var
        /\ exit_count' = exit_count /\ eating' = eating
    BY <1>1 DEF programVars, monitor
  <1>3. CASE t \notin Threads
    <2>1. MonitorTypes'
      BY <1>2 DEF MonitorInv, MonitorTypes
    <2>2. ASSUME NEW u \in Threads
          PROVE  /\ Placed(u)' /\ Knows(u)'
                 /\ Increments(u)' = Increments(u) /\ Exits(u)' = Exits(u)
      <3>1. at'[u] = at[u] /\ holds'[u] = holds[u] /\ blocking_lock'[u] = blocking_lock[u]
        BY <1>1, <1>3
      <3>2. Placed(u) /\ Knows(u)
        BY DEF MonitorInv
      <3> QED
        BY <1>1, <1>2, <3>1, <3>2
           DEF Placed, Knows, MayUse, MonitorTurns, Increments, Exits
    <2> QED
      BY <1>1, <1>2, <2>1, <2>2 DEF MonitorInv, Threads
  <1>4. CASE t \in Threads
    <2>1. MonitorPremise(t) /\ Placed(t)
      BY <1>4 DEF MonitorPremise, MonitorInv
    <2>2. Return(t)
      BY DEF ReturnToProgram
    <2>3. point[t] \in Inside \cup Outside
      BY <1>1 DEF MonitorInv, MonitorTypes
    <2>4. at[t] # "none" /\ point[t] \in {"test", "count"}
      BY <2>1, <2>2, Sites DEF Placed, Return, LockAcquired, ConditionBlock, ConditionReacquire,
                        SemaphoreDowned, BarrierPassed, Runs, BackFrom
    <2>5. \/ at'[t] = "none" /\ l \in holds'[t]
          \/ at'[t] = "lock_acquire" /\ blocking_lock'[t] = l
          \/ at'[t] = "condition_wait" /\ arg'[t] = l /\ point[t] = "test"
      <3>1. CASE at[t] = "condition_wait"
        <4>1. ConditionReacquire(t) /\ arg[t] = l
          BY <2>1, <2>2, <3>1, Sites DEF Return, LockAcquired, ConditionBlock, SemaphoreDowned, BarrierPassed, Runs, BackFrom, Placed
        <4> QED
          BY <1>1, <1>4, <4>1, HelperPlaces DEF ConditionReacquire
      <3>2. CASE at[t] = "lock_acquire"
        <4>1. LockAcquired(t) /\ blocking_lock[t] = l
          BY <2>1, <2>2, <3>2, Sites DEF Return, ConditionBlock, ConditionReacquire, SemaphoreDowned, BarrierPassed, Runs, BackFrom, Placed
        <4> QED
          BY <1>1, <4>1 DEF LockAcquired, Resume, TypeOK
      <3>3. CASE at[t] \in Condition
        <4>1. ConditionBlock(t) /\ arg[t] = l /\ point[t] = "test"
          BY <2>1, <2>2, <3>3, Sites DEF Return, LockAcquired, ConditionReacquire, SemaphoreDowned, BarrierPassed,
                                         Runs, BackFrom, Placed
        <4> QED
          BY <1>1, <4>1 DEF ConditionBlock, Block, TypeOK
      <3> QED
        BY <2>1, <2>4, <3>1, <3>2, <3>3 DEF Placed
    <2>6. Placed(t)'
      BY <1>2, <2>4, <2>5 DEF Placed, Inside, Outside
    <2>7. Increments(t)' = Increments(t) /\ Exits(t)' = Exits(t)
      BY <1>2 DEF Increments, Exits
    <2>8. point' = [point EXCEPT ![t] = point[t]]
      BY <1>2 DEF MonitorInv, MonitorTypes
    <2>9. i[t] = MonitorTurns(t) \/ point[t] = "test"
      BY <2>1, <2>4 DEF Placed, MonitorInv, Knows, MonitorPremise
    <2> QED
      BY <1>1, <1>2, <2>1, <2>3, <2>4, <2>6, <2>7, <2>8, <2>9, MonitorGoto DEF Goto, monitor
  <1> QED
    BY <1>3, <1>4

LEMMA MonitorStepsInv ==
  ASSUME Inv, NoHolder, MonitorInv, [MonitorNext]_<<vars, programVars>>
  PROVE  [Next]_vars /\ MonitorInv'
  <1>1. ASSUME NEW t \in Task, MonitorStep(t) PROVE [Next]_vars /\ MonitorInv'
    <2>1. MonitorPremise(t)
      BY <1>1 DEF MonitorStep, MonitorPremise, Threads
    <2> QED
      BY <1>1, <2>1, StartMonitor, EnterMonitor, AwaitMonitor, ReadMonitor, WriteMonitor, CallMonitor,
         LeaveMonitor, CountMonitor DEF MonitorStep
  <1>2. CASE UNCHANGED <<vars, programVars>>
    BY <1>2 DEF vars, program, programVars, monitor, MonitorInv, MonitorTypes, Placed, Knows, MayUse,
                MonitorTurns, Increments, Exits
  <1> QED
    BY <1>1, <1>2, ReturnMonitor DEF MonitorNext

\* The two threads of th2.c find their ASSERTs true and "Both passed", however often
\* they take turns, whenever they are preempted, and whatever other tasks there are.
THEOREM MonitorPasses == MonitorSpec => []AssertsHold
  <1>1. Init /\ ProgramInit => Inv /\ NoHolder /\ MonitorInv
    BY InitInv, MonitorInit DEF Init, NoHolder
  <1>2. Inv /\ NoHolder /\ MonitorInv /\ [MonitorNext]_<<vars, programVars>> => Inv' /\ NoHolder' /\ MonitorInv'
    BY MonitorStepsInv, NextInv, NoHolderNext
  <1> QED
    BY <1>1, <1>2, MonitorAssertsIt, PTL DEF MonitorSpec

-----------------------------------------------------------------------------
(* barrier_test.c, for any number of threads and of iterations. *)

BarrierPoints == {"start", "add", "before", "compare", "after", "done"}

\* The number of times that t has arrived at the barrier.
Arrivals(t) == 2 * i[t] + (IF point[t] \in {"compare", "after"} THEN 1 ELSE 0)
Counted(t) == i[t] + (IF point[t] \in {"before", "compare", "after"} THEN 1 ELSE 0)

BarrierTypes ==
  /\ point \in [Task -> BarrierPoints] /\ i \in [Task -> Nat] /\ value \in [Task -> Nat]
  /\ exit_count = 0 /\ eating = [t \in Task |-> FALSE]

\* Only the threads of the test wait, and only at the barrier.
AtBarrier(t) ==
  at[t] # "none" => t \in BarrierThread /\ at[t] = "barrier_wait" /\ point[t] \in {"compare", "add", "done"}

Waiting(t) == InQueue(queue, barrier, t)

BarrierInv ==
  /\ BarrierTypes
  /\ \A t \in Task : AtBarrier(t)
  /\ \A t \in BarrierThread : value[t] = Counted(t)
  /\ count[barrier] = Len(queue[barrier])
  /\ \E g \in Nat : \A t \in BarrierThread : Arrivals(t) = IF Waiting(t) THEN g + 1 ELSE g

BarrierFacts ==
  /\ BarrierThread \subseteq Task /\ IsFiniteSet(BarrierThread) /\ barrier \in Barrier /\ barrier \in Object
  /\ Total[barrier] = Cardinality(BarrierThread)

LEMMA BarrierFactsHold == BarrierFacts
  <1>1. BarrierThread \subseteq Task /\ IsFiniteSet(Task)
    BY ProgramsAssumption
  <1>2. IsFiniteSet(BarrierThread)
    BY <1>1, FS_Subset
  <1> QED
    BY <1>1, <1>2, ProgramsAssumption DEF BarrierFacts, Object

LEMMA BarrierInit == Init /\ ProgramInit => BarrierInv
  <1> SUFFICES ASSUME Init, ProgramInit PROVE BarrierInv
    OBVIOUS
  <1>1. BarrierFacts
    BY BarrierFactsHold
  <1>2. BarrierTypes
    BY DEF ProgramInit, BarrierTypes, BarrierPoints
  <1>3. \A t \in Task : AtBarrier(t)
    BY DEF Init, AtBarrier
  <1>4. queue[barrier] = <<>> /\ count[barrier] = 0
    BY <1>1 DEF Init, BarrierFacts
  <1>5. \A t \in BarrierThread : value[t] = Counted(t) /\ Arrivals(t) = 0 /\ ~Waiting(t)
    BY <1>1, <1>4 DEF ProgramInit, BarrierFacts, Counted, Arrivals, Waiting, InQueue
  <1>6. \A t \in BarrierThread : Arrivals(t) = IF Waiting(t) THEN 0 + 1 ELSE 0
    BY <1>5
  <1> QED
    BY <1>2, <1>3, <1>4, <1>5, <1>6 DEF BarrierInv

\* Who is past the first barrier of a round finds the others there, or at most
\* waiting at the second.
LEMMA BarrierAssertsIt == Inv /\ BarrierInv => AssertsHold
  <1> SUFFICES ASSUME Inv, BarrierInv PROVE AssertsHold
    OBVIOUS
  <1>1. BarrierFacts /\ BarrierTypes
    BY BarrierFactsHold DEF BarrierInv
  <1>2. ASSUME NEW t \in BarrierThread, NEW u \in BarrierThread, point[t] = "compare", at[t] = "none"
        PROVE  value[u] = value[t]
    <2>1. PICK g \in Nat : \A v \in BarrierThread : Arrivals(v) = IF Waiting(v) THEN g + 1 ELSE g
      BY DEF BarrierInv
    <2>2. ASSUME NEW v \in BarrierThread, Waiting(v)
          PROVE  at[v] = "barrier_wait" /\ point[v] \in {"compare", "add", "done"}
      <3>1. WaitsFor(v, barrier)
        BY <1>1, <2>2 DEF Inv, BlockedInQueue, Waiting, BarrierFacts
      <3>2. at[v] = "barrier_wait"
        BY <1>1, <3>1, SyncAssumption DEF WaitsFor, BarrierFacts
      <3> QED
        BY <1>1, <3>2 DEF BarrierInv, AtBarrier, BarrierFacts
    <2>3. ~Waiting(t)
      BY <1>2, <2>2
    <2>4. i[t] \in Nat /\ i[u] \in Nat
      BY <1>1 DEF BarrierTypes, BarrierFacts
    <2>5. g = 2 * i[t] + 1 /\ value[t] = i[t] + 1
      BY <1>2, <2>1, <2>3 DEF BarrierInv, Arrivals, Counted
    <2>6. value[u] = Counted(u)
      BY DEF BarrierInv
    <2>7. CASE ~Waiting(u)
      <3>1. Arrivals(u) = 2 * i[t] + 1
        BY <2>1, <2>5, <2>7
      <3>2. point[u] \in {"compare", "after"} /\ i[u] = i[t]
        BY <2>4, <3>1 DEF Arrivals
      <3> QED
        BY <2>5, <2>6, <3>2 DEF Counted
    <2>8. CASE Waiting(u)
      <3>1. Arrivals(u) = 2 * i[t] + 1 + 1
        BY <2>1, <2>5, <2>8
      <3>2. point[u] \notin {"compare", "after"} /\ i[u] = i[t] + 1
        BY <2>4, <3>1 DEF Arrivals
      <3>3. point[u] \in {"add", "done"}
        BY <2>2, <2>8, <3>2
      <3>4. Counted(u) = i[u]
        BY <2>4, <3>3 DEF Counted
      <3> QED
        BY <2>4, <2>5, <2>6, <3>2, <3>4
    <2> QED
      BY <2>7, <2>8
  <1>3. BarrierAsserts
    BY <1>2 DEF BarrierAsserts
  <1>4. MonitorAsserts
    <2>1. \A t \in {thread2, thread3} : point[t] \notin {"read", "write"}
      BY <1>1, ProgramsAssumption DEF BarrierTypes, BarrierPoints
    <2>2. exit_count # 2
      BY <1>1 DEF BarrierTypes
    <2> QED
      BY <2>1, <2>2 DEF MonitorAsserts
  <1>5. PhilosopherAsserts
    BY <1>1, ProgramsAssumption DEF BarrierTypes, PhilosopherAsserts, BarrierPoints
  <1> QED
    BY <1>3, <1>4, <1>5 DEF AssertsHold

\* Steps that leave the barrier and the arrivals alone.
LEMMA BarrierKept ==
  ASSUME BarrierInv, BarrierTypes', \A t \in Task : AtBarrier(t)',
         UNCHANGED <<count, queue>>,
         \A t \in BarrierThread : value'[t] = Counted(t)' /\ Arrivals(t)' = Arrivals(t)
  PROVE  BarrierInv'
  <1>1. PICK g \in Nat : \A t \in BarrierThread : Arrivals(t) = IF Waiting(t) THEN g + 1 ELSE g
    BY DEF BarrierInv
  <1>2. \A t \in BarrierThread : Arrivals(t)' = IF Waiting(t)' THEN g + 1 ELSE g
    BY <1>1 DEF Waiting
  <1> QED
    BY <1>2 DEF BarrierInv

LEMMA LocalBarrier ==
  ASSUME Inv, BarrierInv, NEW t \in BarrierThread,
         Start(t, barrier1, "add") \/ CountValue(t) \/ Compare(t)
  PROVE  [Next]_vars /\ BarrierInv'
  <1>1. BarrierFacts /\ BarrierTypes
    BY BarrierFactsHold DEF BarrierInv
  <1>2. t \in Task /\ BarrierThread \subseteq Task
    BY <1>1 DEF BarrierFacts
  <1>3. /\ UNCHANGED vars /\ i' = i /\ exit_count' = exit_count /\ eating' = eating /\ at[t] = "none"
        /\ \/ point[t] = "start" /\ point' = [point EXCEPT ![t] = "add"] /\ value' = value
           \/ point[t] = "add" /\ point' = [point EXCEPT ![t] = "before"] /\ value' = [value EXCEPT ![t] = @ + 1]
           \/ point[t] = "compare" /\ point' = [point EXCEPT ![t] = "after"] /\ value' = value
    BY DEF Start, CountValue, Compare, AtPoint, Runs, BackFrom, Goto, monitor
  <1>4. at' = at /\ count' = count /\ queue' = queue
    BY <1>3 DEF vars, objects
  <1>5. BarrierTypes'
    BY <1>1, <1>2, <1>3 DEF BarrierTypes, BarrierPoints
  <1>6. \A u \in Task : AtBarrier(u)'
    BY <1>1, <1>3, <1>4 DEF BarrierInv, BarrierTypes, AtBarrier
  <1>7. ASSUME NEW u \in BarrierThread PROVE value'[u] = Counted(u)' /\ Arrivals(u)' = Arrivals(u)
    <2>1. value[u] = Counted(u) /\ u \in Task /\ i[u] \in Nat
      BY <1>1, <1>2 DEF BarrierInv, BarrierTypes
    <2>2. CASE u = t
      BY <1>1, <1>2, <1>3, <2>1, <2>2 DEF BarrierTypes, Counted, Arrivals
    <2>3. CASE u # t
      BY <1>1, <1>2, <1>3, <2>1, <2>3 DEF BarrierTypes, Counted, Arrivals
    <2> QED
      BY <2>2, <2>3
  <1> QED
    BY <1>3, <1>4, <1>5, <1>6, <1>7, BarrierKept

LEMMA ReturnBarrier ==
  ASSUME Inv, BarrierInv, NEW t \in Task, ReturnToProgram(t)
  PROVE  [Next]_vars /\ BarrierInv'
  <1>1. Next /\ UNCHANGED programVars
    BY ReturnKeeps
  <1>2. BarrierPassed(t)
    BY Sites DEF BarrierInv, AtBarrier, ReturnToProgram, Return, LockAcquired, ConditionBlock, ConditionReacquire,
           SemaphoreDowned, Runs, BackFrom
  <1>3. count' = count /\ queue' = queue /\ at' = [at EXCEPT ![t] = "none"]
    BY <1>2 DEF BarrierPassed, Resume, objects
  <1>4. point' = point /\ i' = i /\ value' = value /\ exit_count' = exit_count /\ eating' = eating
    BY <1>1 DEF programVars, monitor
  <1>5. BarrierTypes'
    BY <1>4 DEF BarrierInv, BarrierTypes
  <1>6. \A u \in Task : AtBarrier(u)'
    BY <1>3, <1>4 DEF BarrierInv, AtBarrier, Inv, TypeOK
  <1>7. \A u \in BarrierThread : value'[u] = Counted(u)' /\ Arrivals(u)' = Arrivals(u)
    BY <1>4 DEF BarrierInv, Counted, Arrivals
  <1> QED
    BY <1>1, <1>3, <1>5, <1>6, <1>7, BarrierKept

\* barrier_wait(): the last to arrive finds all others of the test in the queue.
LEMMA SynchronizeBarrier ==
  ASSUME Inv, BarrierInv, NEW t \in BarrierThread, Synchronize(t)
  PROVE  [Next]_vars /\ BarrierInv'
  <1>1. BarrierFacts /\ BarrierTypes
    BY BarrierFactsHold DEF BarrierInv
  <1>2. /\ t \in Task /\ BarrierThread \subseteq Task /\ barrier \in Barrier /\ barrier \in Object
        /\ queue \in [Object -> Seq(Task)] /\ count \in [Barrier -> Nat] /\ at \in [Task -> CallSite \cup Condition]
        /\ LinkedOnce(queue) /\ DOMAIN queue = Object
    BY <1>1 DEF BarrierFacts, Inv, TypeOK, BlockedInQueue
  <1>3. /\ BarrierWait(t, barrier) /\ Runs(t, "none") /\ at[t] = "none"
        /\ value' = value /\ exit_count' = exit_count /\ eating' = eating
    BY DEF Synchronize, BarrierWait, Runs, BackFrom, monitor
  <1>4. Next
    BY <1>2, <1>3 DEF Next, Step, Arrive
  <1>5. /\ point'[t] \in {"compare", "add", "done"} /\ BarrierTypes'
        /\ \A u \in Task : u # t => point'[u] = point[u] /\ i'[u] = i[u]
        /\ Arrivals(t)' = Arrivals(t) + 1 /\ value'[t] = Counted(t)'
    <2>1. value[t] = Counted(t) /\ i[t] \in Nat
      BY <1>1, <1>2 DEF BarrierInv, BarrierTypes
    <2>2. CASE point[t] = "before"
      <3>1. point' = [point EXCEPT ![t] = "compare"] /\ i' = i
        BY <2>2 DEF Synchronize, AtPoint, Goto
      <3> QED
        BY <1>1, <1>2, <1>3, <2>1, <2>2, <3>1 DEF BarrierTypes, BarrierPoints, Arrivals, Counted
    <2>3. CASE point[t] = "after"
      <3>1. PICK q \in {"add", "done"} : point' = [point EXCEPT ![t] = q] /\ i' = [i EXCEPT ![t] = @ + 1]
        BY <2>3 DEF Synchronize, AtPoint, NextTurn, Goto
      <3>2. point'[t] = q /\ i'[t] = i[t] + 1
        BY <1>1, <1>2, <3>1 DEF BarrierTypes
      <3>3. BarrierTypes'
        BY <1>1, <1>2, <1>3, <3>1 DEF BarrierTypes, BarrierPoints
      <3>4. Arrivals(t)' = 2 * (i[t] + 1) /\ Arrivals(t) = 2 * i[t] + 1
        BY <2>1, <2>3, <3>2 DEF Arrivals
      <3>5. Counted(t)' = i[t] + 1 /\ Counted(t) = i[t] + 1
        BY <2>1, <2>3, <3>2 DEF Counted
      <3> QED
        BY <1>1, <1>3, <2>1, <3>1, <3>2, <3>3, <3>4, <3>5 DEF BarrierTypes
    <2> QED
      BY <2>2, <2>3 DEF Synchronize, AtPoint
  <1>6. \A u \in BarrierThread : value'[u] = Counted(u)'
    BY <1>2, <1>3, <1>5 DEF BarrierInv, Counted
  <1>7. \A u \in BarrierThread : u # t => Arrivals(u)' = Arrivals(u)
    BY <1>2, <1>5 DEF Arrivals
  <1>8. PICK g \in Nat : \A u \in BarrierThread : Arrivals(u) = IF Waiting(u) THEN g + 1 ELSE g
    BY DEF BarrierInv
  <1>9. ~Waiting(t) /\ Arrivals(t)' = g + 1
    <2>1. ~Waiting(t)
      BY <1>2, <1>3 DEF Inv, BlockedInQueue, Runs, BackFrom, Waiting
    <2> QED
      BY <1>5, <1>8, <2>1
  <1>10. CASE LastToArrive(barrier)
    <2>1. /\ queue' = Flush(queue, barrier) /\ count' = [count EXCEPT ![barrier] = 0] /\ at' = at
      BY <1>3, <1>10 DEF BarrierWait, UnblockAll
    <2>2. PICK f \in Seq(Task) : f = queue[barrier]
      BY <1>2
    <2>3. Len(f) + 1 >= Cardinality(BarrierThread)
      <3>1. Cardinality(BarrierThread) \in Nat
        BY <1>1, FS_CardinalityType DEF BarrierFacts
      <3>2. count[barrier] = Len(f) /\ count[barrier] + 1 >= Total[barrier]
        BY <1>10, <2>2 DEF BarrierInv, LastToArrive
      <3> QED
        BY <1>1, <3>1, <3>2 DEF BarrierFacts
    <2>4. ASSUME NEW j \in 1 .. Len(f) PROVE f[j] \in BarrierThread \ {t}
      <3>1. f[j] \in Task /\ Waiting(f[j])
        BY <2>2 DEF Waiting, InQueue
      <3>2. WaitsFor(f[j], barrier)
        BY <1>2, <3>1 DEF Inv, BlockedInQueue, Waiting
      <3>3. at[f[j]] = "barrier_wait"
        BY <1>2, <3>2, SyncAssumption DEF WaitsFor
      <3> QED
        BY <1>9, <3>1, <3>3 DEF BarrierInv, AtBarrier
    <2>5. f \in Seq(BarrierThread \ {t})
      BY <2>4
    <2>6. \A j, k \in 1 .. Len(f) : f[j] = f[k] => j = k
      BY <1>2, <2>2 DEF LinkedOnce
    <2>7. \A u \in BarrierThread \ {t} : \E j \in 1 .. Len(f) : f[j] = u
      BY <1>1, <2>3, <2>5, <2>6, OthersWait DEF BarrierFacts
    <2>8. \A u \in BarrierThread : u # t => Waiting(u)
      BY <2>2, <2>7 DEF Waiting, InQueue
    <2>9. queue'[barrier] = <<>> /\ count'[barrier] = 0
      BY <1>2, <2>1 DEF Flush
    <2>10. \A u : ~Waiting(u)'
      BY <2>9 DEF Waiting, InQueue
    <2>11. \A u \in BarrierThread : Arrivals(u)' = g + 1
      BY <1>7, <1>8, <1>9, <2>8
    <2>12. g + 1 \in Nat /\ \A u \in BarrierThread : Arrivals(u)' = IF Waiting(u)' THEN (g + 1) + 1 ELSE g + 1
      BY <2>10, <2>11
    <2>13. \A u \in Task : AtBarrier(u)'
      BY <1>3, <1>5, <2>1 DEF BarrierInv, AtBarrier
    <2>14. count'[barrier] = Len(queue'[barrier])
      BY <2>9
    <2> QED
      BY <1>4, <1>5, <1>6, <2>12, <2>13, <2>14 DEF BarrierInv
  <1>11. CASE ~LastToArrive(barrier)
    <2>1. /\ queue' = Enqueue(queue, barrier, t) /\ count' = [count EXCEPT ![barrier] = @ + 1]
          /\ at' = [at EXCEPT ![t] = "barrier_wait"]
      BY <1>3, <1>11 DEF BarrierWait, Block
    <2>2. \A u : Waiting(u)' <=> Waiting(u) \/ u = t
      <3>1. queue' = Enqueue(queue, barrier, t) /\ queue \in [Object -> Seq(Task)]
            /\ t \in Task /\ barrier \in Object
        BY <1>2, <2>1
      <3>2. \A y \in Object : \A u : InQueue(queue', y, u) <=> InQueue(queue, y, u) \/ (y = barrier /\ u = t)
        BY <3>1, EnqueueIn
      <3> QED
        BY <3>1, <3>2 DEF Waiting
    <2>3. \A u \in BarrierThread : Arrivals(u)' = IF Waiting(u)' THEN g + 1 ELSE g
      BY <1>7, <1>8, <1>9, <2>2
    <2>4. \A u \in Task : AtBarrier(u)'
      BY <1>2, <1>5, <2>1 DEF BarrierInv, AtBarrier
    <2>5. count'[barrier] = Len(queue'[barrier])
      <3>1. queue'[barrier] = Append(queue[barrier], t) /\ count'[barrier] = count[barrier] + 1
        BY <1>2, <2>1 DEF Enqueue
      <3> QED
        BY <1>2, <3>1 DEF BarrierInv
    <2> QED
      BY <1>4, <1>5, <1>6, <2>3, <2>4, <2>5 DEF BarrierInv
  <1> QED
    BY <1>10, <1>11

LEMMA BarrierStepsInv ==
  ASSUME Inv, BarrierInv, [BarrierNext]_<<vars, programVars>>
  PROVE  [Next]_vars /\ BarrierInv'
  <1>1. ASSUME NEW t \in Task, BarrierStep(t) PROVE [Next]_vars /\ BarrierInv'
    BY <1>1, LocalBarrier, SynchronizeBarrier DEF BarrierStep
  <1>2. CASE UNCHANGED <<vars, programVars>>
    BY <1>2 DEF vars, objects, programVars, monitor, BarrierInv, BarrierTypes, AtBarrier, Waiting,
                Arrivals, Counted
  <1> QED
    BY <1>1, <1>2, ReturnBarrier DEF BarrierNext

\* Between the two barriers of an iteration of barrier_test.c the values of all threads
\* are equal, for any number of threads that the barrier is initialised for.
THEOREM BarrierTestPasses == BarrierSpec => []AssertsHold
  <1>1. Init /\ ProgramInit => Inv /\ BarrierInv
    BY InitInv, BarrierInit
  <1>2. Inv /\ BarrierInv /\ [BarrierNext]_<<vars, programVars>> => Inv' /\ BarrierInv'
    BY BarrierStepsInv, NextInv
  <1> QED
    BY <1>1, <1>2, BarrierAssertsIt, PTL DEF BarrierSpec

-----------------------------------------------------------------------------
(* philosophers.c, for any number of philosophers. *)

PhilosopherPoints == {"start", "thinking", "hungry", "one_fork", "two_forks", "eating", "full", "half_full"}

Seats == 0 .. NUM_PHILOSOPHERS - 1
Diners == {Philosopher[id] : id \in Seats}
First(t) == Forks(Id(t))[1]
Second(t) == Forks(Id(t))[2]

PhilosopherTypes ==
  /\ point \in [Task -> PhilosopherPoints] /\ eating \in [Task -> BOOLEAN] /\ exit_count = 0

\* The forks that t holds at each point, and the one that it waits for.
Forked(t) ==
  /\ point[t] \in {"two_forks", "eating", "full"} \/ (point[t] = "one_fork" /\ at[t] = "none")
       => First(t) \in holds[t]
  /\ point[t] \in {"eating", "full", "half_full"} \/ (point[t] = "two_forks" /\ at[t] = "none")
       => Second(t) \in holds[t]
  /\ at[t] # "none" =>
       /\ at[t] = "semaphore_down"
       /\ \/ point[t] = "one_fork" /\ arg[t] = First(t)
          \/ point[t] = "two_forks" /\ arg[t] = Second(t)
  /\ eating[t] => point[t] = "eating"

PhilosopherInv == PhilosopherTypes /\ \A t \in Diners : Forked(t)

LEMMA ForksAre ==
  ASSUME NEW id \in Seats
  PROVE  /\ Philosopher[id] \in Task /\ Philosopher[id] \in Diners /\ Id(Philosopher[id]) = id
         /\ First(Philosopher[id]) = (IF id = 0 THEN fork[0] ELSE fork[id - 1])
         /\ Second(Philosopher[id]) = (IF id = 0 THEN fork[NUM_PHILOSOPHERS - 1] ELSE fork[id])
         /\ First(Philosopher[id]) # Second(Philosopher[id])
         /\ {First(Philosopher[id]), Second(Philosopher[id])} \subseteq Semaphore
         /\ Permits[First(Philosopher[id])] = 1 /\ Permits[Second(Philosopher[id])] = 1
  <1>1. /\ NUM_PHILOSOPHERS \in Nat \ {0, 1} /\ Philosopher \in [Seats -> Task] /\ fork \in [Seats -> Semaphore]
        /\ \A k, other \in Seats :
             /\ Philosopher[k] = Philosopher[other] \/ fork[k] = fork[other] => k = other
             /\ Permits[fork[k]] = 1
    BY ProgramsAssumption DEF Seats
  <1>2. Id(Philosopher[id]) = id
    BY <1>1 DEF Id
  <1>3. PICK last : last = NUM_PHILOSOPHERS - 1
    OBVIOUS
  <1>4. 0 \in Seats /\ last \in Seats /\ last # 0 /\ id \in Nat /\ (id # 0 => id - 1 \in Seats /\ id - 1 # id)
    BY <1>1, <1>3 DEF Seats
  <1>5. /\ First(Philosopher[id]) = (IF id = 0 THEN fork[0] ELSE fork[id - 1])
        /\ Second(Philosopher[id]) = (IF id = 0 THEN fork[last] ELSE fork[id])
    BY <1>2, <1>3 DEF First, Second, Forks
  <1>6. CASE id = 0
    BY <1>1, <1>2, <1>3, <1>4, <1>5, <1>6 DEF Diners
  <1>7. CASE id # 0
    BY <1>1, <1>2, <1>3, <1>4, <1>5, <1>7 DEF Diners
  <1> QED
    BY <1>6, <1>7

\* Neighbours at the table reach for a common fork.
LEMMA NeighboursShare ==
  ASSUME NEW id \in Seats, NEW other \in Seats,
         (other - id) % NUM_PHILOSOPHERS \in {1, NUM_PHILOSOPHERS - 1}
  PROVE  /\ Philosopher[id] # Philosopher[other]
         /\ \E s \in {First(Philosopher[id]), Second(Philosopher[id])} :
              s \in {First(Philosopher[other]), Second(Philosopher[other])}
  <1>1. /\ NUM_PHILOSOPHERS \in Nat \ {0, 1} /\ id \in Nat /\ other \in Nat
        /\ id <= NUM_PHILOSOPHERS - 1 /\ other <= NUM_PHILOSOPHERS - 1
    BY ProgramsAssumption DEF Seats
  <1>2. (other - id) % NUM_PHILOSOPHERS
          = IF other >= id THEN other - id ELSE other - id + NUM_PHILOSOPHERS
    BY <1>1, ModDifference DEF Seats
  <1>3. \/ other = id + 1 \/ id = other + 1
        \/ id = 0 /\ other = NUM_PHILOSOPHERS - 1
        \/ other = 0 /\ id = NUM_PHILOSOPHERS - 1
    BY <1>1, <1>2
  <1>4. id # other
    BY <1>1, <1>3
  <1>5. Philosopher[id] # Philosopher[other]
    BY <1>4, ForksAre
  <1>6. ASSUME NEW k \in Seats, NEW m \in Seats, m = k + 1
        PROVE  \E s \in {First(Philosopher[k]), Second(Philosopher[k])} :
                 s \in {First(Philosopher[m]), Second(Philosopher[m])}
    <2>1. m # 0 /\ m - 1 = k
      BY <1>6 DEF Seats
    <2>2. First(Philosopher[m]) = fork[k]
      BY <2>1, ForksAre
    <2>3. First(Philosopher[k]) = fork[k] \/ Second(Philosopher[k]) = fork[k]
      BY ForksAre
    <2> QED
      BY <2>2, <2>3
  <1>7. ASSUME NEW k \in Seats, NEW m \in Seats, k = 0, m = NUM_PHILOSOPHERS - 1
        PROVE  Second(Philosopher[k]) = Second(Philosopher[m])
    <2>1. m # 0
      BY <1>1, <1>7
    <2> QED
      BY <1>7, <2>1, ForksAre
  <1> QED
    BY <1>3, <1>5, <1>6, <1>7

\* A semaphore of one permit has one holder.
LEMMA OneHolder ==
  ASSUME IsFiniteSet(Task), Inv, PermitInv, NEW s \in Semaphore, Permits[s] = 1,
         NEW t \in Task, NEW u \in Task, s \in holds[t], s \in holds[u]
  PROVE  t = u
  <1> SUFFICES ASSUME t # u PROVE FALSE
    OBVIOUS
  <1>1. /\ IsFiniteSet(Users(s)) /\ Cardinality(Users(s)) \in Nat
    <2>1. Users(s) \subseteq Task
      BY DEF Users
    <2> QED
      BY <2>1, FS_Subset, FS_CardinalityType
  <1>2. /\ IsFiniteSet(Woken(s)) /\ Cardinality(Woken(s)) \in Nat
    <2>1. Woken(s) \subseteq Task
      BY DEF Woken
    <2> QED
      BY <2>1, FS_Subset, FS_CardinalityType
  <1>3. sem[s] \in Nat /\ sem[s] + Cardinality(Users(s)) + Cardinality(Woken(s)) = 1
    BY DEF PermitInv, PermitsConserved, Users, Woken, Inv, TypeOK
  <1>4. Cardinality({t}) = 1 /\ IsFiniteSet({t})
    BY FS_Singleton
  <1>5. Cardinality({t} \cup {u}) = 2
    <2>1. u \notin {t}
      OBVIOUS
    <2>2. Cardinality({t} \cup {u}) = Cardinality({t}) + 1
      BY <1>4, <2>1, FS_AddElement
    <2> QED
      BY <1>4, <2>2
  <1>6. {t} \cup {u} \subseteq Users(s)
    BY DEF Users
  <1>7. Cardinality({t} \cup {u}) <= Cardinality(Users(s))
    BY <1>1, <1>6, FS_Subset
  <1>8. PICK m \in Nat : m = Cardinality(Users(s))
    BY <1>1
  <1>9. PICK n \in Nat : n = Cardinality(Woken(s))
    BY <1>2
  <1>10. 2 <= m
    BY <1>5, <1>7, <1>8
  <1>11. PICK k \in Nat : k + m + n = 1
    BY <1>3, <1>8, <1>9
  <1> QED
    BY <1>10, <1>11

LEMMA PhilosopherInit == Init /\ ProgramInit => PhilosopherInv
  <1> SUFFICES ASSUME Init, ProgramInit PROVE PhilosopherInv
    OBVIOUS
  <1>1. PhilosopherTypes
    BY DEF ProgramInit, PhilosopherTypes, PhilosopherPoints
  <1>2. \A t \in Diners : t \in Task
    BY ForksAre DEF Diners
  <1>3. \A t \in Diners : Forked(t)
    BY <1>2 DEF Init, ProgramInit, Forked
  <1> QED
    BY <1>1, <1>3 DEF PhilosopherInv

\* Who eats has both forks, so no neighbour has the one that they share.
LEMMA PhilosopherAssertsIt ==
  IsFiniteSet(Task) /\ Inv /\ PermitInv /\ PhilosopherInv => AssertsHold
  <1> SUFFICES ASSUME IsFiniteSet(Task), Inv, PermitInv, PhilosopherInv PROVE AssertsHold
    OBVIOUS
  <1>1. PhilosopherTypes
    BY DEF PhilosopherInv
  <1>2. DOMAIN Philosopher = Seats
    BY ProgramsAssumption DEF Seats
  <1>3. ASSUME NEW id \in Seats, NEW other \in Seats, point[Philosopher[id]] = "eating",
               (other - id) % NUM_PHILOSOPHERS \in {1, NUM_PHILOSOPHERS - 1},
               eating[Philosopher[other]]
        PROVE  FALSE
    <2>1. PICK s \in {First(Philosopher[id]), Second(Philosopher[id])} :
            s \in {First(Philosopher[other]), Second(Philosopher[other])}
      BY <1>3, NeighboursShare
    <2>2. point[Philosopher[other]] = "eating"
      BY <1>3, ForksAre DEF PhilosopherInv, Forked
    <2>3. s \in holds[Philosopher[id]] /\ s \in holds[Philosopher[other]]
      BY <1>3, <2>1, <2>2, ForksAre DEF PhilosopherInv, Forked
    <2>4. s \in Semaphore /\ Permits[s] = 1 /\ Philosopher[id] \in Task /\ Philosopher[other] \in Task
      BY <2>1, ForksAre
    <2>5. Philosopher[id] = Philosopher[other]
      BY <2>3, <2>4, OneHolder
    <2> QED
      BY <1>3, <2>5, NeighboursShare
  <1>4. PhilosopherAsserts
    BY <1>2, <1>3 DEF PhilosopherAsserts
  <1>5. MonitorAsserts
    <2>1. \A t \in {thread2, thread3} : point[t] \notin {"read", "write"}
      BY <1>1, ProgramsAssumption DEF PhilosopherTypes, PhilosopherPoints
    <2>2. exit_count # 2
      BY <1>1 DEF PhilosopherTypes
    <2> QED
      BY <2>1, <2>2 DEF MonitorAsserts
  <1>6. BarrierAsserts
    BY <1>1, ProgramsAssumption DEF PhilosopherTypes, BarrierAsserts, PhilosopherPoints
  <1> QED
    BY <1>4, <1>5, <1>6 DEF AssertsHold


\* Steps of t that leave the other tasks alone.
LEMMA PhilosopherKept ==
  ASSUME PhilosopherInv, PhilosopherTypes', NEW t \in Task, t \in Diners => Forked(t)',
         \A u \in Task : u # t =>
           /\ point'[u] = point[u] /\ eating'[u] = eating[u] /\ holds'[u] = holds[u]
           /\ at'[u] = at[u] /\ arg'[u] = arg[u]
  PROVE  PhilosopherInv'
  <1>1. ASSUME NEW u \in Diners PROVE Forked(u)'
    <2>1. u \in Task
      BY ForksAre DEF Diners
    <2>2. CASE u # t
      BY <2>1, <2>2 DEF PhilosopherInv, Forked, First, Second, Forks, Id
    <2> QED
      BY <2>2
  <1>2. Diners' = Diners
    BY DEF Diners, Seats
  <1> QED
    BY <1>1, <1>2 DEF PhilosopherInv

LEMMA DinersAre ==
  ASSUME NEW t \in Diners
  PROVE  /\ t \in Task /\ First(t) \in Semaphore /\ Second(t) \in Semaphore /\ First(t) # Second(t)
         /\ First(t)' = First(t) /\ Second(t)' = Second(t)
  <1>1. First(t)' = First(t) /\ Second(t)' = Second(t)
    BY DEF First, Second, Forks, Id
  <1> QED
    BY <1>1, ForksAre DEF Diners

\* Thinking, eating, and the start.
LEMMA LocalPhilosopher ==
  ASSUME Inv, PhilosopherInv, NEW t \in Diners,
         Start(t, Philosopher[0], "thinking") \/ Think(t) \/ Eat(t)
  PROVE  [Next]_vars /\ PhilosopherInv'
  <1>1. t \in Task /\ PhilosopherTypes /\ Forked(t)
    BY DinersAre DEF PhilosopherInv
  <1>2. /\ UNCHANGED vars /\ exit_count' = exit_count /\ at[t] = "none"
        /\ \/ point[t] = "start" /\ point' = [point EXCEPT ![t] = "thinking"] /\ eating' = eating
           \/ point[t] = "thinking" /\ point' = [point EXCEPT ![t] = "hungry"] /\ eating' = eating
           \/ point[t] = "two_forks" /\ point' = [point EXCEPT ![t] = "eating"] /\ eating' = [eating EXCEPT ![t] = TRUE]
           \/ point[t] = "eating" /\ point' = [point EXCEPT ![t] = "full"] /\ eating' = [eating EXCEPT ![t] = FALSE]
    BY DEF Start, Think, Eat, AtPoint, Runs, BackFrom, Goto, monitor
  <1>3. at' = at /\ arg' = arg /\ holds' = holds
    BY <1>2 DEF vars, program
  <1>4. PhilosopherTypes'
    BY <1>1, <1>2 DEF PhilosopherTypes, PhilosopherPoints
  <1>5. \A u \in Task : u # t => point'[u] = point[u] /\ eating'[u] = eating[u]
    BY <1>1, <1>2 DEF PhilosopherTypes
  <1>6. Forked(t)'
    BY <1>1, <1>2, <1>3, DinersAre DEF PhilosopherTypes, Forked
  <1> QED
    BY <1>1, <1>2, <1>3, <1>4, <1>5, <1>6, PhilosopherKept

LEMMA TakeForkPhilosopher ==
  ASSUME Inv, PhilosopherInv, NEW t \in Diners, TakeFork(t)
  PROVE  [Next]_vars /\ PhilosopherInv'
  <1>1. t \in Task /\ PhilosopherTypes /\ Forked(t) /\ TypeOK
    BY DinersAre DEF PhilosopherInv, Inv
  <1>2. PICK s \in Semaphore, p \in {"one_fork", "two_forks"} :
          /\ SemaphoreDown(t, s) /\ point' = [point EXCEPT ![t] = p] /\ at[t] = "none"
          /\ \/ point[t] = "hungry" /\ p = "one_fork" /\ s = First(t)
             \/ point[t] = "one_fork" /\ p = "two_forks" /\ s = Second(t)
    BY DinersAre DEF TakeFork, AtPoint, Runs, BackFrom, Goto, First, Second
  <1>3. Next /\ exit_count' = exit_count /\ eating' = eating
    BY <1>1, <1>2 DEF Next, Step, TakeFork, monitor
  <1>4. /\ \/ at' = [at EXCEPT ![t] = "semaphore_down"] /\ arg' = [arg EXCEPT ![t] = s] /\ holds' = holds
           \/ at' = at /\ arg' = arg /\ holds' = [holds EXCEPT ![t] = @ \cup {s}]
    BY <1>2 DEF SemaphoreDown, Block
  <1>5. PhilosopherTypes'
    BY <1>1, <1>2, <1>3 DEF PhilosopherTypes, PhilosopherPoints
  <1>6. \A u \in Task : u # t =>
          /\ point'[u] = point[u] /\ eating'[u] = eating[u] /\ holds'[u] = holds[u]
          /\ at'[u] = at[u] /\ arg'[u] = arg[u]
    BY <1>1, <1>2, <1>3, <1>4 DEF PhilosopherTypes, TypeOK
  <1>7. point'[t] = p /\ ~eating'[t]
    BY <1>1, <1>2, <1>3 DEF PhilosopherTypes, Forked
  <1>8. First(t)' = First(t) /\ Second(t)' = Second(t)
    BY DinersAre
  <1>9. Forked(t)'
    <2>1. CASE at' = at /\ holds' = [holds EXCEPT ![t] = @ \cup {s}]
      <3>1. holds'[t] = holds[t] \cup {s} /\ at'[t] = "none"
        BY <1>1, <1>2, <2>1 DEF TypeOK
      <3> QED
        BY <1>1, <1>2, <1>7, <1>8, <3>1 DEF Forked
    <2>2. CASE at' = [at EXCEPT ![t] = "semaphore_down"] /\ arg' = [arg EXCEPT ![t] = s] /\ holds' = holds
      <3>1. holds'[t] = holds[t] /\ at'[t] = "semaphore_down" /\ arg'[t] = s
        BY <1>1, <2>2 DEF TypeOK
      <3> QED
        BY <1>1, <1>2, <1>7, <1>8, <3>1 DEF Forked
    <2> QED
      BY <1>4, <2>1, <2>2
  <1> QED
    BY <1>1, <1>3, <1>5, <1>6, <1>9, PhilosopherKept

LEMMA PutForkPhilosopher ==
  ASSUME Inv, PhilosopherInv, NEW t \in Diners, PutFork(t)
  PROVE  [Next]_vars /\ PhilosopherInv'
  <1>1. t \in Task /\ PhilosopherTypes /\ Forked(t) /\ TypeOK
    BY DinersAre DEF PhilosopherInv, Inv
  <1>2. PICK s \in Semaphore, p \in {"half_full", "thinking"} :
          /\ SemaphoreUp(t, s) /\ point' = [point EXCEPT ![t] = p] /\ at[t] = "none"
          /\ \/ point[t] = "full" /\ p = "half_full" /\ s = First(t)
             \/ point[t] = "half_full" /\ p = "thinking" /\ s = Second(t)
    BY DinersAre DEF PutFork, AtPoint, Runs, BackFrom, Goto, First, Second
  <1>3. Next /\ exit_count' = exit_count /\ eating' = eating
    BY <1>1, <1>2 DEF Next, Step, GiveBack, PutFork, monitor
  <1>4. at' = at /\ arg' = arg /\ holds' = [holds EXCEPT ![t] = @ \ {s}]
    BY <1>2 DEF SemaphoreUp
  <1>5. PhilosopherTypes'
    BY <1>1, <1>2, <1>3 DEF PhilosopherTypes, PhilosopherPoints
  <1>6. \A u \in Task : u # t =>
          /\ point'[u] = point[u] /\ eating'[u] = eating[u] /\ holds'[u] = holds[u]
          /\ at'[u] = at[u] /\ arg'[u] = arg[u]
    BY <1>1, <1>2, <1>3, <1>4 DEF PhilosopherTypes, TypeOK
  <1>7. point'[t] = p /\ ~eating'[t] /\ at'[t] = "none" /\ holds'[t] = holds[t] \ {s}
    BY <1>1, <1>2, <1>3, <1>4 DEF PhilosopherTypes, Forked, TypeOK
  <1>8. First(t)' = First(t) /\ Second(t)' = Second(t) /\ First(t) # Second(t)
    BY DinersAre
  <1>9. Forked(t)'
    BY <1>1, <1>2, <1>7, <1>8 DEF Forked
  <1> QED
    BY <1>1, <1>3, <1>5, <1>6, <1>9, PhilosopherKept

LEMMA ReturnPhilosopher ==
  ASSUME Inv, PhilosopherInv, NEW t \in Task, ReturnToProgram(t)
  PROVE  [Next]_vars /\ PhilosopherInv'
  <1>1. /\ Next /\ UNCHANGED programVars /\ arg' = arg /\ TypeOK
        /\ \A u \in Task : u # t => at'[u] = at[u] /\ holds'[u] = holds[u]
    BY ReturnKeeps DEF Inv
  <1>2. point' = point /\ exit_count' = exit_count /\ eating' = eating
    BY <1>1 DEF programVars, monitor
  <1>3. PhilosopherTypes'
    BY <1>2 DEF PhilosopherInv, PhilosopherTypes
  <1>4. ASSUME t \in Diners PROVE Forked(t)'
    <2>1. Forked(t) /\ First(t)' = First(t) /\ Second(t)' = Second(t)
      BY <1>4, DinersAre DEF PhilosopherInv
    <2>2. at[t] # "none"
      BY Sites DEF ReturnToProgram, Return, LockAcquired, ConditionBlock, ConditionReacquire, SemaphoreDowned,
                   BarrierPassed, Runs, BackFrom
    <2>3. SemaphoreDowned(t)
      BY <2>1, <2>2, Sites DEF Forked, ReturnToProgram, Return, LockAcquired, ConditionBlock, ConditionReacquire,
                        BarrierPassed, Runs, BackFrom
    <2>4. at'[t] = "none" /\ holds'[t] = holds[t] \cup {arg[t]}
      BY <1>1, <2>3 DEF SemaphoreDowned, Resume, TypeOK
    <2> QED
      BY <1>2, <2>1, <2>2, <2>4 DEF Forked
  <1> QED
    BY <1>1, <1>2, <1>3, <1>4, PhilosopherKept

LEMMA PhilosopherStepsInv ==
  ASSUME Inv, PhilosopherInv, [PhilosopherNext]_<<vars, programVars>>
  PROVE  [Next]_vars /\ PhilosopherInv'
  <1>1. ASSUME NEW t \in Task, PhilosopherStep(t) PROVE [Next]_vars /\ PhilosopherInv'
    <2>1. t \in Diners
      BY <1>1, ProgramsAssumption DEF PhilosopherStep, Diners, Seats
    <2> QED
      BY <1>1, <2>1, LocalPhilosopher, TakeForkPhilosopher, PutForkPhilosopher DEF PhilosopherStep
  <1>2. CASE UNCHANGED <<vars, programVars>>
    <2>1. UNCHANGED <<point, eating, exit_count, holds, at, arg>>
      BY <1>2 DEF vars, program, programVars, monitor
    <2>2. PhilosopherTypes'
      BY <2>1 DEF PhilosopherInv, PhilosopherTypes
    <2>3. ASSUME NEW t \in Diners PROVE Forked(t)'
      BY <2>1, DinersAre DEF PhilosopherInv, Forked
    <2>4. Diners' = Diners
      BY DEF Diners, Seats
    <2> QED
      BY <1>2, <2>2, <2>3, <2>4 DEF PhilosopherInv
  <1> QED
    BY <1>1, <1>2, ReturnPhilosopher DEF PhilosopherNext

\* No two neighbours at the table of philosophers.c eat at the same time, for any number
\* of philosophers and whatever other tasks there are.
THEOREM PhilosophersPass == PhilosopherSpec => []AssertsHold
  <1>1. IsFiniteSet(Task)
    BY ProgramsAssumption
  <1>2. Init /\ ProgramInit => Inv /\ PermitInv /\ PhilosopherInv
    BY <1>1, InitInv, InitPermits, PhilosopherInit
  <1>3. Inv /\ PermitInv /\ PhilosopherInv /\ [PhilosopherNext]_<<vars, programVars>>
          => Inv' /\ PermitInv' /\ PhilosopherInv'
    BY <1>1, PhilosopherStepsInv, NextInv, NextPermits
  <1>4. Inv /\ PermitInv /\ PhilosopherInv => AssertsHold
    BY <1>1, PhilosopherAssertsIt
  <1> QED
    BY <1>2, <1>3, <1>4, PTL DEF PhilosopherSpec
=============================================================================
