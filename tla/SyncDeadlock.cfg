SPECIFICATION MCSpec
CONSTANTS
  Task = {t1, t2, t3, t4}
  t1 = t1  t2 = t2  t3 = t3
  f1 = f1  f2 = f2  f3 = f3
  Lock = {l1, l2}
  Condition = {c1, c2}
  Semaphore = {s1, f1, f2, f3}
  Barrier = {b1}
  Permits <- PermitsOf
  Total <- AllTasks
  NULL = NULL
  thread2 = t1  thread3 = t2
  l = l1  c0mod3 = c1  cnot0mod3 = c2
  Turns = 3  Signals = 5
  BarrierThread = {t1, t2, t3, t4}
  barrier1 = t1  barrier = b1
  NUM_ITERATIONS = 3
  NUM_PHILOSOPHERS = 3
  Philosopher <- Philosophers
  fork <- ForksOnTable
INVARIANT NoUnreportedDeadlock
CHECK_DEADLOCK FALSE
