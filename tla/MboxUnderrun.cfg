SPECIFICATION Spec
CONSTANTS
  t1 = t1 t2 = t2 t3 = t3 x = x y = y
  NULL = NULL
  Task = {t1, t2, t3}
  Name = {x}
  Boxes = 1
  Capacity = 2
  Modulus = 4
  Length <- Lengths
  Senders <- OneSender
  Receivers <- TwoReceivers
  Message <- Messages
PROPERTY NoEmptyRead
CHECK_DEADLOCK FALSE
