SPECIFICATION Spec
CONSTANTS
  Task = {t1, t2}
  Channel = {"SMS", "EMAIL"}
  Scope = {"locations"}
  Capacity = 1
  Refill = 1
  Ttl = 1
  MaxRetries = 1
  MaxTime = 1
  MaxDrift = 2
  MaxFaults = 1
  Skew = 0
INVARIANTS WithinBudget DeliveredAtMostOnce SentWasDelivered
PROPERTIES EverySendEnds
CHECK_DEADLOCK FALSE
