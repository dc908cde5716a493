SPECIFICATION Spec
CONSTANTS
  c1 = c1  c2 = c2  u1 = u1  u2 = u2

  None = None
  Clients = {c1, c2}
  UserOf <- MCUserOf
  Sessions = {"s1", "s2"}
  Admins = {u2}
  Picks = {"listed", "other"}
  Permitted = {"listed"}
  Llms = {"anthropic", "openai", "local"}
  Tools = {"memory.log_lesson", "driver.read"}
  MemoryTools = {"memory.log_lesson"}
  MaxLoops = 1
  MaxCalls = 2
  MaxTurns = 2
  MaxDetours = 1
  Retain = FALSE
INVARIANTS EveryCallAnswered StoredInOrder BusyMeansPending
CHECK_DEADLOCK FALSE
