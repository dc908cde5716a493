SPECIFICATION Spec
CONSTANTS
  cpu = cpu
  mem = mem
  r1 = r1
  telegram = telegram
  matrix = matrix
  r2 = r2
  Nothing = Nothing
  Sources = {s1}
  Queries = {cpu, mem}
  Library <- MCLibrary
  Values = {3}
  Ids = {i1, i2}
  Recipients = {r1, r2}
  Rule <- MCRule
  ChannelOf <- MCChannelOf
  Ingress <- MCIngress
  TriageTTL = 2
  AlertTTL = 1
  BusCapacity = 1
INVARIANT OnePlanPerWindow
INVARIANT SentToEnrolled
PROPERTY RepeatedBreachIsTriaged
