SPECIFICATION Spec
CONSTANTS
  None = None
  tg = tg
  mx = mx
  wh = wh
  h1 = h1
  u1 = u1
  a1 = a1
  Channels = {tg, mx, wh}
  Style <- MCStyle
  Users = {u1}
  UserOf <- MCUserOf
  Chats = {g1, g2}
  Mids = {m1, m2}
  Approvals = {a1, a2}
  Verbs = {"approved"}
  MaxPosts = 2
  MaxCrashes = 1
CONSTRAINT MCConstraint
INVARIANT HandledBelowCursor ReplyDecidesItsAlert
PROPERTY DecisionsAreAuthorised
PROPERTY PollersCatchUp
