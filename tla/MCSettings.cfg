SPECIFICATION Spec
CONSTANTS
  None = None
  Ann = Ann
  Bob = Bob
  New = New
  B1 = B1
  B2 = B2
  Users = {Ann, Bob, New}
  Roles = {"admin"}
  Passwords = {"p"}
  Browsers = {B1, B2}
  Sids = {1, 2}
  MaxJobs = 2
  Accounts0 <- MCAccounts
  Timeouts = {"60"}
  Numbers = {"60"}
  DefaultTimeout = "300"
  Tags <- MCTags
  Rows0 <- MCRows
CONSTRAINT MCConstraint
SYMMETRY MCSymmetry
INVARIANT DisabledMeansOut LastAdminKept QuietIsLive
 
CHECK_DEADLOCK FALSE
