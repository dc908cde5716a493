SPECIFICATION Spec
CONSTANTS
  Missing = Missing
  Calls = {"c1"}
  Profiles <- MCProfiles
  RouterOs <- MCRouterOs
  Unknown = "nobody"
  Endpoints <- MCEndpoints
  Slots = {"n"}
  Keys = {"k1", "k2"}
 
PROPERTY EveryCallReplies
