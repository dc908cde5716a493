SPECIFICATION Spec
CONSTANTS
    r1 = r1
    r2 = r2
    t1 = t1
    c1 = c1
    NoCred = NoCred
    Requests = {r1}
    Targets = {t1}
    Creds = {c1}
    MaxCrashes = 1
    MarkedAnywhere <- MCAnywhere
    MarkedAfterDot <- MCAfterDot
    Caps <- MCCaps
    Shapes <- MCShapes
    RuleSets <- MCRuleSets
PROPERTIES
    KillDeniesExecute
