SPECIFICATION Spec
CONSTANTS
    Cap = 3
    Warn = 2
    Costs <- MCCosts
    MaxSpend = 5
INVARIANTS RefusedToday ToldOnce
PROPERTIES AdmittedUnderCap
