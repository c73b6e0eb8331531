CONSTANTS
    None = None
    Packs <- ThreeEntryPacks
    Library = {"max_drawdown", "inactivity"}
    Outcomes = {"Warn", "TargetHit", "Fail", "Liquidate", "errs", "inapplicable"}
SPECIFICATION Spec
INVARIANTS RegistryIndexed PackIsEnforced DecisionIgnoresOrder  BreachAlwaysWins
