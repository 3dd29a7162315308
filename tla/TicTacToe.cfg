\* The whole game: no bound is needed.
SPECIFICATION Spec
INVARIANTS
    TypeOK
    FairTurns
    NeverStuck
PROPERTIES
    KeepsTheRules
