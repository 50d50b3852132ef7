CONSTANTS
    Cases = {c1}
    Statuses = {"open", "closed"}
    MaxEvents = 4
    MaxAlterations = 2
SPECIFICATION Spec
INVARIANTS TypeOK UnalteredLedgerVerifies AlterationsShowBeforeTheTail ReconstructionIsAPastState
PROPERTIES AppendDoesNotHeal
