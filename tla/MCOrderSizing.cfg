CONSTANTS
    Margins = {1, 5, 10, 15, 20, 25, 30, 50, 60, 99, 100, 150, 399, 400}
    CallbackRates = {1, 50, 100}
    SafetyRates = {10, 600, 950}
    Prices = {1, 3, 4, 5, 7, 10}
    BracketTables <- MCBracketTables
    LotRules <- MCLotRules
SPECIFICATION Spec
CHECK_DEADLOCK FALSE
INVARIANTS
    MarginWithinBudget
    SafeWhereItLands
    PassesFilters
    UnleveredDecides
