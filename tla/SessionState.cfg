CONSTANTS
    Worker = {w1, w2}
    MaxEdits = 4
    MaxLoss = 1
    MaxVersion = 9
    CarriesVersion = TRUE
SPECIFICATION Spec
INVARIANTS StoreNeverAhead
PROPERTIES NoLostUpdate TombstoneFences
