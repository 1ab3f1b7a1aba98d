SPECIFICATION MCSpec
CONSTANTS
    Holders <- MCHolders
    Confusions <- MCConfusions
    MaxMisreads = 2
    CurrentYear = 2026
    Names <- MCNames
    MaxChanges = 2
INVARIANTS
    ReadTypeOK
    NoScanLeft
    MisreadIsSeen
    RepairUndoes
    DatesAreRight
    NamesReadWhole
    SpellingsMeet
    CanonicalIsStable
