SPECIFICATION Spec
CONSTANTS
    kWordBits = 4
    kL1Count = 4
    TouchedBits = {0, 1, 3, 4, 6, 7, 8, 11, 12, 15}
INVARIANTS
    SearchesExact
PROPERTIES
    WordsImplementTree
