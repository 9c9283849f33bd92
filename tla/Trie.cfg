SPECIFICATION Spec
CONSTANTS
    Nibbles <- MCNibbles
    Entries <- MCEntries
    NoValue = "none"
    ValueLen <- MCValueLen
    MaxCount = 2
INVARIANTS
    Canonical
    AnswersRight
    CommitsRight
    IteratorsExact
    RecordsProve
