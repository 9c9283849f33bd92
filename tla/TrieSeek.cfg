SPECIFICATION Spec
CONSTANTS
    Nibbles <- MCNibbles
    Entries <- MCEntries
    NoValue = "none"
    ValueLen <- MCValueLen
    MaxCount = 2
INVARIANT
    SeeksAnyKey
