SPECIFICATION Spec
CONSTANTS
    MaxWritten = 3
    Writable <- MCWritable
INVARIANTS
    HighestReadableWins
    StartsAsAsked
