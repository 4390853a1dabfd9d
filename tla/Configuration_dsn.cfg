SPECIFICATION Spec
CONSTANTS
    MaxWritten = 2
    Writable <- MCWritable
INVARIANTS
    FlagDecidesTheDatabase
