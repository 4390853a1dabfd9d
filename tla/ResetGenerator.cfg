SPECIFICATION Spec
CONSTANTS
    Structs <- ThreeStructs
    Packages <- TwoPackages
    PkgOf <- Home
    AllFields <- Layout
    Embedded <- Embedding
    AfterGenerated = {"Record"}
    MaxEdits = 4
INVARIANTS
    TwoRunsSettle
    DeclaredOnce
