SPECIFICATION Spec
CONSTANT
    Precincts <- MCPrecincts
INVARIANTS
    TypeOK
    HeaderAgrees
    LimitsMatch
    DecodesWhatArrived
