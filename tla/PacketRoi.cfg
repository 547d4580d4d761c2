SPECIFICATION Spec
CONSTANT
    Precincts <- MCRoiLazy
INVARIANT
    CodedAlike
