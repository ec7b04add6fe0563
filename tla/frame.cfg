SPECIFICATION Spec
CONSTANTS
    Seqs <- MCSeqs
    Stamps <- MCStamps
    PayloadLens <- MCPayloadLens
    Lens <- MCLens
    DeclaredLens <- MCDeclaredLens
    None = None
    Panic = Panic
INVARIANTS
    LimitSuffices
    RoundTrip
    StaysInside
