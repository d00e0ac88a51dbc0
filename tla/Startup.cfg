SPECIFICATION MCSpec
INVARIANTS
    SendsAsAsked
    BoundAsAsked
    TrustAsAsked
    RefusedUnconnected
