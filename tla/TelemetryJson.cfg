SPECIFICATION Spec
INVARIANTS
    FileOverrides
