SPECIFICATION Spec
CONSTANTS
    Semas = {s1, s2, s3}
    MaxValue = 2
    MaxLength = 4
INVARIANTS
    TryAllOrNothing
    ReleaseAllOrPart
