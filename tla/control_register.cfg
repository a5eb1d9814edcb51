SPECIFICATION Spec
CONSTANTS
    RegValues <- MCRegValues
    Arguments <- MCArguments
INVARIANTS
    TypeOK
    OnlyOwnField
    RoundTrip
