SPECIFICATION Spec
CONSTANTS
    Chars = {97}
    MaxLength = 6
    MaxCallback = 1
INVARIANTS NeverThrows RoundTrip
CHECK_DEADLOCK FALSE
