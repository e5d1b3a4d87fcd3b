CONSTANTS
    s1 = s1
    s2 = s2
    Senders = {s1, s2}
    BatchLen = 2
    Frags = 1
    MaxWrites = 2
    TransientErrors = FALSE
SPECIFICATION Spec
INVARIANT NoWriteOutOfRange
