SPECIFICATION SigningSpec
CONSTANTS
    s1 = s1
    s2 = s2
    s3 = s3
    c1 = c1
    c2 = c2
    c3 = c3
    NoSigner = NoSigner
    Signers = {s1}
    Order <- MCOrder
    Handlers = {c1, c2}
    MaxSends = 1
CHECK_DEADLOCK FALSE
PROPERTIES
    SignedNeverDeclined
