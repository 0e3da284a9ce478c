SPECIFICATION SeqSpec
CONSTANTS
    n1 = n1
    a1 = a1
    Messages = {m1, m2}
    Addresses = {a1}
    Senders = {x1}
    Mailers = {}
    MaxTroubles = 0
    MaxEdits = 1
    NoMessage = NoMessage
    Enrollments = {n1}
    ToEmail <- Target
    Tickers = {x1}
    MaxSteps = 2
    NoEnrollment = NoEnrollment
INVARIANTS
    NullIsTriedAgain
CHECK_DEADLOCK FALSE
