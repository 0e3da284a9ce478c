SPECIFICATION ImportSpec
CONSTANTS
    k1 = k1
    q1 = q1
    q2 = q2
    Imports = {j1, j2}
    Keys = {k1}
    Phones = {q1, q2}
    NameOf <- Names
    PhoneOf <- PhonesOf
    Compact <- WithoutSpaces
    NoPhone = NoPhone
    File <- Rows
    NoKey = NoKey
    Workers = {w1}
    MaxUpsets = 0
    NoImport = NoImport
INVARIANTS
    RerunSkipsDuplicates
CHECK_DEADLOCK FALSE
