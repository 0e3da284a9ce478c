SPECIFICATION BillSpec
CONSTANTS
    Payments = {p1}
    Totals = {1, 2}
    NoPaper = NoPaper
    Clerks = {x1}
    MaxOutages = 0
    NoPayment = NoPayment
INVARIANTS
    PdfShowsIssued
CHECK_DEADLOCK FALSE
