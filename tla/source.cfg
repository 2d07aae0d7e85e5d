SPECIFICATION ReadSpec
CONSTANTS
    None = None
    PageSize = 2
    MaxPages = 3
    MaxDocuments = 4
    Names <- MCNames
    Modes <- MCModes
    NewInvoices <- MCNewInvoices
    NewReceipts <- MCNewReceipts
INVARIANTS ReadyMeansClear PreviewIsExact
