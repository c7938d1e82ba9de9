SPECIFICATION BillingSpec

CONSTANTS
    Clients = {1, 2}
    Names = {"acme"}
    NewClients <- MCNewClients
    Changes <- MCChanges
    Invoices = {1, 2}
    Keys = {"key"}
    NoKey = "none"
    Carts <- MCCarts
    Suppliers = {"paper"}
    NoSupplier = "none"
    Bills <- MCBills
    DueDates = {1}
    LastDay = 2
    Workers = {1, 2}
    Serves <- MCServes
    Types <- MCTypes
    MaxBatch = 1
    Amounts <- MCAmounts

INVARIANT BillingTypeOK
INVARIANT OneInvoicePerKey
INVARIANT ExportsAreForeign
 
INVARIANT AmountsReadBack
INVARIANT ListedAsShown
INVARIANT SummariesHoldTogether

CHECK_DEADLOCK FALSE
