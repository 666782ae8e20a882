SPECIFICATION FairSpec
CONSTANTS
    r1 = r1
    r2 = r2
    d1 = d1
    w1 = w1
    w2 = w2
    b1 = b1
    None = None
    Request <- TwoRequests
    DepositId <- OneDeposit
    WithdrawalId <- TwoWithdrawals
    BillId <- OneBill
    AmountValue <- Amounts12
    Ops <- AllOps
INVARIANTS
    TypeOK
    DepositsCoverAllWithdrawals
    BillsFitTheirWithdrawal
PROPERTIES
    ImplementsLedger
    NothingHangs
