SPECIFICATION Spec
CONSTANTS
    Txs = {t1, t2, t3, t4}
    Amounts = {1, 2}
    Start = 2
SYMMETRY TxSymmetry
INVARIANTS NegativeOnlyByClawback LedgerSumsToBalance
CHECK_DEADLOCK FALSE
