------------------------------ MODULE MCWallet ------------------------------
EXTENDS Wallet, TLC

TxSymmetry == Permutations(Txs)
=============================================================================
