SPECIFICATION TxnSpec
CONSTANTS
  Key = {k1}
  MaxSeq = 4
  Client = {c1, c2}
  Writing = {c1}
INVARIANT IsolatedReads
