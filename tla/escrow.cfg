SPECIFICATION LiveSpec
CONSTANTS
  Ids = {i1, i2}
  Agents = {a, b}
  Depositors = {a}
  Nobody = nobody
  Authority = root
  Amounts = {1, 2}
  InitWallet = 2
  MaxAge = 1
  Timeouts = {1}
  Secrets = {s, t}
  NoSecret = nobody
  Conditions = {s}
  Lifetimes = {1}
INVARIANT SettledByAgreement
PROPERTIES ImplementsEscrow EveryEscrowCloses
