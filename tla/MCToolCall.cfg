\* Every call of a function of up to two arguments, in every environment.  A
\* handler that is done, or whose RPC hangs, does nothing more.
CONSTANTS
  Definitions <- MCDefinitions
  ArgLists <- MCArgLists
SPECIFICATION FairSpec
INVARIANTS AdmitsExactlyWhatFits WalletHearsOnlyOfGoodCalls PoliciesFit
PROPERTIES CallEnds
CHECK_DEADLOCK FALSE
