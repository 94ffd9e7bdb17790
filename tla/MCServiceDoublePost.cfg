SPECIFICATION ServiceSpec
CONSTANTS
  alice = alice
  bob = bob
  deployer = deployer
  v1 = v1
  v2 = v2
  Accounts = {alice, deployer}
  ZeroAddress = zero
  RegistryOwner = deployer
  Vaults = {v1}
  AgentVaultOwner <- OneVaultOwner
  Keys = {k1}
  OtherAddress = other
  Ratios = {1}
  Amounts = {1}
  ActionTypes = {1}
  MaxUint64 = 1
  ChainIds = {114}
  ChainId = 114
  Handlers = {h1}
  FactorPairs <- MCFactorPairs
  NoKey = NoKey
  EnclaveChainId = 114
  CounterMod = 1
  MaxChecks = 1
  OtherSlots = {h1}
  MaxPending = 2
  MaxFaults = 1
INVARIANT NoDoublePost
