SPECIFICATION FairDeployedSpec
CONSTANTS
  alice = alice
  bob = bob
  deployer = deployer
  v1 = v1
  v2 = v2
  Accounts = {alice, bob, deployer}
  ZeroAddress = zero
  RegistryOwner = deployer
  Vaults = {v1, v2}
  AgentVaultOwner <- TwoVaultOwners
  Keys = {k1}
  OtherAddress = other
  Ratios = {1}
  Amounts = {1}
  ActionTypes = {1}
  MaxUint64 = 1
  ChainIds = {114}
  ChainId = 114
  Handlers = {h1}
  FactorPairs <- MCFactorPairs
  NoKey = NoKey
  EnclaveChainId = 114
  CounterMod = 1
  MaxChecks = 1
  OtherSlots = {}
  MaxPending = 1
  MaxFaults = 1
PROPERTIES
  DefenceRecorded
  HealthRecovers
