SPECIFICATION TeeSpec
CONSTANTS
  alice = alice
  bob = bob
  deployer = deployer
  v1 = v1
  v2 = v2
  Accounts = {alice, deployer}
  ZeroAddress = zero
  RegistryOwner = deployer
  Vaults = {v1}
  AgentVaultOwner <- OneVaultOwner
  Keys = {k1}
  OtherAddress = other
  Ratios = {1}
  Amounts = {1, 2}
  ActionTypes = {1}
  MaxUint64 = 2
  ChainIds = {114}
  ChainId = 114
  Handlers = {h1, h2}
  FactorPairs <- MCFactorPairs
  NoKey = NoKey
  EnclaveChainId = 114
  CounterMod = 1
  MaxChecks = 1
INVARIANTS
  TeeTypeOK
  GapFree
  SignaturesCurrent
  DangerDecides
PROPERTIES
  KeepsPromise
SYMMETRY HandlerSymmetry
CONSTRAINTS IssuedBound UnsignedBound
