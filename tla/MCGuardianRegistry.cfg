SPECIFICATION RegistrySpec
CONSTANTS
  alice = alice
  bob = bob
  deployer = deployer
  v1 = v1
  v2 = v2
  Accounts <- MCAccounts
  ZeroAddress = zero
  RegistryOwner = deployer
  Vaults <- MCVaults
  AgentVaultOwner <- MCAgentVaultOwner
  Keys = {k1, k2}
  OtherAddress = other
  Ratios = {0, 1}
  Amounts = {0, 1}
  ActionTypes = {2, 3}
  MaxUint64 = 2
  ChainIds = {1, 2}
  ChainId = 1
INVARIANTS
  RegistryTypeOK
  VaultIndex
  NonceIsTail
PROPERTIES
  ImplementsLedger
  PauseFreezes
  IdentityImmutable
