SPECIFICATION Spec
CONSTANTS
  alice = alice
  bob = bob
  k1 = k1
  k2 = k2
  kp = kp
  k3 = k3
  n1 = n1
  n2 = n2
  Fresh <- MCFresh
  NativeMint <- MCNativeMint
  NativeMints = {n1, n2}
  Tests <- MCTests
  TOKEN_ID = "token22"
  TokenIds = {"token", "token22"}
  Legacy = "token"
  Token2022 = "token22"
  HistoryLimit = 2
  Pubkey <- MCPubkey
  Keypair = {alice, bob, k1, k2, k3, kp}
  ProgramId = {"token", "token22", "other"}
  MaxAmount = 2
  MaxSigners = 2
  Wallets = {alice, bob}
VIEW View
INVARIANTS
  FrozenOnlyAtTheFreezer
PROPERTIES
  SignersAreTheOnesNeeded
  CreationIsAllOrNothing
  OmittedMeansTheAuthoritys
CHECK_DEADLOCK FALSE
