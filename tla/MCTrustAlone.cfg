SPECIFICATION AttestSpec
CONSTANTS
  Proc = {"p1"}
  Url = {u1, u2}
  PubKey = {"k1", "k2", "seed"}
  App <- MCApp
  Regs <- MCRegs
  Release <- MCRelease
  Policy = {"tofu", "pinned"}
  NoCommand = NoCommand
  NoDeployment = NoDeployment
  Machine <- MCMachine
  Built <- MCBuilt
  DerivedKey <- MCDerivedKey
  SeedKey = "seed"
  SinkId <- MCSinkId
  Nonce = {n1, n2}
  Room = 1
  InFlight = 1
  NoNonce = NoNonce
  NoIdentity = NoIdentity
  NoInfo = NoInfo
  a0 = a0
  a1 = a1
  a2 = a2
  c0 = c0
  c1 = c1
  c2 = c2
  i0 = i0
  i1 = i1
  i2 = i2
  firmware = firmware
  kernel = kernel
  kms = kms
  ready = ready
INVARIANTS
  AttestTypeOK
  VerifiedHasServed
  PinnedKeysDerived
  GenuineVerifies
  AcceptedPinned
  AlwaysLoadable
  RefusedOnlyByPin
PROPERTY
  ImplementsPinBoard
SYMMETRY Interchangeable
