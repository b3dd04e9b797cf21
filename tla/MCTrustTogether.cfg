SPECIFICATION Spec
CONSTANTS
  Proc = {p1, p2}
  Url = {"u1", "u2"}
  PubKey = {"k1", "k2"}
  App = {"v1"}
  Regs = {"image"}
  Release <- MCRelease
  Policy = {"tofu"}
  NoCommand = NoCommand
  NoDeployment = NoDeployment
SYMMETRY Processes
INVARIANT
  Coherent
