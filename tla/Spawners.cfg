SPECIFICATION Spec
CONSTANTS
  p2pool = p2pool
  mujina = mujina
  pool = pool
  alice = alice
  bob = bob
  translator = translator
  Daemons <- MCDaemons
  Kind <- MCKind
  Plans <- MCPlans
  Ports = {p1, p2, p3, p4}
  Strangers = {other}
  None = None
INVARIANTS NothingLeft DirectoryOutlivesChild ReadyMeansListening
SYMMETRY MCSymmetry
