SPECIFICATION Spec
CONSTANTS
  r1 = r1  r2 = r2  t1 = t1  t2 = t2  t3 = t3  h1 = h1
  Calls = {c1, c2, c3}
  RequestIds = {r1, r2}
  Tokens = {t1, t2}
  Alphabet <- DisjointClients
  Works <- TwoWorks
  PrevHashes = {h1}
  TemplateIds = {1}
  ParentOf <- OneParent
  TxsOf <- OneBody
  ShareTips = {s1}
  Nonces = {1}
  Synthetic = Synthetic
  None = None
SYMMETRY Symmetry
PROPERTY AcceptedJobSolvable
CHECK_DEADLOCK FALSE
