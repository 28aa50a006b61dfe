\* One project, two domains and two host names, one of them in three spellings.
\* Four keys: a root that is made twice and two leaves, or one root and three
\* signatures.
SPECIFICATION DomainsSpec
CONSTANTS
  Caller = {c1, c2}
  Project = {p1}
  Dom = {d1, d2}
  h1 = h1
  H1 = H1
  b1 = b1
  h2 = h2
  Host = {h1, H1, b1, h2}
  Lower <- MCLower
  Fold <- MCFold
  Port = {x1, x2}
  NoPort = NoPort
  Odd = Odd
  None = None
  FaultSets <- MCFaultSets
  Client = {a1, a2}
  CertId = {i1, i2}
  CertDomain = {s1}
  Key = {k1, k2, k3, k4}
  CA = CA
  Nobody = Nobody
SYMMETRY Symmetry
INVARIANTS
  EntryHasRow
  ForeignIsKept
  RoutesAreExact
  PortTellsRoute
  OneRoot
  RevokedHasNoKey
  RowHasFiles
