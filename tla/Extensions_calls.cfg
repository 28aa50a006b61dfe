\* Two goroutines that enable, disable and remove one extension, and one caller.
SPECIFICATION LiveSpec
CONSTANTS
  e1 = e1
  e2 = e2
  python = python
  ruby = ruby
  node = node
  Thread = {a1, a2, u1}
  Admin = {a1, a2}
  User = {u1}
  Instance = {i1}
  None = None
  Ext = {e1}
  Kind <- MCKind
  NameOf <- MCNameOf
  Builtin = {node}
  DbMayFail = {FALSE}
  MayCrash = FALSE
INVARIANTS
  ReaderIsAlone
PROPERTY
  AllReturn
\* An extension that was removed never comes back (its ID is fresh): with the
\* last one gone nothing is left to do.
CHECK_DEADLOCK FALSE
