CHECK_DEADLOCK FALSE
SPECIFICATION Spec
CONSTANTS
  Kinds <- MCKinds
  Ids = {i1, i2, i3, i4}
  Names = {n1, n2}
  Values <- MCValues
  t1 = t1
  t2 = t2
  p1 = p1
  Prompts = {p1}
  Editor = editor
  Requests = {editor, other}
  MaxEvents <- MCMaxEvents
  MaxItems <- MCMaxItems
  None = None
INVARIANTS
  TypeOK
  CacheFresh
  DeletedStaysDeleted
PROPERTIES
  SyncExact
  SyncConverges
