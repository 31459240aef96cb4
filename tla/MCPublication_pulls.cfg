SPECIFICATION Spec
CONSTANTS
  Puller = {p1, p2}
  Importer = {i1}
  Imported <- McImported
  Target <- McTarget
  Portable <- McPortable
  Digest = {d1, d2}
  Latest <- McLatest
  Blank = Blank
  None = None
  MaxStarted = 3
SYMMETRY McSymmetry
VIEW McView
INVARIANTS LinksFollowTag RegisterRepeats ListAllOrNothing
PROPERTIES PlainStays EndsLive
CHECK_DEADLOCK FALSE
