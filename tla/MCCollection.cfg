SPECIFICATION FairSpec
CONSTANTS
  data = data
  header = header
  peer = peer
  view = view
  MaxObjects = 2
  Members <- MCMembers
  Header = header
  Size <- MCSize
  External = {peer}
  Local = {view}
  MaxFaults = 2
INVARIANTS TypeOK PinnedIsIntact ReferencedIsPublished CreditIsExact
PROPERTIES WithdrawnIsRemoved
CHECK_DEADLOCK FALSE
