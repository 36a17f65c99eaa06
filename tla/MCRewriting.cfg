\* One segment of a playlist is kept, so that up to two are dropped.  A body of 18
\* bytes holds every plain message; the gzips unpack to as many, to 20 and to 21.
CONSTANTS
  u1 = u1
  u2 = u2
  foreign = foreign
  Bodies <- Playlists
  Keep = 1
  Documents <- MCDocuments
  Media = {u1, u2}
  Unusable = {foreign}
  Queries <- MCQueries
  Now = "now"
  Requests <- MCRequests
  MaxMessage = 18
SPECIFICATION RewritingSpec
INVARIANTS
  WindowKept
  HeaderKept
  NothingPastProxy
  ReferencesResolve
  SummaryStable
  SignatureCovers
  FieldsRemoved
\* A request is served once.
CHECK_DEADLOCK FALSE
