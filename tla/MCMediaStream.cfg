\* Three chunks: one may be in the client's hands, one in the loop's and one
\* waiting while the timer, two ticks long, fires and is reset.  Two redirects
\* are followed, so that a drain may come between two requests and after the
\* last.
CONSTANTS
  Timeout = 2
  MaxChunks = 3
  Hosts = {h1, h2}
  Allowed = {h1}
  MaxRedirects = 2
SPECIFICATION FairMediaSpec
INVARIANTS
  Guarded
  ResultHasCause
  BodiesReleased
PROPERTY StreamEnds
\* The request ends.
CHECK_DEADLOCK FALSE
