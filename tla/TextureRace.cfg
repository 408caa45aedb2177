\* The graphics thread and a worker call get_id at the same time.
CONSTANTS
  G = G  W = W  T1 = T1  T2 = T2  T3 = T3
  Threads = {G, W}
  Main = G
  Tex = {T1, T2, T3}
  Requests <- MCRequests
  BufSize = 2
  MaxGen = 2
SPECIFICATION Spec
INVARIANT DistinctGlIds
CHECK_DEADLOCK FALSE
