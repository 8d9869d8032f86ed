CONSTANTS
  MaxThreads = 3
  Room = 2
  MaxChunks = 3
  Serial = TRUE
  v0 = v0
  v1 = v1
  v2 = v2
  v3 = v3
  t0 = t0
  t1 = t1
  Vertices = {v0, v1, v2, v3}
  Triangles = {t0, t1}
  Links <- InitialLinks
  Borders <- Square
SPECIFICATION WriterSpec
INVARIANTS
  OnlyElements
  ReadsAllElements
  VertexEdgesAreWritten
  TrianglesAreWritten
CHECK_DEADLOCK FALSE
