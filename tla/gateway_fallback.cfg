SPECIFICATION Spec
CONSTANTS
  h1 = h1  h2 = h2  h3 = h3  kA = kA  kB = kB  kC = kC
  None = None
  Requests = {h1, h2}
  Routes <- ThreeRoutes
  Cooldown = 2
  Limits = {0, 2}
  MaxTime = 3
SYMMETRY Clients
INVARIANTS NoCandidateLeftOut RankingKeptUnlessFailed
PROPERTIES NoFallbackAfterBytes
