CONSTANTS
  a1 = a1
  a2 = a2
  a3 = a3
  w1 = w1
  w2 = w2
  w3 = w3
  c1 = c1
  None = None
  Container = Container
  Applications = {a1, a2, a3}
  Workers = {w1, w2, w3}
  Owner <- OwnerOf
  MAX_RUNS_PER_CALL = 2
  Clients = {c1}
  Unlocked = {}
SPECIFICATION FairSpec
INVARIANTS TypeOK LockedOut ListsWhole
PROPERTIES PassEnds FirstServed
