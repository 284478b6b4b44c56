SPECIFICATION AutoSpec
CONSTANTS
  Dirs = {d1}
  Callers = {c1}
  Requests = {"manual", "part"}
  Holders = {h1}
  Arms = {a1, a2}
  Attempts = 2
INVARIANTS RunningRowHasRun
