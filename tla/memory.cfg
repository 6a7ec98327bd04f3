\* Everything that can fail fails, callbacks have both habits: what is freed is
\* not used again, what is used is not freed, and every leak has its cause.
SPECIFICATION Spec
CONSTANTS
  Node = {n1, n2, n3}
  NULL = NULL
  Names = {a, b}
  MaxConnects = 2
  MaxMade = 3
  Habits = {"own_name", "disconnect"}
SYMMETRY NodeSymmetry
CHECK_DEADLOCK FALSE
INVARIANTS
  ListsWellFormed
  NoDangling
  FreedNeverTouched
  LeaksExplained
PROPERTIES
  ImplementsEntries
