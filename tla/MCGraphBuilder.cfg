\* Any number of runs over any of the files; an integer of SQLite has 3 bits and a word 4.
SPECIFICATION Spec
CONSTANTS
  k1 = k1
  k2 = k2
  stranger = stranger
  x = x
  y = y
  Word = 16
  MaxInteger = 7
  Rounded <- MCRounded
  Keys <- MCKeys
  Aliases = {x, y}
  Scids = {1, 2, 9}
  Graphs <- MCGraphs
  None = None
INVARIANT DoneIsTheGraph
INVARIANT TablesMatch
