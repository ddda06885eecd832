SPECIFICATION Spec
CONSTANTS
  N = 4
  MaxEdges = 4
  Graphs <- SmallGraphs
INVARIANTS
  TypeOK
  ClassesAreRight
  GroupsAreComponents
  VerdictIsRight
