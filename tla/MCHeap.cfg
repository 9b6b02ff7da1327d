\* Three clients and a segment that four of the smallest blocks fill, with static
\* memory taken from it and another segment added to it.
CONSTANTS
  Client = {c1, c2, c3}
  Size = {0, 1, 2, 5, 6}
  StaticSize = {2}
  MinWords = 3
  SegWords = 13
  MoreWords = 5
  None = None
  TreeNode = {1, 2, 3, 4, 5}
  KeyOf <- MCKeyOf
  SearchKey = {1, 2, 3, 4, 5, 6, 7, 8, 9}
  NIL = NIL
  N = N
SYMMETRY Symmetry
SPECIFICATION Spec
INVARIANTS BlocksTile ContentsKept CheckPasses TreesServeAsSets
CHECK_DEADLOCK FALSE
