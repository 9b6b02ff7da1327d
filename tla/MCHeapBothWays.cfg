\* One block between two free ones, none of which is enough by itself.
CONSTANTS
  Client = {c1, c2, c3}
  Size = {0, 1, 4, 9}
  StaticSize = {}
  MinWords = 3
  SegWords = 15
  MoreWords = 5
  None = None
  TreeNode = {1}
  KeyOf <- MCKeyOf
  SearchKey = {2}
  NIL = NIL
  N = N
SYMMETRY Symmetry
SPECIFICATION Spec
INVARIANT ContentsUnchanged
CHECK_DEADLOCK FALSE
