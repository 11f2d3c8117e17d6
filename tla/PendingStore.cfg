SPECIFICATION Spec
CONSTANTS
  Handlers = {h1, h2, h3}
  Ops = {"add", "set", "clear"}
  Inodes = {i1, i2, i3, i4, i5}
  NoInode = NoInode
SYMMETRY HandlerSymmetry
INVARIANT SettledFlag
INVARIANT FlagSurvives
INVARIANT InsertedIsTransition
