CONSTANTS
  HalfW = 8
  Coords = {}
  SelWords <- MCSelWords
  SelPieces = {0}
  DevIds = {}
  InfoSize = 4
  MouseWords = {0, 1, 2}
  RpcOks = {FALSE, TRUE}
SPECIFICATION Spec
INVARIANT SelectionExact
