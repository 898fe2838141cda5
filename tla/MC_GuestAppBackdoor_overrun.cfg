CONSTANTS
  HalfW = 8
  Coords = {}
  SelWords = {0}
  SelPieces = {}
  DevIds = {0}
  InfoSize = 6
  MouseWords = {}
  RpcOks = {}
SPECIFICATION Spec
INVARIANT DeviceInfoInBounds
