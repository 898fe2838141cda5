CONSTANTS
  HalfW = 8
  Coords = {}
  SelWords = {0}
  SelPieces = {}
  DevIds <- MCDevIds
  InfoSize = 6
  MouseWords = {}
  RpcOks = {}
SPECIFICATION Spec
INVARIANT DeviceInfoBounded RequestDecodes
