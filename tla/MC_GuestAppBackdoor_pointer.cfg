CONSTANTS
  HalfW = 8
  Coords <- MCCoords
  SelWords = {0}
  SelPieces <- MCSelPieces
  DevIds = {}
  InfoSize = 4
  MouseWords = {}
  RpcOks = {}
SPECIFICATION Spec
INVARIANT PosRoundTrip RequestDecodes
