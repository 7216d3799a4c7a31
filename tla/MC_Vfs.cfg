CONSTANTS
  NumInodes = 4
  FirstDataZone = 3
  NumZones = 14
  BlockSize = 2
  PPZ = 2
  MX3_IDZONE = 2
  StrayZone = 4
  Typed <- TypedNames
  Lengths = {1}
  Images = {5, 9}
  NodeIds = {1, 2, 3, 4, 5}
  Tolerated = {}
  MaxCommands = 4
SPECIFICATION Spec
INVARIANTS ZonesAccounted TreeSound ReadersAgree CacheFollowsDisk
PROPERTIES ImplementsFileSpec
