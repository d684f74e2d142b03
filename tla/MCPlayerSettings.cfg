CONSTANTS
  Registries = {p}
  Formats = {21, 22}
  Versions = {1, 2, 3}
  Traits = {1, 2, 3}
  Schemas = {"a", "b"}
  Pinned <- MCPinned
  Malformed <- MCMalformed
  Known <- MCKnown
  InitialCapacity = 1
  MaxEntries = 3
  Images <- MCImages
  Files <- MCFiles
  Engines = {1, 2}
  ClassOf <- MCClassOf
  Classes = {"MonoBehaviour", "Texture"}
  MaxOffset = 8
  Spell <- MCSpell
  CommonBytes <- MCCommonBytes
  NodeSize = 5
  MonoBehaviour = 114
  ValueSize = 6
  MaxNodes = 8
  MaxDepth = 3
  MaxString = 3
  TreeCases <- MCTreeCases
  MaxMemory = 8
  SettingsCases <- MCSettingsCases
  Earlier <- MCEarlier
  SettingsMemory = 2
SPECIFICATION BuildSpec
INVARIANTS
  Authority
  TypesExact
  ParsedAsWritten
  SettingsWhole
  KeptAnyWay
PROPERTIES
  NeverRebound
  Transactional
  OpenExact
  ResolvesAllOrNothing
CHECK_DEADLOCK FALSE
