SPECIFICATION PacketSpec
CONSTANTS
  Uris <- MCUris
  Flags = {0, 14}
  Priorities = {1, 2}
  Lifetimes = {0, 3}
  Second = 2
  Values = {128}
  MaxDictionary = 46
  BlockFlags = {1}
  Adu <- MCAdu
  Unwritten = 255
  Now = 200000
INVARIANTS FlagsAreAsSet EidsAreAsSet PriorityIsAsSet DecodedIsEncoded PacketIsWhole SignalFindsItsBundle
