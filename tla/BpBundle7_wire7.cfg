SPECIFICATION Spec
CONSTANTS
  Eids <- MCEids
  Flags = {0, 6}
  BlockFlags = {1}
  Values = {24}
  Lifetimes = {70000}
  Adus <- MCAdus
  Garbage = {5}
INVARIANTS SizeIsExact DecodedIsEncoded
