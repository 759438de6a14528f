SPECIFICATION Spec
CONSTANTS
  a = a
  b = b
  Objects = {a, b}
  Converted = {a}
  TypeChoices <- MCTypes
  KeyedTypes = {"BOOL"}
  MallocFails = TRUE
  Radix = 4
  TmpSize = 12
  Caps = {0, 4, 14}
  Texts <- MCTexts
  Arrays <- MCArrays
INVARIANTS
  ConvertExact
  BufferSound
  OnlyByteArraysHang
  ValidReadable
CHECK_DEADLOCK FALSE
