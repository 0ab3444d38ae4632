\* Every two chunks of up to six bytes, one after the other.
SPECIFICATION LZWSpec
CONSTANTS
  Radix = 2
  MaxLength = 6
  Inputs <- AllInputs
INVARIANTS TypeOK DecodesChunk OneCodeForAWord
