SPECIFICATION Spec
CONSTANTS
  Chars <- MCChars
  MaxLen = 6
  Keys <- MCKeys
  Values <- MCValues
  MaxPairs = 2
  Ns = {2, 5}
  Lengths <- MCLengths
  Ctrls <- MCCtrls
  Seqs <- MCSeqs
  Ids <- MCIds
  Strings <- MCStrings
  Ints <- MCInts
  DesKeys <- MCDesKeys
  Plains <- MCPlains
  Limb = 4
  Operands <- MCOperands
  CStrings <- MCCStrings
  Memory = {0, 7}
  Digit = 8
  TableSize = 1
  Messages = {0, 26, 3000}
  Nonces = {37, 61}
  Arrays <- MCArrays
  CrcMessages <- MCCrcMessages
  Factors = {2, 3, 7, 9, 11}
  Codes = {0, 1, 48, 76, 77, 104, 127}
INVARIANTS
  TextCutRight ReportsCutRight DigitsExact CipherLaws BigNumLaws KeyArithmetic Decrypts
  Sorts ChecksumLaws RsaRoundTrip
CHECK_DEADLOCK FALSE
