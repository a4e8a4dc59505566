CONSTANTS
  Length = 4
  Registers = {"a", "b"}
  Alphabet <- MCAlphabet
SPECIFICATION Spec
INVARIANTS InterruptsBackOn
PROPERTIES LoadDelay InterruptsUnseen
