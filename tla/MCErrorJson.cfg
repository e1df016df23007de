\* Every body of up to 14 tokens over the written strings and other spellings;
\* bodies of four fields (17 tokens) over the keys, one token spaced.
CONSTANTS
  Strings <- MCStrings
  KeyStrings <- MCKeyStrings
  Payloads <- MCPayloads
  MaxTokens = 14
  MaxLong = 17
  MaxSpaces = 1
SPECIFICATION Spec
INVARIANTS
  WrittenIsRead
  ClosedSchema
CHECK_DEADLOCK FALSE
