SPECIFICATION Spec
CONSTANTS
  IncludePartialMessages = TRUE
  Texts <- SomeTexts
  Thoughts <- SomeThoughts
  Urls = {"p", "q"}
  Args <- SomeArgs
  Objects <- SomeObjects
  UserTexts <- SomeUserTexts
  MaxCalls = 2
  MaxLines = 4
INVARIANTS
  TypeOK
  TextExact
  CallsFound
  StructuredFound
  ReadBack
CHECK_DEADLOCK FALSE
