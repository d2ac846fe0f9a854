CONSTANTS
  Program <- LocalDefinePool
  MaxTopLevel = 4
  RegexNames <- RegexNames5
  NumericStrs <- NumericStrs5
  QuotedStrs <- QuotedStrs5
  GlobalBindings <- Lesson5Bindings
  SpecialForms <- Lesson5Forms
SPECIFICATION MCSpec5
PROPERTY Refinement
