CONSTANTS
  Program <- FallsOffEndPool
  MaxTopLevel = 4
  RegexNames <- MCRegexNames
  NumericStrs <- MCNumericStrs
  QuotedStrs <- MCQuotedStrs
  GlobalBindings <- Lesson7Bindings
  SpecialForms <- Lesson7Forms
SPECIFICATION MCSpec
PROPERTY Refinement
