CONSTANTS
  Program <- MCProgram
  MaxTopLevel = 4
  RegexNames <- MCRegexNames
  NumericStrs <- MCNumericStrs
  QuotedStrs <- MCQuotedStrs
  GlobalBindings <- Lesson7Bindings
  SpecialForms <- Lesson7Forms
SPECIFICATION Spec
INVARIANT TypeOK
PROPERTY Termination
