CONSTANTS
  Program <- SpecPool5
  MaxTopLevel = 5
  RegexNames <- RegexNames5
  NumericStrs <- NumericStrs5
  QuotedStrs <- QuotedStrs5
  GlobalBindings <- Lesson5Bindings
  SpecialForms <- Lesson5Forms
SPECIFICATION LessonsFairSpec
PROPERTY LessonsRefinement Termination
