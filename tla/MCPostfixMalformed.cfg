CONSTANTS
  Chars = {"0", "1", "2", "+", "-", "*", "/", " "}
  MaxLen = 5
  Tests = {}
SPECIFICATION Spec
INVARIANT RejectsMalformed
