CONSTANTS
  Chars = {"0", "1", "2", "+", "-", "*", "/", " "}
  MaxLen = 5
  Glyphs = {"(", ")", " ", "x", "1"}
  ParseMaxLen = 7
  ListArities = {1, 2}
  MaxHeap = 6
SPECIFICATION NotesSpec
INVARIANT PostfixTypeOK PrefixTypeOK PostfixStackInvariant PostfixCorrect PostfixMultiDigitRejected PrefixResult ParseTypeOK ParseCorrect ParseMisreadsVisibly ParseMixedAtomsFail ParseSeveralGivesLast
PROPERTY ListsRefinement
