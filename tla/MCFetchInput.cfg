CONSTANTS
  Chars = {"a", "D", "["}
  max_len = 4
  Junk = Junk
SPECIFICATION EditorSpec
INVARIANTS EditorSound
PROPERTIES ImplementsLineEdit
