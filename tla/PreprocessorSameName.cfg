SPECIFICATION Spec
CONSTANTS
  Dir = {"src", "sys"}
  Name = {"main.c", "a.h", "b.h", "s.h", "loop.h", "self.h", "deep.h", "n.h", "none.h"}
  Macro = {"A", "B", "D"}
  Text = {"a", "b", "m", "s"}
  NoMacro = NoMacro
  Garbage = Garbage
  IncludePath <- Path
  Main <- MainName
  Predefined = {"D"}
  Systems <- SameNameSystems
  IFDEF_STACK_SIZE = 3
  INCLUDE_STACK_SIZE = 3
  MaxUnits = 2
  fuel = 4
INVARIANT SkippedIncludesAreEmpty
CHECK_DEADLOCK FALSE
