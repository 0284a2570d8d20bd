SPECIFICATION Spec
CONSTANTS
  None = None
  DirOf <- AllDirOf
  Prints <- Printed
  Hostname = "here"
  Dotted <- NamesWithDots
  Templates = {"/own"}
  FuelOfLoad = 4
  Layouts <- AllLayouts
  Edits <- SomeEdits
  MaxEdits = 1
INVARIANTS TypeOK LastFileWins SetFileIsFirst NameIsFound ItemsDistinct
PROPERTIES EditsChangeIds
