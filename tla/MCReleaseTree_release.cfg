CONSTANTS
  None = None
  Name <- MCName
  Folded <- MCFolded
  Policy <- MCPolicy
  Unquoted <- MCUnquoted
  NameLength <- MCNameLength
  Displayed <- MCDisplayed
  AppleDouble <- MCAppleDouble
  Recipe <- MCRecipe
  MaxUnread = 1
SPECIFICATION Spec
INVARIANTS
  TypeOK
  GreenIsFaithful
  GreenIsOrdinary
  PatchesArrive
  InspectForesees
CHECK_DEADLOCK FALSE
