\* Scripts set text, options and speakers while the player types, pages,
\* moves the cursor and confirms from the keyboard and the joystick.
CONSTANTS
  L1 = L1  L2 = L2  L3 = L3  O1 = O1  O2 = O2  O3 = O3  S = S  Null = Null
  Lines = {L1, L2, L3}
  LineSize <- MCLineSize
  Texts <- MCTexts
  OptionLists <- MCOptionLists
  Speakers = {S}
  NoEntity = Null
  PaneWidth = 30
  Buttons = {0, 1, 10}
  MaxCycle = 4
SPECIFICATION Spec
INVARIANT TypeOK OptionInRange
PROPERTY KeyCloseAfterText
\* The dialog is deleted once key_press or process returns true.
CHECK_DEADLOCK FALSE
