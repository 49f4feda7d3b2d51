SPECIFICATION FairParagraph
CONSTANTS
  Texts <- MCTexts
  Laid <- MCLaid
  PerWord = 3
  Styles <- MCStyles
  Default <- MCDefault
  MaxWidths = {2}
  MaxCalls = 1
INVARIANTS LinesCoverText RunesKeepTheirStyles LinesInVisualOrder
PROPERTIES BreaksFollowRules LinesAdvance LayoutEnds
CHECK_DEADLOCK FALSE
