SPECIFICATION Spec
CONSTANTS
  Null = Null
  Trees <- MCTrees
  Settings <- MCSettings
  Scripts <- MCScripts
  Focuses <- MCFocuses
  Sizes = {64, 320}
  Offsets = {0, 48}
  GridCell = 10
  CornerRadius = 4
  Padding = 8
  PrerenderSize = 16
  MaxEvents = 2
INVARIANTS
  PinsAreCurrent
  RenderingMatchesLayout
  ViewIsCurrent
  FocusIsShown
\* The user may stop
CHECK_DEADLOCK FALSE
