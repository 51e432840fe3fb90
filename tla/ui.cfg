CONSTANTS
  Sessions <- SmallSnapshots
  Sizes <- Terminals
  Clusters = 3
  Palettes <- Dark
  Given <- Accent
  NoSnapshot = NoSnapshot
  NoValue = NoValue
SPECIFICATION UiSpec
INVARIANTS
  SelectionShown
  NothingHiddenUnsaid
  FrameFits
