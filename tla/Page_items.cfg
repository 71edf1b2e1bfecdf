CONSTANTS
  PageSize = 14
  SpecialSize = 1
  Junk = junk
  Item = {x1, x2}
  MaxSize = 3
  MaxSkip = 1
  Dead = dead
  Free = free
SPECIFICATION Spec
VIEW View
INVARIANT Tiled
INVARIANT RoomTaken
PROPERTY LikeSlots
