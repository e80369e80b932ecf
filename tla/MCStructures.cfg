SPECIFICATION Spec
CONSTANTS
  Nothing = Nothing
  Sentinel = Sentinel
INVARIANTS LinkedSound WaitersWake MapsSound MemorySound
PROPERTIES AnnouncementSpec
