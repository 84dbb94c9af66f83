SPECIFICATION Spec
CONSTANTS
  Song = {s1, s2}
  NoSong = NoSong
  Packs = {{s1}, {s1, s2}}
INVARIANTS RightTrack OneMusic FollowsSpc
PROPERTIES FromTheStart
