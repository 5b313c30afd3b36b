SPECIFICATION FullRoomSpec
SYMMETRY CodeSymmetry
VIEW MirrorState
CONSTANTS
  MaxId = 3
  RoomCode = {A, B, C}
  Key = {}
  Value = {}
  Password = {""}
  Size <- MCSize
  max_room_data_key = 128
  max_room_data_value = 512
  max_room_password = 64
  max_message_size = 1024
  max_room_data_keys = 1
  max_member_data_keys = 1
  MaxEvents = 3
INVARIANTS MirrorExact EventsApply NoMemberNoLink
CHECK_DEADLOCK FALSE
