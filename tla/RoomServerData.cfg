SPECIFICATION Spec
SYMMETRY CodeSymmetry
VIEW ServerState
CONSTANTS
  MaxId = 2
  RoomCode = {A, B}
  Key = {"", "k1", "k2", "long"}
  Value = {"", "v", "long"}
  Password = {"", "p", "long"}
  Size <- MCSize
  max_room_data_key = 128
  max_room_data_value = 512
  max_room_password = 64
  max_message_size = 1024
  max_room_data_keys = 1
  max_member_data_keys = 1
INVARIANTS MemberDataOwned DataWithinLimits CodeAlwaysFree
PROPERTIES HostControlsRoom DataMessagesFit
CHECK_DEADLOCK FALSE
