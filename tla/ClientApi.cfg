SPECIFICATION StartOrRoomSpec
SYMMETRY CodeSymmetry
VIEW ApiState
CONSTANTS
  MaxId = 2
  RoomCode = {A, B}
  Key = {"k"}
  Value = {"", "v"}
  Password = {""}
  Size <- MCSize
  max_room_data_key = 128
  max_room_data_value = 512
  max_room_password = 64
  max_message_size = 1024
  max_room_data_keys = 1
  max_member_data_keys = 1
  MaxEvents = 3
  App = 1
INVARIANTS BorrowedIntact EventsSuffice SendersAnnounced
CHECK_DEADLOCK FALSE
