SPECIFICATION Spec
SYMMETRY CodeSymmetry
CONSTANTS
  MaxId = 3
  RoomCode = {A, B, C}
  Key = {}
  Value = {}
  Password = {""}
  Size <- MCSize
  max_room_data_key = 128
  max_room_data_value = 512
  max_room_password = 64
  max_message_size = 1024
  max_room_data_keys = 1
  max_member_data_keys = 1
INVARIANTS TypeOK RoomsAgree HostPresent MembersDistinct BannedStayOut
PROPERTIES ImplementsMembership RemovalKeepsRoom
CHECK_DEADLOCK FALSE
