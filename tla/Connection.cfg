\* One fragment, full fragments, the cap and beyond the cap, either way or both:
\* everything arrives in order, and everything is released.
SPECIFICATION FairSpec
CONSTANTS
    frame_header_size = 2
    frame_more_flag = 8
    max_message_size = 2
    max_reassembled_size = 4
    SocketBuffer = 3
    UpLengths = {1, 2, 3, 4, 5}
    DownLengths = {1, 2, 3, 4, 5}
    MaxMessages = 2
INVARIANTS
    TypeOK
    ClosedForCause
    NoLostWake
PROPERTIES
    UpFifo
    DownFifo
    DownDelivered
    UpDelivered
    SessionReleased
CHECK_DEADLOCK FALSE
