----------------------------- MODULE Connection -----------------------------
(***************************************************************************)
(* One connection between a Client and the server, in bytes: the framing   *)
(* of Shared/framing.h, the polled socket of Client/src/client.cpp and the *)
(* Session, ReadLoop and WriteLoop coroutines of                           *)
(* Server/src/weyvelength_server.cpp.                                      *)
(*                                                                         *)
(* A message is its encoding: a sequence of bytes that knows its length,   *)
(* so that a part of it, or a mixture of two, does not decode.  A socket   *)
(* holds SocketBuffer bytes in each direction.  Which messages the server  *)
(* sends, and when, is RoomServer's business: here, any at any time.       *)
(***************************************************************************)
EXTENDS Naturals, Sequences, Functions

CONSTANTS
    frame_header_size, frame_more_flag, max_message_size, max_reassembled_size,
    SocketBuffer,
    UpLengths, DownLengths,   \* the lengths of the messages sent either way
    MaxMessages               \* bound: the messages sent, both ways together

\* The header's flag bit lies above every fragment length.
ASSUME FramingAssumption ==
    /\ frame_header_size \in Nat \ {0}
    /\ max_message_size \in Nat \ {0}
    /\ frame_more_flag \in Nat
    /\ frame_more_flag > max_message_size
    /\ max_reassembled_size \in Nat
    /\ SocketBuffer \in Nat \ {0}
    /\ UpLengths \cup DownLengths \subseteq Nat \ {0}

VARIABLES
    client,    \* the Client: its socket, where its Poll is, tx, rx and rx_msg
    server,    \* the Connection and the locals of its two coroutines
    up, down,  \* the bytes in the socket, to the server and to the client
    sent_up, got_up, sent_down, got_down,   \* the messages, since the start
    destroyed  \* has the program destroyed the Client?

vars == <<client, server, up, down, sent_up, got_up, sent_down, got_down, destroyed>>

-----------------------------------------------------------------------------
(***************************************************************************)
(* framing.h                                                               *)
(***************************************************************************)

\* The encoding of the n-th message, of a given length.
Encoding(n, length) == [i \in 1..length |-> <<"body", n, i, length>>]

\* zpp::bits::in succeeds.
Decodes(body) == body # <<>> /\ body = Encoding(body[1][2], body[1][4])

HeaderBytes(raw) == [i \in 1..frame_header_size |-> <<"header", raw, i, 0>>]

Smaller(a, b) == IF a < b THEN a ELSE b

\* One turn of the loop: the frame of the bytes from c * max_message_size on.
Frame(body, c) ==
    LET offset == c * max_message_size
        chunk == Smaller(max_message_size, Len(body) - offset)
        more == offset + chunk < Len(body)
    IN  HeaderBytes(chunk + IF more THEN frame_more_flag ELSE 0)
        \o SubSeq(body, offset + 1, offset + chunk)

\* The frames one after the other.  All but the last are full, and there is one
\* even for an empty body.
FrameMessage(body) ==
    LET full == frame_header_size + max_message_size
        last == IF body = <<>> THEN 0 ELSE (Len(body) - 1) \div max_message_size
    IN  [k \in 1 .. (Len(body) + (last + 1) * frame_header_size) |->
            LET c == (k - 1) \div full IN Frame(body, c)[k - c * full]]

\* DecodeFrameHeader: the length, the flag, and the verdict.
HeaderMore(header) == header[1][2] >= frame_more_flag
HeaderLen(header) == header[1][2] - (IF HeaderMore(header) THEN frame_more_flag ELSE 0)
HeaderOk(header) ==
    /\ header[1][1] = "header"
    /\ HeaderLen(header) <= max_message_size

\* Mutants: the cap is on the fragment; a message of exactly the cap is refused.
FitsAnyFragment(size, len) == len <= max_reassembled_size

FitsBelowCap(size, len) == size + len < max_reassembled_size

\* AppendFragment, and the same check in ReadLoop.
Fits(size, len) == size + len <= max_reassembled_size

-----------------------------------------------------------------------------
(***************************************************************************)
(* The client.  Poll is DrainServer, the rounds of CarveServer's loop and  *)
(* FlushServer; the program sends between polls.                           *)
(***************************************************************************)

\* Handing the bytes of a sequence to a socket until it would block.
Writable(bytes, socket) ==
    {k \in 0..Len(bytes) :
        /\ Len(socket) + k <= SocketBuffer
        /\ k = 0 => bytes = <<>> \/ Len(socket) = SocketBuffer}

FirstBytes(s, k) == SubSeq(s, 1, Smaller(k, Len(s)))
RestBytes(s, k) == SubSeq(s, k + 1, Len(s))

MoreToSend == Len(sent_up) + Len(sent_down) < MaxMessages

\* Mutant: the frames are put before what waits.
SendServerInFront(length) ==
    LET body == Encoding(Len(sent_up) + 1, length)
    IN  /\ client.open /\ client.at = "program"
        /\ MoreToSend
        /\ sent_up' = Append(sent_up, body)
        /\ client' = [client EXCEPT !.tx = FrameMessage(body) \o @]
        /\ UNCHANGED <<server, up, down, got_up, sent_down, got_down, destroyed>>

SendServer(length) ==
    LET body == Encoding(Len(sent_up) + 1, length)
    IN  /\ client.open /\ client.at = "program"
        /\ MoreToSend
        /\ sent_up' = Append(sent_up, body)
        /\ client' = [client EXCEPT !.tx = @ \o FrameMessage(body)]
        /\ UNCHANGED <<server, up, down, got_up, sent_down, got_down, destroyed>>

\* DisconnectServer
Closed(cl) == [cl EXCEPT !.open = FALSE, !.at = "program"]

\* Everything that has arrived is read; after the server's last byte, the
\* end of file, and what was read with it is not carved.
DrainServer ==
    /\ client.open /\ client.at = "program"
    /\ IF server.closing
       THEN client' = Closed([client EXCEPT !.rx = @ \o down])
       ELSE client' = [client EXCEPT !.rx = @ \o down, !.at = "carve"]
    /\ down' = <<>>
    /\ UNCHANGED <<server, up, sent_up, got_up, sent_down, got_down, destroyed>>

\* A whole message was carved.
Carved(cl) == [cl EXCEPT !.rx_msg = <<>>]

\* A round of CarveServer's loop.  remaining is rx without what was carved.
CarveServer ==
    LET header == FirstBytes(client.rx, frame_header_size)
        len == HeaderLen(header)
        fragment == FirstBytes(RestBytes(client.rx, frame_header_size), len)
        body == client.rx_msg \o fragment
        next == [client EXCEPT !.rx = RestBytes(@, frame_header_size + len), !.rx_msg = body]
        waiting == IF Len(client.rx) < frame_header_size THEN TRUE
                   ELSE HeaderOk(header) /\ Len(client.rx) < frame_header_size + len
    IN  /\ client.open /\ client.at = "carve"
        /\ \/ /\ waiting
              /\ client' = [client EXCEPT !.at = "flush"]
              /\ UNCHANGED got_down
           \/ /\ ~waiting
              /\ ~HeaderOk(header) \/ ~Fits(Len(client.rx_msg), len)
              /\ client' = Closed(client)
              /\ UNCHANGED got_down
           \/ /\ ~waiting
              /\ HeaderOk(header) /\ Fits(Len(client.rx_msg), len)
              /\ \/ /\ HeaderMore(header)
                    /\ client' = next
                    /\ UNCHANGED got_down
                 \/ /\ ~HeaderMore(header)
                    /\ client' = IF Decodes(body) THEN Carved(next) ELSE Closed(Carved(next))
                    /\ got_down' = IF Decodes(body) THEN Append(got_down, body) ELSE got_down
        /\ UNCHANGED <<server, up, down, sent_up, got_up, sent_down, destroyed>>

\* Mutant: nothing is written unless all of tx can be.
FlushServerWhole ==
    /\ client.open /\ client.at = "flush"
    /\ LET k == IF Len(client.tx) \in Writable(client.tx, up) THEN Len(client.tx) ELSE 0
       IN  /\ up' = up \o FirstBytes(client.tx, k)
           /\ client' = [client EXCEPT !.tx = RestBytes(@, k), !.at = "program"]
    /\ UNCHANGED <<server, down, sent_up, got_up, sent_down, got_down, destroyed>>

\* A server that closed its socket resets the connection when written to, but
\* the first bytes may still be taken.
FlushServer ==
    /\ client.open /\ client.at = "flush"
    /\ \/ \E k \in Writable(client.tx, up) :
             /\ up' = up \o FirstBytes(client.tx, k)
             /\ client' = [client EXCEPT !.tx = RestBytes(@, k), !.at = "program"]
       \/ /\ server.closing /\ client.tx # <<>>
          /\ client' = Closed(client)
          /\ UNCHANGED up
    /\ UNCHANGED <<server, down, sent_up, got_up, sent_down, got_down, destroyed>>

\* The program destroys its Client, between two polls.
Destroy ==
    /\ client.open /\ client.at = "program"
    /\ destroyed' = TRUE
    /\ client' = Closed(client)
    /\ UNCHANGED <<server, up, down, sent_up, got_up, sent_down, got_down>>

-----------------------------------------------------------------------------
(***************************************************************************)
(* The server.  ReadLoop and WriteLoop suspend only where they wait for    *)
(* the socket or for wake; in between they run undisturbed.                *)
(***************************************************************************)

\* Mutants: the newest frame goes first; the writer is not woken.
EnqueueInFront(frame) ==
    [server EXCEPT !.out = <<frame>> \o @,
                   !.writer = IF @ = "waiting" THEN "ready" ELSE @]

EnqueueNoWake(frame) == [server EXCEPT !.out = Append(@, frame)]

\* wake.cancel() resumes a WriteLoop that waits for it, and nothing else.
Woken(writer) == IF writer = "waiting" THEN "ready" ELSE writer

Enqueue(frame) == [server EXCEPT !.out = Append(@, frame), !.writer = Woken(@)]

\* SendTo: some handler has a message for this client.  After Session's end the
\* connection is not found any more.
SendTo(length) ==
    LET body == Encoding(Len(sent_down) + 1, length)
    IN  /\ ~server.closing
        /\ MoreToSend
        /\ sent_down' = Append(sent_down, body)
        /\ server' = Enqueue(FrameMessage(body))
        /\ UNCHANGED <<client, up, down, sent_up, got_up, got_down, destroyed>>

\* A turn of WriteLoop, up to where it waits.
WriteLoop ==
    /\ server.writer = "ready"
    /\ server' = IF server.closing THEN [server EXCEPT !.writer = "done"]
                 ELSE IF server.out = <<>> THEN [server EXCEPT !.writer = "waiting"]
                 ELSE [server EXCEPT !.writer = "writing",
                                     !.frame = Head(server.out),
                                     !.out = Tail(@)]
    /\ UNCHANGED <<client, up, down, sent_up, got_up, sent_down, got_down, destroyed>>

\* async_write: some bytes; when the frame is out, WriteLoop goes on.  With the
\* socket closed at either end it throws, and WriteLoop is over.
AsyncWrite ==
    /\ server.writer = "writing"
    /\ \/ /\ ~server.closing /\ client.open
          /\ \E k \in Writable(server.frame, down) \ {0} :
                /\ down' = down \o FirstBytes(server.frame, k)
                /\ server' = [server EXCEPT
                      !.frame = RestBytes(@, k),
                      !.writer = IF k = Len(server.frame) THEN "ready" ELSE "writing"]
       \/ /\ server.closing \/ ~client.open
          /\ server' = [server EXCEPT !.writer = "done", !.frame = <<>>]
          /\ UNCHANGED down
    /\ UNCHANGED <<client, up, sent_up, got_up, sent_down, got_down, destroyed>>

\* Mutant: the writer is not woken.
SessionEndNoWake(srv) == [srv EXCEPT !.closing = TRUE]

\* The end of Session, once ReadLoop has returned or thrown.
SessionEnd(srv) == [srv EXCEPT !.closing = TRUE, !.writer = Woken(@)]

\* ReadLoop has a header.
ReadHeader(srv, header) ==
    IF HeaderOk(header) /\ Fits(Len(srv.body), HeaderLen(header))
    THEN [srv EXCEPT !.reading = "body", !.need = HeaderLen(header),
                     !.more = HeaderMore(header), !.read = <<>>]
    ELSE SessionEnd(srv)

NextMessage(srv) ==
    [srv EXCEPT !.reading = "header", !.need = frame_header_size, !.read = <<>>,
                !.body = <<>>]

\* ReadLoop has a fragment; the last one completes a message.
ReadFragment(srv, fragment) ==
    LET whole == srv.body \o fragment
    IN  \/ /\ srv.more
           /\ server' = [srv EXCEPT !.reading = "header", !.need = frame_header_size,
                                    !.read = <<>>, !.body = whole]
           /\ UNCHANGED got_up
        \/ /\ ~srv.more
           /\ server' = IF Decodes(whole) THEN NextMessage([srv EXCEPT !.body = whole])
                        ELSE SessionEnd(srv)
           /\ got_up' = IF Decodes(whole) THEN Append(got_up, whole) ELSE got_up

\* async_read takes what is there, until it has what ReadLoop asked for.
ReadLoop ==
    LET k == Smaller(server.need - Len(server.read), Len(up))
        bytes == server.read \o FirstBytes(up, k)
    IN  /\ ~server.closing
        /\ up # <<>>
        /\ up' = RestBytes(up, k)
        /\ \/ /\ Len(bytes) < server.need
              /\ server' = [server EXCEPT !.read = bytes]
              /\ UNCHANGED got_up
           \/ /\ Len(bytes) = server.need /\ server.reading = "header"
              /\ server' = ReadHeader(server, bytes)
              /\ UNCHANGED got_up
           \/ /\ Len(bytes) = server.need /\ server.reading = "body"
              /\ ReadFragment(server, bytes)
        /\ UNCHANGED <<client, down, sent_up, sent_down, got_down, destroyed>>

\* async_read fails: the client's socket is closed and nothing is left.
ReadEof ==
    /\ ~server.closing
    /\ up = <<>> /\ ~client.open
    /\ server' = SessionEnd(server)
    /\ UNCHANGED <<client, up, down, sent_up, got_up, sent_down, got_down, destroyed>>

-----------------------------------------------------------------------------

Init ==
    /\ client = [open |-> TRUE, at |-> "program", tx |-> <<>>, rx |-> <<>>, rx_msg |-> <<>>]
    /\ server = [closing |-> FALSE, out |-> <<>>, writer |-> "ready", frame |-> <<>>,
                 reading |-> "header", need |-> frame_header_size, more |-> FALSE,
                 read |-> <<>>, body |-> <<>>]
    /\ up = <<>> /\ down = <<>>
    /\ sent_up = <<>> /\ got_up = <<>>
    /\ sent_down = <<>> /\ got_down = <<>>
    /\ destroyed = FALSE

Poll == DrainServer \/ CarveServer \/ FlushServer

Next ==
    \/ \E length \in UpLengths : SendServer(length)
    \/ \E length \in DownLengths : SendTo(length)
    \/ Poll
    \/ Destroy
    \/ WriteLoop
    \/ AsyncWrite
    \/ ReadLoop
    \/ ReadEof

Spec == Init /\ [][Next]_vars

\* The program keeps polling and the io_context runs what is ready.
FairSpec ==
    /\ Spec
    /\ WF_vars(Poll) /\ WF_vars(WriteLoop) /\ WF_vars(AsyncWrite)
    /\ WF_vars(ReadLoop) /\ WF_vars(ReadEof)

-----------------------------------------------------------------------------
(***************************************************************************)
(* Properties.                                                             *)
(***************************************************************************)

\* The type invariant, with the bounds on what is buffered for a message that
\* is not complete.
TypeOK ==
    /\ client.open \in BOOLEAN
    /\ client.at \in {"program", "carve", "flush"}
    /\ Len(client.rx_msg) <= max_reassembled_size
    /\ server.writer \in {"ready", "waiting", "writing", "done"}
    /\ server.reading \in {"header", "body"}
    /\ Len(server.read) <= server.need
    /\ Len(server.body) + (IF server.reading = "body" THEN server.need ELSE 0)
          <= max_reassembled_size
    /\ Len(up) <= SocketBuffer /\ Len(down) <= SocketBuffer

UpChannel == INSTANCE FifoChannel WITH sent <- sent_up, got <- got_up, open <- ~server.closing
DownChannel == INSTANCE FifoChannel WITH sent <- sent_down, got <- got_down, open <- client.open

\* ReadLoop hands HandleMessage the messages the client sent, whole, once and in
\* order, however the bytes are cut on the way.
UpFifo == UpChannel!FifoSpec

\* CarveServer does the same with the messages the server sent.
DownFifo == DownChannel!FifoSpec

TooLong(body) == Len(body) > max_reassembled_size

\* Neither end gives the connection up over a message that is within
\* max_reassembled_size: if it closes, the program closed it, or someone sent
\* a message that FrameMessage takes and no receiver does.
ClosedForCause ==
    server.closing \/ ~client.open =>
        destroyed \/ \E body \in Range(sent_up) \cup Range(sent_down) : TooLong(body)

\* WriteLoop never sleeps on a queue that is not empty, nor through the end of
\* its Session, whenever Enqueue and Session's end come: wake.cancel() has no
\* memory, and a call WriteLoop misses is lost.
NoLostWake == server.writer = "waiting" => server.out = <<>> /\ ~server.closing

\* What the server queues reaches a client that stays.
DownDelivered ==
    \A i \in 1..MaxMessages :
        Len(sent_down) >= i ~> Len(got_down) >= i \/ ~client.open

\* What the client sends reaches the server, while the connection lasts.
UpDelivered ==
    \A i \in 1..MaxMessages :
        Len(sent_up) >= i ~> Len(got_up) >= i \/ ~client.open

\* When a connection ends both coroutines end, and with them the last owners of
\* the Connection.
SessionReleased == ~client.open ~> server.closing /\ server.writer = "done"

=============================================================================
