-------------------------------- MODULE Wire --------------------------------
(***************************************************************************)
(* One direction of a socket connection (TcpConnection and WsConnection of *)
(* transport.rs): a sender that encodes messages and queues frames, a      *)
(* socket that takes and yields any part of what is offered, and a         *)
(* receiver that cuts frames out of its buffer and decodes them.           *)
(*                                                                         *)
(* A WebSocket keeps message boundaries, so its receiver gets whole frames *)
(* and a frame of which the socket has only a part is not yet readable.    *)
(* Its frames pass through the buffers of the library (external), which    *)
(* take messages of any size.  The repository has the server's end only;   *)
(* the client's is taken to be another WsConnection under the SDK.         *)
(***************************************************************************)
EXTENDS Codec, FiniteSets, FiniteSetsExt

CONSTANTS
    Messages,    \* what may be sent first; a message of Later may follow
    Later,
    OutCap,      \* outbound_cap
    SendMax,     \* the sender's max_payload, in tokens
    RecvMax,     \* the receiver's max_payload
    SockCap,     \* how many tokens a TCP socket holds
    MaxSends     \* bound: how many messages are accepted

ASSUME WireAssumption == /\ \A n \in {OutCap, SendMax, RecvMax, SockCap, MaxSends} : n \in Nat
                         /\ OutCap > 0 /\ SockCap > 0

VARIABLES
    kind,        \* "tcp" or "ws"
    sent,        \* the messages try_send_frame accepted
    outbound,    \* the sender's queue: frames and how much of each is written
    net,         \* what the socket holds
    readBuf,     \* the receiver's read_buf
    received,    \* the messages the receiver decoded
    sClosed, rClosed,
    doubled      \* history: places in sent that went out and stayed queued

wireVars == <<kind, sent, outbound, net, readBuf, received, sClosed, rClosed, doubled>>

WireInit ==
    /\ kind \in {"tcp", "ws"}
    /\ sent = <<>> /\ outbound = <<>> /\ net = <<>> /\ readBuf = <<>> /\ received = <<>>
    /\ sClosed = FALSE /\ rClosed = FALSE /\ doubled = {}

FromClient(m) == m.k \in ToSet(ClientKinds)

(* encode_client or encode_server, then try_send_frame: an oversized       *)
(* message, a closed connection and a full queue are refused.              *)
TrySendFrame(m) ==
    /\ Len(sent) < MaxSends
    /\ sent # <<>> => FromClient(m) = FromClient(sent[1])
    /\ Len(Payload(m)) <= SendMax
    /\ ~sClosed
    /\ Len(outbound) < OutCap
    /\ outbound' = Append(outbound, [frame |-> Frame(m), offset |-> 0])
    /\ sent' = Append(sent, m)
    /\ UNCHANGED <<kind, net, readBuf, received, sClosed, rClosed, doubled>>

(* One token written: the offset advances, a finished frame leaves. *)
WriteOne(s, i) ==
    LET front == Head(s.queue)
    IN [net |-> Append(s.net, front.frame[front.offset + 1]),
        queue |-> IF front.offset + 1 >= Len(front.frame)
                  THEN Tail(s.queue)
                  ELSE [s.queue EXCEPT ![1].offset = @ + 1]]

Unwritten == FoldLeft(LAMBDA n, f : n + Len(f.frame) - f.offset, 0, outbound)
Written(n) == FoldLeft(WriteOne, [net |-> net, queue |-> outbound], [i \in 1..n |-> i])

(* flush_outbound of TCP: writes until the socket would block. *)
FlushTcp ==
    /\ kind = "tcp" /\ ~sClosed /\ outbound # <<>>
    /\ \E n \in 1..Min({SockCap - Len(net), Unwritten}) :
         /\ net' = Written(n).net
         /\ outbound' = Written(n).queue
    /\ UNCHANGED <<kind, sent, readBuf, received, sClosed, rClosed, doubled>>

(* The frames at the front of the queue, as the library buffers them. *)
Buffered(n) == FlattenSeq([i \in 1..n |-> outbound[i].frame])

(* The place in sent of the frame at place i of the queue. *)
PlaceOf(i) == Len(sent) - Len(outbound) + i

(* Mutant: a frame whose write would block is given up. *)
StillQueuedDropped(n) == SubSeq(outbound, n + 2, Len(outbound))

(* What stays queued when n frames were written. *)
StillQueued(n) == SubSeq(outbound, n + 1, Len(outbound))

(* flush_outbound of WebSocket: frame after frame is written until a write *)
(* would block; that frame stays queued, and the library may have taken it *)
(* into its buffer all the same (bound: of a frame, once).  The buffer is  *)
(* then flushed: as a whole, or the connection closes.                     *)
FlushWs ==
    /\ kind = "ws" /\ ~sClosed /\ outbound # <<>>
    /\ \E n \in 0..Len(outbound), taken \in {0, 1} :
         /\ taken = 1 => n < Len(outbound) /\ PlaceOf(n + 1) \notin doubled
         /\ \E bytes \in 0..Len(Buffered(n + taken)) :
              /\ net' = net \o SubSeq(Buffered(n + taken), 1, bytes)
              /\ sClosed' = (bytes < Len(Buffered(n + taken)))
         /\ outbound' = StillQueued(n)
         /\ doubled' = doubled \cup {PlaceOf(i) : i \in (n + 1)..(n + taken)}
    /\ UNCHANGED <<kind, sent, readBuf, received, rClosed>>

(* The sender's end is closed, by its owner or after a write error: what   *)
(* the socket took still arrives, what is queued does not.                 *)
CloseSender ==
    /\ ~sClosed
    /\ sClosed' = TRUE
    /\ outbound' = <<>>
    /\ UNCHANGED <<kind, sent, net, readBuf, received, rClosed, doubled>>

CloseReceiver ==
    /\ ~rClosed
    /\ rClosed' = TRUE
    /\ UNCHANGED <<kind, sent, outbound, net, readBuf, received, sClosed, doubled>>

(* How much of the buffer parse_frame consumes. *)
ConsumedBy(buffer) == Total(Head(buffer)[2])

(* A frame is decoded.  The gateway drops the connection of a client whose *)
(* frame is malformed or too large; the SDK reports it and goes on.        *)
Deliver(frame) ==
    LET message == Decode(frame, RecvMax, FromClient(sent[1]))
    IN /\ received' = received \o message
       /\ rClosed' = (message = <<>> /\ FromClient(sent[1]))

(* try_recv_frame of TCP: everything the socket yields is buffered, and    *)
(* one frame is cut off the front.  At the end of the stream the           *)
(* connection closes whatever the buffer holds.                            *)
RecvTcp ==
    /\ kind = "tcp" /\ ~rClosed
    /\ \E n \in 0..Len(net) :
         LET buffer == readBuf \o SubSeq(net, 1, n)
             eof    == sClosed /\ n = Len(net)
         IN /\ n > 0 \/ readBuf # <<>> \/ eof
            /\ net' = SubSeq(net, n + 1, Len(net))
            /\ IF eof \/ Parse(buffer, RecvMax) = "error"
               THEN rClosed' = TRUE /\ readBuf' = buffer /\ UNCHANGED received
               ELSE IF Parse(buffer, RecvMax) = "more"
               THEN readBuf' = buffer /\ UNCHANGED <<received, rClosed>>
               ELSE LET used == ConsumedBy(buffer)
                    IN /\ readBuf' = SubSeq(buffer, used + 1, Len(buffer))
                       /\ Deliver(SubSeq(buffer, 1, used))
    /\ UNCHANGED <<kind, sent, outbound, sClosed, doubled>>

HoldsMessage(tokens) == Parse(tokens, SendMax) = "frame"

(* try_recv_frame of WebSocket: a whole message, or the end of the stream. *)
RecvWs ==
    /\ kind = "ws" /\ ~rClosed
    /\ \/ /\ HoldsMessage(net)
          /\ net' = SubSeq(net, Total(Head(net)[2]) + 1, Len(net))
          /\ Deliver(SubSeq(net, 1, Total(Head(net)[2])))
       \/ /\ sClosed /\ ~HoldsMessage(net)
          /\ rClosed' = TRUE
          /\ UNCHANGED <<net, received>>
    /\ UNCHANGED <<kind, sent, outbound, readBuf, sClosed, doubled>>

WireNext ==
    \/ \E m \in Messages : sent = <<>> /\ TrySendFrame(m)
    \/ \E m \in Later : sent # <<>> /\ TrySendFrame(m)
    \/ FlushTcp \/ FlushWs \/ RecvTcp \/ RecvWs \/ CloseSender \/ CloseReceiver
    \/ sClosed /\ rClosed /\ UNCHANGED wireVars

(* The gateway flushes and receives on every connection in every round,    *)
(* and so does the pump of the client: weak fairness, with the enabling    *)
(* conditions of the two calls written out.                                *)
Flushes == FlushTcp \/ FlushWs
Receives == RecvTcp \/ RecvWs
CanFlush == ~sClosed /\ outbound # <<>> /\ (kind = "tcp" => Len(net) < SockCap)
CanReceive == ~rClosed /\ (net # <<>> \/ sClosed \/ HoldsMessage(readBuf))
WireFairness == /\ []<>~CanFlush \/ []<><<Flushes>>_wireVars
                /\ []<>~CanReceive \/ []<><<Receives>>_wireVars

WireSpec == WireInit /\ [][WireNext]_wireVars /\ WireFairness
-----------------------------------------------------------------------------
(* Properties *)

(* What arrives of the messages sent: of a WebSocket's, nothing of one     *)
(* that is too large for the SDK, and two of one that stayed queued.       *)
Arriving ==
    FlattenSeq([i \in DOMAIN sent |->
        IF kind = "ws" /\ ~FromClient(sent[i]) /\ Len(Payload(sent[i])) > RecvMax THEN <<>>
        ELSE IF i \in doubled THEN <<sent[i], sent[i]>> ELSE <<sent[i]>>])

(* Whatever the socket splits, the receiver decodes what the sender was    *)
(* told is accepted: the same messages, field by field, in the same order  *)
(* and without a gap before the last, none twice but one that a WebSocket  *)
(* took and kept, none left out but one that the SDK finds too large.      *)
ReceivedAsSent == IsPrefix(received, Arriving)

(* A payload cut short or continued is never taken for a message, for      *)
(* every kind of message: no decoder accepts a strict prefix of a payload  *)
(* or ignores trailing bytes.                                              *)
PayloadsAreExact ==
    sent # <<>> =>
        LET m == Last(sent)
            Reads(tokens) == IF FromClient(m) THEN DecodeClient(KindTag(m.k), tokens)
                             ELSE DecodeServer(KindTag(m.k), tokens)
        IN /\ Reads(Append(Payload(m), U64(0))) = <<>>
           /\ \A n \in 0..(Len(Payload(m)) - 1) : Reads(SubSeq(Payload(m), 1, n)) = <<>>


(* transport.rs says of the end of the stream "only a clean close if no    *)
(* bytes are pending": a receiver that saw the end holds no complete       *)
(* frame it has not handed out.                                            *)
EndLeavesNoFrame ==
    (rClosed /\ sClosed) => Parse(readBuf, RecvMax) # "frame"
=============================================================================
