--------------------------- MODULE WebRtcFraming ---------------------------
(* One WebRTC data channel of the p2p service's peer_loop                  *)
(* (p2p/src/service_impl/webrtc/mod.rs): its opening and closing, and the *)
(* framing of the messages sent on it.                                     *)
(*                                                                         *)
(* ChannelOpen creates the channel and spawns a future that registers     *)
(* on_open, on_error and on_close callbacks sharing a one-slot done        *)
(* channel; the future takes the first result from it and queues          *)
(* ChannelOpened on the loop's internal command channel.  A callback whose *)
(* try_send fails (slot full, or the future already gone) queues           *)
(* ChannelClosed instead (on_open just drops its result).  The loop adds  *)
(* an opened channel to its Channels list, spawns its sender task and     *)
(* emits Opened; ChannelClosed removes it and emits Closed.               *)
(*                                                                         *)
(* The peer loop encodes a ChannelSend with MsgBuffer::encode (a 4 byte    *)
(* big-endian length, then the payload) and hands it to the channel's     *)
(* sender task, which cuts it into CHUNK_SIZE chunks and sends them one by *)
(* one.  The remote side's on_message callback runs a loop of process_msg *)
(* over each chunk it receives, reassembling frames in (buf, len) and     *)
(* emitting Received events.  The data channel is reliable and ordered,   *)
(* so the chunks a sender task writes arrive in order.                     *)
EXTENDS Integers, Sequences, SequencesExt

CONSTANTS
    Msgs,          \* channel messages (model values)
    Enc,           \* Msgs -> payload bytes: what ChannelMsg::encode writes
    MaxMsgSize,    \* chan_id.max_msg_size()
    ChunkSize,     \* CHUNK_SIZE
    MaxSends,      \* bound: number of ChannelSend commands
    SendMayFail    \* whether chan.send may fail or write short

ASSUME ChunkSize > 4   \* as CHUNK_SIZE (16 KiB): a first chunk holds the
                       \* length prefix and at least one payload byte

VARIABLES
    msg_buf,    \* MsgBuffer.buf of the peer loop
    sent,       \* messages given to ChannelSend, in order
    outq,       \* encoded messages in the sender task's mpsc channel
    wire,       \* chunks written to the data channel, not yet received
    data,       \* rest of the chunk the on_message loop is processing
    buf,        \* receiver's reassembly buffer
    len,        \* receiver's length of the current frame
    received,   \* messages delivered by Received(Ok(msg)) events
    errored,    \* a Received(Err(..)) event has been emitted
    opening,    \* the ChannelOpen future: "idle", "waiting" on done_rx, "done"
    slot,       \* the one-slot done channel: "empty", "ok" or "err"
    rtc,        \* the RTC data channel: "none", "connecting", "open", "closed"
    erred,      \* the channel's on_error callback has fired
    internal,   \* PeerCmdInternal commands queued for the loop
    listed,     \* the channel is in the loop's Channels list
    not_open,   \* Sent(Err("ChannelNotOpen")) events emitted
    chan_events \* Opened(Ok), Opened(Err) and Closed events, in order

frame_vars == <<msg_buf, sent, outq, wire, data, buf, len, received, errored>>
chan_vars == <<opening, slot, rtc, erred, internal, listed, not_open, chan_events>>
vars == <<frame_vars, chan_vars>>

\* PeerCmdInternal commands.
OpenedCmd(ok) == [kind |-> "opened", ok |-> ok]
ClosedCmd == [kind |-> "closed", ok |-> FALSE]

\* u32::to_be_bytes and u32::from_be_bytes.
ToBE(n) == [i \in 1..4 |-> (n \div 256^(4 - i)) % 256]
FromBE(b) == b[1] * 256^3 + b[2] * 256^2 + b[3] * 256 + b[4]

\* ChannelMsg::decode of exactly the bytes of one frame: the message whose
\* encoding they are, or an error.
DecodeOk(bytes) == \E m \in Msgs : Enc[m] = bytes
Decode(bytes) == CHOOSE m \in Msgs : Enc[m] = bytes

\* MsgBuffer::encode: encode into the buffer, prefix its length, clear it.
EncodeKeepBuf(mb, m) ==
    [out |-> ToBE(Len(mb \o Enc[m])) \o (mb \o Enc[m]), buf |-> mb \o Enc[m]]
EncodeMsg(mb, m) ==
    [out |-> ToBE(Len(mb \o Enc[m])) \o (mb \o Enc[m]), buf |-> <<>>]

\* Bytes::chunks(CHUNK_SIZE): consecutive slices of ChunkSize bytes, the
\* last one shorter; never an empty chunk.
ChunksExtra(s) ==
    [i \in 1..(Len(s) \div ChunkSize + 1) |->
        SubSeq(s, (i - 1) * ChunkSize + 1, IF i * ChunkSize < Len(s) THEN i * ChunkSize ELSE Len(s))]
Chunks(s) ==
    [i \in 1..((Len(s) + ChunkSize - 1) \div ChunkSize) |->
        SubSeq(s, (i - 1) * ChunkSize + 1, IF i * ChunkSize < Len(s) THEN i * ChunkSize ELSE Len(s))]

(* process_msg: one iteration of the on_message loop.  Returns the new    *)
(* buf, len and rest of the chunk, and what is emitted: "none" (the frame *)
(* is incomplete and the loop continues), "err", or a decoded message.    *)
Result(b, l, d, out) == [buf |-> b, len |-> l, data |-> d, out |-> out]

FillGreaterEq(b, l, d) ==
    LET bytes_left == l - Len(b)
        nb == b \o SubSeq(d, 1, bytes_left)
        rest == SubSeq(d, bytes_left + 1, Len(d))
    IN IF bytes_left >= Len(d) THEN Result(b \o d, l, <<>>, "none")
       ELSE IF DecodeOk(nb) THEN Result(<<>>, l, rest, Decode(nb))
       ELSE Result(nb, l, rest, "err")
Fill(b, l, d) ==
    LET bytes_left == l - Len(b)
        nb == b \o SubSeq(d, 1, bytes_left)
        rest == SubSeq(d, bytes_left + 1, Len(d))
    IN IF bytes_left > Len(d) THEN Result(b \o d, l, <<>>, "none")
       ELSE IF DecodeOk(nb) THEN Result(<<>>, l, rest, Decode(nb))
       \* the `?` on decode returns before buf.clear()
       ELSE Result(nb, l, rest, "err")

ProcessMsg(b, l, d) ==
    IF b # <<>> THEN Fill(b, l, d)
    ELSE IF Len(d) < 4 THEN Result(b, l, d, "err")
    ELSE LET nl == FromBE(SubSeq(d, 1, 4))
             rest == SubSeq(d, 5, Len(d))
         IN IF nl > MaxMsgSize THEN Result(b, nl, rest, "err")
            ELSE Fill(b, nl, rest)

\* MsgBuffer::new: an empty buffer.
MsgBufferNew == <<>>

\* Channels::new, add, remove and get_msg_sender, for the one channel id:
\* whether the list holds it.  The node opens the channel once, so add
\* never finds the id already in the list.
ChannelsNew == FALSE
ChannelsAdd(l) == TRUE
ChannelsRemove(l) == FALSE
GetMsgSender(l) == l

-----------------------------------------------------------------------------

Init ==
    /\ msg_buf = MsgBufferNew
    /\ sent = <<>> /\ outq = <<>> /\ wire = <<>>
    /\ data = <<>> /\ buf = <<>> /\ len = 0
    /\ received = <<>> /\ errored = FALSE
    /\ opening = "idle" /\ slot = "empty" /\ rtc = "none" /\ erred = FALSE
    /\ internal = <<>> /\ listed = ChannelsNew /\ not_open = 0 /\ chan_events = <<>>

\* PeerCmd ChannelOpen: channel_create, awaited in the loop, may fail; the
\* spawned future then sends ChannelOpened(Err) at once.  Otherwise the
\* future registers the callbacks and waits on done_rx.  The node opens a
\* channel once.
ChannelOpen ==
    /\ opening = "idle"
    /\ \/ /\ opening' = "waiting"
          /\ rtc' = "connecting"
          /\ UNCHANGED internal
       \/ /\ opening' = "done"
          /\ internal' = Append(internal, OpenedCmd(FALSE))
          /\ UNCHANGED rtc
    /\ UNCHANGED <<frame_vars, slot, erred, listed, not_open, chan_events>>

\* done_tx.try_send succeeds while the slot is empty and done_rx lives.
TrySendOk == opening = "waiting" /\ slot = "empty"

SendErrOrClosedSkipTry ==
    internal' = Append(internal, ClosedCmd) /\ UNCHANGED slot

\* on_error and on_close: try_send the error, or queue ChannelClosed.
SendErrOrClosed ==
    IF TrySendOk THEN slot' = "err" /\ UNCHANGED internal
    ELSE internal' = Append(internal, ClosedCmd) /\ UNCHANGED slot

\* The data channel opens; on_open try_sends Ok and ignores a failure.
OnOpen ==
    /\ rtc = "connecting"
    /\ rtc' = "open"
    /\ slot' = IF TrySendOk THEN "ok" ELSE slot
    /\ UNCHANGED <<frame_vars, opening, erred, internal, listed, not_open, chan_events>>

\* The data channel reports an error (at most once in the model).
OnError ==
    /\ rtc \in {"connecting", "open"}
    /\ ~erred
    /\ erred' = TRUE
    /\ SendErrOrClosed
    /\ UNCHANGED <<frame_vars, opening, rtc, listed, not_open, chan_events>>

\* The data channel closes.
OnClose ==
    /\ rtc \in {"connecting", "open"}
    /\ rtc' = "closed"
    /\ SendErrOrClosed
    /\ UNCHANGED <<frame_vars, opening, erred, listed, not_open, chan_events>>

\* The ChannelOpen future: done_rx.recv() returns the first result; the
\* future sends ChannelOpened with it and ends, dropping done_rx.
OpenFutureDone ==
    /\ opening = "waiting"
    /\ slot # "empty"
    /\ internal' = Append(internal, OpenedCmd(slot = "ok"))
    /\ opening' = "done"
    /\ slot' = "empty"
    /\ UNCHANGED <<frame_vars, rtc, erred, listed, not_open, chan_events>>

\* The loop handles ChannelOpened: on Ok, channels.add, register on_message,
\* spawn the sender task; emit Opened(res).
ChannelOpened ==
    /\ internal # <<>>
    /\ Head(internal).kind = "opened"
    /\ internal' = Tail(internal)
    /\ listed' = IF Head(internal).ok THEN ChannelsAdd(listed) ELSE listed
    /\ chan_events' = Append(chan_events,
                             IF Head(internal).ok THEN "OpenedOk" ELSE "OpenedErr")
    /\ UNCHANGED <<frame_vars, opening, slot, rtc, erred, not_open>>

\* The loop handles ChannelClosed: channels.remove, emit Closed.
ChannelClosed ==
    /\ internal # <<>>
    /\ Head(internal).kind = "closed"
    /\ internal' = Tail(internal)
    /\ listed' = ChannelsRemove(listed)
    /\ chan_events' = Append(chan_events, "Closed")
    /\ UNCHANGED <<frame_vars, opening, slot, rtc, erred, not_open>>

\* The sender task exists once an Opened(Ok) was handled.
SenderTaskSpawned == \E i \in 1..Len(chan_events) : chan_events[i] = "OpenedOk"

\* PeerCmd ChannelSend: with the channel in the list, encode and queue for
\* the sender task (the unbounded mpsc send cannot fail while the task
\* lives); otherwise emit Sent(Err("ChannelNotOpen")).
ChannelSend(m) ==
    /\ Len(sent) + not_open < MaxSends
    /\ IF GetMsgSender(listed)
       THEN LET e == EncodeMsg(msg_buf, m)
            IN /\ msg_buf' = e.buf
               /\ outq' = Append(outq, e.out)
               /\ sent' = Append(sent, m)
               /\ UNCHANGED not_open
       ELSE /\ not_open' = not_open + 1
            /\ UNCHANGED <<msg_buf, outq, sent>>
    /\ UNCHANGED <<wire, data, buf, len, received, errored>>
    /\ UNCHANGED <<opening, slot, rtc, erred, internal, listed, chan_events>>

\* The sender task takes the next encoded message and sends its chunks
\* until one fails; with k < Len(chunks), chunk k+1 failed (an error or
\* NotAllBytesWritten) and the rest of the message is never sent.  On a
\* closed data channel the first send fails.
SenderTaskSend ==
    /\ SenderTaskSpawned
    /\ outq # <<>>
    /\ LET cs == Chunks(Head(outq))
       IN \E k \in (IF rtc = "closed" THEN {0}
                    ELSE IF SendMayFail THEN 0 .. Len(cs) ELSE {Len(cs)}) :
            wire' = wire \o SubSeq(cs, 1, k)
    /\ outq' = Tail(outq)
    /\ UNCHANGED <<msg_buf, sent, data, buf, len, received, errored, chan_vars>>

\* The data channel delivers the next chunk to on_message.
OnMessage ==
    /\ data = <<>>
    /\ wire # <<>>
    /\ data' = Head(wire)
    /\ wire' = Tail(wire)
    /\ UNCHANGED <<msg_buf, sent, outq, buf, len, received, errored, chan_vars>>

\* One iteration of `while !data.is_empty()` in on_message.
ProcessStep ==
    /\ data # <<>>
    /\ LET r == ProcessMsg(buf, len, data)
       IN /\ buf' = r.buf
          /\ len' = r.len
          /\ data' = r.data
          /\ received' = IF r.out \in Msgs THEN Append(received, r.out) ELSE received
          /\ errored' = (errored \/ r.out = "err")
    /\ UNCHANGED <<msg_buf, sent, outq, wire, chan_vars>>

Next ==
    \/ ChannelOpen \/ OnOpen \/ OnError \/ OnClose
    \/ OpenFutureDone \/ ChannelOpened \/ ChannelClosed
    \/ \E m \in Msgs : ChannelSend(m)
    \/ SenderTaskSend
    \/ OnMessage
    \/ ProcessStep

(* The spawned futures, the sender task and the on_message callback run  *)
(* whenever they are ready, and the loop's select! takes a ready internal *)
(* command eventually (it picks among ready branches at random).  The     *)
(* data channel's own events (open, error, close) are not assumed to      *)
(* happen.                                                                *)
Spec == Init /\ [][Next]_vars
        /\ WF_vars(OpenFutureDone) /\ WF_vars(ChannelOpened) /\ WF_vars(ChannelClosed)
        /\ WF_vars(SenderTaskSend) /\ WF_vars(OnMessage) /\ WF_vars(ProcessStep)

-----------------------------------------------------------------------------

\* Types; chunks on the wire are never empty (Bytes::chunks yields none).
TypeOK ==
    /\ sent \in Seq(Msgs) /\ received \in Seq(Msgs)
    /\ \A i \in 1..Len(wire) : wire[i] # <<>> /\ Len(wire[i]) <= ChunkSize
    /\ len \in Nat   \* a u32; the model's bytes keep it far below 2^31
    /\ errored \in BOOLEAN
    /\ opening \in {"idle", "waiting", "done"} /\ slot \in {"empty", "ok", "err"}
    /\ rtc \in {"none", "connecting", "open", "closed"} /\ erred \in BOOLEAN
    /\ internal \in Seq({OpenedCmd(TRUE), OpenedCmd(FALSE), ClosedCmd})
    /\ listed \in BOOLEAN /\ not_open \in 0..MaxSends
    /\ chan_events \in Seq({"OpenedOk", "OpenedErr", "Closed"})

\* Frames are reassembled exactly: what on_message delivers is, in order,
\* a prefix of what the peer loop was asked to send, and no Err event is
\* ever emitted (for messages within the channel's limit).
ReceivedInOrder == IsPrefix(received, sent) /\ ~errored

\* Every message ChannelSend queues on a listed channel is eventually
\* delivered by the remote on_message callback, unless the data channel
\* closes first.
AllDelivered ==
    \A k \in 1..MaxSends :
        (Len(sent) >= k) ~> (Len(received) >= k \/ rtc = "closed")

\* The future has a result for ChannelOpen: channel_create failed, or the
\* data channel opened, failed or closed.
OpenDecided == opening # "idle" /\ (rtc # "connecting" \/ erred)

\* The node always learns how its ChannelOpen ended: once the channel has
\* opened, failed or closed, an Opened event eventually follows, whichever
\* callback won the done channel.
OpenResultReported ==
    OpenDecided ~> (\E i \in 1..Len(chan_events) : chan_events[i] \in {"OpenedOk", "OpenedErr"})

\* The node's view of the channel: its last Opened or Closed event.
NodeSeesOpen == chan_events # <<>> /\ chan_events[Len(chan_events)] = "OpenedOk"

\* A data channel that closes is eventually forgotten: the loop removes it
\* from its Channels list and the last event the node heard for it is not
\* Opened(Ok).  The on_close callback's ChannelClosed is meant to do this.
ClosedChannelForgotten == (rtc = "closed") ~> (~listed /\ ~NodeSeesOpen)

\* The on_message loop always finishes the chunk it was given: `while
\* !data.is_empty()` terminates, as it must for malformed or oversized
\* input, which the spec says terminates the channel.
ChunkConsumed == [](data # <<>> => <>(data = <<>>))
=============================================================================
