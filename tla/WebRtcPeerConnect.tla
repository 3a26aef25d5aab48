------------------------- MODULE WebRtcPeerConnect -------------------------
(* The life of one WebRTC peer task (p2p/src/service_impl/webrtc/mod.rs):  *)
(* outgoing_init/incoming_init, which put the peer in the service's map   *)
(* and queue Cmd::PeerAdd; the PeerAdd handler of the service task, which *)
(* spawns the peer task; its try_acquire of one of MAX_PEERS permits (the *)
(* other peers' tasks may hold them all); peer_start (SDP offer/answer,  *)
(* waiting for the connection, the connection authorization exchange) and *)
(* the exit of peer_loop, with the one-slot `closed` channel whose        *)
(* receiver emits P2pConnectionEvent::Closed.  The service side sends     *)
(* commands (set_answer, http_signaling_request, auth) in any order and   *)
(* may disconnect (drop the command sender and the aborter) at any time;  *)
(* the WebRTC library changes the connection state, opens the main        *)
(* channel and delivers the remote auth message.                          *)
EXTENDS Integers, Sequences, FiniteSets, SequencesExt

CONSTANTS MaxCmds   \* bound: service calls for the peer (commands, dispatched opens)

\* PeerConnectionKind: Outgoing, or Incoming with the remote offer.
Kinds == {"out", "in"}
Permits == {"none", "held", "failed", "released"}
\* PeerCmd, as the task tells them apart (ConnectionAuthorizationSend with
\* Some or None; ChannelSend is WebRtcFraming's).
Cmds == {"HttpOffer", "AnswerSet", "AuthSome", "AuthNone", "ChannelOpen"}
Events == {"OfferOk", "OfferErr", "AnswerReceived", "AnswerSdpOk",
           "FinalOk", "FinalErr", "Closed"}
ConnStates == {"new", "connected", "disconnected", "failed", "closed"}
Pcs == {"none", "queued", "spawned", "setup", "await_cmd1", "await_cmd2", "connecting", "auth_cmd",
        "auth_open", "auth_wait", "loop", "loop_wait", "cooldown", "done"}

VARIABLES
    kind,          \* PeerConnectionKind: outgoing or incoming
    pc,            \* where the peer task is
    events,        \* connection events emitted for this peer, in order
    cmds,          \* commands queued on cmd_receiver
    ncmds,         \* service calls for this peer so far (commands sent, Opened reported)
    sender_alive,  \* the service still holds the peer (and its aborter)
    conn,          \* the RTCConnection's state
    descs_ok,      \* both session descriptions are set
    cb_set,        \* on_connection_state_change registered
    conn_res,      \* the `connected` oneshot: pending, ok, err
    main_open,     \* main channel's on_open has fired
    auth_reg,      \* main channel's on_message for the auth is registered
    remote_auth,   \* the remote_auth oneshot: none, ok, err
    slot,          \* the one-slot `closed` channel holds a value
    rx_alive,      \* the Closed-emitting receiver task still waits
    permit,        \* the task's connection permit
    opened         \* channel Opened results the libp2p branch of the
                   \* service dispatch sent for this peer id, in order

vars == <<kind, pc, events, cmds, ncmds, sender_alive, conn, descs_ok, cb_set,
          conn_res, main_open, auth_reg, remote_auth, slot, rx_alive, permit, opened>>

lib == <<conn, main_open, remote_auth>>

Emit(e) == events' = Append(events, e)

\* Return from peer_start: the select in the PeerAdd task completes.
Return == pc' = "cooldown"

\* Entering `connected` wait: the state is read once; only when it is not
\* yet Connected is the callback registered.
StartConnecting ==
    /\ pc' = "connecting"
    /\ cb_set' = (conn # "connected")
    /\ conn_res' = IF conn = "connected" THEN "ok" ELSE "pending"

\* cmd_receiver.recv(): the head command, or None once the sender is gone.
CanRecv == cmds # <<>> \/ ~sender_alive
RecvNone == cmds = <<>> /\ ~sender_alive
Got(c) == cmds # <<>> /\ Head(cmds) = c
Pop == cmds' = IF cmds = <<>> THEN cmds ELSE Tail(cmds)

-----------------------------------------------------------------------------

Init ==
    /\ kind \in Kinds
    /\ pc = "none" /\ events = <<>> /\ cmds = <<>> /\ ncmds = 0
    /\ sender_alive = FALSE /\ conn = "new" /\ descs_ok = FALSE
    /\ cb_set = FALSE /\ conn_res = "pending" /\ main_open = FALSE
    /\ auth_reg = FALSE /\ remote_auth = "none"
    /\ slot = FALSE /\ rx_alive = FALSE /\ permit = "none" /\ opened = <<>>

\* outgoing_init / incoming_init: a fresh command channel and aborter are
\* put in the peers map and Cmd::PeerAdd, carrying the kind, is queued to
\* the service task.
PeerInit(k) ==
    /\ pc = "none"
    /\ kind' = k /\ pc' = "queued" /\ sender_alive' = TRUE
    /\ UNCHANGED <<events, cmds, ncmds, lib, descs_ok, cb_set, conn_res,
                   auth_reg, slot, rx_alive, permit, opened>>
OutgoingInit == PeerInit("out")
IncomingInit == PeerInit("in")

\* The service task's loop takes Cmd::PeerAdd and spawns the peer task.
ServicePeerAdd ==
    /\ pc = "queued" /\ pc' = "spawned"
    /\ UNCHANGED <<kind, events, cmds, ncmds, sender_alive, lib, descs_ok, cb_set,
                   conn_res, auth_reg, slot, rx_alive, permit, opened>>

AcquirePermit ==
    /\ pc = "spawned"
    /\ \/ permit' = "failed" /\ pc' = "done" /\ UNCHANGED rx_alive
       \/ permit' = "held" /\ pc' = "setup" /\ rx_alive' = TRUE
    /\ UNCHANGED <<kind, events, cmds, ncmds, sender_alive, lib, descs_ok, cb_set,
                   conn_res, auth_reg, slot, opened>>

\* The first block of peer_start: create the connection and main channel,
\* the offer (created, or parsed from the incoming one) and set it; then
\* the outgoing side emits its offer, the incoming one creates, sets and
\* emits its answer.  AnswerSdpReady is only emitted with Ok: a failure of
\* the incoming answer returns without an event.
Setup ==
    /\ pc = "setup"
    /\ \/ Emit("OfferErr") /\ Return /\ UNCHANGED <<descs_ok, cb_set, conn_res>>
       \/ kind = "out" /\ Emit("OfferOk") /\ pc' = "await_cmd1"
          /\ UNCHANGED <<descs_ok, cb_set, conn_res>>
       \/ kind = "in" /\ Return /\ UNCHANGED <<events, descs_ok, cb_set, conn_res>>
       \/ kind = "in" /\ Emit("AnswerSdpOk") /\ descs_ok' = TRUE /\ StartConnecting
    /\ UNCHANGED <<kind, cmds, ncmds, sender_alive, lib, auth_reg, slot, rx_alive, permit, opened>>

\* AnswerSet(v): convert the answer and set it as the remote description.
\* A failed remote_desc_set sends Finalized(Err) but does not return.
AnswerSet ==
    \/ Return /\ UNCHANGED <<events, descs_ok, cb_set, conn_res>>
    \/ Emit("FinalErr") /\ StartConnecting /\ UNCHANGED descs_ok
    \/ descs_ok' = TRUE /\ StartConnecting /\ UNCHANGED events

\* Outgoing: the first command after OfferSdpReady.
AwaitFirstCmd ==
    /\ pc = "await_cmd1" /\ CanRecv /\ Pop
    /\ \/ RecvNone /\ Return /\ UNCHANGED <<events, descs_ok, cb_set, conn_res>>
       \/ Got("HttpOffer")
          /\ \/ Return /\ UNCHANGED events                     \* signalling failed
             \/ Emit("AnswerReceived") /\ pc' = "await_cmd2"
          /\ UNCHANGED <<descs_ok, cb_set, conn_res>>
       \/ Got("AnswerSet") /\ AnswerSet
       \/ cmds # <<>> /\ Head(cmds) \notin {"HttpOffer", "AnswerSet"}
          /\ Return /\ UNCHANGED <<events, descs_ok, cb_set, conn_res>>
    /\ UNCHANGED <<kind, ncmds, sender_alive, lib, auth_reg, slot, rx_alive, permit, opened>>

\* Outgoing: after AnswerReceived only AnswerSet goes on.
AwaitAnswerCmd ==
    /\ pc = "await_cmd2" /\ CanRecv /\ Pop
    /\ \/ Got("AnswerSet") /\ AnswerSet
       \/ ~Got("AnswerSet") /\ Return /\ UNCHANGED <<events, descs_ok, cb_set, conn_res>>
    /\ UNCHANGED <<kind, ncmds, sender_alive, lib, auth_reg, slot, rx_alive, permit, opened>>

\* connected.await: Ok goes on to the auth exchange, registering the main
\* channel's on_message; Err sends Finalized(Err) and returns.
ConnectedNoReturn ==
    /\ pc = "connecting" /\ conn_res # "pending"
    /\ IF conn_res = "ok" THEN pc' = "auth_cmd" /\ auth_reg' = TRUE /\ UNCHANGED events
       ELSE Emit("FinalErr") /\ pc' = "auth_cmd" /\ auth_reg' = TRUE
    /\ UNCHANGED <<kind, cmds, ncmds, sender_alive, lib, descs_ok, cb_set, conn_res, slot, rx_alive, permit, opened>>
Connected ==
    /\ pc = "connecting" /\ conn_res # "pending"
    /\ IF conn_res = "ok" THEN pc' = "auth_cmd" /\ auth_reg' = TRUE /\ UNCHANGED events
       ELSE Emit("FinalErr") /\ Return /\ UNCHANGED auth_reg
    /\ UNCHANGED <<kind, cmds, ncmds, sender_alive, lib, descs_ok, cb_set, conn_res, slot, rx_alive, permit, opened>>

\* The next command must be ConnectionAuthorizationSend(Some(auth)).
AuthCmd ==
    /\ pc = "auth_cmd" /\ CanRecv /\ Pop
    /\ IF Got("AuthSome") THEN pc' = "auth_open" ELSE Return
    /\ UNCHANGED <<kind, events, ncmds, sender_alive, lib, descs_ok, cb_set,
                   conn_res, auth_reg, slot, rx_alive, permit, opened>>

\* main_channel_open.await, the 1 s sleep and the send of our auth.
AuthSend ==
    /\ pc = "auth_open" /\ main_open
    /\ pc' = "auth_wait"
    /\ UNCHANGED <<kind, events, cmds, ncmds, sender_alive, lib, descs_ok, cb_set,
                   conn_res, auth_reg, slot, rx_alive, permit, opened>>

\* remote_auth_rx.await, then Finalized with its result; main channel
\* closed and peer_loop entered on success.
AuthDone ==
    /\ pc = "auth_wait" /\ remote_auth # "none"
    /\ IF remote_auth = "ok" THEN Emit("FinalOk") /\ pc' = "loop"
       ELSE Emit("FinalErr") /\ Return
    /\ UNCHANGED <<kind, cmds, ncmds, sender_alive, lib, descs_ok, cb_set,
                   conn_res, auth_reg, slot, rx_alive, permit, opened>>

\* peer_loop: `while` the connection is Connected (checked before each
\* receive, not while waiting), take a command (channel commands are
\* WebRtcChannels' business); exit on None.
PeerLoop ==
    /\ pc = "loop"
    /\ IF conn = "connected" THEN pc' = "loop_wait" ELSE Return
    /\ UNCHANGED <<kind, events, cmds, ncmds, sender_alive, lib, descs_ok, cb_set,
                   conn_res, auth_reg, slot, rx_alive, permit, opened>>

PeerLoopRecv ==
    /\ pc = "loop_wait" /\ CanRecv /\ Pop
    /\ IF RecvNone THEN Return ELSE pc' = "loop"
    /\ UNCHANGED <<kind, events, ncmds, sender_alive, lib, descs_ok, cb_set,
                   conn_res, auth_reg, slot, rx_alive, permit, opened>>

\* aborted.wait() wins the select: peer_start is dropped where it waits.
Selecting == pc \notin {"none", "queued", "spawned", "cooldown", "done"}

AbortNoClose ==
    /\ ~sender_alive /\ Selecting
    /\ pc' = "done"
    /\ UNCHANGED <<kind, events, cmds, ncmds, sender_alive, lib, descs_ok, cb_set,
                   conn_res, auth_reg, slot, rx_alive, permit, opened>>
Abort ==
    /\ ~sender_alive /\ Selecting
    /\ Return
    /\ UNCHANGED <<kind, events, cmds, ncmds, sender_alive, lib, descs_ok, cb_set,
                   conn_res, auth_reg, slot, rx_alive, permit, opened>>

\* After 100 ms, closed_tx.send(()).await: waits for a free slot while the
\* receiver lives, fails at once when it is gone.  The task then ends,
\* dropping its permit and the connection, whose Drop closes it.
Cooldown ==
    /\ pc = "cooldown" /\ ~(rx_alive /\ slot)
    /\ slot' = rx_alive /\ pc' = "done" /\ permit' = "released"
    /\ UNCHANGED <<kind, events, cmds, ncmds, sender_alive, lib, descs_ok, cb_set,
                   conn_res, auth_reg, rx_alive, opened>>

\* The receiver task: one closed.recv(), then the Closed event, then done.
ClosedReceiver ==
    /\ rx_alive /\ slot
    /\ Emit("Closed") /\ rx_alive' = FALSE /\ slot' = FALSE
    /\ UNCHANGED <<kind, pc, cmds, ncmds, sender_alive, lib, descs_ok, cb_set,
                   conn_res, auth_reg, permit, opened>>

\* The library changes the connection state and runs the registered
\* callback: Connected, or Disconnected/Closed before it, answer the
\* `connected` oneshot once; a later Disconnected/Closed does
\* closed.try_send(()), lost when the slot is full or the receiver gone.
\* Failed is ignored by the callback.  ICE only runs once both
\* descriptions are set; Closed comes from close() in the Drop of the
\* main connection, once the task that owned it has ended.
ConnectionDropped == pc = "done" /\ permit = "released"

ConnEnabled(s) ==
    CASE s = "connected"    -> descs_ok /\ conn \in {"new", "disconnected"}
      [] s = "disconnected" -> descs_ok /\ conn \in {"new", "connected"}
      [] s = "failed"       -> descs_ok /\ conn \in {"new", "connected", "disconnected"}
      [] s = "closed"       -> ConnectionDropped /\ conn # "closed"
      [] OTHER              -> FALSE

ConnStateChange(s) ==
    /\ ConnEnabled(s)
    /\ conn' = s
    /\ LET fire == cb_set /\ s \in {"connected", "disconnected", "closed"}
           answer == fire /\ conn_res = "pending"
       IN /\ conn_res' = IF answer THEN (IF s = "connected" THEN "ok" ELSE "err") ELSE conn_res
          /\ slot' = (slot \/ (fire /\ ~answer /\ s # "connected" /\ rx_alive))
    /\ UNCHANGED <<kind, pc, events, cmds, ncmds, sender_alive, main_open, remote_auth,
                   descs_ok, cb_set, auth_reg, rx_alive, permit, opened>>

\* The main channel opens (its on_open answers the oneshot once).
MainChannelOpen ==
    /\ ~main_open /\ conn = "connected"
    /\ main_open' = TRUE
    /\ UNCHANGED <<kind, pc, events, cmds, ncmds, sender_alive, conn, remote_auth,
                   descs_ok, cb_set, conn_res, auth_reg, slot, rx_alive, permit, opened>>

\* The first message on the main channel after on_message is registered:
\* a ConnectionAuthEncrypted (ok) or bytes that do not convert (the taken
\* sender is dropped: err).
RemoteAuth(r) ==
    /\ auth_reg /\ main_open /\ remote_auth = "none" /\ conn = "connected"
    /\ remote_auth' = r
    /\ UNCHANGED <<kind, pc, events, cmds, ncmds, sender_alive, conn, main_open,
                   descs_ok, cb_set, conn_res, auth_reg, slot, rx_alive, permit, opened>>

\* The service: set_answer, http_signaling_request, channel_open and
\* auth_send push a command while the peer is in its map (the commands
\* queue on the task's receiver until it takes them).
SendCmd(c) ==
    /\ sender_alive /\ ncmds < MaxCmds
    /\ cmds' = Append(cmds, c) /\ ncmds' = ncmds + 1
    /\ UNCHANGED <<kind, pc, events, sender_alive, lib, descs_ok, cb_set,
                   conn_res, auth_reg, slot, rx_alive, permit, opened>>

SetAnswer == SendCmd("AnswerSet")
HttpSignalingRequest == SendCmd("HttpOffer")
ChannelOpen == SendCmd("ChannelOpen")
ServiceAuthSend(auth) == SendCmd(IF auth THEN "AuthSome" ELSE "AuthNone")

\* ChannelId, as the dispatch tells them apart: Rpc, and the other channels
\* by whether supported_by_libp2p holds for them.
ChannelIds == {"Rpc", "Libp2pSupported", "Libp2pUnsupported"}

\* P2pChannelsService::channel_open of the service that has both
\* transports (webrtc_with_libp2p.rs): a peer id in the webrtc map gets
\* PeerCmd::ChannelOpen; any other id is taken for a libp2p peer and, but
\* for Rpc, P2pChannelEvent::Opened is sent at once, Ok exactly when libp2p
\* supports the channel.  The map is the only thing consulted, so a peer
\* the node has just disconnected takes the libp2p branch.
Libp2pChannelOpen(id) ==
    \/ sender_alive /\ ChannelOpen
    \/ /\ ~sender_alive /\ ncmds < MaxCmds
       /\ ncmds' = ncmds + 1
       /\ opened' = IF id = "Rpc" THEN opened ELSE Append(opened, id = "Libp2pSupported")
       /\ UNCHANGED <<kind, pc, events, cmds, sender_alive, lib, descs_ok, cb_set,
                      conn_res, auth_reg, slot, rx_alive, permit>>

\* disconnect: the peer is removed from the map, dropping its command
\* sender and its aborter.
Disconnect ==
    /\ sender_alive
    /\ sender_alive' = FALSE
    /\ UNCHANGED <<kind, pc, events, cmds, ncmds, lib, descs_ok, cb_set,
                   conn_res, auth_reg, slot, rx_alive, permit, opened>>

TaskStep ==
    ServicePeerAdd \/ AcquirePermit \/ Setup \/ AwaitFirstCmd \/ AwaitAnswerCmd \/ Connected \/ AuthCmd \/ AuthSend
    \/ AuthDone \/ PeerLoop \/ PeerLoopRecv \/ Abort \/ Cooldown \/ ClosedReceiver

Environment ==
    \/ \E s \in ConnStates : ConnStateChange(s)
    \/ MainChannelOpen
    \/ \E r \in {"ok", "err"} : RemoteAuth(r)
    \/ OutgoingInit \/ IncomingInit
    \/ SetAnswer \/ HttpSignalingRequest \/ \E id \in ChannelIds : Libp2pChannelOpen(id)
    \/ \E auth \in BOOLEAN : ServiceAuthSend(auth)
    \/ Disconnect

Next == TaskStep \/ Environment

\* The tasks run whenever they can; the library and the service owe nothing.
Spec == Init /\ [][Next]_vars
        /\ WF_vars(ServicePeerAdd) /\ WF_vars(AcquirePermit) /\ WF_vars(Setup) /\ WF_vars(AwaitFirstCmd) /\ WF_vars(AwaitAnswerCmd)
        /\ WF_vars(Connected) /\ WF_vars(AuthCmd) /\ WF_vars(AuthSend)
        /\ WF_vars(AuthDone) /\ WF_vars(PeerLoop) /\ WF_vars(PeerLoopRecv)
        /\ WF_vars(Abort) /\ WF_vars(Cooldown) /\ WF_vars(ClosedReceiver)

-----------------------------------------------------------------------------

Closes == {i \in 1..Len(events) : events[i] = "Closed"}

\* The connection events of the task follow the signalling protocol of its
\* kind (offer, answer, one Finalized), whatever the order of commands and
\* library callbacks, and Closed is emitted at most once.
Protocol ==
    [out |-> {<<"OfferErr">>, <<"OfferOk", "FinalOk">>, <<"OfferOk", "FinalErr">>,
              <<"OfferOk", "AnswerReceived", "FinalOk">>,
              <<"OfferOk", "AnswerReceived", "FinalErr">>},
     in  |-> {<<"OfferErr">>, <<"AnswerSdpOk", "FinalOk">>, <<"AnswerSdpOk", "FinalErr">>}]

EventOrder ==
    /\ \E f \in Protocol[kind] : IsPrefix(SelectSeq(events, LAMBDA e : e # "Closed"), f)
    /\ Cardinality(Closes) <= 1

ClosedAfterEnd ==
    (permit \in {"held", "released"} /\ (~sender_alive \/ pc = "done")) ~> (Closes # {})

\* The connection permit of a peer that is disconnected while its task
\* holds it is eventually returned to the semaphore: aborted.wait() ends
\* the select wherever peer_start waits, and after the 100 ms cooldown and
\* the closed_tx send the task drops `_permit`.  A task that skipped the
\* cooldown on abort, or blocked on the `closed` slot, would keep one of
\* the MAX_PEERS permits and with it refuse a later peer.
PermitReleasedAfterDisconnect ==
    (permit = "held" /\ ~sender_alive) ~> (permit = "released")

\* Closed is the last event of the connection: nothing is reported for
\* the peer after the node was told it closed.
ClosedIsLast == \A i \in Closes : i = Len(events)
=============================================================================
