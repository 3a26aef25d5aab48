--------------------------- MODULE PendingEvents ---------------------------
(* The testing service's view of a node's events (node/testing/src/       *)
(* service/mod.rs, node/common/src/service/event_receiver.rs).  Service   *)
(* threads send events into an unbounded mpsc channel; RPC requests wait  *)
(* in their own channel until the service processes them, which sends an *)
(* Rpc event into the event channel.  The scenario runner, one call at a  *)
(* time, polls events into the PendingEvents table (pending_events),     *)
(* waits for the next one (next_pending_event, a select over the RPC     *)
(* channel and EventReceiver::wait_for_events), and takes events out by  *)
(* id (take_pending_event).  While replaying, non-deterministic events    *)
(* are dropped instead of being added.                                    *)
(*                                                                         *)
(* The node's effects call the testing service on the runner's thread,    *)
(* between those calls: block and work verification, block proving and    *)
(* the external snark worker answer at once, by sending their event into *)
(* the channel, unless the proof kind is Full, when verification goes to  *)
(* the real service and its threads send the result later.               *)
EXTENDS Integers, Sequences, SequencesExt

CONSTANTS
    NetEvents,   \* events sent by service threads (model values)
    RpcEvents,   \* the Rpc events of RPC requests (model values)
    NonDet,      \* NetEvents that NonDeterministicEvent::should_drop_event drops
    IsReplay,    \* NodeTestingService.is_replay
    CallEvents   \* events sent on behalf of the node's service calls

Events == NetEvents \cup RpcEvents \cup CallEvents

ProofKinds == {"Dummy", "ConstraintsChecked", "Full"}

VARIABLES
    rx,        \* the event channel's contents
    queue,     \* EventReceiver.queue
    rpcs,      \* RPC requests not yet processed
    pending,   \* PendingEvents.events: a sequence of <<id, event>>
    next_id,   \* PendingEvents.next_id
    pc,        \* the runner: "idle", or inside next_pending_event: "select", "got"
    sent,      \* every event sent into the event channel, in order
    dropped,   \* events dropped while replaying
    taken,     \* events removed by take_pending_event
    returned,  \* what the last next_pending_event received and returned
    proof_kind,   \* NodeTestingService.proof_kind
    sok_digest,   \* snarker_sok_digest is set
    inflight      \* call results the real service's threads will send

vars == <<rx, queue, rpcs, pending, next_id, pc, sent, dropped, taken, returned,
          proof_kind, sok_digest, inflight>>

call_vars == <<proof_kind, sok_digest, inflight>>

\* PendingEventId::copy_inc: returns the id; the incremented value is
\* computed and discarded (`let _ = self.0.wrapping_add(1)`).
CopyInc(id) == [copy |-> id, next |-> id]

\* PendingEvents::add: a fresh id, the event at the back.
AddFront(p, id, e) == <<<<id, e>>>> \o p
Add(p, id, e) == Append(p, <<id, e>>)

\* PendingEvents::get and remove: the first entry with that id.
FirstWithId(p, id) == CHOOSE i \in 1..Len(p) : p[i][1] = id /\ \A j \in 1..(i - 1) : p[j][1] # id

\* EventReceiver::try_next: the queued event first, then the channel.
TryNextPeek(q, r) ==
    IF q # <<>> THEN [ev |-> Head(q), queue |-> q, rx |-> r]
    ELSE [ev |-> Head(r), queue |-> q, rx |-> Tail(r)]
TryNext(q, r) ==
    IF q # <<>> THEN [ev |-> Head(q), queue |-> Tail(q), rx |-> r]
    ELSE [ev |-> Head(r), queue |-> q, rx |-> Tail(r)]

\* EventReceiver::has_next: an event is queued or waits in the channel.
HasNext(q, r) == q # <<>> \/ r # <<>>

\* should_drop_event while replaying.
DropsAny(e) == IsReplay \/ e \in NonDet
Drops(e) == IsReplay /\ e \in NonDet

\* Drain the receiver with try_next, adding (or dropping) each event.
RECURSIVE Drain(_, _, _, _, _)
Drain(q, r, p, id, dr) ==
    IF ~HasNext(q, r) THEN [queue |-> q, rx |-> r, pending |-> p, next_id |-> id, dropped |-> dr]
    ELSE LET t == TryNext(q, r)
         IN IF Drops(t.ev) THEN Drain(t.queue, t.rx, p, id, dr \cup {t.ev})
            ELSE Drain(t.queue, t.rx, Add(p, CopyInc(id).copy, t.ev), CopyInc(id).next, dr)

\* PendingEvents::new: no events, ids from zero.
NewPendingEvents == [events |-> <<>>, next_id |-> 0]

\* set_snarker_sok_digest.
SetSnarkerSokDigest == sok_digest' = TRUE

-----------------------------------------------------------------------------

\* NodeTestingService::new, then set_proof_kind and (for IsReplay)
\* set_replay: empty channels and table, no sok digest.
Init ==
    /\ rx = <<>> /\ queue = <<>> /\ rpcs = <<>>
    /\ pending = NewPendingEvents.events /\ next_id = NewPendingEvents.next_id
    /\ pc = "idle"
    /\ sent = <<>> /\ dropped = {} /\ taken = {}
    /\ returned = [got |-> "none", ret |-> "none"]
    /\ proof_kind \in ProofKinds
    /\ sok_digest = FALSE
    /\ inflight = {}

\* A service thread sends an event (each event once); the real service's
\* threads send the results of the calls handed to them.
SendEvent(e) ==
    /\ e \notin ToSet(sent)
    /\ rx' = Append(rx, e)
    /\ sent' = Append(sent, e)
    /\ inflight' = inflight \ {e}
    /\ UNCHANGED <<queue, rpcs, pending, next_id, pc, dropped, taken, returned,
                   proof_kind, sok_digest>>

\* An RPC request arrives.
RpcRequest(r) ==
    /\ r \notin ToSet(sent) /\ r \notin ToSet(rpcs)
    /\ rpcs' = Append(rpcs, r)
    /\ UNCHANGED <<rx, queue, pending, next_id, pc, sent, dropped, taken, returned, call_vars>>

(* pending_events(poll): process every RPC request (each sends its Rpc    *)
(* event); if poll, drain the receiver into the table, dropping          *)
(* non-deterministic events while replaying.                              *)
PollPending(poll) ==
    /\ pc = "idle"
    /\ LET rx1 == rx \o rpcs
           d == Drain(queue, rx1, pending, next_id, dropped)
       IN /\ sent' = sent \o rpcs
          /\ rpcs' = <<>>
          /\ IF poll
             THEN /\ queue' = d.queue /\ rx' = d.rx /\ pending' = d.pending
                  /\ next_id' = d.next_id /\ dropped' = d.dropped
             ELSE /\ rx' = rx1
                  /\ UNCHANGED <<queue, pending, next_id, dropped>>
    /\ UNCHANGED <<pc, taken, returned, call_vars>>

\* next_pending_event is called.
NextPendingStart ==
    /\ pc = "idle"
    /\ pc' = "select"
    /\ UNCHANGED <<rx, queue, rpcs, pending, next_id, sent, dropped, taken, returned, call_vars>>

\* Add the event next_pending_event broke out of its loop with; return
\* the table's entry for the id add gave it.
Return(e, p, id) ==
    LET id2 == CopyInc(id).copy
        p2 == Add(p, id2, e)
    IN /\ pending' = p2
       /\ next_id' = CopyInc(id).next
       /\ returned' = [got |-> e, ret |-> p2[FirstWithId(p2, id2)][2]]
       /\ pc' = "idle"

(* The select's RPC branch: process the request, then                     *)
(* event_receiver().try_next().unwrap(), with no replay check.           *)
NextPendingRpc ==
    /\ pc = "select"
    /\ rpcs # <<>>
    /\ LET t == TryNext(queue, Append(rx, Head(rpcs)))
       IN /\ queue' = t.queue /\ rx' = t.rx
          /\ Return(t.ev, pending, next_id)
    /\ sent' = Append(sent, Head(rpcs))
    /\ rpcs' = Tail(rpcs)
    /\ UNCHANGED <<dropped, taken, call_vars>>

\* The select's other branch: wait_for_events returns at once if an event
\* is queued, or receives one from the channel into the queue.
NextPendingWait ==
    /\ pc = "select"
    /\ queue # <<>> \/ rx # <<>>
    /\ IF queue # <<>> THEN UNCHANGED <<queue, rx>>
       ELSE queue' = Append(queue, Head(rx)) /\ rx' = Tail(rx)
    /\ pc' = "got"
    /\ UNCHANGED <<rpcs, pending, next_id, sent, dropped, taken, returned, call_vars>>

\* ... then try_next; a dropped event goes round the loop again.
NextPendingGot ==
    /\ pc = "got"
    /\ LET t == TryNext(queue, rx)
       IN /\ queue' = t.queue /\ rx' = t.rx
          /\ IF Drops(t.ev)
             THEN /\ dropped' = dropped \cup {t.ev} /\ pc' = "select"
                  /\ UNCHANGED <<pending, next_id, returned>>
             ELSE /\ Return(t.ev, pending, next_id)
                  /\ UNCHANGED dropped
    /\ UNCHANGED <<rpcs, sent, taken, call_vars>>

\* take_pending_event with an id the runner got from the table.
TakePending(i) ==
    /\ pc = "idle"
    /\ LET k == FirstWithId(pending, pending[i][1])
       IN /\ taken' = taken \cup {pending[k][2]}
          /\ pending' = RemoveAt(pending, k)
    /\ UNCHANGED <<rx, queue, rpcs, next_id, pc, sent, dropped, returned, call_vars>>

(* The node's service calls, made from the runner's thread between its    *)
(* next_pending_event calls. A call that answers at once sends its event  *)
(* on the real service's event_sender, ignoring the result.               *)
CallSend(e) ==
    /\ rx' = Append(rx, e)
    /\ sent' = Append(sent, e)

Fresh(e) == pc = "idle" /\ e \notin ToSet(sent) /\ e \notin inflight

call_unchanged == <<queue, rpcs, pending, next_id, dropped, taken, returned, proof_kind>>

(* verify_init of the block and work verifiers answers Ok at once unless  *)
(* the proof kind is Full; the user command verifier (faked = FALSE)      *)
(* always goes to the real service, whose thread answers later.           *)
VerifyInit(e, faked) ==
    /\ Fresh(e)
    /\ IF faked /\ proof_kind \in {"Dummy", "ConstraintsChecked"}
       THEN CallSend(e) /\ UNCHANGED inflight
       ELSE inflight' = inflight \cup {e} /\ UNCHANGED <<rx, sent>>
    /\ UNCHANGED <<pc, sok_digest>>
    /\ UNCHANGED call_unchanged

(* prove: Dummy sends the dummy proof; ConstraintsChecked runs the prover *)
(* and sends the dummy proof when it stops with ConstraintsOk, and panics *)
(* on any other error; Full proves (or reuses the cached genesis proof)   *)
(* and sends the result, Ok or Err.                                       *)
Prove(e) ==
    /\ Fresh(e)
    /\ \E constraints_ok \in BOOLEAN :
         IF proof_kind = "ConstraintsChecked" /\ ~constraints_ok
         THEN pc' = "panicked" /\ UNCHANGED <<rx, sent>>
         ELSE CallSend(e) /\ UNCHANGED pc
    /\ UNCHANGED <<sok_digest, inflight>>
    /\ UNCHANGED call_unchanged

(* ExternalSnarkWorkerService::start: an invalid public key returns Err   *)
(* before anything is set; otherwise the sok digest is set and Started    *)
(* is sent.                                                               *)
WorkerStart(e) ==
    /\ Fresh(e)
    /\ \E key_ok \in BOOLEAN :
         IF key_ok THEN SetSnarkerSokDigest /\ CallSend(e)
         ELSE UNCHANGED <<sok_digest, rx, sent>>
    /\ UNCHANGED <<pc, inflight>>
    /\ UNCHANGED call_unchanged

(* submit unwraps the sok digest, panicking when start never set it, and  *)
(* sends the dummy WorkResult.                                            *)
WorkerSubmit(e) ==
    /\ Fresh(e)
    /\ IF sok_digest THEN CallSend(e) /\ UNCHANGED pc
       ELSE pc' = "panicked" /\ UNCHANGED <<rx, sent>>
    /\ UNCHANGED <<sok_digest, inflight>>
    /\ UNCHANGED call_unchanged

\* cancel and kill send WorkCancelled and Killed.
WorkerCancelOrKill(e) ==
    /\ Fresh(e)
    /\ CallSend(e)
    /\ UNCHANGED <<pc, sok_digest, inflight>>
    /\ UNCHANGED call_unchanged

Next ==
    \/ \E e \in NetEvents \cup inflight : SendEvent(e)
    \/ \E r \in RpcEvents : RpcRequest(r)
    \/ \E poll \in BOOLEAN : PollPending(poll)
    \/ NextPendingStart \/ NextPendingRpc \/ NextPendingWait \/ NextPendingGot
    \/ \E i \in 1..Len(pending) : TakePending(i)
    \/ \E e \in CallEvents :
         \/ \E faked \in BOOLEAN : VerifyInit(e, faked)
         \/ Prove(e) \/ WorkerStart(e) \/ WorkerSubmit(e) \/ WorkerCancelOrKill(e)

Spec == Init /\ [][Next]_vars

-----------------------------------------------------------------------------

TypeOK ==
    /\ pending \in Seq(Nat \X Events)
    /\ rx \in Seq(Events) /\ queue \in Seq(Events) /\ rpcs \in Seq(RpcEvents)
    /\ Len(queue) <= 1
    /\ dropped \subseteq NonDet /\ taken \subseteq Events
    /\ pc \in {"idle", "select", "got", "panicked"}
    /\ proof_kind \in ProofKinds /\ sok_digest \in BOOLEAN
    /\ inflight \subseteq CallEvents

\* No event is lost or duplicated on its way from the channel to the
\* runner: every sent event is in exactly one of the channel, the
\* receiver's queue, the table, the dropped events and the taken events.
EventsConserved ==
    \A e \in ToSet(sent) :
      LET places == <<e \in ToSet(rx), e \in ToSet(queue),
                      \E i \in 1..Len(pending) : pending[i][2] = e,
                      e \in dropped, e \in taken>>
      IN Cardinality({j \in 1..5 : places[j]}) = 1

\* The table keeps events in the order they were sent.
PendingInSentOrder ==
    \A i, j \in 1..Len(pending) :
      i < j => \E a, b \in 1..Len(sent) :
                 a < b /\ sent[a] = pending[i][2] /\ sent[b] = pending[j][2]

\* next_pending_event returns the event it has just received.
NextReturnsReceived == returned.ret = returned.got

\* While replaying, no non-deterministic event reaches the table.
ReplayDropsNonDet == \A i \in 1..Len(pending) : ~Drops(pending[i][2])
=============================================================================
