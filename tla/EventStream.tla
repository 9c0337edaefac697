---------------------------- MODULE EventStream ----------------------------
(***************************************************************************)
(* Real-time events: published on a Redis channel, read by the listener of  *)
(* one API process, and put into the bounded queue of every WebSocket       *)
(* connection of the event's tenant that wants its type.  A sender per      *)
(* connection sends what is queued; a full queue loses its oldest event.    *)
(***************************************************************************)
EXTENDS Naturals, Sequences, FiniteSets

CONSTANTS Tenants, Types, Connections,
          TenantOf,   (* the tenant a connection authenticated for            *)
          QueueSize,  (* _WS_QUEUE_MAXSIZE                                    *)
          MaxEvents   (* bound: events published                              *)

ASSUME EventStreamAssumption ==
  /\ TenantOf \in [Connections -> Tenants]
  /\ QueueSize \in Nat \ {0}
  /\ MaxEvents \in Nat

VARIABLES
  published,  (* the events, in the order Redis took them                     *)
  listening,  (* the listener's subscription is up                            *)
  inbox,      (* positions of events on their way to the listener             *)
  stage,      (* each connection's endpoint                                   *)
  wanted,     (* event_types of each connection; None is all types            *)
  queue,      (* each connection's queue of positions                         *)
  sending,    (* the position the sender has taken, 0 for none                *)
  sender,     (* the sender task                                              *)
  socket,     (* the server has closed the socket                             *)
  received,   (* history: the positions the client got                        *)
  matched     (* history: the positions put into the queue, while registered  *)

channel == <<published, listening, inbox>>
endpoint == <<stage, wanted, socket>>
outgoing == <<queue, sending, sender>>
history == <<received, matched>>
vars == <<channel, endpoint, outgoing, history>>

Positions == 1..MaxEvents

TypeOK ==
  /\ published \in Seq([tenant : Tenants, type : Types])
  /\ Len(published) <= MaxEvents
  /\ listening \in BOOLEAN
  /\ inbox \in Seq(Positions)
  /\ stage \in [Connections -> {"new", "registered", "open", "closing", "closed"}]
  /\ wanted \in [Connections -> SUBSET Types]
  /\ queue \in [Connections -> Seq(Positions)]
  /\ \A c \in Connections : Len(queue[c]) <= QueueSize
  /\ sending \in [Connections -> 0..MaxEvents]
  /\ sender \in [Connections -> {"none", "running", "returned"}]
  /\ socket \in [Connections -> {"open", "closed"}]
  /\ received \in [Connections -> Seq(Positions)]
  /\ matched \in [Connections -> Seq(Positions)]

Init ==
  /\ published = <<>> /\ inbox = <<>>
  /\ listening = FALSE
  /\ stage = [c \in Connections |-> "new"]
  /\ wanted = [c \in Connections |-> Types]
  /\ queue = [c \in Connections |-> <<>>]
  /\ sending = [c \in Connections |-> 0]
  /\ sender = [c \in Connections |-> "none"]
  /\ socket = [c \in Connections |-> "open"]
  /\ received = [c \in Connections |-> <<>>]
  /\ matched = [c \in Connections |-> <<>>]

-----------------------------------------------------------------------------
(* publish_ws_event: nobody stores what no listener is subscribed for.      *)
Publish(t, type) ==
  /\ Len(published) < MaxEvents
  /\ published' = Append(published, [tenant |-> t, type |-> type])
  /\ inbox' = IF listening THEN Append(inbox, Len(published) + 1) ELSE inbox
  /\ UNCHANGED <<listening, endpoint, outgoing, history>>

(* listen_ws_events subscribes, and again five seconds after a failure.     *)
Subscribe ==
  /\ ~listening
  /\ listening' = TRUE
  /\ UNCHANGED <<published, inbox, endpoint, outgoing, history>>

Disconnect ==
  /\ listening
  /\ listening' = FALSE /\ inbox' = <<>>
  /\ UNCHANGED <<published, endpoint, outgoing, history>>

-----------------------------------------------------------------------------
(* ConnectionManager.broadcast, without an await: one step for all queues.  *)
Registered == {c \in Connections : stage[c] \in {"registered", "open", "closing"}}

WantsOfAnyTenant(c, n) ==
  /\ c \in Registered
  /\ published[n].type \in wanted[c]

Wants(c, n) ==
  /\ c \in Registered
  /\ TenantOf[c] = published[n].tenant
  /\ published[n].type \in wanted[c]

PutDroppingNewest(q, n) == IF Len(q) < QueueSize THEN Append(q, n) ELSE q

Put(q, n) == Append(IF Len(q) < QueueSize THEN q ELSE Tail(q), n)

Forward ==
  /\ inbox # <<>>
  /\ inbox' = Tail(inbox)
  /\ LET n == Head(inbox)
         Enqueue(c) == IF Wants(c, n) THEN Put(queue[c], n) ELSE queue[c]
         Note(c) == IF Wants(c, n) THEN Append(matched[c], n) ELSE matched[c]
     IN /\ queue' = [c \in Connections |-> Enqueue(c)]
        /\ matched' = [c \in Connections |-> Note(c)]
  /\ UNCHANGED <<published, listening, endpoint, sending, sender, received>>

-----------------------------------------------------------------------------
(* websocket_endpoint: registered before it is accepted.                    *)
Connect(c) ==
  /\ stage[c] = "new"
  /\ stage' = [stage EXCEPT ![c] = "registered"]
  /\ UNCHANGED <<channel, wanted, socket, outgoing, history>>

Accept(c) ==
  /\ stage[c] = "registered"
  /\ stage' = [stage EXCEPT ![c] = "open"]
  /\ sender' = [sender EXCEPT ![c] = "running"]
  /\ UNCHANGED <<channel, wanted, socket, queue, sending, history>>

(* disconnect, and the connection's queue goes with it.                     *)
Unregister(c) ==
  /\ stage' = [stage EXCEPT ![c] = "closed"]
  /\ queue' = [queue EXCEPT ![c] = <<>>]

AcceptFails(c) ==
  /\ stage[c] = "registered"
  /\ Unregister(c)
  /\ UNCHANGED <<channel, wanted, socket, sending, sender, history>>

SetEventFilter(c, types) ==
  /\ stage[c] = "open" /\ types # wanted[c]
  /\ wanted' = [wanted EXCEPT ![c] = types]
  /\ UNCHANGED <<channel, stage, socket, outgoing, history>>

(* The receive loop ends when the client goes or the socket is closed; the  *)
(* sender is cancelled, with what it was sending.                           *)
EndReceive(c) ==
  /\ stage[c] = "open"
  /\ stage' = [stage EXCEPT ![c] = "closing"]
  /\ sender' = [sender EXCEPT ![c] = "returned"]
  /\ sending' = [sending EXCEPT ![c] = 0]
  /\ UNCHANGED <<channel, wanted, socket, queue, history>>

EndClosed(c) == socket[c] = "closed" /\ EndReceive(c)

Cleanup(c) ==
  /\ stage[c] = "closing"
  /\ Unregister(c)
  /\ UNCHANGED <<channel, wanted, socket, sending, sender, history>>

-----------------------------------------------------------------------------
(* _sender_loop                                                             *)
Take(c) ==
  /\ sender[c] = "running" /\ sending[c] = 0
  /\ queue[c] # <<>>
  /\ sending' = [sending EXCEPT ![c] = Head(queue[c])]
  /\ queue' = [queue EXCEPT ![c] = Tail(@)]
  /\ UNCHANGED <<channel, endpoint, sender, history>>

Send(c) ==
  /\ sending[c] # 0
  /\ received' = [received EXCEPT ![c] = Append(@, sending[c])]
  /\ sending' = [sending EXCEPT ![c] = 0]
  /\ UNCHANGED <<channel, endpoint, queue, sender, matched>>

SendFailsOpen(c) ==
  /\ sending[c] # 0
  /\ sending' = [sending EXCEPT ![c] = 0]
  /\ sender' = [sender EXCEPT ![c] = "returned"]
  /\ UNCHANGED <<channel, endpoint, queue, history>>

SendFails(c) ==
  /\ sending[c] # 0
  /\ sending' = [sending EXCEPT ![c] = 0]
  /\ sender' = [sender EXCEPT ![c] = "returned"]
  /\ socket' = [socket EXCEPT ![c] = "closed"]
  /\ UNCHANGED <<channel, stage, wanted, queue, history>>

Serve(c) ==
  \/ Accept(c) \/ AcceptFails(c) \/ Take(c) \/ Send(c) \/ SendFails(c)
  \/ EndClosed(c) \/ Cleanup(c)

Next ==
  \/ \E t \in Tenants, type \in Types : Publish(t, type)
  \/ Subscribe \/ Disconnect \/ Forward
  \/ \E c \in Connections : Connect(c) \/ Serve(c) \/ EndReceive(c)
  \/ \E c \in Connections, types \in SUBSET Types : SetEventFilter(c, types)

(* The event loop runs every task that can run; clients, Redis and the      *)
(* publishers may do nothing.                                               *)
Fairness == \A c \in Connections : WF_vars(Serve(c))

Spec == Init /\ [][Next]_vars /\ Fairness

-----------------------------------------------------------------------------
(* The stream keeps what a subscriber is promised: its own tenant's events, *)
(* in order, none twice, across overflows, filters and reconnections.       *)
Feed == INSTANCE EventFeed
ImplementsFeed == Feed!Spec

(* What is queued are the newest events that were put there: an overflow    *)
(* loses the oldest, and only what was older than everything queued is gone.*)
QueueHoldsNewest ==
  \A c \in Connections : stage[c] # "closed" =>
    LET m == matched[c]  q == queue[c]
    IN Len(q) <= Len(m) /\ q = SubSeq(m, Len(m) - Len(q) + 1, Len(m))

(* A queue is emptied in the end: by the sender, or because a send failed,  *)
(* the socket was closed and the endpoint has unregistered.                 *)
QueueDrains ==
  \A c \in Connections : queue[c] # <<>> ~> queue[c] = <<>>
=============================================================================
