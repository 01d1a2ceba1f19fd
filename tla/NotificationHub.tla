--------------------------- MODULE NotificationHub ---------------------------
(***************************************************************************)
(* How alerts of scripts and prices of the distributor reach the browsers  *)
(* (backend-api/routes/views.py, backend-api/core/communication/           *)
(* communicator.py): every source puts its notification into one           *)
(* asyncio.Queue, and each connected WebSocket runs a handler whose loop   *)
(* waits for whatever comes first, a notification or a message of the      *)
(* client.                                                                 *)
(*                                                                         *)
(* Granularity.  One event loop runs everything, so what lies between two  *)
(* awaits that may suspend is one step.  A task that is cancelled while it *)
(* is pending has taken nothing: asyncio.Queue.get removes the item only   *)
(* when it returns it.  Which of several pending gets is served is left    *)
(* open.                                                                   *)
(***************************************************************************)
EXTENDS Integers, Sequences, SequencesExt

CONSTANTS
    Clients,          \* the WebSocket connections
    MaxNotifications, \* bound: notifications that are published
    MaxMessages       \* bound: messages that each client sends

ASSUME HubAssumption ==
    /\ MaxNotifications \in Nat
    /\ MaxMessages \in Nat

VARIABLES
    websocket_queue,    \* the notifications, by number
    published,          \* number of notifications so far
    active_connections, \* WebSocketManager.active_connections
    handler,            \* where websocket_endpoint is, for each connection
    queue_task,         \* the result of queue_task, <<>> while it is pending
    recv_task,          \* the result of recv_task, <<>> while it is pending
    link,               \* the client's side: "new", "up", "down"
    inbox,              \* what the client has sent and recv_task not received
    spoken,             \* number of messages the client has sent
    received,           \* history: the notifications the client has got
    lost                \* history: the notifications nobody gets any more

tasks == <<queue_task, recv_task>>
client == <<link, inbox, spoken>>
vars == <<websocket_queue, published, active_connections, handler, tasks, client,
          received, lost>>

\* Not begun, in asyncio.wait, in send_text, ended.
HandlerPCs == {"out", "waiting", "sending", "ended"}

Init ==
    /\ websocket_queue = <<>>
    /\ published = 0
    /\ active_connections = {}
    /\ handler = [c \in Clients |-> "out"]
    /\ queue_task = [c \in Clients |-> <<>>]
    /\ recv_task = [c \in Clients |-> <<>>]
    /\ link = [c \in Clients |-> "new"]
    /\ inbox = [c \in Clients |-> <<>>]
    /\ spoken = [c \in Clients |-> 0]
    /\ received = [c \in Clients |-> <<>>]
    /\ lost = {}

-----------------------------------------------------------------------------
\* notif_callback, called by ScriptAlert and by the distributor's stream.
Publishes ==
    /\ published < MaxNotifications
    /\ published' = published + 1
    /\ websocket_queue' = Append(websocket_queue, published + 1)
    /\ UNCHANGED <<active_connections, handler, tasks, client, received, lost>>

-----------------------------------------------------------------------------
(***************************************************************************)
(* websocket_endpoint.                                                     *)
(***************************************************************************)

Connects(c) ==
    /\ handler[c] = "out"
    /\ active_connections' = active_connections \cup {c}
    /\ link' = [link EXCEPT ![c] = "up"]
    /\ handler' = [handler EXCEPT ![c] = "waiting"]
    /\ UNCHANGED <<websocket_queue, published, tasks, inbox, spoken, received, lost>>

\* The notification is left in the queue.
Peeked == websocket_queue

\* The queue once queue_task has its result.
Rest == Tail(websocket_queue)

Takes(c) ==
    /\ handler[c] = "waiting" /\ queue_task[c] = <<>>
    /\ websocket_queue # <<>>
    /\ queue_task' = [queue_task EXCEPT ![c] = <<Head(websocket_queue)>>]
    /\ websocket_queue' = Rest
    /\ UNCHANGED <<published, active_connections, handler, recv_task, client, received,
                   lost>>

Receives(c) ==
    /\ handler[c] = "waiting" /\ recv_task[c] = <<>>
    /\ inbox[c] # <<>>
    /\ recv_task' = [recv_task EXCEPT ![c] = <<Head(inbox[c])>>]
    /\ inbox' = [inbox EXCEPT ![c] = Tail(@)]
    /\ UNCHANGED <<websocket_queue, published, active_connections, handler, queue_task,
                   link, spoken, received, lost>>

Disconnected(c) == recv_task[c] = <<"disconnect">>

\* The end of a connection that WebSocketManager is not told of.
EndsUnregistered(c) ==
    /\ handler' = [handler EXCEPT ![c] = "ended"]
    /\ queue_task' = [queue_task EXCEPT ![c] = <<>>]
    /\ recv_task' = [recv_task EXCEPT ![c] = <<>>]
    /\ lost' = lost \cup Range(queue_task[c])
    /\ UNCHANGED active_connections

\* The connection ends and the notification in hand, if there is one, goes with it.
Ends(c) ==
    /\ handler' = [handler EXCEPT ![c] = "ended"]
    /\ active_connections' = active_connections \ {c}
    /\ queue_task' = [queue_task EXCEPT ![c] = <<>>]
    /\ recv_task' = [recv_task EXCEPT ![c] = <<>>]
    /\ lost' = lost \cup Range(queue_task[c])

WakesToEnd(c) ==
    /\ handler[c] = "waiting"
    /\ Disconnected(c)
    /\ Ends(c)
    /\ UNCHANGED <<websocket_queue, published, client, received>>

\* A loop that looks at the notification only if the client has sent nothing.
WakesToListen(c) ==
    /\ handler[c] = "waiting"
    /\ queue_task[c] # <<>> /\ ~Disconnected(c)
    /\ recv_task' = [recv_task EXCEPT ![c] = <<>>]
    /\ IF recv_task[c] = <<>>
       THEN /\ handler' = [handler EXCEPT ![c] = "sending"]
            /\ UNCHANGED <<queue_task, lost>>
       ELSE /\ queue_task' = [queue_task EXCEPT ![c] = <<>>]
            /\ lost' = lost \cup Range(queue_task[c])
            /\ UNCHANGED handler
    /\ UNCHANGED <<websocket_queue, published, active_connections, client, received>>

\* A message of the client that arrived with the notification is thrown away.
WakesToSend(c) ==
    /\ handler[c] = "waiting"
    /\ queue_task[c] # <<>> /\ ~Disconnected(c)
    /\ recv_task' = [recv_task EXCEPT ![c] = <<>>]
    /\ handler' = [handler EXCEPT ![c] = "sending"]
    /\ UNCHANGED <<websocket_queue, published, active_connections, queue_task, client,
                   received, lost>>

\* A message of the client alone: new tasks, wait again.
WakesToWait(c) ==
    /\ handler[c] = "waiting"
    /\ queue_task[c] = <<>> /\ recv_task[c] = <<"message">>
    /\ recv_task' = [recv_task EXCEPT ![c] = <<>>]
    /\ UNCHANGED <<websocket_queue, published, active_connections, handler, queue_task,
                   client, received, lost>>

\* A task that keeps its result for the next turn of the loop.
KeepsTask(c) == UNCHANGED queue_task

\* The next turn begins with a new task.
NewTask(c) == queue_task' = [queue_task EXCEPT ![c] = <<>>]

\* send_text returns.  To a client that has gone it sends into the void.
Sends(c) ==
    /\ handler[c] = "sending"
    /\ handler' = [handler EXCEPT ![c] = "waiting"]
    /\ NewTask(c)
    /\ IF link[c] = "up"
       THEN received' = [received EXCEPT ![c] = @ \o queue_task[c]] /\ UNCHANGED lost
       ELSE lost' = lost \cup Range(queue_task[c]) /\ UNCHANGED received
    /\ UNCHANGED <<websocket_queue, published, active_connections, recv_task, client>>

\* send_text raises, the handler prints the exception and ends.
SendFails(c) ==
    /\ handler[c] = "sending" /\ link[c] = "down"
    /\ Ends(c)
    /\ UNCHANGED <<websocket_queue, published, client, received>>

-----------------------------------------------------------------------------
(***************************************************************************)
(* The client and the network.                                             *)
(***************************************************************************)

Speaks(c) ==
    /\ link[c] = "up" /\ spoken[c] < MaxMessages
    /\ spoken' = [spoken EXCEPT ![c] = @ + 1]
    /\ inbox' = [inbox EXCEPT ![c] = Append(@, "message")]
    /\ UNCHANGED <<websocket_queue, published, active_connections, handler, tasks, link,
                   received, lost>>

Leaves(c) ==
    /\ link[c] = "up"
    /\ link' = [link EXCEPT ![c] = "down"]
    /\ UNCHANGED <<websocket_queue, published, active_connections, handler, tasks, inbox,
                   spoken, received, lost>>

\* The server's end of the connection notices, sooner or later.
Noticed(c) ==
    /\ link[c] = "down"
    /\ "disconnect" \notin Range(inbox[c]) /\ ~Disconnected(c) /\ handler[c] # "ended"
    /\ inbox' = [inbox EXCEPT ![c] = Append(@, "disconnect")]
    /\ UNCHANGED <<websocket_queue, published, active_connections, handler, tasks, link,
                   spoken, received, lost>>

HandlerStep(c) ==
    \/ Takes(c) \/ Receives(c)
    \/ WakesToEnd(c) \/ WakesToSend(c) \/ WakesToWait(c)
    \/ Sends(c) \/ SendFails(c)

Next ==
    \/ Publishes
    \/ \E c \in Clients :
          Connects(c) \/ HandlerStep(c) \/ Speaks(c) \/ Leaves(c) \/ Noticed(c)

Spec == Init /\ [][Next]_vars

\* The event loop runs every handler, and a connection that is broken is noticed.
Fairness == \A c \in Clients : WF_vars(HandlerStep(c)) /\ WF_vars(Noticed(c))

FairSpec == Spec /\ Fairness

-----------------------------------------------------------------------------
(***************************************************************************)
(* Properties.                                                             *)
(***************************************************************************)

TypeOK ==
    /\ websocket_queue \in Seq(1 .. published)
    /\ published \in 0 .. MaxNotifications
    /\ active_connections = {c \in Clients : handler[c] \in {"waiting", "sending"}}
    /\ handler \in [Clients -> HandlerPCs]
    /\ queue_task \in [Clients -> Seq(1 .. published)]
    /\ \A c \in Clients : Len(queue_task[c]) <= 1
    /\ recv_task \in [Clients -> {<<>>, <<"message">>, <<"disconnect">>}]
    /\ inbox \in [Clients -> Seq({"message", "disconnect"})]
    /\ received \in [Clients -> Seq(1 .. published)]
    /\ link \in [Clients -> {"new", "up", "down"}]
    /\ spoken \in [Clients -> 0 .. MaxMessages]
    /\ lost \subseteq 1 .. published

\* Where notification n may be: queued, in hand, received, lost.
KnownSomewhere(n) ==
    \/ n \in Range(websocket_queue) \/ n \in lost
    \/ \E c \in Clients : n \in Range(queue_task[c]) \cup Range(received[c])

Increasing(s) == \A i, j \in 1 .. Len(s) : i < j => s[i] < s[j]

\* However connections come, speak, break and go, and whichever of a handler's two tasks
\* is cancelled: no notification vanishes, and each client gets those that it gets once
\* and in the order in which they were published.  This does not say who gets them: the
\* code sends each to one connection only (views.py:62), though README.md:33 and
\* communicator.py:138 speak of a broadcast to all.
NoneVanishesOrRepeats ==
    /\ \A n \in 1 .. published : KnownSomewhere(n)
    /\ \A c \in Clients : Increasing(received[c])

\* A notification is lost only by a handler whose client has gone.
LostOnlyByLeavers ==
    [][\A n \in lost' \ lost :
          \E c \in Clients : n \in Range(queue_task[c]) /\ link[c] = "down"]_vars

\* A notification does not stay in the queue as long as some connection is open.
QueueDrains ==
    \A n \in 1 .. MaxNotifications :
        (n \in Range(websocket_queue)) ~>
            (n \notin Range(websocket_queue) \/ active_connections = {})

\* A connection whose client has gone is given up, whatever it was doing.
LeaversAreDropped ==
    \A c \in Clients : (link[c] = "down") ~> (c \notin active_connections)
=============================================================================
