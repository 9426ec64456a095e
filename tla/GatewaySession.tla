---------------------------- MODULE GatewaySession ----------------------------
(***************************************************************************)
(* The websocket connections of the gateway (websocket.rs): the            *)
(* ChannelManager that all of them share, and of each connection the task  *)
(* that receives requests, the task that sends from the client's bounded   *)
(* channel, and the task that picks the client's order events from the     *)
(* gateway's event channel.  Whichever of the first two ends first has the *)
(* other aborted; the third is left to itself.                             *)
(*                                                                         *)
(* Accounts and the engine are the calls and commands the gateway sees of  *)
(* them: OrderFlow models what they do.  Of a message only its being there *)
(* is kept, since the channels and the socket keep their order.            *)
(***************************************************************************)
EXTENDS Integers, Sequences, FiniteSets

CONSTANTS
  Users,
  MaxClients,     \* bound: connections
  MaxOrders,      \* bound: orders accounts creates
  MaxRequests,    \* bound: requests of all clients, commands for the bot and book events
  QueueSize,      \* capacity of a client's channel, 1000 in the code
  EventCapacity   \* capacity of the gateway's event channel, 10000 in the code

ASSUME SessionAssumption ==
  /\ {MaxClients, QueueSize, EventCapacity} \subseteq Nat \ {0}
  /\ {MaxOrders, MaxRequests} \subseteq Nat

Clients == 1 .. MaxClients

Orders == 1 .. MaxOrders

\* No user, no client.
None == 0

ASSUME NoneAssumption == None \notin Users

Idle == [pc |-> "idle", user |-> None, order |-> None]

VARIABLES
  opened,         \* connections so far: next_client_id - 1
  peer,           \* clients whose end of the socket is there
  receiver,       \* client -> what its receive task is doing
  sender,         \* clients whose send task runs
  backlog, lagged, \* client -> messages in its channel; clients that missed one there
  listener, position, \* clients whose event task runs; client -> events it has read
  subscribers, client_senders, authenticated_users, user_to_client, order_owners, \* the
  bot_client_id, last_bot_status, \* fields of ChannelManager; one channel stands for all
  events,         \* the event channel: an order whose end it tells of, None for other events
  placed, refunded, \* order -> its user in accounts; orders cancelled there
  sent, withdrawn, \* orders, and cancellations, that went out to the engine
  over,           \* orders the engine has done with
  requests,       \* bound: so far
  via,            \* ghost: order -> the client it came from
  dropped,        \* ghost: orders whose creation accounts' answer did not tell of
  identities,     \* ghost: client -> users it signed in as
  told            \* ghost: client -> orders whose end was put into its channel

manager == <<subscribers, client_senders, authenticated_users, user_to_client, order_owners,
             bot_client_id, last_bot_status>>

channel == <<backlog, lagged>>

tasks == <<receiver, sender, listener, position>>

backend == <<events, placed, refunded, sent, withdrawn, over>>

ghosts == <<via, dropped, identities, told>>

vars == <<opened, peer, tasks, channel, manager, backend, requests, ghosts>>

Init ==
  /\ opened = 0
  /\ peer = {}
  /\ receiver = [c \in Clients |-> Idle]
  /\ sender = {} /\ listener = {}
  /\ backlog = [c \in Clients |-> 0] /\ lagged = {}
  /\ position = [c \in Clients |-> 0]
  /\ subscribers = {} /\ client_senders = {}
  /\ authenticated_users = [c \in Clients |-> None]
  /\ user_to_client = [u \in Users |-> None]
  /\ order_owners = [o \in Orders |-> None]
  /\ bot_client_id = None /\ last_bot_status = FALSE
  /\ events = << >>
  /\ placed = [o \in Orders |-> None] /\ refunded = {}
  /\ sent = {} /\ withdrawn = {} /\ over = {}
  /\ requests = 0
  /\ via = [o \in Orders |-> None] /\ dropped = {}
  /\ identities = [c \in Clients |-> {}]
  /\ told = [c \in Clients |-> {}]

\* Messages into the channels of cs; a full one forgets its oldest, and its reader will be told.
Put(cs) ==
  /\ backlog' = [c \in Clients |->
                   IF c \in cs \cap sender /\ backlog[c] < QueueSize THEN backlog[c] + 1 ELSE backlog[c]]
  /\ lagged' = lagged \cup {c \in cs \cap sender : backlog[c] = QueueSize}

-----------------------------------------------------------------------------
(* A connection and its tasks. *)

\* Seeded mistake: no event task is started for the client.
ConnectOnly ==
  /\ opened < MaxClients
  /\ opened' = opened + 1
  /\ LET c == opened + 1
     IN  /\ peer' = peer \cup {c}
         /\ sender' = sender \cup {c}
         /\ position' = [position EXCEPT ![c] = Len(events)]
         /\ client_senders' = client_senders \cup {c}
  /\ UNCHANGED <<receiver, listener, channel, subscribers, authenticated_users, user_to_client,
                 order_owners, bot_client_id, last_bot_status, backend, requests, ghosts>>

\* websocket_handler: the client has its number and its place in the event channel.
Connect ==
  /\ opened < MaxClients
  /\ opened' = opened + 1
  /\ LET c == opened + 1
     IN  /\ peer' = peer \cup {c}
         /\ sender' = sender \cup {c}
         /\ listener' = listener \cup {c}
         /\ position' = [position EXCEPT ![c] = Len(events)]
         /\ client_senders' = client_senders \cup {c}
  /\ UNCHANGED <<receiver, channel, subscribers, authenticated_users, user_to_client, order_owners,
                 bot_client_id, last_bot_status, backend, requests, ghosts>>

\* The client closes the socket, or is cut off.
PeerLeaves(c) ==
  /\ c \in peer
  /\ peer' = peer \ {c}
  /\ UNCHANGED <<opened, tasks, channel, manager, backend, requests, ghosts>>

\* The send task writes a message; it ends when it was overtaken, or when the write fails.
Send(c) ==
  /\ c \in sender
  /\ \/ /\ backlog[c] > 0 /\ c \notin lagged
        /\ backlog' = [backlog EXCEPT ![c] = @ - 1]
        /\ UNCHANGED sender
     \/ /\ c \in lagged \/ (backlog[c] > 0 /\ c \notin peer)
        /\ sender' = sender \ {c}
        /\ UNCHANGED backlog
  /\ UNCHANGED <<opened, peer, receiver, listener, position, lagged, manager, backend, requests, ghosts>>

\* The receive loop ends at anything that is not text: a close, an error, a ping.
Leave(c) ==
  /\ c <= opened /\ receiver[c].pc = "idle"
  /\ receiver' = [receiver EXCEPT ![c].pc = "leaving"]
  /\ UNCHANGED <<opened, peer, sender, listener, position, channel, manager, backend, requests, ghosts>>

\* Seeded mistake: a client that leaves stays in its channels.
RemoveClientKeepChannels(c) ==
  /\ client_senders' = client_senders \ {c}
  /\ authenticated_users' = [authenticated_users EXCEPT ![c] = None]
  /\ user_to_client' = [u \in Users |-> IF u = authenticated_users[c] THEN None ELSE user_to_client[u]]
  /\ bot_client_id' = IF bot_client_id = c THEN None ELSE bot_client_id
  /\ last_bot_status' = (last_bot_status /\ bot_client_id # c)
  /\ UNCHANGED subscribers

RemoveClient(c) ==
  /\ subscribers' = subscribers \ {c}
  /\ client_senders' = client_senders \ {c}
  /\ authenticated_users' = [authenticated_users EXCEPT ![c] = None]
  /\ user_to_client' = [u \in Users |-> IF u = authenticated_users[c] THEN None ELSE user_to_client[u]]
  /\ bot_client_id' = IF bot_client_id = c THEN None ELSE bot_client_id
  /\ last_bot_status' = (last_bot_status /\ bot_client_id # c)

\* The receive task ends with its clean-up, and the send task is aborted.
CleanUp(c) ==
  /\ receiver[c].pc = "leaving"
  /\ RemoveClient(c)
  /\ receiver' = [receiver EXCEPT ![c] = [Idle EXCEPT !.pc = "done"]]
  /\ sender' = sender \ {c}
  /\ peer' = peer \ {c}
  /\ UNCHANGED <<opened, listener, position, channel, order_owners, backend, requests, ghosts>>

\* Where the receive task waits, and can be aborted.
Waiting(c) == receiver[c].pc \in {"idle", "auth", "create", "created", "cancel", "cancelled", "leaving"}

\* The send task has ended first: the receive task is aborted where it waits.
Abort(c) ==
  /\ c <= opened /\ c \notin sender /\ Waiting(c)
  /\ receiver' = [receiver EXCEPT ![c].pc = "aborted"]
  /\ peer' = peer \ {c}
  /\ UNCHANGED <<opened, sender, listener, position, channel, manager, backend, requests, ghosts>>

\* The owner of the order is known, and signed in at the client.
Owned(o, c) == o # None /\ order_owners[o] # None /\ user_to_client[order_owners[o]] = c

\* Seeded mistake: an event goes to every client that is signed in.
ListenSignedIn(c) ==
  /\ c \in listener /\ position[c] < Len(events)
  /\ LET o == events[position[c] + 1]
         mine == o # None /\ authenticated_users[c] # None
     IN  /\ Put(IF mine THEN {c} ELSE {})
         /\ told' = [told EXCEPT ![c] = IF mine THEN @ \cup {o} ELSE @]
         /\ position' = [position EXCEPT ![c] = @ + 1]
  /\ UNCHANGED <<opened, peer, receiver, sender, listener, manager, backend, requests,
                 via, dropped, identities>>

\* The event task: an event goes to the client its order's owner is known at.  A task that is
\* overtaken ends for good; nothing else ends it, not even the end of its connection.
Listen(c) ==
  /\ c \in listener /\ position[c] < Len(events)
  /\ IF Len(events) - position[c] > EventCapacity
       THEN /\ listener' = listener \ {c}
            /\ UNCHANGED <<position, channel, told>>
       ELSE LET o == events[position[c] + 1]
                mine == Owned(o, c)
            IN  /\ Put(IF mine THEN {c} ELSE {})
                /\ told' = [told EXCEPT ![c] = IF mine THEN @ \cup {o} ELSE @]
                /\ position' = [position EXCEPT ![c] = @ + 1]
                /\ UNCHANGED listener
  /\ UNCHANGED <<opened, peer, receiver, sender, manager, backend, requests,
                 via, dropped, identities>>

-----------------------------------------------------------------------------
(* Requests: the receive task takes one at a time. *)

\* The task has read a request.
Takes(c) ==
  /\ c \in peer /\ receiver[c].pc = "idle"
  /\ requests < MaxRequests
  /\ requests' = requests + 1

\* A request that is answered at once, with an error or after the manager was changed.
Answered(c) ==
  /\ Put({c})
  /\ UNCHANGED <<opened, peer, tasks, backend, ghosts>>

\* An unknown method, or parameters that do not parse.
Reject(c) ==
  /\ Takes(c) /\ Answered(c)
  /\ UNCHANGED manager

\* public/subscribe; private/subscribe wants an authenticated client (the snapshot: BookFeed).
Subscribe(c) ==
  /\ Takes(c) /\ Answered(c)
  /\ subscribers' = subscribers \cup {c}
  /\ client_senders' = client_senders \cup {c}
  /\ UNCHANGED <<authenticated_users, user_to_client, order_owners, bot_client_id, last_bot_status>>

PrivateSubscribe(c) ==
  /\ Takes(c) /\ Answered(c)
  /\ IF authenticated_users[c] = None
       THEN UNCHANGED manager
       ELSE /\ subscribers' = subscribers \cup {c}
            /\ client_senders' = client_senders \cup {c}
            /\ UNCHANGED <<authenticated_users, user_to_client, order_owners, bot_client_id,
                           last_bot_status>>

Unsubscribe(c) ==
  /\ Takes(c) /\ Answered(c)
  /\ subscribers' = subscribers \ {c}
  /\ UNCHANGED <<client_senders, authenticated_users, user_to_client, order_owners, bot_client_id,
                 last_bot_status>>

RegisterBot(c) ==
  /\ Takes(c) /\ Answered(c)
  /\ bot_client_id' = c
  /\ client_senders' = client_senders \cup {c}
  /\ UNCHANGED <<subscribers, authenticated_users, user_to_client, order_owners, last_bot_status>>

\* Any client may report, registered as the bot or not.
BotStatus(c) ==
  /\ Takes(c) /\ Answered(c)
  /\ last_bot_status' = TRUE
  /\ UNCHANGED <<subscribers, client_senders, authenticated_users, user_to_client, order_owners,
                 bot_client_id>>

\* start_bot, stop_bot and bot_status: a command for the bot that counts as connected.
BotCommand ==
  /\ requests < MaxRequests /\ requests' = requests + 1
  /\ bot_client_id # None
  /\ Put({bot_client_id} \cap client_senders)
  /\ UNCHANGED <<opened, peer, tasks, manager, backend, ghosts>>

\* A request that first asks accounts.
Asks(c, pc, user, order) ==
  /\ Takes(c)
  /\ receiver' = [receiver EXCEPT ![c] = [pc |-> pc, user |-> user, order |-> order]]
  /\ UNCHANGED <<opened, peer, sender, listener, position, channel, manager, backend, ghosts>>

\* The task has its answer, and replies.
Replies(c) ==
  /\ Put({c})
  /\ receiver' = [receiver EXCEPT ![c] = Idle]
  /\ UNCHANGED <<opened, peer, sender, listener, position, events, over, requests>>

Auth(c, u) == Asks(c, "auth", u, None)

\* Seeded mistake: the user stays signed in where he was.
AuthenticateTwice(c, u) ==
  /\ authenticated_users' = [authenticated_users EXCEPT ![c] = u]
  /\ user_to_client' = [user_to_client EXCEPT ![u] = c]

\* authenticate_client: the client that had the user before loses whom it has now.
Authenticate(c, u) ==
  /\ authenticated_users' = [d \in Clients |->
                               IF d = c THEN u
                               ELSE IF d = user_to_client[u] THEN None ELSE authenticated_users[d]]
  /\ user_to_client' = [user_to_client EXCEPT ![u] = c]

\* validate_token.
AuthAnswer(c) ==
  /\ receiver[c].pc = "auth" /\ Replies(c)
  /\ LET u == receiver[c].user
     IN  \/ /\ Authenticate(c, u)
            /\ identities' = [identities EXCEPT ![c] = @ \cup {u}]
         \/ UNCHANGED <<authenticated_users, user_to_client, identities>>
  /\ UNCHANGED <<subscribers, client_senders, order_owners, bot_client_id, last_bot_status,
                 placed, refunded, sent, withdrawn, via, dropped, told>>

\* private/place_order, as the user the client is authenticated as now.
PlaceOrder(c) ==
  IF authenticated_users[c] = None THEN Reject(c)
  ELSE Asks(c, "create", authenticated_users[c], None)

\* Accounts creates the order and locks the funds.
AccountsCreate(c) ==
  /\ receiver[c].pc = "create"
  /\ \E o \in Orders :
       /\ placed[o] = None /\ \A p \in 1 .. o - 1 : placed[p] # None
       /\ placed' = [placed EXCEPT ![o] = receiver[c].user]
       /\ via' = [via EXCEPT ![o] = c]
       /\ receiver' = [receiver EXCEPT ![c].pc = "created", ![c].order = o]
  /\ UNCHANGED <<opened, peer, sender, listener, position, channel, manager, events, refunded,
                 sent, withdrawn, over, requests, dropped, identities, told>>

\* Accounts refuses, or its answer does not arrive or cannot be read: an error either way.
CreateFails(c) ==
  /\ receiver[c].pc \in {"create", "created"} /\ Replies(c)
  /\ dropped' = dropped \cup ({receiver[c].order} \ {None})
  /\ UNCHANGED <<manager, placed, refunded, sent, withdrawn, via, identities, told>>

\* Seeded mistake: an order whose user has signed in elsewhere meanwhile is passed over.
SubmitIfSignedIn(c) ==
  /\ receiver[c].pc = "created" /\ Replies(c)
  /\ LET o == receiver[c].order
     IN  /\ order_owners' = [order_owners EXCEPT ![o] = receiver[c].user]
         /\ sent' = IF authenticated_users[c] = receiver[c].user THEN sent \cup {o} ELSE sent
  /\ UNCHANGED <<subscribers, client_senders, authenticated_users, user_to_client, bot_client_id,
                 last_bot_status, placed, refunded, withdrawn, via, dropped, identities, told>>

\* register_order, then the command for the engine, without a pause in between.  The engine's
\* queue may be full: the user is told so, but his order stays in accounts.
Submit(c) ==
  /\ receiver[c].pc = "created" /\ Replies(c)
  /\ LET o == receiver[c].order
     IN  /\ order_owners' = [order_owners EXCEPT ![o] = receiver[c].user]
         /\ \/ /\ sent' = sent \cup {o}
               /\ UNCHANGED dropped
            \/ /\ dropped' = dropped \cup {o}
               /\ UNCHANGED sent
  /\ UNCHANGED <<subscribers, client_senders, authenticated_users, user_to_client, bot_client_id,
                 last_bot_status, placed, refunded, withdrawn, via, identities, told>>

\* private/cancel_order: any order id that parses.
CancelOrder(c) ==
  IF authenticated_users[c] = None THEN Reject(c)
  ELSE \E o \in Orders : placed[o] # None /\ Asks(c, "cancel", authenticated_users[c], o)

\* Accounts cancels an open order of the user.
AccountsCancel(c) ==
  /\ receiver[c].pc = "cancel"
  /\ LET o == receiver[c].order
     IN  /\ placed[o] = receiver[c].user /\ o \notin refunded \cup over
         /\ refunded' = refunded \cup {o}
  /\ receiver' = [receiver EXCEPT ![c].pc = "cancelled"]
  /\ UNCHANGED <<opened, peer, sender, listener, position, channel, manager, events, placed,
                 sent, withdrawn, over, requests, ghosts>>

CancelFails(c) ==
  /\ receiver[c].pc \in {"cancel", "cancelled"} /\ Replies(c)
  /\ dropped' = IF receiver[c].pc = "cancelled" THEN dropped \cup {receiver[c].order} ELSE dropped
  /\ UNCHANGED <<manager, placed, refunded, sent, withdrawn, via, identities, told>>

\* The cancellation goes to the engine; that it could not is logged only.
Withdraw(c) ==
  /\ receiver[c].pc = "cancelled" /\ Replies(c)
  /\ LET o == receiver[c].order
     IN  \/ /\ withdrawn' = withdrawn \cup {o}
            /\ UNCHANGED dropped
         \/ /\ dropped' = dropped \cup {o}
            /\ UNCHANGED withdrawn
  /\ UNCHANGED <<manager, placed, refunded, sent, via, identities, told>>

-----------------------------------------------------------------------------
(* What reaches the gateway. *)

\* The engine fills an order or takes it out of its book, and the event arrives or is lost.
EngineEnds(o) ==
  /\ o \in sent \ over
  /\ over' = over \cup {o}
  /\ \/ events' = Append(events, o)
     \/ UNCHANGED events
  /\ UNCHANGED <<opened, peer, tasks, channel, manager, placed, refunded, sent, withdrawn, requests, ghosts>>

\* An event of the book reaches the gateway, and the broadcaster tells the channel's subscribers.
Notify ==
  /\ requests < MaxRequests /\ requests' = requests + 1
  /\ events' = Append(events, None)
  /\ Put(subscribers \cap client_senders)
  /\ UNCHANGED <<opened, peer, tasks, manager, placed, refunded, sent, withdrawn, over, ghosts>>

-----------------------------------------------------------------------------
Request(c) ==
  \/ Reject(c) \/ Subscribe(c) \/ PrivateSubscribe(c) \/ Unsubscribe(c)
  \/ RegisterBot(c) \/ BotStatus(c)
  \/ \E u \in Users : Auth(c, u)
  \/ PlaceOrder(c) \/ CancelOrder(c)

\* The steps of a request that has begun.
Proceed(c) ==
  \/ AuthAnswer(c)
  \/ AccountsCreate(c) \/ CreateFails(c) \/ Submit(c)
  \/ AccountsCancel(c) \/ CancelFails(c) \/ Withdraw(c)

Next ==
  \/ Connect \/ BotCommand \/ Notify
  \/ \E c \in Clients :
       \/ PeerLeaves(c) \/ Send(c) \/ Leave(c) \/ CleanUp(c) \/ Abort(c) \/ Listen(c)
       \/ Request(c) \/ Proceed(c)
  \/ \E o \in Orders : EngineEnds(o)

Spec == Init /\ [][Next]_vars

\* The receive task goes on, or is aborted, unless it waits for its client.
ReceiveTask(c) == Proceed(c) \/ CleanUp(c) \/ Abort(c) \/ (c \notin peer /\ Leave(c))

\* The tasks run on, accounts answers, and a receive task notices that its client has gone.
FairSpec ==
  /\ Spec
  /\ \A c \in Clients : WF_vars(ReceiveTask(c)) /\ WF_vars(Send(c)) /\ WF_vars(Listen(c))

-----------------------------------------------------------------------------
(* Properties. *)

TypeOK ==
  /\ opened \in 0 .. MaxClients
  /\ peer \subseteq Clients /\ sender \subseteq Clients /\ listener \subseteq Clients
  /\ receiver \in [Clients -> [pc : {"idle", "auth", "create", "created", "cancel", "cancelled",
                                     "leaving", "aborted", "done"},
                               user : Users \cup {None}, order : Orders \cup {None}]]
  /\ backlog \in [Clients -> 0 .. QueueSize] /\ lagged \subseteq Clients
  /\ events \in Seq(Orders \cup {None})
  /\ position \in [Clients -> 0 .. MaxOrders + MaxRequests]
  /\ subscribers \subseteq client_senders /\ client_senders \subseteq 1 .. opened
  /\ authenticated_users \in [Clients -> Users \cup {None}]
  /\ user_to_client \in [Users -> Clients \cup {None}]
  /\ {order_owners, placed} \subseteq [Orders -> Users \cup {None}]
  /\ bot_client_id \in Clients \cup {None} /\ last_bot_status \in BOOLEAN
  /\ {refunded, sent, withdrawn, over, dropped} \subseteq SUBSET Orders
  /\ requests \in 0 .. MaxRequests
  /\ via \in [Orders -> Clients \cup {None}]
  /\ identities \in [Clients -> SUBSET Users]
  /\ told \in [Clients -> SUBSET Orders]

\* A user has one connection at a time: whom a client is signed in as is found at that client,
\* whatever the order in which connections sign in, change the user and end.  The other way
\* round, a user is found at a client that he signed in at, and that is his still, unless it
\* changed the user: authenticate_client leaves the entry of the user before where it was.
OneConnectionPerUser ==
  /\ \A c \in Clients :
       authenticated_users[c] # None => user_to_client[authenticated_users[c]] = c
  /\ \A c \in Clients, u \in Users : user_to_client[u] = c =>
       u \in identities[c] /\ (identities[c] = {u} => authenticated_users[c] = u)

\* The end of an order is told only to a connection that its owner signed in on.
OnlyToOwner ==
  \A c \in Clients : \A o \in told[c] : placed[o] \in identities[c]

\* After a connection was left in order, it is in no channel and has no sender and no sign-in,
\* and start_bot does not take it for the bot.  Nor does a user lead to it who was the only one
\* to sign in there: remove_client takes the entry of the last user away, not of those before.
LeavesNothing ==
  \A c \in Clients :
    receiver[c].pc = "done" =>
      /\ c \notin subscribers \cup client_senders \cup {bot_client_id}
      /\ authenticated_users[c] = None
      /\ \A u \in Users : user_to_client[u] = c => u \in identities[c] /\ identities[c] # {u}

\* An order for which accounts locked funds goes to the engine or is given up with an answer to
\* its client; only a receive task that was aborted in between leaves it alone.  And by the
\* time the end of an order reaches the gateway, the gateway knows whose it is.
NothingForgotten ==
  /\ \A o \in Orders : placed[o] # None =>
       \/ o \in sent \cup dropped
       \/ receiver[via[o]].order = o /\ receiver[via[o]].pc \in {"created", "aborted"}
  /\ \A i \in DOMAIN events : events[i] # None => order_owners[events[i]] = placed[events[i]]

OwnerAt(c, o) == placed[o] # None /\ user_to_client[placed[o]] = c

\* The end of o is in the event channel, and c has not read it.
Ahead(c, o) == \E i \in position[c] + 1 .. Len(events) : events[i] = o

\* More events than the channel holds have come since c last read one.
Overtaken(c) == Len(events) - position[c] > EventCapacity

\* It is told to the client at which the order's owner is signed in, unless the owner goes
\* elsewhere or the channel overtakes the event task first: no other event ends that task.
EventReachesOwner ==
  \A c \in Clients, o \in Orders :
    (OwnerAt(c, o) /\ Ahead(c, o)) ~> (o \in told[c] \/ Overtaken(c) \/ ~OwnerAt(c, o))

\* "Automatic Cleanup: Unsubscribes all channels when client disconnects" (WEBSOCKET_PROTOCOL.md).
\* A receive task that is aborted before its clean-up leaves the subscriptions behind.
AutomaticCleanup ==
  \A c \in Clients :
    (c <= opened /\ c \notin peer) ~> (c \notin subscribers)
=============================================================================
