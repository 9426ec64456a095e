--------------------------- MODULE GatewaySessionProofs ---------------------------
(***************************************************************************)
(* Proofs about GatewaySession: who is signed in where, who is told of     *)
(* what, and what a connection leaves behind, for any users, connections,  *)
(* orders, requests and capacities.                                        *)
(***************************************************************************)
EXTENDS GatewaySession, FiniteSetTheorems, TLAPS

Task == [pc : {"idle", "auth", "create", "created", "cancel", "cancelled",
               "leaving", "aborted", "done"},
         user : Users \cup {None}, order : Orders \cup {None}]

\* The types of the variables that the invariants read.
Types ==
  /\ opened \in 0 .. MaxClients /\ peer \subseteq 1 .. opened
  /\ receiver \in [Clients -> Task]
  /\ authenticated_users \in [Clients -> Users \cup {None}]
  /\ user_to_client \in [Users -> Clients \cup {None}]
  /\ order_owners \in [Orders -> Users \cup {None}]
  /\ placed \in [Orders -> Users \cup {None}]
  /\ events \in Seq(Orders \cup {None}) /\ position \in [Clients -> Nat]
  /\ sent \subseteq Orders
  /\ via \in [Orders -> Clients \cup {None}]
  /\ identities \in [Clients -> SUBSET Users]
  /\ told \in [Clients -> SUBSET Orders]

\* What a receive task goes by while it waits for accounts.
TaskOK(c) ==
  /\ c > opened => receiver[c].pc = "idle"
  /\ receiver[c].pc \in {"auth", "create"} => receiver[c].user \in Users
  /\ receiver[c].pc = "created" =>
       /\ receiver[c].order \in Orders /\ receiver[c].user \in Users
       /\ placed[receiver[c].order] = receiver[c].user

\* The gateway's owner of an order is its user in accounts, and known of every order that went
\* out; every order came from a client.
Owners ==
  /\ \A o \in Orders : placed[o] # None => via[o] \in Clients
  /\ \A o \in Orders : order_owners[o] # None => order_owners[o] = placed[o]
  /\ \A o \in sent : order_owners[o] # None
  /\ \A i \in DOMAIN events : events[i] # None => order_owners[events[i]] # None

IInv ==
  /\ Types
  /\ \A c \in Clients : TaskOK(c)
  /\ Owners
  /\ OneConnectionPerUser /\ OnlyToOwner /\ LeavesNothing /\ NothingForgotten

LEMMA Constants == MaxClients \in Nat \ {0} /\ MaxOrders \in Nat /\ None \notin Users
                   /\ None \notin Clients /\ None \notin Orders
  BY SessionAssumption, NoneAssumption DEF Clients, Orders, None

LEMMA InitIInv == Init => IInv
  <1> SUFFICES ASSUME Init PROVE IInv
    OBVIOUS
  <1> USE Constants DEF Init
  <1>1. Types
    BY DEF Types, Task, Idle
  <1>2. \A c \in Clients : TaskOK(c)
    BY DEF TaskOK, Idle
  <1>3. Owners
    BY DEF Owners
  <1>4. OneConnectionPerUser /\ OnlyToOwner /\ LeavesNothing
    BY DEF OneConnectionPerUser, OnlyToOwner, LeavesNothing, Idle
  <1>5. NothingForgotten
    BY DEF NothingForgotten
  <1> QED
    BY <1>1, <1>2, <1>3, <1>4, <1>5 DEF IInv

-----------------------------------------------------------------------------
(* Steps of many actions. *)

\* The variables that nothing but orders and sign-ins change.
rest == <<authenticated_users, user_to_client, order_owners, placed, sent, via, identities>>

\* A step that changes channels, and leads to no client whose task has ended.
LEMMA QuietStep ==
  ASSUME IInv, UNCHANGED <<opened, receiver, rest, events, position, told, dropped>>,
         peer' \subseteq peer, LeavesNothing'
  PROVE  IInv'
  <1> USE Constants DEF IInv, rest
  <1>1. Types'
    BY DEF Types
  <1>2. \A d \in Clients : TaskOK(d)'
    BY DEF TaskOK
  <1>3. Owners'
    BY DEF Owners
  <1>4. OneConnectionPerUser' /\ OnlyToOwner' /\ NothingForgotten'
    BY DEF OneConnectionPerUser, OnlyToOwner, NothingForgotten
  <1> QED
    BY <1>1, <1>2, <1>3, <1>4

\* A receive task goes on to r.  One that had an order created keeps it when it is aborted, and
\* has told its client, or cannot any more, when it goes on.
LEMMA TaskStep ==
  ASSUME IInv, UNCHANGED <<opened, subscribers, client_senders, bot_client_id, rest, events,
                           position, told>>,
         peer' \subseteq peer, dropped \subseteq dropped',
         NEW c \in Clients, NEW r \in Task, receiver' = [receiver EXCEPT ![c] = r],
         c <= opened, r.pc \notin {"created", "done"},
         r.pc \in {"auth", "create"} => r.user \in Users,
         receiver[c].pc = "created" =>
           receiver[c].order \in dropped' \/ (r.pc = "aborted" /\ r.order = receiver[c].order),
         receiver[c].pc # "aborted"
  PROVE  IInv'
  <1> USE Constants DEF IInv, rest
  <1>1. opened \in Nat /\ c \in Nat
    BY DEF Types, Clients
  <1>2. Types'
    BY DEF Types
  <1>3. \A d \in Clients : TaskOK(d)'
    <2> SUFFICES ASSUME NEW d \in Clients PROVE TaskOK(d)'
      OBVIOUS
    <2>1. CASE d = c
      BY <1>1, <2>1 DEF TaskOK, Types
    <2>2. CASE d # c
      BY <2>2 DEF TaskOK, Types
    <2> QED
      BY <2>1, <2>2
  <1>4. Owners'
    BY DEF Owners
  <1>5. OneConnectionPerUser' /\ OnlyToOwner'
    BY DEF OneConnectionPerUser, OnlyToOwner
  <1>6. LeavesNothing'
    BY DEF LeavesNothing, Types
  <1>7. NothingForgotten'
    <2>1. ASSUME NEW o \in Orders, placed[o] # None, o \notin sent \cup dropped'
          PROVE  receiver'[via[o]].order = o /\ receiver'[via[o]].pc \in {"created", "aborted"}
      <3>1. /\ receiver[via[o]].order = o /\ receiver[via[o]].pc \in {"created", "aborted"}
            /\ via[o] \in Clients
        BY <2>1 DEF NothingForgotten, Owners
      <3>2. CASE via[o] = c
        BY <2>1, <3>1, <3>2 DEF Types
      <3>3. CASE via[o] # c
        BY <3>1, <3>3 DEF Types
      <3> QED
        BY <3>2, <3>3
    <2> QED
      BY <2>1 DEF NothingForgotten
  <1> QED
    BY <1>2, <1>3, <1>4, <1>5, <1>6, <1>7

\* An event comes: of an order whose owner the gateway knows, or of none.
LEMMA EventStep ==
  ASSUME IInv, UNCHANGED <<opened, peer, receiver, subscribers, client_senders, bot_client_id, rest,
                           position, told, dropped>>,
         NEW o \in Orders \cup {None}, o # None => o \in sent,
         events' = Append(events, o)
  PROVE  IInv'
  <1> USE Constants DEF IInv, rest
  <1>1. Types'
    BY DEF Types
  <1>2. \A d \in Clients : TaskOK(d)'
    BY DEF TaskOK
  <1>3. \A i \in DOMAIN events' : events'[i] # None =>
          order_owners[events'[i]] # None /\ order_owners[events'[i]] = placed[events'[i]]
    <2>1. events \in Seq(Orders \cup {None}) /\ sent \subseteq Orders
      BY DEF Types
    <2>2. SUFFICES ASSUME NEW i \in DOMAIN events', events'[i] # None
                   PROVE  order_owners[events'[i]] # None /\ order_owners[events'[i]] = placed[events'[i]]
      OBVIOUS
    <2>3. CASE i \in DOMAIN events
      <3>1. events'[i] = events[i] /\ events[i] \in Orders
        BY <2>1, <2>2, <2>3
      <3> QED
        BY <2>2, <2>3, <3>1 DEF Owners
    <2>4. CASE i = Len(events) + 1
      BY <2>1, <2>2, <2>4 DEF Owners
    <2> QED
      BY <2>1, <2>3, <2>4
  <1>4. Owners'
    BY <1>3 DEF Owners
  <1>5. OneConnectionPerUser' /\ OnlyToOwner' /\ LeavesNothing'
    BY DEF OneConnectionPerUser, OnlyToOwner, LeavesNothing
  <1>6. NothingForgotten'
    BY <1>3 DEF NothingForgotten
  <1> QED
    BY <1>1, <1>2, <1>4, <1>5, <1>6

-----------------------------------------------------------------------------
(* Each action. *)

LEMMA ConnectStep == IInv /\ Connect => IInv'
  <1> SUFFICES ASSUME IInv, Connect PROVE IInv'
    OBVIOUS
  <1> USE Constants DEF IInv, Connect, backend, ghosts
  <1>1. opened \in Nat /\ opened + 1 \in Clients
    BY DEF Types, Clients
  <1>2. Types'
    BY <1>1 DEF Types, Clients
  <1>3. \A d \in Clients : TaskOK(d)'
    BY <1>1 DEF TaskOK, Clients
  <1>4. Owners'
    BY DEF Owners
  <1>5. OneConnectionPerUser' /\ OnlyToOwner' /\ NothingForgotten'
    BY DEF OneConnectionPerUser, OnlyToOwner, NothingForgotten
  <1>6. receiver[opened + 1].pc = "idle"
    BY <1>1 DEF TaskOK
  <1>7. LeavesNothing'
    BY <1>1, <1>6 DEF LeavesNothing
  <1> QED
    BY <1>2, <1>3, <1>4, <1>5, <1>7

LEMMA QuietActions ==
  ASSUME IInv, NEW c \in Clients,
         BotCommand \/ PeerLeaves(c) \/ Send(c) \/ Reject(c) \/ Subscribe(c)
           \/ PrivateSubscribe(c) \/ Unsubscribe(c) \/ RegisterBot(c) \/ BotStatus(c)
  PROVE  IInv'
  <1> USE DEF rest, manager, backend, ghosts, tasks
  <1>1. CASE BotCommand \/ PeerLeaves(c) \/ Send(c)
    <2>1. UNCHANGED <<opened, receiver, rest, events, position, told, dropped, subscribers,
                      client_senders, bot_client_id>> /\ peer' \subseteq peer
      BY <1>1 DEF BotCommand, PeerLeaves, Send
    <2>2. LeavesNothing'
      BY <2>1 DEF LeavesNothing, IInv
    <2> QED
      BY <2>1, <2>2, QuietStep
  <1>2. CASE Reject(c) \/ Subscribe(c) \/ PrivateSubscribe(c) \/ Unsubscribe(c)
               \/ RegisterBot(c) \/ BotStatus(c)
    <2>1. receiver[c].pc # "done"
      BY <1>2 DEF Reject, Subscribe, PrivateSubscribe, Unsubscribe, RegisterBot, BotStatus, Takes
    <2>2. UNCHANGED <<opened, receiver, rest, events, position, told, dropped, peer>>
      BY <1>2 DEF Reject, Subscribe, PrivateSubscribe, Unsubscribe, RegisterBot, BotStatus, Answered
    <2>3. /\ subscribers' \subseteq subscribers \cup {c}
          /\ client_senders' \subseteq client_senders \cup {c}
          /\ bot_client_id' \in {bot_client_id} \cup {c}
      BY <1>2 DEF Reject, Subscribe, PrivateSubscribe, Unsubscribe, RegisterBot, BotStatus
    <2>4. LeavesNothing'
      BY <2>1, <2>2, <2>3 DEF LeavesNothing, IInv
    <2> QED
      BY <2>2, <2>4, QuietStep
  <1> QED
    BY <1>1, <1>2

LEMMA EventActions == IInv /\ (Notify \/ \E o \in Orders : EngineEnds(o)) => IInv'
  <1> SUFFICES ASSUME IInv, Notify \/ \E o \in Orders : EngineEnds(o) PROVE IInv'
    OBVIOUS
  <1> USE DEF rest, manager, ghosts, tasks
  <1>1. CASE Notify
    BY <1>1, EventStep DEF Notify
  <1>2. ASSUME NEW o \in Orders, EngineEnds(o) PROVE IInv'
    <2>1. CASE events' = Append(events, o)
      BY <1>2, <2>1, EventStep DEF EngineEnds
    <2>2. CASE UNCHANGED events
      <3>1. LeavesNothing'
        BY <1>2 DEF EngineEnds, LeavesNothing, IInv
      <3> QED
        BY <1>2, <2>2, <3>1, QuietStep DEF EngineEnds
    <2> QED
      BY <1>2, <2>1, <2>2 DEF EngineEnds
  <1> QED
    BY <1>1, <1>2

\* The steps of receive tasks that change nobody's sign-in and no owner.
LEMMA TaskActions ==
  ASSUME IInv, NEW c \in Clients,
         \/ Leave(c) \/ Abort(c) \/ (\E u \in Users : Auth(c, u)) \/ PlaceOrder(c) \/ CancelOrder(c)
         \/ CreateFails(c) \/ AccountsCancel(c) \/ CancelFails(c) \/ Withdraw(c)
  PROVE  IInv'
  <1> USE Constants DEF rest, manager, backend, ghosts, tasks
  <1>1. /\ receiver \in [Clients -> Task] /\ receiver[c] \in Task
        /\ c \in Nat /\ opened \in Nat /\ peer \subseteq 1 .. opened
        /\ c > opened => receiver[c].pc = "idle"
        /\ receiver[c].pc = "created" => receiver[c].order \in Orders
    BY DEF IInv, Types, TaskOK, Clients
  <1>2. CASE Leave(c)
    <2> DEFINE r == [receiver[c] EXCEPT !.pc = "leaving"]
    <2>1. r \in Task /\ receiver' = [receiver EXCEPT ![c] = r] /\ r.pc = "leaving"
      BY <1>1, <1>2 DEF Leave, Task
    <2> HIDE DEF r
    <2> QED
      BY <1>1, <1>2, <2>1, TaskStep DEF Leave
  <1>3. CASE Abort(c)
    <2> DEFINE r == [receiver[c] EXCEPT !.pc = "aborted"]
    <2>1. /\ r \in Task /\ receiver' = [receiver EXCEPT ![c] = r] /\ r.pc = "aborted"
          /\ r.order = receiver[c].order
      BY <1>1, <1>3 DEF Abort, Task
    <2> HIDE DEF r
    <2> QED
      BY <1>1, <1>3, <2>1, TaskStep DEF Abort, Waiting
  <1>4. ASSUME NEW pc \in {"auth", "create", "cancel"}, NEW u \in Users, NEW o \in Orders \cup {None},
               Asks(c, pc, u, o)
        PROVE  IInv'
    <2> DEFINE r == [pc |-> pc, user |-> u, order |-> o]
    <2>1. r \in Task /\ receiver' = [receiver EXCEPT ![c] = r] /\ r.pc = pc /\ r.user = u
      BY <1>4 DEF Asks, Task
    <2> HIDE DEF r
    <2>2. c <= opened /\ receiver[c].pc = "idle"
      BY <1>1, <1>4 DEF Asks, Takes
    <2> QED
      BY <1>1, <1>4, <2>1, <2>2, TaskStep DEF Asks
  <1>5. CASE \E u \in Users : Auth(c, u)
    BY <1>4, <1>5 DEF Auth
  <1>6. CASE PlaceOrder(c)
    <2>1. CASE authenticated_users[c] = None
      BY <1>6, <2>1, QuietActions DEF PlaceOrder
    <2>2. CASE authenticated_users[c] # None
      <3>1. authenticated_users[c] \in Users
        BY <2>2 DEF IInv, Types
      <3> QED
        BY <1>4, <1>6, <2>2, <3>1 DEF PlaceOrder
    <2> QED
      BY <2>1, <2>2
  <1>7. CASE CancelOrder(c)
    <2>1. CASE authenticated_users[c] = None
      BY <1>7, <2>1, QuietActions DEF CancelOrder
    <2>2. CASE authenticated_users[c] # None
      <3>1. authenticated_users[c] \in Users
        BY <2>2 DEF IInv, Types
      <3> QED
        BY <1>4, <1>7, <2>2, <3>1 DEF CancelOrder
    <2> QED
      BY <2>1, <2>2
  <1>8. CASE CreateFails(c) \/ CancelFails(c) \/ Withdraw(c)
    <2>1. receiver' = [receiver EXCEPT ![c] = Idle] /\ Idle \in Task /\ Idle.pc = "idle"
      BY <1>8 DEF CreateFails, CancelFails, Withdraw, Replies, Idle, Task
    <2>2. UNCHANGED <<opened, peer, subscribers, client_senders, bot_client_id, rest, events,
                      position, told>>
      BY <1>8 DEF CreateFails, CancelFails, Withdraw, Replies
    <2>3. dropped \subseteq dropped' /\ (receiver[c].pc = "created" => receiver[c].order \in dropped')
      BY <1>1, <1>8 DEF CreateFails, CancelFails, Withdraw
    <2>4. c <= opened /\ receiver[c].pc # "aborted"
      BY <1>1, <1>8 DEF CreateFails, CancelFails, Withdraw
    <2> QED
      BY <2>1, <2>2, <2>3, <2>4, TaskStep
  <1>9. CASE AccountsCancel(c)
    <2> DEFINE r == [receiver[c] EXCEPT !.pc = "cancelled"]
    <2>1. r \in Task /\ receiver' = [receiver EXCEPT ![c] = r] /\ r.pc = "cancelled"
      BY <1>1, <1>9 DEF AccountsCancel, Task
    <2> HIDE DEF r
    <2>2. UNCHANGED <<opened, peer, subscribers, client_senders, bot_client_id, rest, events,
                      position, told, dropped>>
      BY <1>9 DEF AccountsCancel
    <2>3. receiver[c].pc = "cancel" /\ c <= opened
      BY <1>1, <1>9 DEF AccountsCancel
    <2> QED
      BY <2>1, <2>2, <2>3, TaskStep
  <1> QED
    BY <1>2, <1>3, <1>5, <1>6, <1>7, <1>8, <1>9

\* An event task hands on an event only when its client is where the order's owner is signed in.
LEMMA ListenStep == ASSUME IInv, NEW c \in Clients, Listen(c) PROVE IInv'
  <1> USE Constants DEF IInv, manager, backend
  <1>1. ASSUME NEW o \in Orders, Owned(o, c) PROVE placed[o] \in identities[c]
    <2>1. order_owners[o] \in Users /\ order_owners[o] = placed[o]
      BY <1>1 DEF Owned, Owners, Types
    <2> QED
      BY <1>1, <2>1 DEF Owned, OneConnectionPerUser
  <1>2. position[c] + 1 \in DOMAIN events /\ events[position[c] + 1] \in Orders \cup {None}
    BY DEF Listen, Types
  <1>3. /\ told' \in [Clients -> SUBSET Orders] /\ position' \in [Clients -> Nat]
        /\ \A d \in Clients : \A o \in told'[d] : placed[o] \in identities[d]
    <2>1. CASE UNCHANGED <<told, position>>
      BY <2>1 DEF Types, OnlyToOwner
    <2>2. CASE ~ UNCHANGED <<told, position>>
      <3> DEFINE o == events[position[c] + 1]
      <3>1. /\ told' = [told EXCEPT ![c] = IF Owned(o, c) THEN @ \cup {o} ELSE @]
            /\ position' = [position EXCEPT ![c] = @ + 1]
        BY <2>2 DEF Listen
      <3>2. Owned(o, c) => o \in Orders /\ placed[o] \in identities[c]
        BY <1>1, <1>2 DEF Owned
      <3> HIDE DEF o
      <3>3. position' \in [Clients -> Nat]
        BY <3>1 DEF Types
      <3>4. told' \in [Clients -> SUBSET Orders]
        BY <3>1, <3>2 DEF Types
      <3>5. told'[c] \subseteq told[c] \cup {p \in {o} : Owned(p, c)}
            /\ \A d \in Clients : d # c => told'[d] = told[d]
        BY <3>1 DEF Types
      <3> QED
        BY <3>2, <3>3, <3>4, <3>5 DEF OnlyToOwner
    <2> QED
      BY <2>1, <2>2
  <1>4. /\ UNCHANGED <<opened, peer, receiver, subscribers, client_senders, authenticated_users,
                       user_to_client, order_owners, bot_client_id, placed, events, sent, via,
                       dropped, identities>>
    BY DEF Listen
  <1>5. Types'
    BY <1>3, <1>4 DEF Types
  <1>6. \A d \in Clients : TaskOK(d)'
    BY <1>4 DEF TaskOK
  <1>7. Owners'
    BY <1>4 DEF Owners
  <1>8. OneConnectionPerUser' /\ LeavesNothing' /\ NothingForgotten'
    BY <1>4 DEF OneConnectionPerUser, LeavesNothing, NothingForgotten
  <1>9. OnlyToOwner'
    BY <1>3, <1>4 DEF OnlyToOwner
  <1> QED
    BY <1>5, <1>6, <1>7, <1>8, <1>9

\* The clean-up takes the sign-in of the client back, and nobody else's: a user is found only at
\* the one client that has him.
LEMMA CleanUpStep == ASSUME IInv, NEW c \in Clients, CleanUp(c) PROVE IInv'
  <1> USE Constants DEF IInv, backend, ghosts, CleanUp, RemoveClient
  <1> DEFINE r == [Idle EXCEPT !.pc = "done"]
  <1>1. /\ receiver' = [receiver EXCEPT ![c] = r] /\ r \in Task /\ r.pc = "done"
        /\ receiver[c].pc = "leaving" /\ c \in Nat /\ opened \in Nat /\ c <= opened
    <2>1. r \in Task /\ r.pc = "done"
      BY DEF Idle, Task
    <2>2. receiver[c].pc = "leaving" /\ (c > opened => receiver[c].pc = "idle")
      BY DEF TaskOK
    <2>3. c \in Nat /\ opened \in Nat
      BY DEF Types, Clients
    <2> QED
      BY <2>1, <2>2, <2>3
  <1> HIDE DEF r
  <1>2. Types'
    <2>1. receiver' \in [Clients -> Task]
      BY <1>1 DEF Types
    <2>2. user_to_client' \in [Users -> Clients \cup {None}]
      BY DEF Types
    <2>3. authenticated_users' \in [Clients -> Users \cup {None}]
      BY DEF Types
    <2> QED
      BY <2>1, <2>2, <2>3 DEF Types
  <1>3. \A d \in Clients : TaskOK(d)'
    <2> SUFFICES ASSUME NEW d \in Clients PROVE TaskOK(d)'
      OBVIOUS
    <2>1. CASE d = c
      BY <1>1, <2>1 DEF TaskOK, Types
    <2>2. CASE d # c
      BY <1>1, <2>2 DEF TaskOK, Types
    <2> QED
      BY <2>1, <2>2
  <1>4. Owners'
    BY DEF Owners
  <1>5. OneConnectionPerUser'
    BY DEF OneConnectionPerUser, Types
  <1>6. OnlyToOwner'
    BY DEF OnlyToOwner
  <1>7. LeavesNothing'
    <2>1. \A d \in Clients : receiver'[d].pc = "done" =>
            d \notin subscribers' \cup client_senders' \cup {bot_client_id'} /\ authenticated_users'[d] = None
      BY <1>1 DEF LeavesNothing, Types
    <2>2. ASSUME NEW d \in Clients, receiver'[d].pc = "done", NEW u \in Users, user_to_client'[u] = d
          PROVE  u \in identities[d] /\ identities[d] # {u}
      <3>1. user_to_client[u] = d /\ u # authenticated_users[c]
        BY <2>2 DEF Types
      <3>2. CASE d = c
        BY <3>1, <3>2 DEF OneConnectionPerUser
      <3>3. CASE d # c
        <4>1. receiver[d].pc = "done"
          BY <1>1, <2>2, <3>3 DEF Types
        <4> QED
          BY <3>1, <4>1 DEF LeavesNothing
      <3> QED
        BY <3>2, <3>3
    <2> QED
      BY <2>1, <2>2 DEF LeavesNothing
  <1>8. NothingForgotten'
    <2>1. \A d \in Clients : d # c => receiver'[d] = receiver[d]
      BY <1>1 DEF Types
    <2> QED
      BY <1>1, <2>1 DEF NothingForgotten, Owners
  <1> QED
    BY <1>2, <1>3, <1>4, <1>5, <1>6, <1>7, <1>8

\* A user who signs in is taken from the client that had him.
LEMMA AuthAnswerStep == ASSUME IInv, NEW c \in Clients, AuthAnswer(c) PROVE IInv'
  <1> USE Constants DEF IInv
  <1> DEFINE u == receiver[c].user
  <1>1. /\ receiver' = [receiver EXCEPT ![c] = Idle] /\ Idle \in Task /\ Idle.pc = "idle"
        /\ receiver[c].pc = "auth" /\ u \in Users
    BY DEF AuthAnswer, Replies, Idle, Task, TaskOK
  <1>2. CASE UNCHANGED <<authenticated_users, user_to_client, identities>>
    <2>1. UNCHANGED <<opened, peer, subscribers, client_senders, bot_client_id, rest, events,
                      position, told, dropped>>
      BY <1>2 DEF AuthAnswer, Replies, rest
    <2>2. c <= opened
      BY <1>1 DEF TaskOK, Types, Clients
    <2> QED
      BY <1>1, <2>1, <2>2, TaskStep
  <1>3. CASE Authenticate(c, u) /\ identities' = [identities EXCEPT ![c] = @ \cup {u}]
    <2>1. UNCHANGED <<opened, peer, subscribers, client_senders, bot_client_id, order_owners,
                      placed, sent, via, events, position, told, dropped>>
      BY DEF AuthAnswer, Replies
    <2> USE <1>1, <1>3, <2>1 DEF Authenticate
    <2> HIDE DEF u
    <2>2. Types'
      BY DEF Types
    <2>3. \A d \in Clients : d # c => receiver'[d] = receiver[d]
      BY DEF Types
    <2>4. receiver'[c] = Idle
      BY DEF Types
    <2>5. \A d \in Clients : TaskOK(d)'
      BY <2>3, <2>4 DEF TaskOK
    <2>6. identities'[c] = identities[c] \cup {u}
          /\ \A d \in Clients : identities[d] \subseteq identities'[d]
      BY DEF Types
    <2>7. Owners'
      BY DEF Owners
    <2>8. \A d \in Clients : authenticated_users'[d] # None => user_to_client'[authenticated_users'[d]] = d
      BY DEF OneConnectionPerUser, Types
    <2>9. OneConnectionPerUser'
      <3>1. ASSUME NEW d \in Clients, NEW v \in Users, user_to_client'[v] = d
            PROVE  v \in identities'[d] /\ (identities'[d] = {v} => authenticated_users'[d] = v)
        <4>1. CASE v = u
          <5>1. d = c /\ authenticated_users'[c] = u
            BY <3>1, <4>1 DEF Types
          <5> QED
            BY <2>6, <4>1, <5>1
        <4>2. CASE v # u
          <5>1. user_to_client[v] = d /\ v \in identities[d]
            BY <3>1, <4>2 DEF OneConnectionPerUser, Types
          <5>2. CASE d = c
            BY <2>6, <4>2, <5>1, <5>2
          <5>3. CASE d # c /\ d = user_to_client[u]
            BY <2>6, <4>2, <5>1, <5>3 DEF OneConnectionPerUser
          <5>4. CASE d # c /\ d # user_to_client[u]
            <6>1. authenticated_users'[d] = authenticated_users[d] /\ identities'[d] = identities[d]
              BY <5>4 DEF Types
            <6> QED
              BY <5>1, <6>1 DEF OneConnectionPerUser
          <5> QED
            BY <5>2, <5>3, <5>4
        <4> QED
          BY <4>1, <4>2
      <3> QED
        BY <2>8, <3>1 DEF OneConnectionPerUser
    <2>10. OnlyToOwner'
      BY <2>6 DEF OnlyToOwner
    <2>11. LeavesNothing'
      BY <2>3, <2>4 DEF LeavesNothing
    <2>12. NothingForgotten'
      BY <2>3 DEF NothingForgotten, Owners
    <2> QED
      BY <2>2, <2>5, <2>7, <2>9, <2>10, <2>11, <2>12
  <1> QED
    BY <1>2, <1>3 DEF AuthAnswer

\* Nobody has heard of the order that accounts creates.
LEMMA AccountsCreateStep == ASSUME IInv, NEW c \in Clients, AccountsCreate(c) PROVE IInv'
  <1> USE Constants DEF IInv, manager
  <1>1. PICK o \in Orders : /\ placed[o] = None
                            /\ placed' = [placed EXCEPT ![o] = receiver[c].user]
                            /\ via' = [via EXCEPT ![o] = c]
                            /\ receiver' = [receiver EXCEPT ![c].pc = "created", ![c].order = o]
    BY DEF AccountsCreate
  <1> DEFINE r == [[receiver[c] EXCEPT !.pc = "created"] EXCEPT !.order = o]
  <1>a. placed[o] = None /\ placed' = [placed EXCEPT ![o] = receiver[c].user]
        /\ via' = [via EXCEPT ![o] = c]
    BY <1>1
  <1>2. /\ receiver[c] \in Task /\ receiver[c].pc = "create" /\ receiver[c].user \in Users
        /\ c \in Nat /\ opened \in Nat /\ ~(c > opened)
    BY DEF AccountsCreate, TaskOK, Types, Clients
  <1>3. /\ r \in Task /\ r.pc = "created" /\ r.order = o /\ r.user = receiver[c].user
        /\ receiver' = [receiver EXCEPT ![c] = r]
    BY <1>1, <1>2 DEF Types, Task
  <1> HIDE DEF r
  <1>4. UNCHANGED <<opened, peer, subscribers, client_senders, bot_client_id, authenticated_users,
                    user_to_client, order_owners, events, position, sent, dropped, identities, told>>
    BY DEF AccountsCreate
  <1>5. /\ placed'[o] = receiver[c].user /\ via'[o] = c /\ receiver'[c] = r
        /\ \A p \in Orders : p # o => placed'[p] = placed[p] /\ via'[p] = via[p]
        /\ \A d \in Clients : d # c => receiver'[d] = receiver[d]
    BY <1>a, <1>3 DEF Types
  <1>6. Types'
    BY <1>a, <1>2, <1>3, <1>4 DEF Types
  <1>7. \A d \in Clients : TaskOK(d)'
    <2> SUFFICES ASSUME NEW d \in Clients PROVE TaskOK(d)'
      OBVIOUS
    <2>1. CASE d = c
      BY <1>2, <1>3, <1>4, <1>5, <2>1 DEF TaskOK
    <2>2. CASE d # c
      BY <1>a, <1>4, <1>5, <2>2 DEF TaskOK
    <2> QED
      BY <2>1, <2>2
  <1>8. order_owners[o] = None
    BY <1>a DEF Owners
  <1>9. Owners'
    <2>1. sent \subseteq Orders /\ \A i \in DOMAIN events : events[i] \in Orders \cup {None}
      BY DEF Types
    <2> QED
      BY <1>4, <1>5, <1>8, <2>1 DEF Owners
  <1>10. OneConnectionPerUser'
    BY <1>4 DEF OneConnectionPerUser
  <1>11. OnlyToOwner'
    <2>1. \A d \in Clients : told[d] \subseteq Orders /\ o \notin told[d]
      BY <1>a DEF OnlyToOwner, Types
    <2> QED
      BY <1>4, <1>5, <2>1 DEF OnlyToOwner
  <1>12. LeavesNothing'
    BY <1>3, <1>4, <1>5 DEF LeavesNothing
  <1>13. NothingForgotten'
    <2>1. ASSUME NEW p \in Orders, placed'[p] # None, p \notin sent \cup dropped
          PROVE  receiver'[via'[p]].order = p /\ receiver'[via'[p]].pc \in {"created", "aborted"}
      <3>1. CASE p = o
        BY <1>3, <1>5, <3>1
      <3>2. CASE p # o
        <4>1. receiver[via[p]].order = p /\ receiver[via[p]].pc \in {"created", "aborted"}
              /\ via[p] \in Clients
          BY <1>5, <2>1, <3>2 DEF NothingForgotten, Owners
        <4>2. receiver[c].pc = "create"
          BY <1>2
        <4>3. via[p] # c
          BY <4>1, <4>2
        <4>4. via'[p] = via[p] /\ receiver'[via[p]] = receiver[via[p]]
          BY <1>5, <3>2, <4>1, <4>3
        <4> QED
          BY <4>1, <4>4
      <3> QED
        BY <3>1, <3>2
    <2>2. \A i \in DOMAIN events : events[i] # None => events[i] # o /\ events[i] \in Orders
      BY <1>8 DEF Owners, Types
    <2> QED
      BY <1>4, <1>5, <2>1, <2>2 DEF NothingForgotten
  <1> QED
    BY <1>6, <1>7, <1>9, <1>10, <1>11, <1>12, <1>13

\* The owner is written down before the order goes out.
LEMMA SubmitStep == ASSUME IInv, NEW c \in Clients, Submit(c) PROVE IInv'
  <1> USE Constants DEF IInv
  <1> DEFINE o == receiver[c].order
             u == receiver[c].user
  <1>1. /\ receiver[c].pc = "created" /\ o \in Orders /\ u \in Users /\ placed[o] = u
        /\ receiver' = [receiver EXCEPT ![c] = Idle] /\ Idle \in Task /\ Idle.pc = "idle"
        /\ order_owners' = [order_owners EXCEPT ![o] = u]
    BY DEF Submit, Replies, TaskOK, Idle, Task
  <1>2. UNCHANGED <<opened, peer, subscribers, client_senders, bot_client_id, authenticated_users,
                    user_to_client, placed, via, events, position, identities, told>>
    BY DEF Submit, Replies
  <1>3. sent' \subseteq sent \cup {o} /\ sent \subseteq sent' /\ sent' \cup dropped' = sent \cup dropped \cup {o}
    BY DEF Submit
  <1> HIDE DEF o, u
  <1>4. /\ receiver'[c] = Idle
        /\ \A d \in Clients : d # c => receiver'[d] = receiver[d]
    BY <1>1 DEF Types
  <1>5. order_owners'[o] = u /\ \A p \in Orders : p # o => order_owners'[p] = order_owners[p]
    BY <1>1 DEF Types
  <1>6. Types'
    BY <1>1, <1>2, <1>3 DEF Types
  <1>7. \A d \in Clients : TaskOK(d)'
    BY <1>1, <1>2, <1>4 DEF TaskOK
  <1>8. \A i \in DOMAIN events : events[i] \in Orders \cup {None}
    BY DEF Types
  <1>9. Owners'
    BY <1>1, <1>2, <1>3, <1>5, <1>8 DEF Owners, Types
  <1>10. OneConnectionPerUser' /\ OnlyToOwner'
    BY <1>2 DEF OneConnectionPerUser, OnlyToOwner
  <1>11. LeavesNothing'
    BY <1>1, <1>2, <1>4 DEF LeavesNothing
  <1>12. NothingForgotten'
    <2>1. ASSUME NEW p \in Orders, placed[p] # None, p \notin sent' \cup dropped'
          PROVE  receiver'[via[p]].order = p /\ receiver'[via[p]].pc \in {"created", "aborted"}
      <3>1. p # o /\ receiver[via[p]].order = p /\ receiver[via[p]].pc \in {"created", "aborted"}
            /\ via[p] \in Clients
        BY <1>3, <2>1 DEF NothingForgotten, Owners
      <3> QED
        BY <1>4, <3>1 DEF o
    <2>2. \A i \in DOMAIN events : events[i] # None => order_owners'[events[i]] = placed[events[i]]
      BY <1>1, <1>5, <1>8 DEF NothingForgotten
    <2> QED
      BY <1>2, <2>1, <2>2 DEF NothingForgotten
  <1> QED
    BY <1>6, <1>7, <1>9, <1>10, <1>11, <1>12

-----------------------------------------------------------------------------
(* The types of the variables that no invariant above reads. *)

ChannelTypes ==
  /\ sender \subseteq Clients /\ listener \subseteq Clients
  /\ backlog \in [Clients -> 0 .. QueueSize] /\ lagged \subseteq Clients

ManagerTypes ==
  /\ subscribers \subseteq client_senders /\ client_senders \subseteq 1 .. opened
  /\ bot_client_id \in Clients \cup {None} /\ last_bot_status \in BOOLEAN

\* A cancellation is of an order.
BackendTypes ==
  /\ \A c \in Clients : receiver[c].pc \in {"cancel", "cancelled"} => receiver[c].order \in Orders
  /\ {refunded, withdrawn, dropped} \subseteq SUBSET Orders

\* Every event is the end of one more order, or counts as a request; no event task has read more.
EventBound ==
  /\ requests \in 0 .. MaxRequests /\ over \subseteq Orders
  /\ Len(events) <= Cardinality(over) + requests
  /\ \A c \in Clients : position[c] <= Len(events)

LEMMA ConnectNumber == IInv /\ Connect => opened + 1 \in Clients
  <1>1. IInv => opened \in 0 .. MaxClients
    BY DEF IInv, Types
  <1> QED
    BY <1>1, Constants DEF Connect, Clients

LEMMA ChannelTypesStep == IInv /\ ChannelTypes /\ [Next]_vars => ChannelTypes'
  <1> SUFFICES ASSUME IInv, ChannelTypes, [Next]_vars PROVE ChannelTypes'
    OBVIOUS
  <1> USE DEF ChannelTypes
  <1>1. ASSUME NEW cs, Put(cs), sender' = sender, listener' = listener PROVE ChannelTypes'
    <2>1. QueueSize \in Nat
      BY SessionAssumption
    <2> QED
      BY <1>1, <2>1 DEF Put
  <1>2. ASSUME UNCHANGED channel, sender' \subseteq sender, listener' \subseteq listener
        PROVE  ChannelTypes'
    BY <1>2 DEF channel
  <1>3. CASE Connect
    <2>1. opened + 1 \in Clients
      BY <1>3, ConnectNumber
    <2> QED
      BY <1>3, <2>1 DEF Connect, channel
  <1>4. CASE BotCommand \/ Notify
    BY <1>1, <1>4 DEF BotCommand, Notify, tasks
  <1>5. ASSUME NEW c \in Clients, PeerLeaves(c) \/ Leave(c) \/ CleanUp(c) \/ Abort(c) PROVE ChannelTypes'
    BY <1>2, <1>5 DEF PeerLeaves, Leave, CleanUp, Abort, tasks
  <1>6. ASSUME NEW c \in Clients, Send(c) PROVE ChannelTypes'
    <2>1. backlog[c] \in 0 .. QueueSize /\ QueueSize \in Nat
      BY SessionAssumption
    <2>2. CASE backlog[c] > 0 /\ backlog' = [backlog EXCEPT ![c] = @ - 1] /\ UNCHANGED sender
      <3>1. backlog[c] - 1 \in 0 .. QueueSize
        BY <2>1, <2>2
      <3> QED
        BY <1>6, <2>2, <3>1 DEF Send
    <2>3. CASE sender' = sender \ {c} /\ UNCHANGED backlog
      BY <1>6, <2>3 DEF Send
    <2> QED
      BY <1>6, <2>2, <2>3 DEF Send
  <1>7. ASSUME NEW c \in Clients, Listen(c) PROVE ChannelTypes'
    <2>1. CASE listener' = listener \ {c} /\ UNCHANGED channel
      BY <1>2, <1>7, <2>1 DEF Listen
    <2>2. CASE UNCHANGED listener /\ \E cs \in {{c}, {}} : Put(cs)
      BY <1>1, <1>7, <2>2 DEF Listen
    <2> QED
      BY <1>7, <2>1, <2>2 DEF Listen
  <1>8. ASSUME NEW c \in Clients, Answered(c) PROVE ChannelTypes'
    BY <1>1, <1>8 DEF Answered, tasks
  <1>9. ASSUME NEW c \in Clients, NEW pc, NEW u, NEW o, Asks(c, pc, u, o) PROVE ChannelTypes'
    BY <1>2, <1>9 DEF Asks
  <1>10. ASSUME NEW c \in Clients, Request(c) PROVE ChannelTypes'
    BY <1>8, <1>9, <1>10 DEF Request, Reject, Subscribe, PrivateSubscribe, Unsubscribe, RegisterBot,
       BotStatus, Auth, PlaceOrder, CancelOrder
  <1>11. ASSUME NEW c \in Clients, Replies(c) PROVE ChannelTypes'
    BY <1>1, <1>11 DEF Replies
  <1>12. ASSUME NEW c \in Clients, Proceed(c) PROVE ChannelTypes'
    BY <1>2, <1>11, <1>12 DEF Proceed, AuthAnswer, AccountsCreate, CreateFails, Submit, AccountsCancel,
       CancelFails, Withdraw
  <1>13. ASSUME NEW o \in Orders, EngineEnds(o) PROVE ChannelTypes'
    BY <1>2, <1>13 DEF EngineEnds, tasks
  <1>14. CASE UNCHANGED vars
    BY <1>2, <1>14 DEF vars, tasks
  <1> QED
    BY <1>3, <1>4, <1>5, <1>6, <1>7, <1>10, <1>12, <1>13, <1>14 DEF Next

LEMMA ManagerTypesStep == IInv /\ ManagerTypes /\ [Next]_vars => ManagerTypes'
  <1> SUFFICES ASSUME IInv, ManagerTypes, [Next]_vars PROVE ManagerTypes'
    OBVIOUS
  <1> USE DEF ManagerTypes
  <1>1. opened \in Nat /\ peer \subseteq 1 .. opened
    BY DEF IInv, Types
  <1>2. ASSUME UNCHANGED <<opened, subscribers, client_senders, bot_client_id, last_bot_status>>
        PROVE  ManagerTypes'
    BY <1>2
  <1>3. CASE Connect
    <2>1. client_senders' \subseteq 1 .. opened'
      BY <1>1, <1>3 DEF Connect
    <2> QED
      BY <1>3, <2>1 DEF Connect
  <1>4. CASE BotCommand \/ Notify
    BY <1>2, <1>4 DEF BotCommand, Notify, manager
  <1>5. ASSUME NEW c \in Clients, PeerLeaves(c) \/ Send(c) \/ Leave(c) \/ Abort(c) PROVE ManagerTypes'
    BY <1>2, <1>5 DEF PeerLeaves, Send, Leave, Abort, manager
  <1>6. ASSUME NEW c \in Clients, CleanUp(c) PROVE ManagerTypes'
    BY <1>6 DEF CleanUp, RemoveClient
  <1>7. ASSUME NEW c \in Clients, Listen(c) PROVE ManagerTypes'
    BY <1>2, <1>7 DEF Listen, manager
  <1>8. ASSUME NEW c \in Clients,
               \/ Reject(c) \/ Subscribe(c) \/ PrivateSubscribe(c) \/ Unsubscribe(c)
               \/ RegisterBot(c) \/ BotStatus(c)
        PROVE  ManagerTypes'
    <2>1. c \in 1 .. opened /\ opened' = opened
      BY <1>1, <1>8 DEF Reject, Subscribe, PrivateSubscribe, Unsubscribe, RegisterBot, BotStatus,
         Takes, Answered
    <2> QED
      BY <1>2, <1>8, <2>1 DEF Reject, Subscribe, PrivateSubscribe, Unsubscribe, RegisterBot, BotStatus,
         manager
  <1>9. ASSUME NEW c \in Clients, NEW pc, NEW u, NEW o, Asks(c, pc, u, o) PROVE ManagerTypes'
    BY <1>2, <1>9 DEF Asks, manager
  <1>10. ASSUME NEW c \in Clients, Request(c) PROVE ManagerTypes'
    BY <1>8, <1>9, <1>10 DEF Request, Auth, PlaceOrder, CancelOrder
  <1>11. ASSUME NEW c \in Clients, Proceed(c) PROVE ManagerTypes'
    BY <1>2, <1>11 DEF Proceed, AuthAnswer, AccountsCreate, CreateFails, Submit, AccountsCancel,
       CancelFails, Withdraw, Replies, manager
  <1>12. ASSUME NEW o \in Orders, EngineEnds(o) PROVE ManagerTypes'
    BY <1>2, <1>12 DEF EngineEnds, manager
  <1>13. CASE UNCHANGED vars
    BY <1>2, <1>13 DEF vars, manager
  <1> QED
    BY <1>3, <1>4, <1>5, <1>6, <1>7, <1>10, <1>11, <1>12, <1>13 DEF Next

LEMMA BackendTypesStep == IInv /\ BackendTypes /\ [Next]_vars => BackendTypes'
  <1> SUFFICES ASSUME IInv, BackendTypes, [Next]_vars PROVE BackendTypes'
    OBVIOUS
  <1> USE DEF BackendTypes
  <1>1. receiver \in [Clients -> Task]
    BY DEF IInv, Types
  <1>2. ASSUME UNCHANGED <<refunded, withdrawn, dropped>>, UNCHANGED receiver PROVE BackendTypes'
    BY <1>2
  <1>3. ASSUME NEW c \in Clients, NEW r, receiver' = [receiver EXCEPT ![c] = r],
               r.pc \in {"cancel", "cancelled"} => r.order \in Orders,
               {refunded', withdrawn', dropped'} \subseteq SUBSET Orders
        PROVE  BackendTypes'
    BY <1>1, <1>3
  <1>4. CASE Connect \/ BotCommand \/ Notify
    BY <1>2, <1>4 DEF Connect, BotCommand, Notify, tasks, backend, ghosts
  <1>5. ASSUME NEW c \in Clients, PeerLeaves(c) \/ Send(c) \/ Listen(c) PROVE BackendTypes'
    BY <1>2, <1>5 DEF PeerLeaves, Send, Listen, tasks, backend, ghosts
  <1>6. ASSUME NEW c \in Clients, Leave(c) \/ Abort(c) PROVE BackendTypes'
    <2>1. \E pc \in {"leaving", "aborted"} : receiver' = [receiver EXCEPT ![c].pc = pc]
      BY <1>6 DEF Leave, Abort
    <2>2. UNCHANGED <<refunded, withdrawn, dropped>>
      BY <1>6 DEF Leave, Abort, backend, ghosts
    <2>3. receiver[c] \in Task
      BY <1>1
    <2> QED
      BY <1>3, <2>1, <2>2, <2>3 DEF Task
  <1>7. ASSUME NEW c \in Clients, CleanUp(c) PROVE BackendTypes'
    BY <1>3, <1>7 DEF CleanUp, Idle, backend, ghosts
  <1>8. ASSUME NEW c \in Clients, Answered(c) PROVE BackendTypes'
    BY <1>2, <1>8 DEF Answered, tasks, backend, ghosts
  <1>9. ASSUME NEW c \in Clients, NEW pc, NEW u, NEW o, Asks(c, pc, u, o),
               pc \in {"cancel", "cancelled"} => o \in Orders
        PROVE  BackendTypes'
    BY <1>3, <1>9 DEF Asks, backend, ghosts
  <1>10. ASSUME NEW c \in Clients, Request(c) PROVE BackendTypes'
    BY <1>8, <1>9, <1>10 DEF Request, Reject, Subscribe, PrivateSubscribe, Unsubscribe, RegisterBot,
       BotStatus, Auth, PlaceOrder, CancelOrder
  <1>11. ASSUME NEW c \in Clients, AccountsCreate(c) PROVE BackendTypes'
    <2>1. PICK o \in Orders : receiver' = [receiver EXCEPT ![c].pc = "created", ![c].order = o]
      BY <1>11 DEF AccountsCreate
    <2> DEFINE r == [[receiver[c] EXCEPT !.pc = "created"] EXCEPT !.order = o]
    <2>2. receiver' = [receiver EXCEPT ![c] = r] /\ r.pc = "created"
      BY <1>1, <2>1 DEF Task
    <2>3. UNCHANGED <<refunded, withdrawn, dropped>>
      BY <1>11 DEF AccountsCreate, ghosts
    <2> HIDE DEF r
    <2> QED
      BY <1>3, <2>2, <2>3
  <1>12. ASSUME NEW c \in Clients, AccountsCancel(c) PROVE BackendTypes'
    <2>1. receiver[c] \in Task /\ receiver[c].order \in Orders
      BY <1>1, <1>12 DEF AccountsCancel
    <2> QED
      BY <1>3, <1>12, <2>1 DEF AccountsCancel, Task, ghosts
  <1>13. ASSUME NEW c \in Clients,
                AuthAnswer(c) \/ CreateFails(c) \/ Submit(c) \/ CancelFails(c) \/ Withdraw(c)
         PROVE  BackendTypes'
    <2>1. receiver' = [receiver EXCEPT ![c] = Idle] /\ Idle.pc = "idle"
      BY <1>13 DEF AuthAnswer, CreateFails, Submit, CancelFails, Withdraw, Replies, Idle
    <2>2. receiver[c].order \in Orders \cup {None}
          /\ (receiver[c].pc = "created" => receiver[c].order \in Orders)
      BY <1>1 DEF IInv, TaskOK, Task
    <2>3. {refunded', withdrawn', dropped'} \subseteq SUBSET Orders
      BY <1>13, <2>2 DEF AuthAnswer, CreateFails, Submit, CancelFails, Withdraw
    <2> QED
      BY <1>3, <2>1, <2>3
  <1>14. ASSUME NEW o \in Orders, EngineEnds(o) PROVE BackendTypes'
    BY <1>2, <1>14 DEF EngineEnds, tasks, ghosts
  <1>15. CASE UNCHANGED vars
    BY <1>2, <1>15 DEF vars, tasks, backend, ghosts
  <1> QED
    BY <1>4, <1>5, <1>6, <1>7, <1>10, <1>11, <1>12, <1>13, <1>14, <1>15 DEF Next, Proceed

LEMMA EventBoundStep == IInv /\ EventBound /\ [Next]_vars => EventBound'
  <1> SUFFICES ASSUME IInv, EventBound, [Next]_vars PROVE EventBound'
    OBVIOUS
  <1> USE DEF EventBound
  <1>1. /\ events \in Seq(Orders \cup {None}) /\ position \in [Clients -> Nat]
        /\ Len(events) \in Nat /\ MaxRequests \in Nat
    BY SessionAssumption DEF IInv, Types
  <1>2. IsFiniteSet(over) /\ Cardinality(over) \in Nat
    <2>1. IsFiniteSet(Orders)
      BY Constants, FS_Interval DEF Orders
    <2> QED
      BY <2>1, FS_Subset, FS_CardinalityType
  <1>3. ASSUME UNCHANGED <<events, position, over>>, requests' = requests \/ requests' = requests + 1,
               requests' \in 0 .. MaxRequests
        PROVE  EventBound'
    BY <1>1, <1>2, <1>3
  <1>4. ASSUME NEW o \in Orders \cup {None}, events' = Append(events, o), UNCHANGED position,
               requests' \in 0 .. MaxRequests, over' \subseteq Orders,
               Cardinality(over') + requests' = Cardinality(over) + requests + 1
        PROVE  EventBound'
    <2>1. Len(events') = Len(events) + 1
      BY <1>1, <1>4
    <2> QED
      BY <1>1, <1>2, <1>4, <2>1
  <1>5. ASSUME NEW c \in Clients, NEW p \in Nat, p <= Len(events),
               position' = [position EXCEPT ![c] = p], UNCHANGED <<events, over, requests>>
        PROVE  EventBound'
    <2>1. \A d \in Clients : position'[d] = IF d = c THEN p ELSE position[d]
      BY <1>1, <1>5
    <2> QED
      BY <1>1, <1>5, <2>1
  <1>6. CASE Connect
    <2>1. opened + 1 \in Clients
      BY <1>6, ConnectNumber
    <2> QED
      BY <1>1, <1>5, <1>6, <2>1 DEF Connect, backend
  <1>7. CASE BotCommand
    BY <1>1, <1>3, <1>7 DEF BotCommand, tasks, backend
  <1>8. CASE Notify
    <2>1. requests' \in 0 .. MaxRequests /\ requests' = requests + 1
      BY <1>1, <1>8 DEF Notify
    <2> QED
      BY <1>2, <1>4, <1>8, <2>1 DEF Notify, tasks
  <1>9. ASSUME NEW c \in Clients, PeerLeaves(c) \/ Send(c) \/ Leave(c) \/ CleanUp(c) \/ Abort(c)
        PROVE  EventBound'
    BY <1>3, <1>9 DEF PeerLeaves, Send, Leave, CleanUp, Abort, tasks, backend
  <1>10. ASSUME NEW c \in Clients, Listen(c) PROVE EventBound'
    <2>1. UNCHANGED <<events, over, requests>> /\ position[c] < Len(events) /\ position[c] \in Nat
      BY <1>1, <1>10 DEF Listen, backend
    <2>2. CASE UNCHANGED position
      BY <1>3, <2>1, <2>2
    <2>3. CASE position' = [position EXCEPT ![c] = @ + 1]
      <3>1. position[c] + 1 \in Nat /\ position[c] + 1 <= Len(events)
        BY <1>1, <2>1
      <3> QED
        BY <1>5, <2>1, <2>3, <3>1
    <2> QED
      BY <1>10, <2>2, <2>3 DEF Listen
  <1>11. ASSUME NEW c \in Clients, Takes(c), UNCHANGED <<events, position, over>> PROVE EventBound'
    BY <1>1, <1>3, <1>11 DEF Takes
  <1>12. ASSUME NEW c \in Clients, Takes(c), Answered(c) PROVE EventBound'
    BY <1>11, <1>12 DEF Answered, tasks, backend
  <1>13. ASSUME NEW c \in Clients, NEW pc, NEW u, NEW o, Asks(c, pc, u, o) PROVE EventBound'
    BY <1>11, <1>13 DEF Asks, backend
  <1>14. ASSUME NEW c \in Clients, Request(c) PROVE EventBound'
    BY <1>12, <1>13, <1>14 DEF Request, Reject, Subscribe, PrivateSubscribe, Unsubscribe, RegisterBot,
       BotStatus, Auth, PlaceOrder, CancelOrder
  <1>15. ASSUME NEW c \in Clients, Proceed(c) PROVE EventBound'
    BY <1>3, <1>15 DEF Proceed, AuthAnswer, AccountsCreate, CreateFails, Submit, AccountsCancel,
       CancelFails, Withdraw, Replies
  <1>16. ASSUME NEW o \in Orders, EngineEnds(o) PROVE EventBound'
    <2>1. /\ over' = over \cup {o} /\ o \notin over /\ UNCHANGED <<position, requests>>
          /\ events' = Append(events, o) \/ UNCHANGED events
      BY <1>16 DEF EngineEnds, tasks
    <2>2. Cardinality(over') = Cardinality(over) + 1 /\ over' \subseteq Orders
      BY <1>2, <2>1, FS_AddElement
    <2>3. CASE events' = Append(events, o)
      <3>1. requests' = requests /\ requests \in Nat
        BY <1>1, <2>1
      <3>2. Cardinality(over') + requests' = Cardinality(over) + requests + 1
        BY <1>2, <2>2, <3>1
      <3> QED
        BY <1>4, <2>1, <2>2, <2>3, <3>2
    <2>4. CASE UNCHANGED events
      BY <1>1, <1>2, <2>1, <2>2, <2>4
    <2> QED
      BY <2>1, <2>3, <2>4
  <1>17. CASE UNCHANGED vars
    BY <1>3, <1>17 DEF vars, tasks, backend
  <1> QED
    BY <1>6, <1>7, <1>8, <1>9, <1>10, <1>14, <1>15, <1>16, <1>17 DEF Next

-----------------------------------------------------------------------------
(* The theorems. *)

LEMMA NextIInv == IInv /\ [Next]_vars => IInv'
  <1> SUFFICES ASSUME IInv, [Next]_vars PROVE IInv'
    OBVIOUS
  <1>1. CASE Connect
    BY <1>1, ConnectStep
  <1>2. CASE BotCommand
    <2>1. 1 \in Clients
      BY Constants DEF Clients
    <2> QED
      BY <1>2, <2>1, QuietActions
  <1>3. CASE Notify \/ \E o \in Orders : EngineEnds(o)
    BY <1>3, EventActions
  <1>4. ASSUME NEW c \in Clients, PeerLeaves(c) \/ Send(c) \/ Leave(c) \/ Abort(c)
        PROVE  IInv'
    BY <1>4, QuietActions, TaskActions
  <1>5. ASSUME NEW c \in Clients, CleanUp(c) \/ Listen(c) PROVE IInv'
    BY <1>5, CleanUpStep, ListenStep
  <1>6. ASSUME NEW c \in Clients, Request(c) PROVE IInv'
    BY <1>6, QuietActions, TaskActions DEF Request
  <1>7. ASSUME NEW c \in Clients, Proceed(c) PROVE IInv'
    BY <1>7, AuthAnswerStep, AccountsCreateStep, SubmitStep, TaskActions DEF Proceed
  <1>8. CASE UNCHANGED vars
    <2>1. UNCHANGED <<opened, peer, receiver, rest, events, position, told, dropped, subscribers,
                      client_senders, bot_client_id>>
      BY <1>8 DEF vars, tasks, manager, backend, ghosts, rest
    <2>2. LeavesNothing'
      BY <2>1 DEF LeavesNothing, IInv, rest
    <2> QED
      BY <2>1, <2>2, QuietStep
  <1> QED
    BY <1>1, <1>2, <1>3, <1>4, <1>5, <1>6, <1>7, <1>8 DEF Next

LEMMA Inductive == Spec => []IInv
  BY InitIInv, NextIInv, PTL DEF Spec

\* Every reachable state has the types of TypeOK: channels hold no more than their capacity, the
\* channels of ChannelManager lead to senders that it knows, of connections there were, and the
\* event tasks read no further than the ends of orders and the other events carry them.
THEOREM AlwaysTypeOK == Spec => []TypeOK
  <1> DEFINE J == ChannelTypes /\ ManagerTypes /\ BackendTypes /\ EventBound
  <1>1. Init => J
    <2>1. Init => ChannelTypes
      BY SessionAssumption DEF Init, ChannelTypes
    <2>2. Init => ManagerTypes
      BY DEF Init, ManagerTypes
    <2>3. Init => BackendTypes
      BY DEF Init, BackendTypes, Idle
    <2>4. Init => EventBound
      BY SessionAssumption, FS_EmptySet DEF Init, EventBound
    <2> QED
      BY <2>1, <2>2, <2>3, <2>4
  <1>2. IInv /\ J /\ [Next]_vars => J'
    BY ChannelTypesStep, ManagerTypesStep, BackendTypesStep, EventBoundStep
  <1>3. IInv /\ J => TypeOK
    <2> SUFFICES ASSUME IInv, J PROVE TypeOK
      OBVIOUS
    <2>1. peer \subseteq Clients /\ opened \in 0 .. MaxClients
      BY Constants DEF IInv, Types, Clients
    <2>2. position \in [Clients -> 0 .. MaxOrders + MaxRequests]
      <3>1. Cardinality(over) \in Nat /\ Cardinality(over) <= MaxOrders
        <4>1. IsFiniteSet(Orders) /\ Cardinality(Orders) = MaxOrders
          BY Constants, FS_Interval DEF Orders
        <4> QED
          BY <4>1, FS_Subset, FS_CardinalityType DEF EventBound
      <3>2. /\ position \in [Clients -> Nat] /\ Len(events) \in Nat /\ MaxRequests \in Nat
            /\ MaxOrders \in Nat /\ requests \in 0 .. MaxRequests
            /\ Len(events) <= Cardinality(over) + requests
            /\ \A c \in Clients : position[c] <= Len(events)
        BY SessionAssumption DEF IInv, Types, EventBound
      <3>3. \A c \in Clients : position[c] \in 0 .. MaxOrders + MaxRequests
        BY <3>1, <3>2
      <3> QED
        BY <3>2, <3>3
    <2>3. {refunded, sent, withdrawn, over, dropped} \subseteq SUBSET Orders
      BY DEF IInv, Types, BackendTypes, EventBound
    <2>4. {order_owners, placed} \subseteq [Orders -> Users \cup {None}]
      BY DEF IInv, Types
    <2> QED
      BY <2>1, <2>2, <2>3, <2>4 DEF TypeOK, IInv, Types, Task, ChannelTypes, ManagerTypes, EventBound
  <1> QED
    BY <1>1, <1>2, <1>3, Inductive, PTL DEF Spec

\* A user is signed in at one connection at a time, however many connections sign in, change the
\* user and end, and in whatever order (authenticate_client and remove_client); and what finds
\* him elsewhere is an entry from before the connection changed its user.
THEOREM AlwaysOneConnectionPerUser == Spec => []OneConnectionPerUser
  <1>1. IInv => OneConnectionPerUser
    BY DEF IInv
  <1> QED
    BY <1>1, Inductive, PTL

\* No event task ever tells a connection of the end of an order whose owner did not sign in on
\* it, though it looks up the owner and his client only when it reads the event.
THEOREM AlwaysOnlyToOwner == Spec => []OnlyToOwner
  <1>1. IInv => OnlyToOwner
    BY DEF IInv
  <1> QED
    BY <1>1, Inductive, PTL

\* After remove_client no channel, sender, sign-in or bot registration of the ChannelManager leads
\* to the connection again, although the tasks of other connections, and the connection's own
\* event task, run on; and no user but one who was not the only one to sign in there.
THEOREM AlwaysLeavesNothing == Spec => []LeavesNothing
  <1>1. IInv => LeavesNothing
    BY DEF IInv
  <1> QED
    BY <1>1, Inductive, PTL

\* Of the orders for which accounts locked funds, the gateway lets go only with an answer to the
\* client or by an aborted receive task, and it knows the owner of every order whose end it hears of.
THEOREM AlwaysNothingForgotten == Spec => []NothingForgotten
  <1>1. IInv => NothingForgotten
    BY DEF IInv
  <1> QED
    BY <1>1, Inductive, PTL

=============================================================================
