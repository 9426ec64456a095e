--------------------------- MODULE BookFeedProofs ---------------------------
(***************************************************************************)
(* The feed, for any number of prices, levels, clients, trades and faults: *)
(* an unbroken replica has the book the publisher last sent, a client that *)
(* missed nothing shows the replica's and as many of its latest trades as  *)
(* the browser has room for, no trade is shown more often than a client    *)
(* subscribed, and the statistics are those of the last day.               *)
(*                                                                         *)
(* Two facts carry the proofs: each delta under way was computed against   *)
(* the book event before it (Linked), and trades stay in order all the way *)
(* from the engine to the views (Ordered).                                 *)
(***************************************************************************)
EXTENDS BookFeed, SumsProofs, SequenceTheorems, FiniteSetTheorems

-----------------------------------------------------------------------------
(* Sequences that lose their first elements, or one of them.               *)

LEMMA DropFacts ==
  ASSUME NEW S, NEW s \in Seq(S), NEW d \in 0 .. Len(s),
         NEW r, r = SubSeq(s, d + 1, Len(s))
  PROVE  /\ r \in Seq(S) /\ Len(r) = Len(s) - d
         /\ \A i \in 1 .. Len(r) : i + d \in 1 .. Len(s) /\ r[i] = s[i + d]
<1>1. Len(s) \in Nat /\ \A i \in 1 .. Len(s) : s[i] \in S
  OBVIOUS
<1>2. PICK n \in Nat : n = Len(s)
  BY <1>1
<1>3. /\ r \in Seq(S) /\ Len(r) = (IF d + 1 <= n THEN n - (d + 1) + 1 ELSE 0)
      /\ \A i \in 1 .. n - (d + 1) + 1 : r[i] = s[(d + 1) + i - 1]
  <2>1. \A i \in d + 1 .. n : s[i] \in S
    BY <1>1, <1>2
  <2>2. d + 1 \in Int /\ n \in Int
    BY <1>2
  <2> QED BY <1>2, <2>1, <2>2, SubSeqProperties
<1>4. Len(r) = n - d
  BY <1>2, <1>3
<1>5. \A i \in 1 .. Len(r) : i + d \in 1 .. n /\ r[i] = s[i + d]
  <2> TAKE i \in 1 .. Len(r)
  <2>1. i \in 1 .. n - (d + 1) + 1 /\ (d + 1) + i - 1 = i + d /\ i + d \in 1 .. n
    BY <1>2, <1>4
  <2> QED BY <1>3, <2>1
<1> QED BY <1>2, <1>3, <1>4, <1>5

LEMMA DropRange ==
  ASSUME NEW S, NEW s \in Seq(S), NEW d \in 0 .. Len(s)
  PROVE  Range(SubSeq(s, d + 1, Len(s))) \subseteq Range(s)
<1>1. PICK r : r = SubSeq(s, d + 1, Len(s))
  OBVIOUS
<1>2. r \in Seq(S) /\ \A i \in 1 .. Len(r) : i + d \in 1 .. Len(s) /\ r[i] = s[i + d]
  BY <1>1, DropFacts
<1>3. DOMAIN r = 1 .. Len(r) /\ DOMAIN s = 1 .. Len(s)
  BY <1>2
<1>4. Range(r) \subseteq Range(s)
  BY <1>2, <1>3 DEF Range
<1> QED BY <1>1, <1>4

LEMMA RemoveFacts ==
  ASSUME NEW S, NEW s \in Seq(S), NEW i \in 1 .. Len(s), NEW r, r = RemoveAt(s, i)
  PROVE  /\ r \in Seq(S) /\ Len(r) = Len(s) - 1
         /\ \A k \in 1 .. Len(r) : r[k] = IF k < i THEN s[k] ELSE s[k + 1]
<1>1. Len(s) \in Nat /\ \A k \in 1 .. Len(s) : s[k] \in S
  OBVIOUS
<1>2. PICK n \in Nat : n = Len(s)
  BY <1>1
<1>3. PICK a, b : a = SubSeq(s, 1, i - 1) /\ b = SubSeq(s, i + 1, n)
  OBVIOUS
<1>4. /\ a \in Seq(S) /\ Len(a) = i - 1
      /\ \A k \in 1 .. i - 1 : a[k] = s[k]
  <2>1. /\ a \in Seq(S) /\ Len(a) = (IF 1 <= i - 1 THEN i - 1 - 1 + 1 ELSE 0)
        /\ \A k \in 1 .. i - 1 - 1 + 1 : a[k] = s[1 + k - 1]
    <3>1. \A k \in 1 .. i - 1 : s[k] \in S
      BY <1>1, <1>2
    <3>2. 1 \in Int /\ i - 1 \in Int
      OBVIOUS
    <3> QED BY <1>3, <3>1, <3>2, SubSeqProperties
  <2> QED BY <2>1
<1>5. /\ b \in Seq(S) /\ Len(b) = n - i
      /\ \A k \in 1 .. n - i : b[k] = s[i + k]
  <2>1. i \in 0 .. Len(s) /\ b = SubSeq(s, i + 1, Len(s))
    BY <1>2, <1>3
  <2>2. b \in Seq(S) /\ Len(b) = Len(s) - i /\ \A k \in 1 .. Len(b) : b[k] = s[k + i]
    BY <2>1, DropFacts
  <2>3. \A k \in 1 .. n - i : k + i = i + k
    BY <1>2
  <2> QED BY <1>2, <2>2, <2>3
<1>6. r = a \o b
  BY <1>2, <1>3 DEF RemoveAt
<1>7. /\ r \in Seq(S) /\ Len(r) = Len(a) + Len(b)
      /\ \A k \in 1 .. Len(a) + Len(b) : r[k] = IF k <= Len(a) THEN a[k] ELSE b[k - Len(a)]
  <2>1. a \in Seq(S) /\ b \in Seq(S)
    BY <1>4, <1>5
  <2>2. /\ a \o b \in Seq(S) /\ Len(a \o b) = Len(a) + Len(b)
        /\ \A k \in 1 .. Len(a) + Len(b) : (a \o b)[k] = IF k <= Len(a) THEN a[k] ELSE b[k - Len(a)]
    BY ONLY <2>1, ConcatProperties
  <2> QED BY <1>6, <2>2
<1>8. Len(r) = n - 1
  BY <1>2, <1>4, <1>5, <1>7
<1>9. ASSUME NEW k \in 1 .. n - 1
      PROVE  r[k] = IF k < i THEN s[k] ELSE s[k + 1]
  <2>1. r[k] = IF k <= i - 1 THEN a[k] ELSE b[k - (i - 1)]
    BY <1>4, <1>5, <1>7, <1>9
  <2>2. CASE k < i
    BY <1>4, <2>1, <2>2
  <2>3. CASE ~(k < i)
    <3>1. k - (i - 1) \in 1 .. n - i /\ i + (k - (i - 1)) = k + 1
      BY <1>9, <2>3
    <3>2. b[k - (i - 1)] = s[i + (k - (i - 1))]
      BY <1>5, <3>1
    <3> QED BY <2>1, <2>3, <3>1, <3>2
  <2> QED BY <2>2, <2>3
<1> QED BY <1>2, <1>7, <1>8, <1>9

\* The last k of a sequence are its end, and as many as there are, up to k.
LEMMA LatestFacts ==
  ASSUME NEW S, NEW ts \in Seq(S), NEW k \in Nat \ {0}, NEW r, r = Latest(ts, k)
  PROVE  /\ r \in Seq(S) /\ Len(r) <= k
         /\ \E d \in 0 .. Len(ts) : /\ r = SubSeq(ts, d + 1, Len(ts)) /\ (ts # << >> => d < Len(ts))
                                    /\ d = 0 \/ Len(ts) - d = k
<1>1. PICK n \in Nat : n = Len(ts)
  OBVIOUS
<1>2. PICK m \in Int : m = n - k + 1
  OBVIOUS
<1>3. Max({1, m}) = IF m > 1 THEN m ELSE 1
  BY <1>2 DEF Max
<1>4. PICK d \in 0 .. n : d + 1 = Max({1, m}) /\ n - d <= k /\ (n # 0 => d < n) /\ (d = 0 \/ n - d = k)
  <2>1. CASE m > 1
    <3>1. m - 1 \in 0 .. n /\ (m - 1) + 1 = m /\ n - (m - 1) <= k /\ m - 1 < n /\ n - (m - 1) = k
      BY <1>1, <1>2, <2>1
    <3> QED BY <1>3, <2>1, <3>1
  <2>2. CASE ~(m > 1)
    <3>1. 0 \in 0 .. n /\ 0 + 1 = 1 /\ n - 0 <= k /\ (n # 0 => 0 < n)
      BY <1>1, <1>2, <2>2
    <3> QED BY <1>3, <2>2, <3>1
  <2> QED BY <2>1, <2>2
<1>5. r = SubSeq(ts, d + 1, n)
  BY <1>1, <1>2, <1>4 DEF Latest
<1>6. d \in 0 .. Len(ts) /\ r = SubSeq(ts, d + 1, Len(ts))
  BY <1>1, <1>5
<1>7. r \in Seq(S) /\ Len(r) = n - d
  BY <1>1, <1>6, DropFacts
<1>8. ts # << >> => d < n
  <2>1. ts # << >> => n # 0
    BY <1>1
  <2> QED BY <1>4, <2>1
<1> QED BY <1>1, <1>4, <1>6, <1>7, <1>8

\* Counted from the end, what is left is what was there.
LEMMA LatestEnd ==
  ASSUME NEW S, NEW ts \in Seq(S), NEW k \in Nat \ {0}, NEW r, r = Latest(ts, k), NEW i \in Nat
  PROVE  /\ i < Len(r) => i < Len(ts) /\ r[Len(r) - i] = ts[Len(ts) - i]
         /\ i < k /\ i < Len(ts) => i < Len(r)
<1>1. PICK d \in 0 .. Len(ts) : r = SubSeq(ts, d + 1, Len(ts)) /\ (d = 0 \/ Len(ts) - d = k)
  BY LatestFacts
<1>2. PICK n \in Nat : n = Len(ts)
  OBVIOUS
<1>3. Len(r) = n - d /\ \A j \in 1 .. n - d : r[j] = ts[j + d]
  <2>1. Len(r) = Len(ts) - d /\ \A j \in 1 .. Len(r) : r[j] = ts[j + d]
    BY <1>1, DropFacts
  <2> QED BY <1>2, <2>1
<1>4. ASSUME i < n - d PROVE i < n /\ r[n - d - i] = ts[n - i]
  <2>1. n - d - i \in 1 .. n - d /\ (n - d - i) + d = n - i /\ i < n
    BY <1>2, <1>4
  <2> QED BY <1>3, <2>1
<1>5. i < k /\ i < n => i < n - d
  BY <1>1, <1>2
<1> QED BY <1>2, <1>3, <1>4, <1>5

LEMMA LatestRange ==
  ASSUME NEW S, NEW ts \in Seq(S), NEW k \in Nat \ {0}
  PROVE  Range(Latest(ts, k)) \subseteq Range(ts)
<1>1. PICK d \in 0 .. Len(ts) : Latest(ts, k) = SubSeq(ts, d + 1, Len(ts))
  BY ONLY ts \in Seq(S), k \in Nat \ {0}, LatestFacts
<1> QED BY <1>1, DropRange

\* What expires is a day older than the last trade, and comes before what does not.
LEMMA ExpiredFacts ==
  ASSUME NEW stats \in Seq(Trade), NEW now \in Int, NEW r, r = Expired(stats, now)
  PROVE  \E d \in 0 .. Len(stats) :
           /\ r = SubSeq(stats, d + 1, Len(stats))
           /\ \A i \in DOMAIN stats : stats[i].time >= now - Day => d < i
           /\ d < Len(stats) => stats[d + 1].time >= now - Day
<1>1. PICK n \in Nat : n = Len(stats) /\ DOMAIN stats = 1 .. n
  OBVIOUS
<1>2. PICK K : K = {i \in DOMAIN stats : stats[i].time >= now - Day} \cup {n + 1}
  OBVIOUS
<1>3. K \in SUBSET Nat /\ K # {}
  BY <1>1, <1>2
<1>4. PICK m \in K : \A k \in K : m <= k
  BY <1>3, LeastNumber
<1>5. Min(K) \in K /\ \A k \in K : Min(K) <= k
  BY <1>4 DEF Min
<1>6. PICK d \in 0 .. n : d + 1 = Min(K)
  <2>1. Min(K) \in Nat /\ Min(K) <= n + 1 /\ Min(K) # 0
    BY <1>1, <1>2, <1>3, <1>5
  <2>2. Min(K) - 1 \in 0 .. n /\ (Min(K) - 1) + 1 = Min(K)
    BY <2>1
  <2> QED BY <2>2
<1>7. r = SubSeq(stats, d + 1, n)
  BY <1>1, <1>2, <1>6 DEF Expired
<1>8. \A i \in DOMAIN stats : stats[i].time >= now - Day => d < i
  <2> TAKE i \in DOMAIN stats
  <2> HAVE stats[i].time >= now - Day
  <2>1. d + 1 <= i
    BY <1>2, <1>5, <1>6
  <2> QED BY <1>1, <2>1
<1>9. d < n => stats[d + 1].time >= now - Day
  <2>1. d < n => d + 1 # n + 1
    OBVIOUS
  <2> QED BY <1>2, <1>5, <1>6, <2>1
<1> QED BY <1>1, <1>7, <1>8, <1>9

-----------------------------------------------------------------------------
(* The types. *)

Event == BookEvent \cup FillEvent

Replica == [known : BOOLEAN, book : Book, trades : Seq(Trade), stats : Seq(Trade), last : 0 .. MaxTrades]

View == [book : Book, trades : Seq(1 .. MaxTrades), ticker : {TickerOf(r) : r \in Replica}]

EngineTypes ==
  /\ clock \in 0 .. MaxTime
  /\ book \in Book /\ changes \in 0 .. MaxChanges
  /\ fills \in 0 .. MaxTrades /\ outbox \in Seq(Trade) /\ trades \in 0 .. MaxTrades
  /\ fills + trades <= MaxTrades
  /\ ready \in BOOLEAN
  /\ prev \in Book /\ since \in 1 .. SnapshotInterval

LinkTypes ==
  /\ wire \in Seq(Event)
  /\ \A i \in 1 .. Len(wire) : wire[i].kind = "snapshot" => wire[i].delta = wire[i].top
  /\ hole \in BOOLEAN /\ faults \in 0 .. MaxFaults

GatewayTypes ==
  /\ ended \in BOOLEAN
  /\ replica \in Replica /\ Len(replica.trades) <= TradesKept
  /\ applied \in Book \cup {<< >>}

ClientTypes ==
  /\ subscribed \subseteq Clients /\ reading \subseteq Clients /\ missed \subseteq Clients
  /\ view \in [Clients -> View] /\ \A c \in Clients : Len(view[c].trades) <= TradesShown
  /\ subscriptions \in [Clients -> 0 .. MaxSubscriptions]

TInv == EngineTypes /\ LinkTypes /\ GatewayTypes /\ ClientTypes

LEMMA TypesAreTypes == TInv => TypeOK
<1> SUFFICES ASSUME TInv PROVE TypeOK
  OBVIOUS
<1>1. replica.known \in BOOLEAN /\ replica.book \in Book /\ replica.last \in 0 .. MaxTrades
      /\ replica.trades \in Seq(Trade) /\ Len(replica.trades) <= TradesKept /\ replica.stats \in Seq(Trade)
  BY DEF TInv, GatewayTypes, Replica
<1>2. \A c \in Clients : /\ view[c].book \in Book
                         /\ view[c].trades \in Seq(1 .. MaxTrades) /\ Len(view[c].trades) <= TradesShown
  BY DEF TInv, ClientTypes, View
<1> QED BY <1>1, <1>2 DEF TInv, EngineTypes, LinkTypes, GatewayTypes, ClientTypes, TypeOK, Event

LEMMA Constants ==
  /\ SnapshotInterval \in Nat \ {0} /\ QueueCapacity \in Nat \ {0} /\ TradesKept \in Nat \ {0}
  /\ TradesShown \in Nat \ {0} /\ MaxQuantity \in Nat /\ Day \in Nat /\ MaxChanges \in Nat /\ MaxTrades \in Nat
  /\ MaxFaults \in Nat /\ MaxTime \in Nat /\ MaxSubscriptions \in Nat
  BY FeedAssumption

LEMMA ClientsFinite == IsFiniteSet(Clients) /\ IsFiniteSet(BookClients) /\ IsFiniteSet(TickerClients)
  BY FeedAssumption, FS_Subset DEF Clients

LEMMA EmptyBookType == EmptyBook \in Book
  BY FeedAssumption DEF EmptyBook, Book

LEMMA TopType ==
  ASSUME NEW b \in Book
  PROVE  Top(b) \in Book
<1>1. 0 \in 0 .. MaxQuantity
  BY FeedAssumption
<1>2. \A l \in Level : b[l] \in 0 .. MaxQuantity
  BY DEF Book
<1>3. \A l \in Level :
        (IF Cardinality({m \in Present(b) : Better(m, l)}) < MaxLevels THEN b[l] ELSE 0) \in 0 .. MaxQuantity
  BY <1>1, <1>2
<1> QED BY <1>3 DEF Top, Book

LEMMA OverType ==
  ASSUME NEW b \in Book, NEW ls \in SUBSET Level, NEW d \in [ls -> 0 .. MaxQuantity]
  PROVE  Over(d, b) \in Book
  BY DEF Over, Book

\* A book with what changed since is the book now.
LEMMA DeltasFacts ==
  ASSUME NEW old \in Book, NEW new \in Book
  PROVE  /\ Over(Deltas(old, new), old) = new
         /\ \E ls \in SUBSET Level : Deltas(old, new) \in [ls -> 0 .. MaxQuantity]
         /\ Deltas(old, new) = << >> => old = new
<1> DEFINE ls == {m \in Level : old[m] # new[m]}
<1>1. Deltas(old, new) \in [ls -> 0 .. MaxQuantity] /\ ls \in SUBSET Level
  BY DEF Deltas, Book
<1>2. Over(Deltas(old, new), old) = [l \in Level |-> IF l \in ls THEN new[l] ELSE old[l]]
  BY DEF Over, Deltas
<1>3. new = [l \in Level |-> new[l]]
  BY DEF Book
<1>4. \A l \in Level : (IF l \in ls THEN new[l] ELSE old[l]) = new[l]
  OBVIOUS
<1>5. ASSUME Deltas(old, new) = << >>
      PROVE  old = new
  <2>1. ls = {}
    BY <1>1, <1>5
  <2>2. old = [l \in Level |-> old[l]]
    BY DEF Book
  <2> QED BY <1>3, <2>1, <2>2
<1> QED BY <1>1, <1>2, <1>3, <1>4, <1>5

LEMMA NewTicker == NewReplica \in Replica /\ TickerOf(NewReplica) = << <<0, 0, 0>>, << >> >>
<1>1. Present(EmptyBook) = {}
  BY DEF Present, EmptyBook
<1>2. {0} \cup {l[2] : l \in {m \in Present(EmptyBook) : m[1] = "Bid"}} = {0}
  BY <1>1
<1>3. {l[2] : l \in {m \in Present(EmptyBook) : m[1] = "Ask"}} = {}
  BY <1>1
<1>4. BestBid(EmptyBook) = 0 /\ BestAsk(EmptyBook) = 0
  BY <1>2, <1>3 DEF BestBid, BestAsk, Max
<1>5. NewReplica \in Replica
  BY EmptyBookType, FeedAssumption DEF NewReplica, Replica
<1>6. NewReplica.book = EmptyBook /\ NewReplica.stats = << >> /\ NewReplica.last = 0
  BY DEF NewReplica
<1> QED BY <1>4, <1>5, <1>6 DEF TickerOf, LwtOf, StatsOf

LEMMA NewViewType == NewView \in View /\ Len(NewView.trades) <= TradesShown
<1>1. NewView \in View
  BY EmptyBookType, NewTicker DEF NewView, View
<1>2. Len(NewView.trades) = 0
  BY DEF NewView
<1> QED BY <1>1, <1>2, Constants

LEMMA InitTypes == Init => TInv
<1> SUFFICES ASSUME Init PROVE TInv
  OBVIOUS
<1>1. EngineTypes
  <2>1. clock = 0 /\ book = EmptyBook /\ changes = 0 /\ fills = 0 /\ outbox = << >> /\ trades = 0
        /\ ready \in BOOLEAN /\ prev = EmptyBook /\ since = SnapshotInterval
    BY DEF Init
  <2> QED BY <2>1, EmptyBookType, FeedAssumption DEF EngineTypes
<1>2. LinkTypes
  <2>1. wire = << >> /\ hole = FALSE /\ faults = 0
    BY DEF Init
  <2>2. wire \in Seq(Event) /\ Len(wire) = 0
    BY ONLY <2>1
  <2>3. faults \in 0 .. MaxFaults /\ hole \in BOOLEAN
    <3>1. faults \in 0 .. MaxFaults
      BY ONLY <2>1, Constants
    <3> QED BY ONLY <2>1, <3>1
  <2> QED BY ONLY <2>2, <2>3 DEF LinkTypes
<1>3. GatewayTypes
  <2>1. ended = FALSE /\ replica = NewReplica /\ applied = << >> /\ NewReplica.trades = << >>
    BY DEF Init, NewReplica
  <2>2. Len(replica.trades) = 0 /\ TradesKept \in Nat
    BY <2>1, FeedAssumption
  <2>3. ended \in BOOLEAN /\ replica \in Replica /\ applied \in Book \cup {<< >>}
    BY ONLY <2>1, NewTicker
  <2>4. Len(replica.trades) <= TradesKept
    BY ONLY <2>2
  <2> QED BY ONLY <2>3, <2>4 DEF GatewayTypes
<1>4. ClientTypes
  <2>1. /\ subscribed = {} /\ reading = {} /\ missed = {}
        /\ view = [c \in Clients |-> NewView] /\ subscriptions = [c \in Clients |-> 0]
    BY DEF Init
  <2> QED BY <2>1, NewViewType, FeedAssumption DEF ClientTypes
<1> QED BY <1>1, <1>2, <1>3, <1>4 DEF TInv

-----------------------------------------------------------------------------
(* What the steps do to the events under way. *)

\* A datagram that is lost leaves the others as they were, but for the ghost.
LEMMA LoseFacts ==
  ASSUME wire \in Seq(Event), hole \in BOOLEAN, Lose
  PROVE  \E i \in 1 .. Len(wire), counts \in BOOLEAN :
           /\ counts = (wire[i].hole \/ wire[i].kind # "fill")
           /\ wire' \in Seq(Event) /\ Len(wire') = Len(wire) - 1
           /\ hole' = (hole \/ (i = Len(wire) /\ counts))
           /\ \A k \in 1 .. Len(wire') :
                /\ k < i => wire'[k] = wire[k]
                /\ k >= i => /\ wire'[k].kind = wire[k + 1].kind
                             /\ wire'[k].hole = (wire[k + 1].hole \/ (k = i /\ counts))
                             /\ wire[k + 1].kind = "fill" => wire'[k].trade = wire[k + 1].trade
                             /\ wire[k + 1].kind # "fill" => /\ wire'[k].delta = wire[k + 1].delta
                                                             /\ wire'[k].top = wire[k + 1].top
<1>1. PICK n \in Nat : n = Len(wire) /\ DOMAIN wire = 1 .. n
  OBVIOUS
<1>2. PICK i \in 1 .. Len(wire) :
        LET counts == wire[i].hole \/ wire[i].kind # "fill"
            rest == RemoveAt(wire, i)
        IN  IF i \in DOMAIN rest
              THEN /\ wire' = [rest EXCEPT ![i].hole = @ \/ counts]
                   /\ UNCHANGED hole
              ELSE /\ wire' = rest
                   /\ hole' = (hole \/ counts)
  BY <1>1 DEF Lose
<1>3. PICK counts \in BOOLEAN : counts = (wire[i].hole \/ wire[i].kind # "fill")
  OBVIOUS
<1>4. PICK rest : rest = RemoveAt(wire, i)
  OBVIOUS
<1>5. /\ rest \in Seq(Event) /\ Len(rest) = n - 1
      /\ \A k \in 1 .. Len(rest) : rest[k] = IF k < i THEN wire[k] ELSE wire[k + 1]
  BY ONLY SMTT(40), wire \in Seq(Event), i \in 1 .. Len(wire), <1>1, <1>4, RemoveFacts
<1>6. DOMAIN rest = 1 .. n - 1
  BY <1>5
<1>7. CASE i \in DOMAIN rest
  <2>1. wire' = [rest EXCEPT ![i].hole = rest[i].hole \/ counts] /\ hole' = hole
    BY <1>2, <1>3, <1>4, <1>7
  <2>2. rest[i] \in Event /\ i \in 1 .. Len(rest)
    BY <1>5, <1>6, <1>7
  <2>3. PICK new : new = [rest[i] EXCEPT !.hole = rest[i].hole \/ counts]
    OBVIOUS
  <2>4. /\ new \in Event /\ new.kind = rest[i].kind /\ new.hole = (rest[i].hole \/ counts)
        /\ rest[i].kind = "fill" => new.trade = rest[i].trade
        /\ rest[i].kind # "fill" => new.delta = rest[i].delta /\ new.top = rest[i].top
    <3>1. CASE rest[i] \in BookEvent
      BY <2>3, <3>1 DEF BookEvent, Event
    <3>2. CASE rest[i] \in FillEvent
      BY <2>3, <3>2 DEF FillEvent, Event
    <3> QED BY <2>2, <3>1, <3>2 DEF Event
  <2>5. wire' = [rest EXCEPT ![i] = new]
    BY <2>1, <2>3
  <2>6. /\ wire' \in Seq(Event) /\ Len(wire') = Len(rest)
        /\ \A k \in 1 .. Len(rest) : wire'[k] = IF k = i THEN new ELSE rest[k]
    BY <2>2, <2>4, <2>5, <1>5
  <2>7. i # n
    BY <1>6, <1>7
  <2>8. ASSUME NEW k \in 1 .. Len(wire')
        PROVE  /\ k < i => wire'[k] = wire[k]
               /\ k >= i => /\ wire'[k].kind = wire[k + 1].kind
                            /\ wire'[k].hole = (wire[k + 1].hole \/ (k = i /\ counts))
                            /\ wire[k + 1].kind = "fill" => wire'[k].trade = wire[k + 1].trade
                            /\ wire[k + 1].kind # "fill" => /\ wire'[k].delta = wire[k + 1].delta
                                                            /\ wire'[k].top = wire[k + 1].top
    <3>1. wire[k + 1] \in Event
      BY <1>1, <1>5, <2>6, <2>8
    <3>2. wire[k + 1].hole \in BOOLEAN
      BY <3>1 DEF Event, BookEvent, FillEvent
    <3>3. CASE k < i
      BY <1>5, <2>6, <3>3
    <3>4. CASE k = i
      <4>1. wire'[k] = new /\ rest[i] = wire[k + 1]
        BY <1>5, <2>6, <3>4
      <4> QED BY <2>4, <4>1, <3>4
    <3>5. CASE k > i
      <4>1. wire'[k] = wire[k + 1]
        BY <1>1, <1>5, <2>6, <2>8, <3>5
      <4> QED BY <4>1, <3>2, <3>5
    <3> QED BY <3>3, <3>4, <3>5, <1>5, <2>6
  <2>9. i \in 1 .. Len(wire) /\ wire' \in Seq(Event) /\ Len(wire') = Len(wire) - 1
        /\ hole' = (hole \/ (i = Len(wire) /\ counts))
    BY <1>1, <1>5, <2>1, <2>6, <2>7
  <2> WITNESS i \in 1 .. Len(wire), counts \in BOOLEAN
  <2> QED BY ONLY <1>3, <2>8, <2>9
<1>8. CASE i \notin DOMAIN rest
  <2>1. wire' = rest /\ hole' = (hole \/ counts)
    BY <1>2, <1>3, <1>4, <1>8
  <2>2. i = n
    BY <1>1, <1>6, <1>8
  <2>3. \A k \in 1 .. Len(wire') : k < i /\ wire'[k] = wire[k]
    BY <1>5, <2>1, <2>2
  <2>4. i \in 1 .. Len(wire) /\ wire' \in Seq(Event) /\ Len(wire') = Len(wire) - 1
        /\ hole' = (hole \/ (i = Len(wire) /\ counts))
    BY <1>1, <1>5, <2>1, <2>2
  <2>5. \A k \in 1 .. Len(wire') : ~(k >= i)
    BY <1>1, <2>2, <2>4
  <2> WITNESS i \in 1 .. Len(wire), counts \in BOOLEAN
  <2> QED BY ONLY <1>3, <2>3, <2>4, <2>5
<1> QED BY <1>7, <1>8

\* An event is added behind the others.
LEMMA AddFacts ==
  ASSUME NEW S, NEW s \in Seq(S), NEW e \in S, NEW r, r = Append(s, e)
  PROVE  /\ r \in Seq(S) /\ Len(r) = Len(s) + 1 /\ r # << >>
         /\ \A k \in 1 .. Len(s) : r[k] = s[k]
         /\ r[Len(s) + 1] = e
         /\ Range(r) = Range(s) \cup {e}
<1>1. PICK n \in Nat : n = Len(s) /\ DOMAIN s = 1 .. n
  OBVIOUS
<1>2. /\ r \in Seq(S) /\ Len(r) = n + 1 /\ DOMAIN r = 1 .. n + 1
      /\ \A k \in 1 .. n : r[k] = s[k]
      /\ r[n + 1] = e
  BY <1>1
<1> QED BY <1>1, <1>2 DEF Range

\* The head of a sequence, and the rest of it.
LEMMA HeadFacts ==
  ASSUME NEW S, NEW s \in Seq(S), s # << >>, NEW r, r = Tail(s)
  PROVE  /\ Len(s) \in Nat \ {0} /\ Head(s) = s[1] /\ Head(s) \in S
         /\ r \in Seq(S) /\ Len(r) = Len(s) - 1
         /\ \A i \in 1 .. Len(r) : i + 1 \in 1 .. Len(s) /\ r[i] = s[i + 1]
         /\ Range(r) \subseteq Range(s) /\ Head(s) \in Range(s)
<1>1. PICK n \in Nat \ {0} : n = Len(s) /\ DOMAIN s = 1 .. n
  OBVIOUS
<1>2. /\ Head(s) = s[1] /\ s[1] \in S /\ r \in Seq(S) /\ Len(r) = n - 1 /\ DOMAIN r = 1 .. n - 1
      /\ \A i \in 1 .. n - 1 : r[i] = s[i + 1]
  BY <1>1
<1>3. \A i \in 1 .. n - 1 : i + 1 \in 1 .. n
  OBVIOUS
<1> QED BY <1>1, <1>2, <1>3 DEF Range

-----------------------------------------------------------------------------
(* What an event does to the replica and to a view. *)

LEMMA AppliedFacts ==
  ASSUME NEW r \in Replica, Len(r.trades) <= TradesKept, NEW e \in Event,
         e.kind = "snapshot" => e.delta = e.top
  PROVE  /\ Applied(r, e) \in Replica /\ Len(Applied(r, e).trades) <= TradesKept
         /\ Applied(r, e).known = TRUE
         /\ e.kind = "snapshot" => Applied(r, e).book = e.top /\ e.top \in Book
         /\ e.kind = "delta" => Applied(r, e).book = Over(e.delta, r.book) /\ e.top \in Book
         /\ e.kind = "fill" =>
              /\ e.trade \in Trade
              /\ Applied(r, e).book = r.book /\ Applied(r, e).last = e.trade.num
              /\ Applied(r, e).trades = Kept(Append(r.trades, e.trade))
              /\ Applied(r, e).stats = Expired(Append(r.stats, e.trade), e.trade.time)
         /\ e.kind # "fill" =>
              /\ e.kind = "snapshot" \/ e.kind = "delta"
              /\ Applied(r, e).trades = r.trades /\ Applied(r, e).stats = r.stats
              /\ Applied(r, e).last = r.last
<1>1. CASE e.kind = "snapshot"
  <2>1. e \in BookEvent
    BY <1>1 DEF Event, FillEvent
  <2>2. e.delta = e.top /\ e.top \in Book
    BY <1>1, <2>1 DEF BookEvent
  <2>3. Applied(r, e) = [r EXCEPT !.known = TRUE, !.book = e.delta]
    BY <1>1 DEF Applied
  <2>4. Applied(r, e) = [known |-> TRUE, book |-> e.top, trades |-> r.trades, stats |-> r.stats, last |-> r.last]
    BY <2>2, <2>3 DEF Replica
  <2> QED BY <1>1, <2>2, <2>4 DEF Replica
<1>2. CASE e.kind = "delta"
  <2>1. e \in BookEvent
    BY <1>2 DEF Event, FillEvent
  <2>2. e.top \in Book /\ \E ls \in SUBSET Level : e.delta \in [ls -> 0 .. MaxQuantity]
    BY <2>1 DEF BookEvent
  <2>3. Over(e.delta, r.book) \in Book
    BY <2>2, OverType DEF Replica
  <2>4. Applied(r, e) = [r EXCEPT !.known = TRUE, !.book = Over(e.delta, r.book)]
    BY <1>2 DEF Applied
  <2>5. Applied(r, e) = [known |-> TRUE, book |-> Over(e.delta, r.book), trades |-> r.trades,
                         stats |-> r.stats, last |-> r.last]
    BY <2>4 DEF Replica
  <2> QED BY <1>2, <2>2, <2>3, <2>5 DEF Replica
<1>3. CASE e.kind = "fill"
  <2>1. e \in FillEvent
    BY <1>3 DEF Event, BookEvent
  <2>2. e.trade \in Trade /\ e.trade.num \in 1 .. MaxTrades /\ e.trade.time \in Int
    BY <2>1 DEF FillEvent, Trade
  <2>3. PICK ts, st : ts = Append(r.trades, e.trade) /\ st = Append(r.stats, e.trade)
    OBVIOUS
  <2>4. ts \in Seq(Trade) /\ st \in Seq(Trade)
    BY <2>2, <2>3 DEF Replica
  <2>5. Kept(ts) \in Seq(Trade) /\ Len(Kept(ts)) <= TradesKept
    BY ONLY <2>4, Constants, LatestFacts DEF Kept
  <2>6. Expired(st, e.trade.time) \in Seq(Trade)
    <3>1. PICK d \in 0 .. Len(st) : Expired(st, e.trade.time) = SubSeq(st, d + 1, Len(st))
      BY <2>2, <2>4, ExpiredFacts
    <3> QED BY <2>4, <3>1, DropFacts
  <2>7. Applied(r, e) = [r EXCEPT !.known = TRUE, !.trades = Kept(ts), !.stats = Expired(st, e.trade.time),
                                  !.last = e.trade.num]
    BY <1>3, <2>3 DEF Applied
  <2>8. Applied(r, e) = [known |-> TRUE, book |-> r.book, trades |-> Kept(ts),
                         stats |-> Expired(st, e.trade.time), last |-> e.trade.num]
    BY <2>7 DEF Replica
  <2>9. Applied(r, e) \in Replica
    <3>1. TRUE \in BOOLEAN /\ r.book \in Book /\ e.trade.num \in 0 .. MaxTrades
      <4>1. MaxTrades \in Nat
        BY FeedAssumption
      <4>2. r.book \in Book
        BY DEF Replica
      <4> QED BY <2>2, <4>1, <4>2
    <3> QED BY <2>5, <2>6, <2>8, <3>1 DEF Replica
  <2> QED BY <1>3, <2>2, <2>3, <2>5, <2>8, <2>9
<1>4. e.kind \in {"snapshot", "delta", "fill"}
  BY DEF Event, BookEvent, FillEvent
<1> QED BY <1>1, <1>2, <1>3, <1>4

LEMMA ShownFacts ==
  ASSUME NEW c \in Clients, view \in [Clients -> View], NEW e \in Event, NEW r \in Replica,
         NEW v, v = Shown(c, e, r)
  PROVE  /\ v \in View
         /\ Len(view[c].trades) <= TradesShown => Len(v.trades) <= TradesShown
         /\ c \in TickerClients =>
              v.ticker = TickerOf(r) /\ v.trades = view[c].trades /\ v.book = view[c].book
         /\ c \notin TickerClients /\ e.kind = "fill" =>
              /\ v.trades = Latest(Append(view[c].trades, e.trade.num), TradesShown)
              /\ v.book = view[c].book /\ v.ticker = view[c].ticker
         /\ c \notin TickerClients /\ e.kind # "fill" =>
              /\ v.book = Over(e.delta, IF e.kind = "snapshot" THEN EmptyBook ELSE view[c].book)
              /\ v.trades = view[c].trades /\ v.ticker = view[c].ticker
<1>1. view[c] \in View
  OBVIOUS
<1>2. CASE c \in TickerClients
  <2>1. v = [view[c] EXCEPT !.ticker = TickerOf(r)]
    BY <1>2 DEF Shown
  <2>2. v = [book |-> view[c].book, trades |-> view[c].trades, ticker |-> TickerOf(r)]
    BY <1>1, <2>1 DEF View
  <2> QED BY <1>1, <1>2, <2>2 DEF View
<1>3. CASE c \notin TickerClients /\ e.kind = "fill"
  <2>1. e.trade.num \in 1 .. MaxTrades
    BY <1>3 DEF Event, BookEvent, FillEvent, Trade
  <2>2. PICK ts : ts = Latest(Append(view[c].trades, e.trade.num), TradesShown)
    OBVIOUS
  <2>3. ts \in Seq(1 .. MaxTrades) /\ Len(ts) <= TradesShown
    <3>1. Append(view[c].trades, e.trade.num) \in Seq(1 .. MaxTrades)
      BY <1>1, <2>1 DEF View
    <3> QED BY ONLY <2>2, <3>1, Constants, LatestFacts
  <2>4. v = [view[c] EXCEPT !.trades = ts]
    BY <1>3, <2>2 DEF Shown
  <2>5. v = [book |-> view[c].book, trades |-> ts, ticker |-> view[c].ticker]
    BY <1>1, <2>4 DEF View
  <2> QED BY <1>1, <1>3, <2>2, <2>3, <2>5 DEF View
<1>4. CASE c \notin TickerClients /\ e.kind # "fill"
  <2>1. \E ls \in SUBSET Level : e.delta \in [ls -> 0 .. MaxQuantity]
    BY <1>4 DEF Event, BookEvent, FillEvent
  <2>2. PICK b : b = IF e.kind = "snapshot" THEN EmptyBook ELSE view[c].book
    OBVIOUS
  <2>3. b \in Book
    BY <1>1, <2>2, EmptyBookType DEF View
  <2>4. Over(e.delta, b) \in Book
    BY <2>1, <2>3, OverType
  <2>5. v = [view[c] EXCEPT !.book = Over(e.delta, b)]
    BY <1>4, <2>2 DEF Shown
  <2>6. v = [book |-> Over(e.delta, b), trades |-> view[c].trades, ticker |-> view[c].ticker]
    BY <1>1, <2>5 DEF View
  <2> QED BY <1>1, <1>4, <2>2, <2>4, <2>6 DEF View
<1> QED BY <1>2, <1>3, <1>4

\* A snapshot puts the numbers of its trades behind those that are shown, and shows the last.
LEMMA SnapshotFacts ==
  ASSUME NEW v \in View, NEW r \in Replica
  PROVE  /\ WithSnapshot(v, r) \in View /\ Len(WithSnapshot(v, r).trades) <= TradesShown
         /\ WithSnapshot(v, r).book = r.book /\ WithSnapshot(v, r).ticker = v.ticker
         /\ \E ts \in Seq(1 .. MaxTrades) :
              /\ WithSnapshot(v, r).trades = Latest(ts, TradesShown)
              /\ Len(ts) = Len(v.trades) + Len(r.trades)
              /\ \A i \in 1 .. Len(v.trades) : ts[i] = v.trades[i]
              /\ \A i \in 1 .. Len(r.trades) : ts[Len(v.trades) + i] = r.trades[i].num
<1>1. PICK w : w = WithSnapshot(v, r)
  OBVIOUS
<1>2. PICK ns : ns = [i \in DOMAIN r.trades |-> r.trades[i].num]
  OBVIOUS
<1>3. PICK n \in Nat : n = Len(r.trades) /\ DOMAIN r.trades = 1 .. n /\ \A i \in 1 .. n : r.trades[i] \in Trade
  BY DEF Replica
<1>4. ns \in Seq(1 .. MaxTrades) /\ Len(ns) = n /\ \A i \in 1 .. n : ns[i] = r.trades[i].num
  <2>1. \A i \in 1 .. n : r.trades[i].num \in 1 .. MaxTrades
    BY <1>3 DEF Trade
  <2>2. ns = [i \in 1 .. n |-> r.trades[i].num]
    BY <1>2, <1>3
  <2>3. ns \in [1 .. n -> 1 .. MaxTrades]
    BY ONLY <2>1, <2>2
  <2> QED BY <2>2, <2>3
<1>5. v.trades \in Seq(1 .. MaxTrades)
  BY DEF View
<1>6. PICK ts : ts = v.trades \o ns
  OBVIOUS
<1>7. /\ ts \in Seq(1 .. MaxTrades) /\ Len(ts) = Len(v.trades) + Len(ns)
      /\ \A k \in 1 .. Len(v.trades) + Len(ns) :
           ts[k] = IF k <= Len(v.trades) THEN v.trades[k] ELSE ns[k - Len(v.trades)]
  BY ONLY <1>4, <1>5, <1>6, ConcatProperties
<1>8. PICK l : l = Latest(ts, TradesShown)
  OBVIOUS
<1>9. l \in Seq(1 .. MaxTrades) /\ Len(l) <= TradesShown
  BY ONLY <1>7, <1>8, Constants, LatestFacts
<1>10. w = [v EXCEPT !.book = r.book, !.trades = l]
  BY <1>1, <1>2, <1>6, <1>8 DEF WithSnapshot
<1>11. w = [book |-> r.book, trades |-> l, ticker |-> v.ticker]
  BY <1>10 DEF View
<1>12. w \in View /\ w.book = r.book /\ w.trades = l /\ w.ticker = v.ticker
  BY <1>9, <1>11 DEF View, Replica
<1>13. PICK m \in Nat : m = Len(v.trades)
  BY <1>5
<1>14. \A i \in 1 .. m : ts[i] = v.trades[i]
  <2>1. \A i \in 1 .. m : i \in 1 .. m + n /\ i <= m
    OBVIOUS
  <2> QED BY <1>4, <1>7, <1>13, <2>1
<1>15. \A i \in 1 .. n : ts[m + i] = r.trades[i].num
  <2>1. \A i \in 1 .. n : m + i \in 1 .. m + n /\ ~(m + i <= m) /\ (m + i) - m = i
    OBVIOUS
  <2> QED BY <1>4, <1>7, <1>13, <2>1
<1>16. Len(ts) = Len(v.trades) + Len(r.trades)
  BY <1>3, <1>4, <1>7
<1>17. \A i \in 1 .. Len(v.trades) : ts[i] = v.trades[i]
  BY <1>13, <1>14
<1>18. \A i \in 1 .. Len(r.trades) : ts[Len(v.trades) + i] = r.trades[i].num
  BY <1>3, <1>13, <1>15
<1> QED BY ONLY <1>1, <1>7, <1>8, <1>9, <1>12, <1>16, <1>17, <1>18

-----------------------------------------------------------------------------
(* Every step keeps the types. *)

LEMMA ChangeTypes == TInv /\ Change => TInv'
<1> SUFFICES ASSUME TInv, Change PROVE TInv'
  OBVIOUS
<1>1. book' \in Book /\ changes' \in 0 .. MaxChanges
  BY Constants DEF TInv, EngineTypes, Change, Book
<1>2. UNCHANGED <<clock, fills, outbox, trades, ready, prev, since, link, gateway, clients>>
  BY DEF Change
<1>3. EngineTypes'
  BY <1>1, <1>2 DEF TInv, EngineTypes
<1>4. LinkTypes' /\ GatewayTypes' /\ ClientTypes'
  BY <1>2 DEF TInv, LinkTypes, GatewayTypes, ClientTypes, link, gateway, clients
<1> QED BY <1>3, <1>4 DEF TInv

LEMMA MatchTypes == TInv /\ Match => TInv'
<1> SUFFICES ASSUME TInv, Match PROVE TInv'
  OBVIOUS
<1>1. changes' \in 0 .. MaxChanges
  BY Constants DEF TInv, EngineTypes, Match
<1>2. UNCHANGED <<clock, outbox, trades, ready, prev, since, link, gateway, clients>>
  BY DEF Match
<1>3. PICK l \in Level : \E n \in 1 .. book[l] :
        book' = [book EXCEPT ![l] = @ - n] /\ fills' \in 1 .. MaxTrades - trades
  BY DEF Match, Present
<1>4. PICK n \in 1 .. book[l] :
        book' = [book EXCEPT ![l] = @ - n] /\ fills' \in 1 .. MaxTrades - trades
  BY <1>3
<1>5. book \in Book /\ trades \in 0 .. MaxTrades
  BY DEF TInv, EngineTypes
<1>6. book' \in Book
  <2>1. book[l] \in 0 .. MaxQuantity
    BY <1>5 DEF Book
  <2>2. book[l] - n \in 0 .. MaxQuantity
    BY <2>1, Constants
  <2> QED BY <1>5, <1>4, <2>2 DEF Book
<1>7. fills' \in 0 .. MaxTrades /\ fills' + trades <= MaxTrades
  <2>1. fills' \in 1 .. MaxTrades - trades /\ trades \in 0 .. MaxTrades
    BY <1>5, <1>4
  <2>2. MaxTrades \in Nat
    BY Constants
  <2>3. PICK m \in Nat, k \in Int, j \in Int : m = MaxTrades /\ k = trades /\ j = fills'
    BY <2>1, <2>2
  <2>4. k \in 0 .. m /\ j \in 1 .. m - k
    BY <2>1, <2>3
  <2>5. j \in 0 .. m /\ j + k <= m
    BY ONLY <2>4, m \in Nat, k \in Int, j \in Int
  <2> QED BY <2>3, <2>5
<1>8. EngineTypes'
  BY <1>1, <1>2, <1>6, <1>7 DEF TInv, EngineTypes
<1>9. LinkTypes' /\ GatewayTypes' /\ ClientTypes'
  BY <1>2 DEF TInv, LinkTypes, GatewayTypes, ClientTypes, link, gateway, clients
<1> QED BY <1>8, <1>9 DEF TInv

LEMMA SettleTypes == TInv /\ Settle => TInv'
<1> SUFFICES ASSUME TInv, Settle PROVE TInv'
  OBVIOUS
<1>1. fills \in 0 .. MaxTrades /\ trades \in 0 .. MaxTrades /\ fills + trades <= MaxTrades
      /\ clock \in 0 .. MaxTime /\ outbox \in Seq(Trade)
  BY DEF TInv, EngineTypes
<1>2. fills > 0 /\ fills' = fills - 1 /\ trades' = trades + 1 /\ clock' \in clock .. MaxTime
      /\ UNCHANGED <<book, changes, ready, prev, since, link, gateway, clients>>
  BY DEF Settle
<1>3. fills' \in 0 .. MaxTrades /\ trades' \in 0 .. MaxTrades /\ fills' + trades' <= MaxTrades
      /\ clock' \in 0 .. MaxTime /\ trades + 1 \in 1 .. MaxTrades
  BY <1>1, <1>2, Constants
<1>4. outbox' \in Seq(Trade)
  <2>1. [num |-> trades + 1, time |-> clock'] \in Trade
    BY <1>3 DEF Trade
  <2>2. outbox' = outbox \/ outbox' = Append(outbox, [num |-> trades + 1, time |-> clock'])
    BY DEF Settle
  <2> QED BY <1>1, <2>1, <2>2
<1>5. EngineTypes'
  BY <1>2, <1>3, <1>4 DEF TInv, EngineTypes
<1>6. LinkTypes' /\ GatewayTypes' /\ ClientTypes'
  BY <1>2 DEF TInv, LinkTypes, GatewayTypes, ClientTypes, link, gateway, clients
<1> QED BY <1>5, <1>6 DEF TInv

LEMMA AddTypes ==
  ASSUME LinkTypes, NEW e \in Event, e.kind = "snapshot" => e.delta = e.top,
         wire' = Append(wire, e), hole' = FALSE, faults' = faults
  PROVE  LinkTypes'
<1>1. wire \in Seq(Event) /\ \A i \in 1 .. Len(wire) : wire[i].kind = "snapshot" => wire[i].delta = wire[i].top
  BY DEF LinkTypes
<1>2. /\ wire' \in Seq(Event) /\ Len(wire') = Len(wire) + 1 /\ wire'[Len(wire) + 1] = e
      /\ \A k \in 1 .. Len(wire) : wire'[k] = wire[k]
  BY <1>1, AddFacts
<1>3. ASSUME NEW i \in 1 .. Len(wire'), wire'[i].kind = "snapshot"
      PROVE  wire'[i].delta = wire'[i].top
  <2>1. i \in 1 .. Len(wire) \/ i = Len(wire) + 1
    BY <1>1, <1>2
  <2> QED BY <1>1, <1>2, <1>3, <2>1
<1> QED BY <1>2, <1>3 DEF LinkTypes

LEMMA SendFillTypes == TInv /\ SendFill => TInv'
<1> SUFFICES ASSUME TInv, SendFill PROVE TInv'
  OBVIOUS
<1>1. outbox # << >> /\ outbox \in Seq(Trade) /\ LinkTypes /\ hole \in BOOLEAN
  BY DEF SendFill, TInv, EngineTypes, LinkTypes
<1>2. UNCHANGED <<clock, book, changes, fills, trades, ready, prev, since, faults, gateway, clients>>
  BY DEF SendFill
<1>3. Head(outbox) \in Trade /\ Tail(outbox) \in Seq(Trade)
  BY <1>1, HeadFacts
<1>4. outbox' \in Seq(Trade) /\ LinkTypes'
  <2>1. CASE CanSend
    <3>1. PICK e : e = [kind |-> "fill", trade |-> Head(outbox), hole |-> hole]
      OBVIOUS
    <3>2. e \in Event /\ e.kind = "fill"
      BY <1>1, <1>3, <3>1 DEF Event, FillEvent
    <3>3. wire' = Append(wire, e) /\ hole' = FALSE /\ faults' = faults /\ outbox' = Tail(outbox)
      BY <1>2, <2>1, <3>1 DEF SendFill
    <3>4. e.kind = "snapshot" => e.delta = e.top
      BY <3>2
    <3>5. LinkTypes'
      BY <1>1, <3>2, <3>3, <3>4, AddTypes
    <3> QED BY <1>3, <3>3, <3>5
  <2>2. CASE ~CanSend
    <3>1. wire' = wire /\ hole' = hole /\ faults' = faults /\ outbox' = << >>
      BY <1>2, <2>2 DEF SendFill
    <3> QED BY <1>1, <3>1 DEF LinkTypes
  <2> QED BY <2>1, <2>2
<1>5. EngineTypes'
  BY <1>2, <1>4 DEF TInv, EngineTypes
<1>6. GatewayTypes' /\ ClientTypes'
  BY <1>2 DEF TInv, GatewayTypes, ClientTypes, gateway, clients
<1> QED BY <1>4, <1>5, <1>6 DEF TInv

LEMMA ResolveTypes == TInv /\ Resolve => TInv'
<1> SUFFICES ASSUME TInv, Resolve PROVE TInv'
  OBVIOUS
<1>1. UNCHANGED <<clock, book, changes, fills, outbox, trades, prev, since, link, gateway, clients>>
      /\ ready' = TRUE
  BY DEF Resolve
<1>2. EngineTypes'
  BY <1>1 DEF TInv, EngineTypes
<1>3. LinkTypes' /\ GatewayTypes' /\ ClientTypes'
  BY <1>1 DEF TInv, LinkTypes, GatewayTypes, ClientTypes, link, gateway, clients
<1> QED BY <1>2, <1>3 DEF TInv

\* The event of a round of the publisher.
LEMMA TickFacts ==
  ASSUME TInv, Tick
  PROVE  /\ prev' = Top(book) /\ prev' \in Book /\ since' \in 1 .. SnapshotInterval
         /\ UNCHANGED <<clock, book, changes, fills, outbox, trades, ready, faults, gateway, clients>>
         /\ \/ \E e \in Event :
                 /\ wire' = Append(wire, e) /\ hole' = FALSE
                 /\ e.hole = hole /\ e.top = Top(book)
                 /\ \/ e.kind = "snapshot" /\ e.delta = e.top
                    \/ e.kind = "delta" /\ since < SnapshotInterval /\ Over(e.delta, prev) = e.top
            \/ wire' = wire /\ hole' = hole /\ prev' = prev /\ since < SnapshotInterval
<1>1. book \in Book /\ prev \in Book /\ since \in 1 .. SnapshotInterval /\ hole \in BOOLEAN
  BY DEF TInv, EngineTypes, LinkTypes
<1>2. Top(book) \in Book
  BY <1>1, TopType
<1>3. prev' = Top(book)
      /\ UNCHANGED <<clock, book, changes, fills, outbox, trades, ready, faults, gateway, clients>>
  BY DEF Tick
<1>4. CASE SnapshotDue
  <2>1. PICK e : e = [kind |-> "snapshot", delta |-> Top(book), top |-> Top(book), hole |-> hole]
    OBVIOUS
  <2>2. wire' = Append(wire, e) /\ hole' = FALSE /\ since' = 1
    BY <1>4, <2>1 DEF Tick, SendBook
  <2>3. Top(book) \in [Level -> 0 .. MaxQuantity] /\ Level \in SUBSET Level
    BY <1>2 DEF Book
  <2>4. Top(book) \in UNION {[ls -> 0 .. MaxQuantity] : ls \in SUBSET Level}
    BY <2>3
  <2>5. e \in Event
    BY <1>1, <1>2, <2>1, <2>4 DEF Event, BookEvent
  <2>6. e.hole = hole /\ e.top = Top(book) /\ e.kind = "snapshot" /\ e.delta = e.top
    BY <2>1
  <2>7. since' \in 1 .. SnapshotInterval
    BY <2>2, Constants
  <2> QED BY <1>2, <1>3, <2>2, <2>5, <2>6, <2>7
<1>5. CASE ~SnapshotDue
  <2>1. since < SnapshotInterval /\ since' = since + 1
    BY <1>1, <1>5, Constants DEF SnapshotDue, Tick
  <2>2. since' \in 1 .. SnapshotInterval
    BY <1>1, <2>1, Constants
  <2>3. PICK d : d = Deltas(prev, Top(book))
    OBVIOUS
  <2>4. /\ Over(d, prev) = Top(book)
        /\ d \in UNION {[ls -> 0 .. MaxQuantity] : ls \in SUBSET Level}
        /\ d = << >> => prev = Top(book)
    BY <1>1, <1>2, <2>3, DeltasFacts
  <2>5. CASE d # << >>
    <3>1. PICK e : e = [kind |-> "delta", delta |-> d, top |-> Top(book), hole |-> hole]
      OBVIOUS
    <3>2. wire' = Append(wire, e) /\ hole' = FALSE
      BY <1>5, <2>3, <2>5, <3>1 DEF Tick, SendBook
    <3>3. e \in Event
      BY <1>1, <1>2, <2>4, <3>1 DEF Event, BookEvent
    <3>4. e.hole = hole /\ e.top = Top(book) /\ e.kind = "delta" /\ Over(e.delta, prev) = e.top
      BY <2>4, <3>1
    <3> QED BY <1>2, <1>3, <2>1, <2>2, <3>2, <3>3, <3>4
  <2>6. CASE d = << >>
    <3>1. wire' = wire /\ hole' = hole
      BY <1>5, <2>3, <2>6 DEF Tick
    <3> QED BY <1>2, <1>3, <2>1, <2>2, <2>4, <2>6, <3>1
  <2> QED BY <2>5, <2>6
<1> QED BY <1>4, <1>5

LEMMA TickTypes == TInv /\ Tick => TInv'
<1> SUFFICES ASSUME TInv, Tick PROVE TInv'
  OBVIOUS
<1>1. /\ prev' \in Book /\ since' \in 1 .. SnapshotInterval
      /\ UNCHANGED <<clock, book, changes, fills, outbox, trades, ready, faults, gateway, clients>>
  BY TickFacts
<1>2. \/ \E e \in Event :
           /\ wire' = Append(wire, e) /\ hole' = FALSE
           /\ e.kind = "snapshot" => e.delta = e.top
      \/ wire' = wire /\ hole' = hole
  BY TickFacts
<1>3. LinkTypes'
  <2>1. LinkTypes /\ faults' = faults
    BY <1>1 DEF TInv
  <2>2. CASE wire' = wire /\ hole' = hole
    BY <2>1, <2>2 DEF LinkTypes
  <2>3. CASE ~(wire' = wire /\ hole' = hole)
    <3>1. PICK e \in Event : /\ wire' = Append(wire, e) /\ hole' = FALSE
                             /\ e.kind = "snapshot" => e.delta = e.top
      BY <1>2, <2>3
    <3> QED BY <2>1, <3>1, AddTypes
  <2> QED BY <2>2, <2>3
<1>4. EngineTypes'
  BY <1>1 DEF TInv, EngineTypes
<1>5. GatewayTypes' /\ ClientTypes'
  BY <1>1 DEF TInv, GatewayTypes, ClientTypes, gateway, clients
<1> QED BY <1>3, <1>4, <1>5 DEF TInv

LEMMA LoseTypes == TInv /\ Lose => TInv'
<1> SUFFICES ASSUME TInv, Lose PROVE TInv'
  OBVIOUS
<1>1. UNCHANGED <<engine, gateway, clients>> /\ faults' \in 0 .. MaxFaults
  BY Constants DEF TInv, LinkTypes, Lose
<1>2. wire \in Seq(Event) /\ hole \in BOOLEAN
      /\ \A i \in 1 .. Len(wire) : wire[i].kind = "snapshot" => wire[i].delta = wire[i].top
  BY DEF TInv, LinkTypes
<1>3. PICK i \in 1 .. Len(wire), counts \in BOOLEAN :
           /\ wire' \in Seq(Event) /\ Len(wire') = Len(wire) - 1
           /\ hole' = (hole \/ (i = Len(wire) /\ counts))
           /\ \A k \in 1 .. Len(wire') :
                /\ k < i => wire'[k] = wire[k]
                /\ k >= i => /\ wire'[k].kind = wire[k + 1].kind
                             /\ wire[k + 1].kind # "fill" => /\ wire'[k].delta = wire[k + 1].delta
                                                             /\ wire'[k].top = wire[k + 1].top
  BY <1>2, LoseFacts
<1>4. ASSUME NEW k \in 1 .. Len(wire'), wire'[k].kind = "snapshot"
      PROVE  wire'[k].delta = wire'[k].top
  <2>1. k \in 1 .. Len(wire) /\ k + 1 \in 1 .. Len(wire)
    BY <1>2, <1>3
  <2>2. CASE k < i
    BY <1>2, <1>3, <1>4, <2>1, <2>2
  <2>3. CASE k >= i
    BY <1>2, <1>3, <1>4, <2>1, <2>3
  <2> QED BY <2>1, <2>2, <2>3
<1>5. hole' \in BOOLEAN
  BY <1>2, <1>3
<1>6. LinkTypes'
  BY <1>1, <1>3, <1>4, <1>5 DEF LinkTypes
<1>7. EngineTypes' /\ GatewayTypes' /\ ClientTypes'
  BY <1>1 DEF TInv, EngineTypes, GatewayTypes, ClientTypes, engine, gateway, clients
<1> QED BY <1>6, <1>7 DEF TInv

LEMMA DropTypes ==
  ASSUME LinkTypes, NEW d \in 0 .. Len(wire), wire' = SubSeq(wire, d + 1, Len(wire)),
         hole' = hole, faults' \in 0 .. MaxFaults
  PROVE  LinkTypes'
<1>1. wire \in Seq(Event) /\ \A i \in 1 .. Len(wire) : wire[i].kind = "snapshot" => wire[i].delta = wire[i].top
  BY DEF LinkTypes
<1>2. /\ wire' \in Seq(Event)
      /\ \A i \in 1 .. Len(wire') : i + d \in 1 .. Len(wire) /\ wire'[i] = wire[i + d]
  BY SMTT(30), <1>1, DropFacts
<1> QED BY <1>1, <1>2 DEF LinkTypes

LEMMA TailIsDrop ==
  ASSUME NEW S, NEW s \in Seq(S), s # << >>
  PROVE  1 \in 0 .. Len(s) /\ Tail(s) = SubSeq(s, 1 + 1, Len(s))
<1>1. Len(s) \in Nat \ {0}
  BY HeadFacts
<1>2. Tail(s) = SubSeq(s, 2, Len(s))
  BY TailIsSubSeq
<1> QED BY <1>1, <1>2

LEMMA FallBehindTypes == TInv /\ FallBehind => TInv'
<1> SUFFICES ASSUME TInv, FallBehind PROVE TInv'
  OBVIOUS
<1>1. UNCHANGED <<engine, wire, hole, replica, applied, clients>> /\ faults' \in 0 .. MaxFaults /\ ended' = TRUE
  BY Constants DEF TInv, LinkTypes, FallBehind
<1>2. LinkTypes' /\ GatewayTypes'
  BY <1>1 DEF TInv, LinkTypes, GatewayTypes
<1>3. EngineTypes' /\ ClientTypes'
  BY <1>1 DEF TInv, EngineTypes, ClientTypes, engine, clients
<1> QED BY <1>2, <1>3 DEF TInv

LEMMA IgnoreTypes == TInv /\ Ignore => TInv'
<1> SUFFICES ASSUME TInv, Ignore PROVE TInv'
  OBVIOUS
<1>1. UNCHANGED <<engine, hole, faults, gateway, clients>> /\ wire # << >> /\ wire' = Tail(wire)
  BY DEF Ignore
<1>2. LinkTypes /\ wire \in Seq(Event) /\ faults \in 0 .. MaxFaults
  BY DEF TInv, LinkTypes
<1>3. LinkTypes'
  BY <1>1, <1>2, TailIsDrop, DropTypes
<1>4. EngineTypes' /\ GatewayTypes' /\ ClientTypes'
  BY <1>1 DEF TInv, EngineTypes, GatewayTypes, ClientTypes, engine, gateway, clients
<1> QED BY <1>3, <1>4 DEF TInv

\* What a broadcast does to the replica and to the views.
LEMMA BroadcastFacts ==
  ASSUME TInv, Broadcast
  PROVE  /\ wire # << >> /\ wire \in Seq(Event) /\ ~ended /\ wire' = Tail(wire) /\ Head(wire) \in Event
         /\ Head(wire) = wire[1] /\ Len(wire) \in Nat \ {0}
         /\ Head(wire).kind = "snapshot" => Head(wire).delta = Head(wire).top
         /\ UNCHANGED <<engine, hole, faults, ended, subscribed, reading, subscriptions>>
         /\ replica' = Applied(replica, Head(wire)) /\ replica' \in Replica
         /\ IF PassedOn(replica, Head(wire))
              THEN /\ view' = [c \in Clients |-> IF c \in subscribed THEN Shown(c, Head(wire), replica')
                                                 ELSE view[c]]
                   /\ missed' = missed \cup (reading \ subscribed)
              ELSE view' = view /\ missed' = missed
         /\ applied' = IF Head(wire).kind = "snapshot" THEN Head(wire).top
                       ELSE IF Head(wire).hole \/ applied = << >> THEN << >>
                       ELSE IF Head(wire).kind = "delta" THEN Head(wire).top ELSE applied
<1>1. PICK e : e = Head(wire)
  OBVIOUS
<1>2. wire # << >> /\ wire \in Seq(Event) /\ ~ended /\ wire' = Tail(wire)
  BY DEF Broadcast, TInv, LinkTypes
<1>3. e \in Event /\ e = wire[1] /\ Len(wire) \in Nat \ {0}
  BY <1>1, <1>2, HeadFacts
<1>4. UNCHANGED <<engine, hole, faults, ended, subscribed, reading, subscriptions>>
  BY DEF Broadcast
<1>5. replica' = Applied(replica, e)
  BY <1>1 DEF Broadcast
<1>6. e.kind = "snapshot" => e.delta = e.top
  <2>1. 1 \in 1 .. Len(wire)
    BY <1>3
  <2> QED BY <1>3, <2>1 DEF TInv, LinkTypes
<1>7. replica' \in Replica
  BY <1>3, <1>5, <1>6, AppliedFacts DEF TInv, GatewayTypes
<1>8. IF PassedOn(replica, e)
        THEN /\ view' = [c \in Clients |-> IF c \in subscribed THEN Shown(c, e, replica') ELSE view[c]]
             /\ missed' = missed \cup (reading \ subscribed)
        ELSE view' = view /\ missed' = missed
  BY <1>1, <1>5 DEF Broadcast
<1>9. applied' = IF e.kind = "snapshot" THEN e.top
                 ELSE IF e.hole \/ applied = << >> THEN << >>
                 ELSE IF e.kind = "delta" THEN e.top ELSE applied
  BY <1>1 DEF Broadcast
<1> QED BY ONLY <1>1, <1>2, <1>3, <1>4, <1>5, <1>6, <1>7, <1>8, <1>9

LEMMA BroadcastTypes == TInv /\ Broadcast => TInv'
<1> SUFFICES ASSUME TInv, Broadcast PROVE TInv'
  OBVIOUS
<1>1. PICK e : e = Head(wire)
  OBVIOUS
<1>2. /\ wire # << >> /\ wire \in Seq(Event) /\ wire' = Tail(wire) /\ e \in Event
      /\ e.kind = "snapshot" => e.delta = e.top
      /\ UNCHANGED <<engine, hole, faults, ended, subscribed, reading, subscriptions>>
      /\ replica' = Applied(replica, e) /\ replica' \in Replica
      /\ IF PassedOn(replica, e)
           THEN /\ view' = [c \in Clients |-> IF c \in subscribed THEN Shown(c, e, replica') ELSE view[c]]
                /\ missed' = missed \cup (reading \ subscribed)
           ELSE view' = view /\ missed' = missed
      /\ applied' = IF e.kind = "snapshot" THEN e.top
                    ELSE IF e.hole \/ applied = << >> THEN << >>
                    ELSE IF e.kind = "delta" THEN e.top ELSE applied
  BY ONLY <1>1, TInv, Broadcast, BroadcastFacts
<1>3. LinkTypes /\ GatewayTypes /\ ClientTypes /\ faults \in 0 .. MaxFaults
  BY DEF TInv, LinkTypes
<1>4. LinkTypes'
  BY <1>2, <1>3, TailIsDrop, DropTypes
<1>5. GatewayTypes'
  <2>1. replica \in Replica /\ Len(replica.trades) <= TradesKept /\ applied \in Book \cup {<< >>} /\ ended \in BOOLEAN
    BY <1>3 DEF GatewayTypes
  <2>2. Len(replica'.trades) <= TradesKept
    BY <1>2, <2>1, AppliedFacts
  <2>3. e.kind \in {"snapshot", "delta"} => e.top \in Book
    BY <1>2, <2>1, AppliedFacts
  <2>4. applied' \in Book \cup {<< >>}
    BY <1>2, <2>1, <2>3
  <2> QED BY <1>2, <2>1, <2>2, <2>4 DEF GatewayTypes
<1>6. ClientTypes'
  <2>1. view \in [Clients -> View] /\ \A c \in Clients : Len(view[c].trades) <= TradesShown
    BY <1>3 DEF ClientTypes
  <2>2. \A c \in Clients : Shown(c, e, replica') \in View /\ Len(Shown(c, e, replica').trades) <= TradesShown
    BY <1>2, <2>1, ShownFacts
  <2>3. view' \in [Clients -> View] /\ \A c \in Clients : Len(view'[c].trades) <= TradesShown
    BY <1>2, <2>1, <2>2
  <2>4. missed' \subseteq Clients
    BY <1>2, <1>3 DEF ClientTypes
  <2> QED BY <1>2, <1>3, <2>3, <2>4 DEF ClientTypes
<1>7. EngineTypes'
  BY <1>2 DEF TInv, EngineTypes, engine
<1> QED BY <1>4, <1>5, <1>6, <1>7 DEF TInv

\* One client's share is at most what all have.
LEMMA ShareOfSum ==
  ASSUME NEW S, IsFiniteSet(S), NEW f, \A x \in S : f[x] \in Nat, NEW x \in S
  PROVE  f[x] <= SumOver(f, S) /\ SumOver(f, S) \in Int
<1>1. PICK z : z = [y \in S |-> 0]
  OBVIOUS
<1>2. PICK R : R = S \ {x}
  OBVIOUS
<1>3. IsFiniteSet(R) /\ \A y \in R : f[y] \in Int /\ z[y] = 0 /\ z[y] <= f[y]
  BY <1>1, <1>2, FS_Subset
<1>4. SumOver(z, R) = 0
  BY <1>3, SumZero
<1>5. SumOver(z, R) <= SumOver(f, R) /\ SumOver(f, R) \in Int
  <2>1. \A y \in R : z[y] \in Int /\ f[y] \in Int /\ z[y] <= f[y]
    BY <1>3
  <2>2. SumOver(z, R) <= SumOver(f, R)
    BY ONLY <1>3, <2>1, SumMonotone
  <2>3. SumOver(f, R) \in Int
    BY ONLY <1>3, SumType
  <2> QED BY <2>2, <2>3
<1>6. SumOver(f, S) = f[x] + SumOver(f, R) /\ SumOver(f, S) \in Int
  BY <1>2, SumRemove, SumType
<1> QED BY <1>4, <1>5, <1>6

LEMMA SubscribeReadFacts ==
  ASSUME TInv, NEW c \in Clients, SubscribeRead(c)
  PROVE  /\ c \notin reading
         /\ subscriptions' = [subscriptions EXCEPT ![c] = @ + 1] /\ subscriptions[c] + 1 \in 1 .. MaxSubscriptions
         /\ reading' = reading \cup {c} /\ missed' = missed \ {c}
         /\ UNCHANGED <<engine, link, gateway, subscribed>>
         /\ \E v \in View :
              /\ view' = [view EXCEPT ![c] = v] /\ Len(v.trades) <= TradesShown
              /\ ~replica.known => v = view[c]
              /\ replica.known /\ c \in TickerClients =>
                   v.ticker = TickerOf(replica) /\ v.trades = view[c].trades /\ v.book = view[c].book
              /\ replica.known /\ c \notin TickerClients => v = WithSnapshot(view[c], replica)
<1>1. view \in [Clients -> View] /\ replica \in Replica /\ view[c] \in View
      /\ Len(view[c].trades) <= TradesShown /\ subscriptions \in [Clients -> 0 .. MaxSubscriptions]
  BY DEF TInv, GatewayTypes, ClientTypes
<1>2. subscriptions[c] + 1 \in 1 .. MaxSubscriptions
  <2>1. \A x \in Clients : subscriptions[x] \in Nat
    BY <1>1
  <2>2. subscriptions[c] <= SumOver(subscriptions, Clients) /\ SumOver(subscriptions, Clients) \in Int
    BY ONLY <2>1, c \in Clients, ClientsFinite, ShareOfSum
  <2>3. SumOver(subscriptions, Clients) < MaxSubscriptions
    BY DEF SubscribeRead, MaySubscribe
  <2>4. subscriptions[c] \in Nat
    BY <2>1
  <2> QED BY ONLY <2>2, <2>3, <2>4, Constants
<1>3. \E v \in View :
        /\ view' = [view EXCEPT ![c] = v] /\ Len(v.trades) <= TradesShown
        /\ ~replica.known => v = view[c]
        /\ replica.known /\ c \in TickerClients =>
             v.ticker = TickerOf(replica) /\ v.trades = view[c].trades /\ v.book = view[c].book
        /\ replica.known /\ c \notin TickerClients => v = WithSnapshot(view[c], replica)
  <2>1. CASE ~replica.known
    <3>1. view' = view /\ view = [view EXCEPT ![c] = view[c]]
      BY <1>1, <2>1 DEF SubscribeRead
    <3> QED BY <1>1, <2>1, <3>1
  <2>2. CASE replica.known /\ c \in TickerClients
    <3>1. PICK v : v = [book |-> view[c].book, trades |-> view[c].trades, ticker |-> TickerOf(replica)]
      OBVIOUS
    <3>2. v \in View /\ Len(v.trades) <= TradesShown
      BY <1>1, <3>1 DEF View
    <3>3. view' = [view EXCEPT ![c].ticker = TickerOf(replica)]
      BY <2>2 DEF SubscribeRead
    <3>4. view' = [view EXCEPT ![c] = v]
      <4>1. view' = [view EXCEPT ![c] = [view[c] EXCEPT !.ticker = TickerOf(replica)]]
        BY <3>3
      <4>2. [view[c] EXCEPT !.ticker = TickerOf(replica)] = v
        <5>1. view[c] = [book |-> view[c].book, trades |-> view[c].trades, ticker |-> view[c].ticker]
          BY <1>1 DEF View
        <5>2. PICK w, t : w = view[c] /\ t = TickerOf(replica)
          OBVIOUS
        <5>3. w = [book |-> w.book, trades |-> w.trades, ticker |-> w.ticker]
          BY ONLY <5>1, <5>2
        <5>4. [w EXCEPT !.ticker = t] = [book |-> w.book, trades |-> w.trades, ticker |-> t]
          BY ONLY <5>3
        <5> QED BY ONLY <3>1, <5>2, <5>4
      <4> QED BY ONLY <4>1, <4>2
    <3> QED BY <2>2, <3>1, <3>2, <3>4
  <2>3. CASE replica.known /\ c \notin TickerClients
    <3>1. view' = [view EXCEPT ![c] = WithSnapshot(view[c], replica)]
      BY <2>3 DEF SubscribeRead
    <3>2. WithSnapshot(view[c], replica) \in View /\ Len(WithSnapshot(view[c], replica).trades) <= TradesShown
      BY <1>1, SnapshotFacts
    <3> QED BY <2>3, <3>1, <3>2
  <2> QED BY <2>1, <2>2, <2>3
<1>4. /\ c \notin reading /\ subscriptions' = [subscriptions EXCEPT ![c] = @ + 1]
      /\ reading' = reading \cup {c} /\ missed' = missed \ {c}
      /\ UNCHANGED <<engine, link, gateway, subscribed>>
  BY DEF SubscribeRead
<1> QED BY ONLY <1>2, <1>3, <1>4

LEMMA SubscribeReadTypes == TInv /\ (\E c \in Clients : SubscribeRead(c)) => TInv'
<1> SUFFICES ASSUME TInv, NEW c \in Clients, SubscribeRead(c) PROVE TInv'
  OBVIOUS
<1>1. /\ subscriptions' = [subscriptions EXCEPT ![c] = @ + 1] /\ subscriptions[c] + 1 \in 1 .. MaxSubscriptions
      /\ reading' = reading \cup {c} /\ missed' = missed \ {c}
      /\ UNCHANGED <<engine, link, gateway, subscribed>>
  BY SubscribeReadFacts
<1>2. PICK v \in View : view' = [view EXCEPT ![c] = v] /\ Len(v.trades) <= TradesShown
  BY SubscribeReadFacts
<1>3. ClientTypes'
  <2>1. ClientTypes
    BY DEF TInv
  <2>2. view' \in [Clients -> View] /\ \A d \in Clients : Len(view'[d].trades) <= TradesShown
    BY <1>2, <2>1 DEF ClientTypes
  <2>3. subscriptions' \in [Clients -> 0 .. MaxSubscriptions]
    BY <1>1, <2>1 DEF ClientTypes
  <2> QED BY <1>1, <2>1, <2>2, <2>3 DEF ClientTypes
<1>4. EngineTypes' /\ LinkTypes' /\ GatewayTypes'
  BY <1>1 DEF TInv, EngineTypes, LinkTypes, GatewayTypes, engine, link, gateway
<1> QED BY <1>3, <1>4 DEF TInv

LEMMA SubscribedTypes ==
  TInv /\ (\E c \in Clients : SubscribeRegister(c) \/ Unsubscribe(c)) => TInv'
<1> SUFFICES ASSUME TInv, NEW c \in Clients, SubscribeRegister(c) \/ Unsubscribe(c) PROVE TInv'
  OBVIOUS
<1>1. /\ UNCHANGED <<engine, link, gateway, view, subscriptions, missed>>
      /\ reading' \subseteq reading /\ subscribed' \subseteq subscribed \cup {c}
  BY DEF SubscribeRegister, Unsubscribe
<1>2. ClientTypes'
  BY <1>1 DEF TInv, ClientTypes
<1>3. EngineTypes' /\ LinkTypes' /\ GatewayTypes'
  BY <1>1 DEF TInv, EngineTypes, LinkTypes, GatewayTypes, engine, link, gateway
<1> QED BY <1>2, <1>3 DEF TInv

\* The events that are under way before a restart of the engine, from the oldest on.
LEMMA FirstFacts ==
  ASSUME NEW S, NEW s \in Seq(S), NEW n \in 0 .. Len(s), NEW r, r = SubSeq(s, 1, n)
  PROVE  /\ r \in Seq(S) /\ Len(r) = n
         /\ \A i \in 1 .. n : i \in 1 .. Len(s) /\ r[i] = s[i]
<1>1. \A i \in 1 .. n : s[i] \in S /\ i \in 1 .. Len(s)
  OBVIOUS
<1>2. 1 \in Int /\ n \in Int
  OBVIOUS
<1>3. /\ SubSeq(s, 1, n) \in Seq(S)
      /\ Len(SubSeq(s, 1, n)) = IF 1 <= n THEN n - 1 + 1 ELSE 0
      /\ \A i \in 1 .. n - 1 + 1 : SubSeq(s, 1, n)[i] = s[1 + i - 1]
  BY ONLY <1>1, <1>2, SubSeqProperties
<1> QED BY <1>1, <1>3

LEMMA EngineRestartsTypes == TInv /\ EngineRestarts => TInv'
<1> SUFFICES ASSUME TInv, EngineRestarts PROVE TInv'
  OBVIOUS
<1>1. /\ UNCHANGED <<clock, changes, trades, gateway, clients>> /\ hole' = FALSE
      /\ book' = EmptyBook /\ fills' = 0 /\ outbox' = << >> /\ ready' \in BOOLEAN
      /\ prev' = EmptyBook /\ since' = SnapshotInterval
  BY DEF EngineRestarts
<1>2. PICK n \in 0 .. Len(wire) : wire' = SubSeq(wire, 1, n)
  BY DEF EngineRestarts
<1>3. wire \in Seq(Event) /\ \A i \in 1 .. Len(wire) : wire[i].kind = "snapshot" => wire[i].delta = wire[i].top
  BY DEF TInv, LinkTypes
<1>4. wire' \in Seq(Event) /\ Len(wire') = n /\ \A i \in 1 .. n : i \in 1 .. Len(wire) /\ wire'[i] = wire[i]
  BY <1>2, <1>3, FirstFacts
<1>5. faults' \in 0 .. MaxFaults
  BY Constants DEF TInv, LinkTypes, EngineRestarts
<1>6. LinkTypes'
  BY <1>1, <1>3, <1>4, <1>5 DEF LinkTypes
<1>7. EngineTypes'
  <2>1. fills' \in 0 .. MaxTrades /\ fills' + trades' <= MaxTrades /\ since' \in 1 .. SnapshotInterval
    BY <1>1, Constants DEF TInv, EngineTypes
  <2> QED BY <1>1, <2>1, EmptyBookType DEF TInv, EngineTypes
<1>8. GatewayTypes' /\ ClientTypes'
  BY <1>1 DEF TInv, GatewayTypes, ClientTypes, gateway, clients
<1> QED BY <1>6, <1>7, <1>8 DEF TInv

LEMMA GatewayRestartsTypes == TInv /\ GatewayRestarts => TInv'
<1> SUFFICES ASSUME TInv, GatewayRestarts PROVE TInv'
  OBVIOUS
<1>1. /\ UNCHANGED <<engine, hole, subscriptions>> /\ ended' = FALSE
      /\ replica' = NewReplica /\ applied' = << >>
      /\ subscribed' = {} /\ reading' = {} /\ missed' = {}
      /\ view' = [c \in Clients |-> NewView]
  BY DEF GatewayRestarts
<1>2. PICK n \in 0 .. Len(wire) : wire' = SubSeq(wire, n + 1, Len(wire))
  BY DEF GatewayRestarts
<1>3. faults' \in 0 .. MaxFaults
  BY Constants DEF TInv, LinkTypes, GatewayRestarts
<1>4. LinkTypes'
  BY <1>1, <1>2, <1>3, DropTypes DEF TInv
<1>5. GatewayTypes'
  <2>1. Len(NewReplica.trades) = 0
    BY DEF NewReplica
  <2>2. Len(replica'.trades) <= TradesKept
    BY ONLY <1>1, <2>1, Constants
  <2>3. replica' \in Replica
    BY <1>1, NewTicker
  <2> QED BY <1>1, <2>2, <2>3 DEF GatewayTypes
<1>6. ClientTypes'
  BY <1>1, NewViewType DEF TInv, ClientTypes
<1>7. EngineTypes'
  BY <1>1 DEF TInv, EngineTypes, engine
<1> QED BY <1>4, <1>5, <1>6, <1>7 DEF TInv

LEMMA StutterTypes == TInv /\ UNCHANGED vars => TInv'
  BY DEF TInv, EngineTypes, LinkTypes, GatewayTypes, ClientTypes, vars, engine, link, gateway, clients

LEMMA NextTypes == TInv /\ [Next]_vars => TInv'
<1> SUFFICES ASSUME TInv, [Next]_vars PROVE TInv'
  OBVIOUS
<1>1. CASE Change \/ Match \/ Settle \/ SendFill \/ Resolve \/ Tick
  BY <1>1, ChangeTypes, MatchTypes, SettleTypes, SendFillTypes, ResolveTypes, TickTypes
<1>2. CASE Lose \/ FallBehind \/ Ignore \/ Broadcast
  BY <1>2, LoseTypes, FallBehindTypes, IgnoreTypes, BroadcastTypes
<1>3. CASE \E c \in Clients : SubscribeRead(c) \/ SubscribeRegister(c) \/ Unsubscribe(c)
  BY <1>3, SubscribeReadTypes, SubscribedTypes
<1>4. CASE EngineRestarts \/ GatewayRestarts
  BY <1>4, EngineRestartsTypes, GatewayRestartsTypes
<1>5. CASE UNCHANGED vars
  BY <1>5, StutterTypes
<1> QED BY <1>1, <1>2, <1>3, <1>4, <1>5 DEF Next

\* The variables have their types.
THEOREM FeedTypeCorrect == Spec => []TypeOK
<1>1. Spec => []TInv
  BY InitTypes, NextTypes, PTL DEF Spec
<1> QED BY <1>1, TypesAreTypes, PTL

-----------------------------------------------------------------------------
(* The chain of deltas.  A delta that is under way was computed against   *)
(* the book of the event before it, as long as no event between was lost; *)
(* the publisher's prev is the book of the last event.                    *)

TopOf(w, base, j) == IF j = 0 THEN base ELSE w[j].top

\* The book event, or the replica's, that comes last before place i, with nothing lost between.
Source(w, base, j, i) ==
  /\ IF j = 0 THEN base # << >> ELSE w[j].kind # "fill"
  /\ \A k \in j + 1 .. i - 1 : w[k].kind = "fill" /\ ~w[k].hole

DeltasFit(w, base) ==
  \A i \in 1 .. Len(w) : w[i].kind = "delta" /\ ~w[i].hole =>
    \A j \in 0 .. i - 1 : Source(w, base, j, i) => Over(w[i].delta, TopOf(w, base, j)) = w[i].top

EndFits(w, base, h, p, s) ==
  ~h /\ s < SnapshotInterval =>
    \A j \in 0 .. Len(w) : Source(w, base, j, Len(w) + 1) => TopOf(w, base, j) = p

\* The book that the next event of the broadcaster is applied to, if it is known to be exact.
Base == IF ended THEN << >> ELSE applied

Linked == DeltasFit(wire, Base) /\ EndFits(wire, Base, hole, prev, since)

LEMMA NoBaseFits ==
  ASSUME NEW w \in Seq(Event), NEW base, NEW h, NEW p, NEW s
  PROVE  /\ DeltasFit(w, base) => DeltasFit(w, << >>)
         /\ EndFits(w, base, h, p, s) => EndFits(w, << >>, h, p, s)
<1>1. \A i, j : j \in Nat /\ Source(w, << >>, j, i) =>
        j # 0 /\ Source(w, base, j, i) /\ TopOf(w, << >>, j) = TopOf(w, base, j)
  BY DEF Source, TopOf
<1>2. Len(w) \in Nat
  OBVIOUS
<1>3. ASSUME DeltasFit(w, base), NEW i \in 1 .. Len(w), w[i].kind = "delta", ~w[i].hole,
             NEW j \in 0 .. i - 1, Source(w, << >>, j, i)
      PROVE  Over(w[i].delta, TopOf(w, << >>, j)) = w[i].top
  BY <1>1, <1>3 DEF DeltasFit
<1>4. ASSUME EndFits(w, base, h, p, s), ~h, s < SnapshotInterval, NEW j \in 0 .. Len(w),
             Source(w, << >>, j, Len(w) + 1)
      PROVE  TopOf(w, << >>, j) = p
  BY <1>1, <1>4 DEF EndFits
<1>5. DeltasFit(w, base) => DeltasFit(w, << >>)
  BY ONLY <1>3 DEF DeltasFit
<1>6. EndFits(w, base, h, p, s) => EndFits(w, << >>, h, p, s)
  BY ONLY <1>4 DEF EndFits
<1> QED BY <1>5, <1>6

LEMMA AddFits ==
  ASSUME NEW w \in Seq(Event), NEW base, NEW e \in Event, NEW r, r = Append(w, e), DeltasFit(w, base),
         e.kind = "delta" /\ ~e.hole =>
           \A j \in 0 .. Len(w) : Source(w, base, j, Len(w) + 1) => Over(e.delta, TopOf(w, base, j)) = e.top
  PROVE  DeltasFit(r, base)
<1>1. PICK n \in Nat : n = Len(w)
  OBVIOUS
<1>2. Len(r) = n + 1 /\ r[n + 1] = e /\ \A k \in 1 .. n : r[k] = w[k]
  BY <1>1, AddFacts
<1>3. ASSUME NEW i \in 1 .. n + 1, NEW j \in 0 .. i - 1, Source(r, base, j, i)
      PROVE  Source(w, base, j, i) /\ TopOf(r, base, j) = TopOf(w, base, j)
  <2>1. j \in 0 .. n /\ (j = 0 \/ r[j] = w[j]) /\ \A k \in j + 1 .. i - 1 : r[k] = w[k]
    BY <1>2
  <2> QED BY <1>3, <2>1 DEF Source, TopOf
<1>4. ASSUME NEW i \in 1 .. n + 1, r[i].kind = "delta", ~r[i].hole, NEW j \in 0 .. i - 1, Source(r, base, j, i)
      PROVE  Over(r[i].delta, TopOf(r, base, j)) = r[i].top
  <2>1. Source(w, base, j, i) /\ TopOf(r, base, j) = TopOf(w, base, j)
    BY <1>3, <1>4
  <2>2. CASE i \in 1 .. n
    BY <1>1, <1>2, <1>4, <2>1, <2>2 DEF DeltasFit
  <2>3. CASE i = n + 1
    <3>1. r[i] = e /\ e.kind = "delta" /\ ~e.hole /\ j \in 0 .. n
      BY <1>2, <1>4, <2>3
    <3>2. \A k \in 0 .. n : Source(w, base, k, n + 1) => Over(e.delta, TopOf(w, base, k)) = e.top
      BY <1>1, <3>1
    <3>3. Over(e.delta, TopOf(w, base, j)) = e.top
      BY ONLY <2>1, <2>3, <3>1, <3>2
    <3>4. r[i] = e
      BY <3>1
    <3>5. TopOf(r, base, j) = TopOf(w, base, j)
      BY <2>1
    <3> QED BY ONLY <3>3, <3>4, <3>5
  <2>4. i \in 1 .. n \/ i = n + 1
    OBVIOUS
  <2> QED BY ONLY <2>2, <2>3, <2>4
<1> QED BY <1>2, <1>4 DEF DeltasFit

LEMMA AddBookEnds ==
  ASSUME NEW w \in Seq(Event), NEW base, NEW e \in Event, NEW r, r = Append(w, e), e.kind # "fill",
         NEW h, NEW s
  PROVE  EndFits(r, base, h, e.top, s)
<1>1. PICK n \in Nat : n = Len(w)
  OBVIOUS
<1>2. Len(r) = n + 1 /\ r[n + 1] = e
  BY <1>1, AddFacts
<1>3. ASSUME NEW j \in 0 .. n + 1, Source(r, base, j, (n + 1) + 1)
      PROVE  TopOf(r, base, j) = e.top
  <2>1. CASE j \in 0 .. n
    <3>1. n + 1 \in j + 1 .. ((n + 1) + 1) - 1
      BY <2>1
    <3>2. r[n + 1].kind = "fill"
      BY <1>3, <3>1 DEF Source
    <3> QED BY <1>2, <3>2
  <2>2. CASE j = n + 1
    BY <1>2, <2>2 DEF TopOf
  <2> QED BY <2>1, <2>2
<1> QED BY <1>2, <1>3 DEF EndFits

LEMMA AddFillEnds ==
  ASSUME NEW w \in Seq(Event), NEW base, NEW e \in Event, NEW r, r = Append(w, e), e.kind = "fill",
         NEW p, NEW s, EndFits(w, base, e.hole, p, s), NEW h
  PROVE  EndFits(r, base, h, p, s)
<1>1. PICK n \in Nat : n = Len(w)
  OBVIOUS
<1>2. Len(r) = n + 1 /\ r[n + 1] = e /\ \A k \in 1 .. n : r[k] = w[k]
  BY <1>1, AddFacts
<1>3. ASSUME NEW j \in 0 .. n + 1, Source(r, base, j, (n + 1) + 1), s < SnapshotInterval
      PROVE  TopOf(r, base, j) = p
  <2>1. j # n + 1
    BY <1>2, <1>3 DEF Source
  <2>2. j \in 0 .. n /\ (j = 0 \/ r[j] = w[j]) /\ (\A k \in j + 1 .. (n + 1) - 1 : r[k] = w[k])
        /\ n + 1 \in j + 1 .. ((n + 1) + 1) - 1
    BY <1>2, <2>1
  <2>3. ~e.hole
    BY <1>2, <1>3, <2>2 DEF Source
  <2>4. \A k \in j + 1 .. (n + 1) - 1 : k \in j + 1 .. ((n + 1) + 1) - 1
    BY <2>2
  <2>5. Source(w, base, j, n + 1)
    BY <1>3, <2>2, <2>4 DEF Source
  <2>6. TopOf(w, base, j) = p
    BY <1>1, <1>3, <2>2, <2>3, <2>5 DEF EndFits
  <2> QED BY <2>2, <2>6 DEF TopOf
<1> QED BY <1>2, <1>3 DEF EndFits

LEMMA FirstFits ==
  ASSUME NEW w \in Seq(Event), NEW base, DeltasFit(w, base), NEW n \in 0 .. Len(w), NEW r, r = SubSeq(w, 1, n)
  PROVE  DeltasFit(r, base)
<1>1. Len(r) = n /\ \A k \in 1 .. n : k \in 1 .. Len(w) /\ r[k] = w[k]
  BY FirstFacts
<1>2. ASSUME NEW i \in 1 .. n, r[i].kind = "delta", ~r[i].hole, NEW j \in 0 .. i - 1, Source(r, base, j, i)
      PROVE  Over(r[i].delta, TopOf(r, base, j)) = r[i].top
  <2>1. j \in 0 .. n /\ (j = 0 \/ r[j] = w[j]) /\ \A k \in j + 1 .. i - 1 : r[k] = w[k]
    BY <1>1
  <2>2. Source(w, base, j, i) /\ TopOf(r, base, j) = TopOf(w, base, j)
    BY <1>2, <2>1 DEF Source, TopOf
  <2> QED BY <1>1, <1>2, <2>2 DEF DeltasFit
<1> QED BY <1>1, <1>2 DEF DeltasFit

\* What is left when the first events are gone; their last book may have become the replica's.
LEMMA DropFits ==
  ASSUME NEW w \in Seq(Event), NEW base, DeltasFit(w, base), NEW h, NEW p, NEW s, EndFits(w, base, h, p, s),
         NEW d \in 0 .. Len(w), NEW r, r = SubSeq(w, d + 1, Len(w)), NEW new,
         new # << >> => \E j \in 0 .. d : Source(w, base, j, d + 1) /\ TopOf(w, base, j) = new
  PROVE  DeltasFit(r, new) /\ EndFits(r, new, h, p, s)
<1>1. PICK n \in Nat : n = Len(w)
  OBVIOUS
<1>2. Len(r) = n - d /\ \A k \in 1 .. n - d : k + d \in 1 .. n /\ r[k] = w[k + d]
  BY <1>1, DropFacts
<1>3. ASSUME NEW i \in 1 .. n - d + 1, NEW j \in 0 .. i - 1, Source(r, new, j, i)
      PROVE  \E m \in 0 .. i + d - 1 : Source(w, base, m, i + d) /\ TopOf(w, base, m) = TopOf(r, new, j)
  <2>1. CASE j # 0
    <3>1. j + d \in 0 .. i + d - 1 /\ j + d # 0 /\ r[j] = w[j + d]
      BY <1>1, <1>2, <2>1
    <3>2. ASSUME NEW k \in (j + d) + 1 .. (i + d) - 1
          PROVE  w[k].kind = "fill" /\ ~w[k].hole
      <4>1. k - d \in j + 1 .. i - 1 /\ k - d \in 1 .. n - d /\ (k - d) + d = k
        BY <1>1, <2>1
      <4> QED BY <1>2, <1>3, <4>1 DEF Source
    <3>3. Source(w, base, j + d, i + d) /\ TopOf(w, base, j + d) = TopOf(r, new, j)
      BY <1>3, <2>1, <3>1, <3>2 DEF Source, TopOf
    <3> QED BY <3>1, <3>3
  <2>2. CASE j = 0
    <3>1. PICK m \in 0 .. d : Source(w, base, m, d + 1) /\ TopOf(w, base, m) = new
      BY <1>3, <2>2 DEF Source
    <3>2. m \in 0 .. i + d - 1
      OBVIOUS
    <3>3. ASSUME NEW k \in m + 1 .. (i + d) - 1
          PROVE  w[k].kind = "fill" /\ ~w[k].hole
      <4>1. CASE k <= d
        <5>1. k \in m + 1 .. (d + 1) - 1
          BY <4>1
        <5> QED BY <3>1, <5>1 DEF Source
      <4>2. CASE k > d
        <5>1. k - d \in j + 1 .. i - 1 /\ k - d \in 1 .. n - d /\ (k - d) + d = k
          BY <1>1, <2>2, <4>2
        <5> QED BY <1>2, <1>3, <5>1 DEF Source
      <4> QED BY <4>1, <4>2
    <3>4. Source(w, base, m, i + d)
      BY <3>1, <3>3 DEF Source
    <3> QED BY <2>2, <3>1, <3>2, <3>4 DEF TopOf
  <2> QED BY <2>1, <2>2
<1>4. ASSUME NEW i \in 1 .. n - d, r[i].kind = "delta", ~r[i].hole, NEW j \in 0 .. i - 1, Source(r, new, j, i)
      PROVE  Over(r[i].delta, TopOf(r, new, j)) = r[i].top
  <2>1. i \in 1 .. n - d + 1 /\ i + d \in 1 .. n /\ r[i] = w[i + d]
    BY <1>1, <1>2
  <2>2. PICK m \in 0 .. i + d - 1 : Source(w, base, m, i + d) /\ TopOf(w, base, m) = TopOf(r, new, j)
    BY <1>3, <1>4, <2>1
  <2>3. Over(w[i + d].delta, TopOf(w, base, m)) = w[i + d].top
    BY <1>1, <1>4, <2>1, <2>2 DEF DeltasFit
  <2> QED BY <2>1, <2>2, <2>3
<1>5. ASSUME ~h, s < SnapshotInterval, NEW j \in 0 .. n - d, Source(r, new, j, (n - d) + 1)
      PROVE  TopOf(r, new, j) = p
  <2>1. (n - d) + 1 \in 1 .. n - d + 1 /\ j \in 0 .. (n - d + 1) - 1 /\ ((n - d) + 1) + d = n + 1
    BY <1>1
  <2>2. PICK m \in 0 .. (n + 1) - 1 : Source(w, base, m, n + 1) /\ TopOf(w, base, m) = TopOf(r, new, j)
    BY <1>3, <1>5, <2>1
  <2>3. m \in 0 .. n
    OBVIOUS
  <2> QED BY <1>1, <1>5, <2>2, <2>3 DEF EndFits
<1>6. DeltasFit(r, new)
  BY <1>2, <1>4 DEF DeltasFit
<1>7. EndFits(r, new, h, p, s)
  BY <1>2, <1>5 DEF EndFits
<1> QED BY <1>6, <1>7

LEMMA DropFitsNoBase ==
  ASSUME NEW w \in Seq(Event), NEW base, DeltasFit(w, base), NEW h, NEW p, NEW s, EndFits(w, base, h, p, s),
         NEW d \in 0 .. Len(w), NEW r, r = SubSeq(w, d + 1, Len(w))
  PROVE  DeltasFit(r, << >>) /\ EndFits(r, << >>, h, p, s)
<1>1. PICK new : new = << >>
  OBVIOUS
<1>2. new # << >> => \E j \in 0 .. d : Source(w, base, j, d + 1) /\ TopOf(w, base, j) = new
  BY <1>1
<1>3. DeltasFit(r, new) /\ EndFits(r, new, h, p, s)
  BY ZenonT(40), <1>2, DropFits
<1> QED BY <1>1, <1>3

\* A datagram that is lost leaves a hole, unless it was a fill.
LEMMA LoseFits ==
  ASSUME wire \in Seq(Event), hole \in BOOLEAN, Lose, NEW base, NEW p, NEW s,
         DeltasFit(wire, base), EndFits(wire, base, hole, p, s)
  PROVE  DeltasFit(wire', base) /\ EndFits(wire', base, hole', p, s)
<1>1. PICK g \in 1 .. Len(wire), counts \in BOOLEAN :
        /\ counts = (wire[g].hole \/ wire[g].kind # "fill")
        /\ wire' \in Seq(Event) /\ Len(wire') = Len(wire) - 1
        /\ hole' = (hole \/ (g = Len(wire) /\ counts))
        /\ \A k \in 1 .. Len(wire') :
             /\ k < g => wire'[k] = wire[k]
             /\ k >= g => /\ wire'[k].kind = wire[k + 1].kind
                          /\ wire'[k].hole = (wire[k + 1].hole \/ (k = g /\ counts))
                          /\ wire[k + 1].kind # "fill" => /\ wire'[k].delta = wire[k + 1].delta
                                                          /\ wire'[k].top = wire[k + 1].top
  BY LoseFacts
<1> USE <1>1
<1>2. PICK n \in Nat \ {0} : n = Len(wire) /\ Len(wire') = n - 1
  OBVIOUS
<1> DEFINE m(k) == IF k < g THEN k ELSE k + 1
\* Nothing but a fill without a hole was lost, if what follows has no hole.
<1>3. ASSUME NEW i \in 1 .. n, NEW j \in 0 .. i - 1, Source(wire', base, j, i),
             IF i = n THEN ~hole' ELSE ~wire'[i].hole
      PROVE  /\ m(j) \in 0 .. m(i) - 1 /\ Source(wire, base, m(j), m(i)) /\ TopOf(wire, base, m(j)) = TopOf(wire', base, j)
  <2>1. m(j) \in 0 .. m(i) - 1 /\ m(i) \in 1 .. n + 1 /\ (j = 0 <=> m(j) = 0)
    BY <1>2
  <2>2. j # 0 => j \in 1 .. Len(wire')
    BY <1>2
  <2>3. j # 0 => wire'[j].kind # "fill" /\ wire[m(j)].kind = wire'[j].kind /\ wire[m(j)].top = wire'[j].top
    BY <1>3, <2>2 DEF Source
  <2>4. ASSUME NEW k \in m(j) + 1 .. m(i) - 1
        PROVE  wire[k].kind = "fill" /\ ~wire[k].hole
    <3>1. CASE k < g
      <4>1. k \in j + 1 .. i - 1 /\ k \in 1 .. Len(wire') /\ wire'[k] = wire[k]
        BY <1>2, <2>1, <3>1
      <4> QED BY <1>3, <4>1 DEF Source
    <3>2. CASE k > g
      <4>1. k - 1 \in j + 1 .. i - 1 /\ k - 1 \in 1 .. Len(wire') /\ k - 1 >= g /\ (k - 1) + 1 = k
        BY <1>2, <2>1, <3>2
      <4>2. wire'[k - 1].kind = "fill" /\ ~wire'[k - 1].hole
        BY <1>3, <4>1 DEF Source
      <4>3. wire'[k - 1].kind = wire[k].kind /\ wire'[k - 1].hole = (wire[k].hole \/ (k - 1 = g /\ counts))
        BY <4>1
      <4> QED BY <4>2, <4>3
    <3>3. CASE k = g
      <4>1. j < g /\ g <= i
        BY <1>2, <2>1, <3>3
      <4>2. ~counts
        <5>1. CASE g < i
          <6>1. g \in j + 1 .. i - 1 /\ g \in 1 .. Len(wire')
            BY <1>2, <4>1, <5>1
          <6>2. ~wire'[g].hole
            BY <1>3, <6>1 DEF Source
          <6>3. wire'[g].hole = (wire[g + 1].hole \/ (g = g /\ counts))
            BY <6>1
          <6> QED BY <6>2, <6>3
        <5>2. CASE g = i /\ i # n
          <6>1. g \in 1 .. Len(wire')
            BY <1>2, <5>2
          <6>2. ~wire'[g].hole
            BY <1>3, <5>2
          <6>3. wire'[g].hole = (wire[g + 1].hole \/ (g = g /\ counts))
            BY <6>1
          <6> QED BY <6>2, <6>3
        <5>3. CASE g = i /\ i = n
          BY <1>2, <1>3, <5>3
        <5> QED BY <4>1, <5>1, <5>2, <5>3
      <4> QED BY <3>3, <4>2
    <3> QED BY <2>1, <3>1, <3>2, <3>3
  <2>5. Source(wire, base, m(j), m(i))
    <3>1. IF m(j) = 0 THEN base # << >> ELSE wire[m(j)].kind # "fill"
      BY <1>3, <2>1, <2>3 DEF Source
    <3> HIDE DEF m
    <3> QED BY <2>4, <3>1 DEF Source
  <2>6. TopOf(wire, base, m(j)) = TopOf(wire', base, j)
    <3> HIDE DEF m
    <3> QED BY <2>1, <2>3 DEF TopOf
  <2> QED BY <2>1, <2>5, <2>6
<1>4. ASSUME NEW i \in 1 .. n - 1, wire'[i].kind = "delta", ~wire'[i].hole, NEW j \in 0 .. i - 1, Source(wire', base, j, i)
      PROVE  Over(wire'[i].delta, TopOf(wire', base, j)) = wire'[i].top
  <2>1. i \in 1 .. n /\ i # n /\ i \in 1 .. Len(wire')
    BY <1>2
  <2>2. m(j) \in 0 .. m(i) - 1 /\ Source(wire, base, m(j), m(i)) /\ TopOf(wire, base, m(j)) = TopOf(wire', base, j)
    BY <1>3, <1>4, <2>1
  <2>3. m(i) \in 1 .. Len(wire)
    BY <1>2
  <2>4. wire[m(i)].kind = "delta" /\ ~wire[m(i)].hole /\ wire[m(i)].delta = wire'[i].delta /\ wire[m(i)].top = wire'[i].top
    <3>1. CASE i < g
      <4>1. m(i) = i /\ wire'[i] = wire[i]
        BY <2>1, <3>1
      <4> QED BY <1>4, <4>1
    <3>2. CASE i >= g
      <4>1. m(i) = i + 1 /\ wire'[i].kind = wire[i + 1].kind /\ wire'[i].hole = (wire[i + 1].hole \/ (i = g /\ counts))
        BY <2>1, <3>2
      <4>2. wire[i + 1].kind # "fill" => wire'[i].delta = wire[i + 1].delta /\ wire'[i].top = wire[i + 1].top
        BY <2>1, <3>2
      <4> QED BY <1>4, <4>1, <4>2
    <3> QED BY <2>1, <3>1, <3>2
  <2> HIDE DEF m
  <2>5. Over(wire[m(i)].delta, TopOf(wire, base, m(j))) = wire[m(i)].top
    BY <2>2, <2>3, <2>4 DEF DeltasFit
  <2> QED BY <2>2, <2>4, <2>5
<1>5. ASSUME ~hole', s < SnapshotInterval, NEW j \in 0 .. n - 1, Source(wire', base, j, n)
      PROVE  TopOf(wire', base, j) = p
  <2>1. m(n) = n + 1 /\ n \in 1 .. n /\ ~hole
    BY <1>2, <1>5
  <2>2. m(j) \in 0 .. m(n) - 1 /\ Source(wire, base, m(j), m(n)) /\ TopOf(wire, base, m(j)) = TopOf(wire', base, j)
    BY <1>3, <1>5, <2>1
  <2> HIDE DEF m
  <2>3. m(j) \in 0 .. Len(wire) /\ m(n) = Len(wire) + 1
    BY <1>2, <2>1, <2>2
  <2> QED BY <1>5, <2>1, <2>2, <2>3 DEF EndFits
<1>6. DeltasFit(wire', base)
  BY <1>2, <1>4 DEF DeltasFit
<1>7. EndFits(wire', base, hole', p, s)
  <2>1. Len(wire') + 1 = n /\ Len(wire') = n - 1
    BY <1>2
  <2> QED BY <1>5, <2>1 DEF EndFits
<1> QED BY <1>6, <1>7

ReplicaInv == TInv /\ Linked /\ ReplicaFollows

LEMMA InitLinked == Init => Linked /\ ReplicaFollows
<1> SUFFICES ASSUME Init PROVE Linked /\ ReplicaFollows
  OBVIOUS
<1>1. wire = << >> /\ Len(wire) = 0 /\ since = SnapshotInterval /\ applied = << >>
  BY DEF Init
<1>2. DeltasFit(wire, Base) /\ ReplicaFollows
  BY <1>1 DEF DeltasFit, ReplicaFollows
<1>3. EndFits(wire, Base, hole, prev, since)
  <2>1. ~(since < SnapshotInterval)
    BY <1>1, Constants
  <2> QED BY <2>1 DEF EndFits
<1> QED BY <1>2, <1>3 DEF Linked

LEMMA SameLinked ==
  ASSUME Linked, ReplicaFollows, UNCHANGED <<wire, hole, prev, since>>, UNCHANGED gateway
  PROVE  Linked' /\ ReplicaFollows'
  BY DEF Linked, Base, ReplicaFollows, gateway

LEMMA SendFillLinked ==
  ASSUME ReplicaInv, SendFill
  PROVE  Linked' /\ ReplicaFollows'
<1>1. wire \in Seq(Event) /\ outbox # << >> /\ outbox \in Seq(Trade) /\ hole \in BOOLEAN
  BY DEF ReplicaInv, TInv, EngineTypes, LinkTypes, SendFill
<1>2. UNCHANGED <<prev, since, gateway>> /\ Linked /\ ReplicaFollows
  BY DEF SendFill, ReplicaInv
<1>3. CASE ~CanSend
  <2>1. wire' = wire /\ hole' = hole
    BY <1>3 DEF SendFill
  <2> QED BY <1>2, <2>1, SameLinked
<1>4. CASE CanSend
  <2>1. PICK e : e = [kind |-> "fill", trade |-> Head(outbox), hole |-> hole]
    OBVIOUS
  <2>2. wire' = Append(wire, e) /\ hole' = FALSE
    BY <1>4, <2>1 DEF SendFill
  <2>3. Head(outbox) \in Trade
    BY <1>1, HeadFacts
  <2>4. e \in Event /\ e.kind = "fill" /\ e.hole = hole
    BY <1>1, <2>1, <2>3 DEF Event, FillEvent
  <2>5. DeltasFit(wire, Base) /\ EndFits(wire, Base, e.hole, prev, since)
    BY <1>2, <2>4 DEF Linked
  <2>6. DeltasFit(wire', Base)
    <3>1. ~(e.kind = "delta" /\ ~e.hole)
      BY <2>4
    <3> QED BY <1>1, <2>2, <2>4, <2>5, <3>1, AddFits
  <2>7. EndFits(wire', Base, hole', prev, since)
    BY <1>1, <2>2, <2>4, <2>5, AddFillEnds
  <2>8. Base' = Base
    BY <1>2 DEF Base, gateway
  <2> QED BY <1>2, <2>6, <2>7, <2>8 DEF Linked, ReplicaFollows, gateway
<1> QED BY <1>3, <1>4

LEMMA TickLinked ==
  ASSUME ReplicaInv, Tick
  PROVE  Linked' /\ ReplicaFollows'
<1>1. /\ prev' = Top(book) /\ prev' \in Book /\ since' \in 1 .. SnapshotInterval
      /\ UNCHANGED gateway
      /\ \/ \E e \in Event :
              /\ wire' = Append(wire, e) /\ hole' = FALSE
              /\ e.hole = hole /\ e.top = Top(book)
              /\ \/ e.kind = "snapshot" /\ e.delta = e.top
                 \/ e.kind = "delta" /\ since < SnapshotInterval /\ Over(e.delta, prev) = e.top
         \/ wire' = wire /\ hole' = hole /\ prev' = prev /\ since < SnapshotInterval
  BY TickFacts DEF ReplicaInv
<1>2. wire \in Seq(Event) /\ DeltasFit(wire, Base) /\ EndFits(wire, Base, hole, prev, since)
      /\ Base' = Base
  BY <1>1 DEF ReplicaInv, TInv, LinkTypes, Linked, Base, gateway
<1>3. Linked'
  <2>1. CASE wire' = wire /\ hole' = hole /\ prev' = prev /\ since < SnapshotInterval
    <3>1. EndFits(wire', Base', hole', prev', since')
      BY <1>2, <2>1 DEF EndFits
    <3> QED BY <1>2, <2>1, <3>1 DEF Linked
  <2>2. ASSUME NEW e \in Event, wire' = Append(wire, e), e.hole = hole, e.top = Top(book),
               \/ e.kind = "snapshot" /\ e.delta = e.top
               \/ e.kind = "delta" /\ since < SnapshotInterval /\ Over(e.delta, prev) = e.top
        PROVE  Linked'
    <3>1. e.kind = "delta" /\ ~e.hole =>
            \A j \in 0 .. Len(wire) : Source(wire, Base, j, Len(wire) + 1) =>
              Over(e.delta, TopOf(wire, Base, j)) = e.top
      <4> SUFFICES ASSUME e.kind = "delta", ~e.hole, NEW j \in 0 .. Len(wire),
                          Source(wire, Base, j, Len(wire) + 1)
                   PROVE  Over(e.delta, TopOf(wire, Base, j)) = e.top
        OBVIOUS
      <4>1. ~hole /\ since < SnapshotInterval /\ Over(e.delta, prev) = e.top
        BY <2>2
      <4>2. TopOf(wire, Base, j) = prev
        BY <1>2, <4>1 DEF EndFits
      <4> QED BY <4>1, <4>2
    <3>2. DeltasFit(wire', Base)
      BY ONLY <1>2, <2>2, <3>1, e \in Event, AddFits
    <3>3. EndFits(wire', Base, hole', e.top, since')
      <4>1. e.kind # "fill"
        BY <2>2
      <4> QED BY ONLY <1>2, <2>2, <4>1, e \in Event, AddBookEnds
    <3> QED BY <1>1, <1>2, <2>2, <3>2, <3>3 DEF Linked
  <2> QED BY <1>1, <2>1, <2>2
<1>4. ReplicaFollows'
  BY <1>1 DEF ReplicaInv, ReplicaFollows, gateway
<1> QED BY <1>3, <1>4

LEMMA LoseLinked ==
  ASSUME ReplicaInv, Lose
  PROVE  Linked' /\ ReplicaFollows'
<1>1. wire \in Seq(Event) /\ hole \in BOOLEAN /\ UNCHANGED <<engine, gateway>>
      /\ DeltasFit(wire, Base) /\ EndFits(wire, Base, hole, prev, since)
  BY DEF ReplicaInv, TInv, LinkTypes, Lose, Linked
<1>2. DeltasFit(wire', Base) /\ EndFits(wire', Base, hole', prev, since)
  BY <1>1, LoseFits
<1>3. Base' = Base /\ prev' = prev /\ since' = since
  BY <1>1 DEF Base, engine, gateway
<1> QED BY <1>1, <1>2, <1>3 DEF Linked, ReplicaInv, ReplicaFollows, gateway

LEMMA FallBehindLinked ==
  ASSUME ReplicaInv, FallBehind
  PROVE  Linked' /\ ReplicaFollows'
<1>1. UNCHANGED <<wire, hole, prev, since, replica, applied>> /\ ended' = TRUE
  BY DEF FallBehind, engine
<1>2. DeltasFit(wire, << >>) /\ EndFits(wire, << >>, hole, prev, since)
  BY NoBaseFits DEF ReplicaInv, TInv, LinkTypes, Linked
<1> QED BY <1>1, <1>2 DEF Linked, Base, ReplicaInv, ReplicaFollows

LEMMA IgnoreLinked ==
  ASSUME ReplicaInv, Ignore
  PROVE  Linked' /\ ReplicaFollows'
<1>1. UNCHANGED <<hole, prev, since, gateway>> /\ ended /\ wire # << >> /\ wire' = Tail(wire)
  BY DEF Ignore, engine
<1>2. wire \in Seq(Event) /\ DeltasFit(wire, << >>) /\ EndFits(wire, << >>, hole, prev, since)
  BY <1>1 DEF ReplicaInv, TInv, LinkTypes, Linked, Base
<1>3. 1 \in 0 .. Len(wire) /\ wire' = SubSeq(wire, 1 + 1, Len(wire))
  BY <1>1, <1>2, TailIsDrop
<1>4. DeltasFit(wire', << >>) /\ EndFits(wire', << >>, hole, prev, since)
  BY <1>2, <1>3, DropFitsNoBase
<1> QED BY <1>1, <1>4 DEF Linked, Base, gateway, ReplicaInv, ReplicaFollows

LEMMA BroadcastLinked ==
  ASSUME ReplicaInv, Broadcast
  PROVE  Linked' /\ ReplicaFollows'
<1>1. PICK e : e = Head(wire)
  OBVIOUS
<1>2. /\ wire # << >> /\ wire \in Seq(Event) /\ ~ended /\ wire' = Tail(wire) /\ e \in Event
      /\ e = wire[1] /\ Len(wire) \in Nat \ {0}
      /\ e.kind = "snapshot" => e.delta = e.top
      /\ UNCHANGED <<engine, hole, ended>>
      /\ replica' = Applied(replica, e)
      /\ applied' = IF e.kind = "snapshot" THEN e.top
                    ELSE IF e.hole \/ applied = << >> THEN << >>
                    ELSE IF e.kind = "delta" THEN e.top ELSE applied
  BY <1>1, BroadcastFacts DEF ReplicaInv
<1>3. replica \in Replica /\ Len(replica.trades) <= TradesKept
      /\ DeltasFit(wire, applied) /\ EndFits(wire, applied, hole, prev, since)
  BY <1>2 DEF ReplicaInv, TInv, GatewayTypes, Linked, Base
<1>4. 1 \in 0 .. Len(wire) /\ wire' = SubSeq(wire, 1 + 1, Len(wire))
  BY <1>2, TailIsDrop
<1>5. applied' # << >> =>
        \E j \in 0 .. 1 : Source(wire, applied, j, 1 + 1) /\ TopOf(wire, applied, j) = applied'
  <2> HAVE applied' # << >>
  <2>1. CASE e.kind # "fill"
    <3>1. applied' = wire[1].top /\ wire[1].kind # "fill"
      <4>1. e.kind \in {"snapshot", "delta", "fill"}
        BY <1>2 DEF Event, BookEvent, FillEvent
      <4> QED BY <1>2, <2>1, <4>1
    <3>2. Source(wire, applied, 1, 1 + 1) /\ TopOf(wire, applied, 1) = applied'
      BY <3>1 DEF Source, TopOf
    <3> QED BY <3>2
  <2>2. CASE e.kind = "fill"
    <3>1. applied' = applied /\ wire[1].kind = "fill" /\ ~wire[1].hole
      BY <1>2, <2>2
    <3>2. \A k \in 0 + 1 .. (1 + 1) - 1 : k = 1
      OBVIOUS
    <3>3. Source(wire, applied, 0, 1 + 1) /\ TopOf(wire, applied, 0) = applied'
      BY <3>1, <3>2 DEF Source, TopOf
    <3> QED BY <3>3
  <2> QED BY <2>1, <2>2
<1>6. DeltasFit(wire', applied') /\ EndFits(wire', applied', hole, prev, since)
  BY <1>2, <1>3, <1>4, <1>5, DropFits
<1>7. ReplicaFollows'
  <2> SUFFICES ASSUME applied' # << >> PROVE replica'.book = applied'
    BY DEF ReplicaFollows
  <2>1. CASE e.kind = "snapshot"
    BY <1>2, <1>3, <2>1, AppliedFacts
  <2>2. CASE e.kind = "delta"
    <3>1. applied' = e.top /\ applied # << >> /\ ~e.hole
      BY <1>2, <2>2
    <3>2. replica.book = applied
      BY <3>1 DEF ReplicaInv, ReplicaFollows
    <3>3. replica'.book = Over(e.delta, applied)
      BY <1>2, <1>3, <2>2, <3>2, AppliedFacts
    <3>4. Source(wire, applied, 0, 1) /\ TopOf(wire, applied, 0) = applied
      BY <3>1 DEF Source, TopOf
    <3>5. 1 \in 1 .. Len(wire) /\ 0 \in 0 .. 1 - 1
      BY <1>2
    <3>6. Over(wire[1].delta, TopOf(wire, applied, 0)) = wire[1].top
      BY <1>2, <1>3, <2>2, <3>1, <3>4, <3>5 DEF DeltasFit
    <3> QED BY <1>2, <3>1, <3>3, <3>4, <3>6
  <2>3. CASE e.kind = "fill"
    <3>1. applied' = applied
      BY <1>2, <2>3
    <3>2. replica'.book = replica.book
      BY <1>2, <1>3, <2>3, AppliedFacts
    <3> QED BY <3>1, <3>2 DEF ReplicaInv, ReplicaFollows
  <2>4. e.kind \in {"snapshot", "delta", "fill"}
    BY <1>2 DEF Event, BookEvent, FillEvent
  <2> QED BY <2>1, <2>2, <2>3, <2>4
<1>8. Linked'
  BY <1>2, <1>6 DEF Linked, Base, engine
<1> QED BY <1>7, <1>8

LEMMA EngineRestartsLinked ==
  ASSUME ReplicaInv, EngineRestarts
  PROVE  Linked' /\ ReplicaFollows'
<1>1. since' = SnapshotInterval /\ UNCHANGED gateway
  BY DEF EngineRestarts
<1>2. PICK n \in 0 .. Len(wire) : wire' = SubSeq(wire, 1, n)
  BY DEF EngineRestarts
<1>3. DeltasFit(wire', Base)
  BY <1>2, FirstFits DEF ReplicaInv, TInv, LinkTypes, Linked
<1>4. EndFits(wire', Base', hole', prev', since')
  <2>1. ~(since' < SnapshotInterval)
    BY <1>1, Constants
  <2> QED BY <2>1 DEF EndFits
<1> QED BY <1>1, <1>3, <1>4 DEF Linked, Base, gateway, ReplicaInv, ReplicaFollows

LEMMA GatewayRestartsLinked ==
  ASSUME ReplicaInv, GatewayRestarts
  PROVE  Linked' /\ ReplicaFollows'
<1>1. UNCHANGED <<hole, prev, since>> /\ ended' = FALSE /\ applied' = << >>
  BY DEF GatewayRestarts, engine
<1>2. PICK n \in 0 .. Len(wire) : wire' = SubSeq(wire, n + 1, Len(wire))
  BY DEF GatewayRestarts
<1>3. wire \in Seq(Event) /\ DeltasFit(wire, Base) /\ EndFits(wire, Base, hole, prev, since)
  BY DEF ReplicaInv, TInv, LinkTypes, Linked
<1>4. DeltasFit(wire', << >>) /\ EndFits(wire', << >>, hole, prev, since)
  BY <1>2, <1>3, DropFitsNoBase
<1> QED BY <1>1, <1>4 DEF Linked, Base, ReplicaFollows

LEMMA NextLinked == ReplicaInv /\ [Next]_vars => ReplicaInv'
<1> SUFFICES ASSUME ReplicaInv, [Next]_vars PROVE Linked' /\ ReplicaFollows'
  BY NextTypes DEF ReplicaInv
<1>1. Linked /\ ReplicaFollows
  BY DEF ReplicaInv
<1>2. CASE Change \/ Match \/ Settle \/ Resolve \/ UNCHANGED vars
  <2>1. UNCHANGED <<wire, hole, prev, since>> /\ UNCHANGED gateway
    BY <1>2 DEF Change, Match, Settle, Resolve, vars, engine, link
  <2> QED BY <1>1, <2>1, SameLinked
<1>3. CASE \E c \in Clients : SubscribeRead(c) \/ SubscribeRegister(c) \/ Unsubscribe(c)
  <2>1. UNCHANGED <<wire, hole, prev, since>> /\ UNCHANGED gateway
    BY <1>3 DEF SubscribeRead, SubscribeRegister, Unsubscribe, engine, link
  <2> QED BY <1>1, <2>1, SameLinked
<1>4. CASE SendFill \/ Tick \/ Lose \/ FallBehind \/ Ignore \/ Broadcast \/ EngineRestarts \/ GatewayRestarts
  BY <1>4, SendFillLinked, TickLinked, LoseLinked, FallBehindLinked, IgnoreLinked, BroadcastLinked,
     EngineRestartsLinked, GatewayRestartsLinked
<1> QED BY <1>2, <1>3, <1>4 DEF Next

\* While nothing was lost, the replica of the gateway is the book the publisher last sent, or an
\* earlier one that it sent: apply_orderbook_update never applies a delta to another book than
\* the one compute_deltas took it against.
THEOREM FeedReplicaFollows == Spec => []ReplicaFollows
<1>1. Init => ReplicaInv
  BY InitTypes, InitLinked DEF ReplicaInv
<1>2. ReplicaInv => ReplicaFollows
  BY DEF ReplicaInv
<1> QED BY <1>1, <1>2, NextLinked, PTL DEF Spec

-----------------------------------------------------------------------------
(* The order of the trades: what is under way is younger than what has    *)
(* arrived, and what waits in the engine is younger than both.            *)

Before(a, b) == a.num < b.num /\ a.time <= b.time

Sorted(s) == \A i, j \in 1 .. Len(s) : i < j => Before(s[i], s[j])

FillsSorted(w) ==
  \A i, j \in 1 .. Len(w) : i < j /\ w[i].kind = "fill" /\ w[j].kind = "fill" =>
    Before(w[i].trade, w[j].trade)

FillsOf(w) == {w[i].trade : i \in {k \in 1 .. Len(w) : w[k].kind = "fill"}}

Coming == FillsOf(wire) \cup Range(outbox)

Past == Range(replica.trades) \cup Range(replica.stats)

ComingOrdered ==
  FillsSorted(wire) /\ Sorted(outbox) /\ \A a \in FillsOf(wire), b \in Range(outbox) : Before(a, b)

PastOrdered ==
  Sorted(replica.trades) /\ Sorted(replica.stats) /\ \A a \in Past, b \in Coming : Before(a, b)

NoneAhead == \A a \in Past \cup Coming : a.num <= trades /\ a.time <= clock

ViewsBehind ==
  \A c \in Clients : \A n \in Range(view[c].trades) : n <= trades /\ \A b \in Coming : n < b.num

Ordered == ComingOrdered /\ PastOrdered /\ NoneAhead /\ ViewsBehind

LEMMA RangeFacts ==
  ASSUME NEW S, NEW s \in Seq(S)
  PROVE  /\ Range(s) \subseteq S
         /\ \A x : x \in Range(s) <=> \E i \in 1 .. Len(s) : s[i] = x
<1>1. DOMAIN s = 1 .. Len(s) /\ \A i \in 1 .. Len(s) : s[i] \in S
  OBVIOUS
<1> QED BY <1>1 DEF Range

LEMMA RangeAdd ==
  ASSUME NEW S, NEW s \in Seq(S), NEW e \in S
  PROVE  Range(Append(s, e)) = Range(s) \cup {e}
<1>1. PICK n \in Nat : n = Len(s) /\ DOMAIN s = 1 .. n
  OBVIOUS
<1>2. /\ DOMAIN Append(s, e) = 1 .. n + 1
      /\ \A k \in 1 .. n : Append(s, e)[k] = s[k]
      /\ Append(s, e)[n + 1] = e
  BY <1>1
<1> QED BY <1>1, <1>2 DEF Range

LEMMA FillsFacts ==
  ASSUME NEW w \in Seq(Event)
  PROVE  /\ FillsOf(w) \subseteq Trade
         /\ \A t : t \in FillsOf(w) <=> \E i \in 1 .. Len(w) : w[i].kind = "fill" /\ w[i].trade = t
<1>1. \A i \in 1 .. Len(w) : w[i] \in Event
  OBVIOUS
<1>2. \A e \in Event : e.kind = "fill" => e.trade \in Trade
  BY DEF Event, BookEvent, FillEvent
<1> QED BY <1>1, <1>2 DEF FillsOf

LEMMA SortedAdd ==
  ASSUME NEW s \in Seq(Trade), Sorted(s), NEW t \in Trade, \A x \in Range(s) : Before(x, t), NEW r, r = Append(s, t)
  PROVE  Sorted(r)
<1>1. PICK n \in Nat : n = Len(s)
  OBVIOUS
<1>2. Len(r) = n + 1 /\ r[n + 1] = t /\ \A k \in 1 .. n : r[k] = s[k]
  BY <1>1, AddFacts
<1>3. \A k \in 1 .. n : Before(s[k], t)
  BY <1>1, RangeFacts
<1>4. ASSUME NEW i \in 1 .. n + 1, NEW j \in 1 .. n + 1, i < j
      PROVE  Before(r[i], r[j])
  <2>1. i \in 1 .. n /\ (j \in 1 .. n \/ j = n + 1)
    BY <1>4
  <2> QED BY <1>1, <1>2, <1>3, <1>4, <2>1 DEF Sorted
<1> QED BY <1>2, <1>4 DEF Sorted

LEMMA SortedDrop ==
  ASSUME NEW s \in Seq(Trade), Sorted(s), NEW d \in 0 .. Len(s), NEW r, r = SubSeq(s, d + 1, Len(s))
  PROVE  Sorted(r)
<1>1. PICK n \in Nat, m \in Nat : n = Len(s) /\ m = Len(r) /\ m = n - d
  BY DropFacts
<1>2. \A i \in 1 .. m : i + d \in 1 .. n /\ r[i] = s[i + d]
  BY <1>1, DropFacts
<1>3. ASSUME NEW i \in 1 .. m, NEW j \in 1 .. m, i < j
      PROVE  Before(r[i], r[j])
  <2>1. i + d \in 1 .. n /\ j + d \in 1 .. n
    BY <1>2
  <2>2. i + d < j + d
    BY <1>3
  <2> QED BY <1>1, <1>2, <2>1, <2>2 DEF Sorted
<1> QED BY <1>1, <1>3 DEF Sorted

\* An event behind the others: of the fills, only a fill is new.
LEMMA FillsAdd ==
  ASSUME NEW w \in Seq(Event), NEW e \in Event, NEW r, r = Append(w, e), FillsSorted(w),
         e.kind = "fill" => \A x \in FillsOf(w) : Before(x, e.trade)
  PROVE  /\ FillsSorted(r) /\ r \in Seq(Event)
         /\ e.kind = "fill" => FillsOf(r) = FillsOf(w) \cup {e.trade}
         /\ e.kind # "fill" => FillsOf(r) = FillsOf(w)
<1>1. PICK n \in Nat : n = Len(w)
  OBVIOUS
<1>2. r \in Seq(Event) /\ Len(r) = n + 1 /\ r[n + 1] = e /\ \A k \in 1 .. n : r[k] = w[k]
  BY <1>1, AddFacts
<1>3. FillsOf(r) = FillsOf(w) \cup {t \in {e.trade} : e.kind = "fill"}
  <2>1. \A t : t \in FillsOf(r) <=> \E i \in 1 .. n + 1 : r[i].kind = "fill" /\ r[i].trade = t
    <3>1. \A t : t \in FillsOf(r) <=> \E i \in 1 .. Len(r) : r[i].kind = "fill" /\ r[i].trade = t
      BY ONLY <1>2, FillsFacts
    <3>2. Len(r) = n + 1
      BY <1>2
    <3> QED BY ONLY <3>1, <3>2
  <2>2. \A t : t \in FillsOf(w) <=> \E i \in 1 .. n : w[i].kind = "fill" /\ w[i].trade = t
    BY <1>1, FillsFacts
  <2>3. \A i \in 1 .. n + 1 : i \in 1 .. n \/ i = n + 1
    OBVIOUS
  <2>4. \A i \in 1 .. n : i \in 1 .. n + 1
    OBVIOUS
  <2>5. n + 1 \in 1 .. n + 1
    OBVIOUS
  <2>6. ASSUME NEW t PROVE t \in FillsOf(r) <=> t \in FillsOf(w) \cup {x \in {e.trade} : e.kind = "fill"}
    BY <1>2, <2>1, <2>2, <2>3, <2>4, <2>5
  <2> QED BY <2>6
<1>4. ASSUME NEW i \in 1 .. n + 1, NEW j \in 1 .. n + 1, i < j, r[i].kind = "fill", r[j].kind = "fill"
      PROVE  Before(r[i].trade, r[j].trade)
  <2>1. i \in 1 .. n /\ (j \in 1 .. n \/ j = n + 1)
    BY <1>4
  <2>2. CASE j \in 1 .. n
    BY <1>1, <1>2, <1>4, <2>1, <2>2 DEF FillsSorted
  <2>3. CASE j = n + 1
    <3>1. w[i].kind = "fill" /\ r[i] = w[i] /\ r[j] = e
      BY <1>2, <1>4, <2>1, <2>3
    <3>2. w[i].trade \in FillsOf(w)
      BY <1>1, <2>1, <3>1, FillsFacts
    <3> QED BY <1>4, <3>1, <3>2
  <2> QED BY <2>1, <2>2, <2>3
<1>5. {t \in {e.trade} : e.kind = "fill"} = IF e.kind = "fill" THEN {e.trade} ELSE {}
  OBVIOUS
<1>6. FillsSorted(r)
  BY <1>2, <1>4 DEF FillsSorted
<1> QED BY <1>2, <1>3, <1>5, <1>6

\* Events that are among those before, in the same order.
LEMMA FillsSome ==
  ASSUME NEW w \in Seq(Event), FillsSorted(w), NEW r \in Seq(Event), NEW m \in [1 .. Len(r) -> 1 .. Len(w)],
         \A i \in 1 .. Len(r) : r[i].kind = w[m[i]].kind /\ (r[i].kind = "fill" => r[i].trade = w[m[i]].trade),
         \A i, j \in 1 .. Len(r) : i < j => m[i] < m[j]
  PROVE  FillsSorted(r) /\ FillsOf(r) \subseteq FillsOf(w)
<1>1. ASSUME NEW i \in 1 .. Len(r), NEW j \in 1 .. Len(r), i < j, r[i].kind = "fill", r[j].kind = "fill"
      PROVE  Before(r[i].trade, r[j].trade)
  <2>1. m[i] \in 1 .. Len(w) /\ m[j] \in 1 .. Len(w) /\ m[i] < m[j]
    BY <1>1
  <2>2. w[m[i]].kind = "fill" /\ w[m[j]].kind = "fill" /\ r[i].trade = w[m[i]].trade /\ r[j].trade = w[m[j]].trade
    BY <1>1
  <2> QED BY <2>1, <2>2 DEF FillsSorted
<1>2. ASSUME NEW t \in FillsOf(r) PROVE t \in FillsOf(w)
  <2>1. PICK i \in 1 .. Len(r) : r[i].kind = "fill" /\ r[i].trade = t
    BY <1>2, FillsFacts
  <2>2. m[i] \in 1 .. Len(w) /\ w[m[i]].kind = "fill" /\ w[m[i]].trade = t
    BY <2>1
  <2> QED BY <2>2, FillsFacts
<1> QED BY <1>1, <1>2 DEF FillsSorted

LEMMA FillsDrop ==
  ASSUME NEW w \in Seq(Event), FillsSorted(w), NEW d \in 0 .. Len(w), NEW r, r = SubSeq(w, d + 1, Len(w))
  PROVE  r \in Seq(Event) /\ FillsSorted(r) /\ FillsOf(r) \subseteq FillsOf(w)
<1>1. r \in Seq(Event) /\ Len(r) = Len(w) - d /\ \A i \in 1 .. Len(r) : i + d \in 1 .. Len(w) /\ r[i] = w[i + d]
  BY DropFacts
<1>2. PICK m : m = [i \in 1 .. Len(r) |-> i + d]
  OBVIOUS
<1>3. m \in [1 .. Len(r) -> 1 .. Len(w)]
  BY <1>1, <1>2
<1>4. \A i \in 1 .. Len(r) : r[i].kind = w[m[i]].kind /\ (r[i].kind = "fill" => r[i].trade = w[m[i]].trade)
  BY <1>1, <1>2
<1>5. \A i, j \in 1 .. Len(r) : i < j => m[i] < m[j]
  BY <1>1, <1>2
<1> QED BY <1>1, <1>3, <1>4, <1>5, FillsSome

LEMMA FillsFirst ==
  ASSUME NEW w \in Seq(Event), FillsSorted(w), NEW n \in 0 .. Len(w), NEW r, r = SubSeq(w, 1, n)
  PROVE  r \in Seq(Event) /\ FillsSorted(r) /\ FillsOf(r) \subseteq FillsOf(w)
<1>1. r \in Seq(Event) /\ Len(r) = n /\ \A i \in 1 .. n : i \in 1 .. Len(w) /\ r[i] = w[i]
  BY FirstFacts
<1>2. PICK m : m = [i \in 1 .. Len(r) |-> i]
  OBVIOUS
<1>3. m \in [1 .. Len(r) -> 1 .. Len(w)]
  BY <1>1, <1>2
<1>4. \A i \in 1 .. Len(r) : r[i].kind = w[m[i]].kind /\ (r[i].kind = "fill" => r[i].trade = w[m[i]].trade)
  BY <1>1, <1>2
<1>5. \A i, j \in 1 .. Len(r) : i < j => m[i] < m[j]
  BY <1>1, <1>2
<1> QED BY <1>1, <1>3, <1>4, <1>5, FillsSome

LEMMA FillsLose ==
  ASSUME wire \in Seq(Event), hole \in BOOLEAN, Lose, FillsSorted(wire)
  PROVE  wire' \in Seq(Event) /\ FillsSorted(wire') /\ FillsOf(wire') \subseteq FillsOf(wire)
<1>1. PICK g \in 1 .. Len(wire) :
        /\ wire' \in Seq(Event) /\ Len(wire') = Len(wire) - 1
        /\ \A k \in 1 .. Len(wire') :
             /\ k < g => wire'[k] = wire[k]
             /\ k >= g => /\ wire'[k].kind = wire[k + 1].kind
                          /\ wire[k + 1].kind = "fill" => wire'[k].trade = wire[k + 1].trade
  BY LoseFacts
<1>2. PICK m : m = [k \in 1 .. Len(wire') |-> IF k < g THEN k ELSE k + 1]
  OBVIOUS
<1>3. m \in [1 .. Len(wire') -> 1 .. Len(wire)]
  BY <1>1, <1>2
<1>4. ASSUME NEW i \in 1 .. Len(wire')
      PROVE  wire'[i].kind = wire[m[i]].kind /\ (wire'[i].kind = "fill" => wire'[i].trade = wire[m[i]].trade)
  <2>1. CASE i < g
    BY <1>1, <1>2, <2>1
  <2>2. CASE i >= g
    <3>1. m[i] = i + 1
      BY <1>2, <2>2
    <3> QED BY <1>1, <2>2, <3>1
  <2> QED BY <1>1, <2>1, <2>2
<1>5. \A i, j \in 1 .. Len(wire') : i < j => m[i] < m[j]
  BY <1>1, <1>2
<1> QED BY <1>1, <1>3, <1>4, <1>5, FillsSome

LEMMA TradeTypes ==
  ASSUME TInv
  PROVE  /\ wire \in Seq(Event) /\ outbox \in Seq(Trade) /\ hole \in BOOLEAN
         /\ replica \in Replica /\ replica.trades \in Seq(Trade) /\ replica.stats \in Seq(Trade)
         /\ Past \subseteq Trade /\ Coming \subseteq Trade
         /\ trades \in 0 .. MaxTrades /\ clock \in 0 .. MaxTime
<1>1. wire \in Seq(Event) /\ outbox \in Seq(Trade) /\ replica.trades \in Seq(Trade) /\ replica.stats \in Seq(Trade)
      /\ trades \in 0 .. MaxTrades /\ clock \in 0 .. MaxTime /\ hole \in BOOLEAN /\ replica \in Replica
  BY DEF TInv, LinkTypes, EngineTypes, GatewayTypes, Replica
<1> QED BY <1>1, RangeFacts, FillsFacts DEF Past, Coming

LEMMA FewerComing ==
  ASSUME Ordered, FillsSorted(wire'), FillsOf(wire') \subseteq FillsOf(wire), Sorted(outbox'),
         Range(outbox') \subseteq Range(outbox), UNCHANGED <<replica.trades, replica.stats, trades, clock>>,
         \A c \in Clients : view'[c].trades = view[c].trades
  PROVE  Ordered'
<1>1. Coming' \subseteq Coming /\ Past' = Past
  BY DEF Coming, Past
<1>2. ComingOrdered'
  BY DEF Ordered, ComingOrdered
<1>3. PastOrdered'
  BY <1>1 DEF Ordered, PastOrdered
<1>4. NoneAhead'
  BY <1>1 DEF Ordered, NoneAhead
<1>5. ViewsBehind'
  BY <1>1 DEF Ordered, ViewsBehind
<1> QED BY <1>2, <1>3, <1>4, <1>5 DEF Ordered

LEMMA SettleOrdered ==
  ASSUME TInv, Ordered, Settle
  PROVE  Ordered'
<1>1. trades' = trades + 1 /\ clock' \in clock .. MaxTime /\ UNCHANGED <<wire, replica, view>>
  BY DEF Settle, link, gateway, clients
<1>2. PICK t : t = [num |-> trades + 1, time |-> clock']
  OBVIOUS
<1>3. outbox' = outbox \/ outbox' = Append(outbox, t)
  BY <1>2 DEF Settle
<1>4. t \in Trade /\ t.num = trades' /\ t.time = clock'
  <2>1. trades + 1 \in 1 .. MaxTrades /\ clock' \in 0 .. MaxTime
    BY SettleTypes DEF TInv, EngineTypes, Settle
  <2> QED BY <1>1, <1>2, <2>1 DEF Trade
<1>5. Past \subseteq Trade /\ Coming \subseteq Trade /\ outbox \in Seq(Trade) /\ trades \in Int /\ clock \in Int
  BY TradeTypes
<1>6. \A a \in Past \cup Coming : Before(a, t) /\ a.num <= trades' /\ a.time <= clock'
  <2>1. \A a \in Past \cup Coming : a.num <= trades /\ a.time <= clock
    BY DEF Ordered, NoneAhead
  <2>2. \A a \in Past \cup Coming : a.num \in Int /\ a.time \in Int
    BY <1>5 DEF Trade
  <2> QED BY <1>1, <1>4, <1>5, <2>1, <2>2 DEF Before
<1>7. Range(outbox') \subseteq Range(outbox) \cup {t} /\ Sorted(outbox')
  <2>1. CASE outbox' = outbox
    BY <2>1 DEF Ordered, ComingOrdered
  <2>2. CASE outbox' = Append(outbox, t)
    <3>1. Range(outbox') = Range(outbox) \cup {t}
      BY <1>4, <1>5, <2>2, RangeAdd
    <3>2. \A x \in Range(outbox) : Before(x, t)
      BY <1>6 DEF Coming
    <3>3. Sorted(outbox)
      BY DEF Ordered, ComingOrdered
    <3>4. Sorted(outbox')
      BY <1>4, <1>5, <2>2, <3>2, <3>3, SortedAdd
    <3> QED BY <3>1, <3>4
  <2> QED BY <1>3, <2>1, <2>2
<1>8. Coming' \subseteq Coming \cup {t} /\ Past' = Past /\ FillsOf(wire)' = FillsOf(wire)
  BY <1>1, <1>7 DEF Coming, Past
<1>9. ComingOrdered'
  BY <1>1, <1>6, <1>7, <1>8 DEF Ordered, ComingOrdered, Coming
<1>10. PastOrdered'
  BY <1>1, <1>6, <1>8 DEF Ordered, PastOrdered
<1>11. NoneAhead'
  <2>1. t.num <= trades' /\ t.time <= clock'
    BY <1>1, <1>4, <1>5
  <2> QED BY <1>6, <1>8, <2>1 DEF NoneAhead
<1>12. ViewsBehind'
  <2> SUFFICES ASSUME NEW c \in Clients, NEW n \in Range(view[c].trades)
               PROVE  n <= trades' /\ \A b \in Coming' : n < b.num
    BY <1>1 DEF ViewsBehind
  <2>1. n <= trades /\ \A b \in Coming : n < b.num
    BY DEF Ordered, ViewsBehind
  <2>2. n \in Int
    <3>1. PICK s \in Seq(1 .. MaxTrades) : s = view[c].trades
      BY DEF TInv, ClientTypes, View
    <3>2. Range(s) \subseteq 1 .. MaxTrades
      BY ONLY s \in Seq(1 .. MaxTrades), RangeFacts
    <3> QED BY <3>1, <3>2
  <2>3. n <= trades' /\ n < t.num
    BY <1>1, <1>4, <1>5, <2>1, <2>2
  <2> QED BY <1>8, <2>1, <2>3
<1> QED BY <1>9, <1>10, <1>11, <1>12 DEF Ordered

LEMMA SendFillOrdered ==
  ASSUME TInv, Ordered, SendFill
  PROVE  Ordered'
<1>1. UNCHANGED <<replica, view, trades, clock>> /\ outbox # << >> /\ outbox \in Seq(Trade) /\ wire \in Seq(Event)
      /\ hole \in BOOLEAN
  BY TradeTypes DEF SendFill, gateway, clients
<1>2. CASE ~CanSend
  <2>1. wire' = wire /\ outbox' = << >>
    BY <1>2 DEF SendFill
  <2>2. Sorted(outbox') /\ Range(outbox') \subseteq Range(outbox)
    BY <2>1 DEF Sorted, Range
  <2>3. FillsSorted(wire') /\ FillsOf(wire') \subseteq FillsOf(wire)
    BY <2>1 DEF Ordered, ComingOrdered
  <2> QED BY <1>1, <2>2, <2>3, FewerComing
<1>3. CASE CanSend
  <2>1. PICK t : t = Head(outbox)
    OBVIOUS
  <2>2. PICK e : e = [kind |-> "fill", trade |-> t, hole |-> hole]
    OBVIOUS
  <2>3. wire' = Append(wire, e) /\ outbox' = Tail(outbox)
    BY <1>3, <2>1, <2>2 DEF SendFill
  <2>4. t \in Trade /\ t = outbox[1] /\ t \in Range(outbox) /\ Range(outbox') \subseteq Range(outbox)
    BY <1>1, <2>1, <2>3, HeadFacts
  <2>5. e \in Event /\ e.kind = "fill" /\ e.trade = t
    BY <1>1, <2>2, <2>4 DEF Event, FillEvent
  <2>6. FillsSorted(wire) /\ Sorted(outbox) /\ \A a \in FillsOf(wire), b \in Range(outbox) : Before(a, b)
    BY DEF Ordered, ComingOrdered
  <2>7. e.kind = "fill" => \A x \in FillsOf(wire) : Before(x, e.trade)
    BY <2>4, <2>5, <2>6
  <2>8. FillsSorted(wire') /\ FillsOf(wire') = FillsOf(wire) \cup {t}
    <3>1. FillsSorted(wire') /\ (e.kind = "fill" => FillsOf(wire') = FillsOf(wire) \cup {e.trade})
      BY ONLY <1>1, <2>3, <2>6, <2>7, <2>5, FillsAdd
    <3> QED BY <2>5, <3>1
  <2>9. 1 \in 0 .. Len(outbox) /\ outbox' = SubSeq(outbox, 1 + 1, Len(outbox))
    BY <1>1, <2>3, TailIsDrop
  <2>10. Sorted(outbox')
    BY ONLY <1>1, <2>6, <2>9, SortedDrop
  <2>11. \A b \in Range(outbox') : Before(t, b)
    <3>1. outbox' \in Seq(Trade) /\ Len(outbox') = Len(outbox) - 1 /\ Len(outbox) \in Nat \ {0}
          /\ \A i \in 1 .. Len(outbox') : i + 1 \in 1 .. Len(outbox) /\ outbox'[i] = outbox[i + 1]
      BY <1>1, <2>3, HeadFacts
    <3>2. ASSUME NEW b \in Range(outbox') PROVE Before(t, b)
      <4>1. PICK i \in 1 .. Len(outbox') : outbox'[i] = b
        BY <3>1, RangeFacts
      <4>2. i + 1 \in 1 .. Len(outbox) /\ 1 \in 1 .. Len(outbox) /\ 1 < i + 1 /\ outbox[i + 1] = b
        BY <3>1, <4>1
      <4> QED BY <2>4, <2>6, <4>2 DEF Sorted
    <3> QED BY <3>2
  <2>12. ComingOrdered'
    BY <2>4, <2>6, <2>8, <2>10, <2>11 DEF ComingOrdered
  <2>13. Coming' \subseteq Coming /\ Past' = Past
    BY <1>1, <2>4, <2>8 DEF Coming, Past
  <2>14. PastOrdered' /\ NoneAhead' /\ ViewsBehind'
    BY <1>1, <2>13 DEF Ordered, PastOrdered, NoneAhead, ViewsBehind
  <2> QED BY <2>12, <2>14 DEF Ordered
<1> QED BY <1>2, <1>3

LEMMA TickOrdered ==
  ASSUME TInv, Ordered, Tick
  PROVE  Ordered'
<1>1. UNCHANGED <<replica, view, trades, clock, outbox>>
  BY TickFacts DEF gateway, clients
<1>2. \/ \E e \in Event : wire' = Append(wire, e) /\ e.kind # "fill"
      \/ wire' = wire
  BY TickFacts
<1>3. wire \in Seq(Event) /\ FillsSorted(wire) /\ Sorted(outbox)
  BY TradeTypes DEF Ordered, ComingOrdered
<1>4. FillsSorted(wire') /\ FillsOf(wire') \subseteq FillsOf(wire)
  <2>1. CASE wire' = wire
    BY <1>3, <2>1
  <2>2. ASSUME NEW e \in Event, wire' = Append(wire, e), e.kind # "fill"
        PROVE  FillsSorted(wire') /\ FillsOf(wire') \subseteq FillsOf(wire)
    <3>1. FillsSorted(wire') /\ FillsOf(wire') = FillsOf(wire)
      BY <1>3, <2>2, FillsAdd
    <3> QED BY <2>2, <3>1
  <2> QED BY <1>2, <2>1, <2>2
<1> QED BY <1>1, <1>3, <1>4, FewerComing

LEMMA LoseOrdered ==
  ASSUME TInv, Ordered, Lose
  PROVE  Ordered'
<1>1. UNCHANGED <<replica, view, trades, clock, outbox>>
  BY DEF Lose, engine, gateway, clients
<1>2. wire \in Seq(Event) /\ hole \in BOOLEAN /\ FillsSorted(wire) /\ Sorted(outbox)
  BY TradeTypes DEF Ordered, ComingOrdered
<1>3. FillsSorted(wire') /\ FillsOf(wire') \subseteq FillsOf(wire)
  BY <1>2, FillsLose
<1> QED BY <1>1, <1>2, <1>3, FewerComing

LEMMA IgnoreOrdered ==
  ASSUME TInv, Ordered, Ignore
  PROVE  Ordered'
<1>1. UNCHANGED <<replica, view, trades, clock, outbox>> /\ wire # << >> /\ wire' = Tail(wire)
  BY DEF Ignore, engine, gateway, clients
<1>2. wire \in Seq(Event) /\ FillsSorted(wire) /\ Sorted(outbox)
  BY TradeTypes DEF Ordered, ComingOrdered
<1>3. FillsSorted(wire') /\ FillsOf(wire') \subseteq FillsOf(wire)
  BY <1>1, <1>2, TailIsDrop, FillsDrop
<1> QED BY <1>1, <1>2, <1>3, FewerComing

LEMMA EngineRestartsOrdered ==
  ASSUME TInv, Ordered, EngineRestarts
  PROVE  Ordered'
<1>1. UNCHANGED <<replica, view, trades, clock>> /\ outbox' = << >>
  BY DEF EngineRestarts, gateway, clients
<1>2. PICK n \in 0 .. Len(wire) : wire' = SubSeq(wire, 1, n)
  BY DEF EngineRestarts
<1>3. wire \in Seq(Event) /\ FillsSorted(wire)
  BY TradeTypes DEF Ordered, ComingOrdered
<1>4. FillsSorted(wire') /\ FillsOf(wire') \subseteq FillsOf(wire)
  BY <1>2, <1>3, FillsFirst
<1>5. Sorted(outbox') /\ Range(outbox') \subseteq Range(outbox)
  BY <1>1 DEF Sorted, Range
<1> QED BY <1>1, <1>4, <1>5, FewerComing

LEMMA GatewayRestartsOrdered ==
  ASSUME TInv, Ordered, GatewayRestarts
  PROVE  Ordered'
<1>1. UNCHANGED <<trades, clock, outbox>> /\ replica' = NewReplica /\ view' = [c \in Clients |-> NewView]
  BY DEF GatewayRestarts, engine
<1>2. PICK n \in 0 .. Len(wire) : wire' = SubSeq(wire, n + 1, Len(wire))
  BY DEF GatewayRestarts
<1>3. wire \in Seq(Event) /\ FillsSorted(wire)
  BY TradeTypes DEF Ordered, ComingOrdered
<1>4. FillsSorted(wire') /\ FillsOf(wire') \subseteq FillsOf(wire)
  BY <1>2, <1>3, FillsDrop
<1>5. replica'.trades = << >> /\ replica'.stats = << >> /\ \A c \in Clients : view'[c].trades = << >>
  BY <1>1 DEF NewReplica, NewView
<1>6. Coming' \subseteq Coming /\ Past' = {}
  BY <1>1, <1>4, <1>5 DEF Coming, Past, Range
<1>7. ComingOrdered'
  BY <1>1, <1>4 DEF Ordered, ComingOrdered
<1>8. PastOrdered'
  BY <1>5, <1>6 DEF PastOrdered, Sorted
<1>9. NoneAhead'
  BY <1>1, <1>6 DEF Ordered, NoneAhead
<1>10. ViewsBehind'
  BY <1>5 DEF ViewsBehind, Range
<1> QED BY <1>7, <1>8, <1>9, <1>10 DEF Ordered

LEMMA SubscribeReadOrdered ==
  ASSUME TInv, Ordered, NEW c \in Clients, SubscribeRead(c)
  PROVE  Ordered'
<1>1. UNCHANGED <<wire, outbox, replica, trades, clock>> /\ view \in [Clients -> View] /\ replica \in Replica
  BY SubscribeReadFacts DEF engine, link, gateway, TInv, ClientTypes, GatewayTypes
<1>2. PICK v \in View :
        /\ view' = [view EXCEPT ![c] = v]
        /\ ~replica.known => v = view[c]
        /\ replica.known /\ c \in TickerClients => v.trades = view[c].trades
        /\ replica.known /\ c \notin TickerClients => v = WithSnapshot(view[c], replica)
  BY SubscribeReadFacts
<1>3. Coming' = Coming /\ Past' = Past
  BY <1>1 DEF Coming, Past
<1>4. ComingOrdered' /\ PastOrdered' /\ NoneAhead'
  BY <1>1, <1>3 DEF Ordered, ComingOrdered, PastOrdered, NoneAhead
<1>5. ASSUME NEW n \in Range(v.trades)
      PROVE  n \in Range(view[c].trades) \/ \E a \in Past : n = a.num
  <2>1. CASE replica.known /\ c \notin TickerClients
    <3>1. view[c].trades \in Seq(1 .. MaxTrades) /\ replica.trades \in Seq(Trade) /\ view[c] \in View
      BY <1>1 DEF View, Replica
    <3>2. PICK ts \in Seq(1 .. MaxTrades) :
            /\ v.trades = Latest(ts, TradesShown)
            /\ Len(ts) = Len(view[c].trades) + Len(replica.trades)
            /\ \A i \in 1 .. Len(view[c].trades) : ts[i] = view[c].trades[i]
            /\ \A i \in 1 .. Len(replica.trades) : ts[Len(view[c].trades) + i] = replica.trades[i].num
      <4>1. v = WithSnapshot(view[c], replica)
        BY <1>2, <2>1
      <4>2. PICK u \in View, r \in Replica : u = view[c] /\ r = replica
        BY <1>1, <3>1
      <4>3. \E ts \in Seq(1 .. MaxTrades) :
              /\ WithSnapshot(u, r).trades = Latest(ts, TradesShown)
              /\ Len(ts) = Len(u.trades) + Len(r.trades)
              /\ \A i \in 1 .. Len(u.trades) : ts[i] = u.trades[i]
              /\ \A i \in 1 .. Len(r.trades) : ts[Len(u.trades) + i] = r.trades[i].num
        BY ONLY u \in View, r \in Replica, SnapshotFacts
      <4> QED BY ONLY <4>1, <4>2, <4>3
    <3>3. PICK p \in Nat, q \in Nat : p = Len(view[c].trades) /\ q = Len(replica.trades)
      BY <3>1
    <3>4. PICK k \in 1 .. p + q : ts[k] = n
      <4>1. n \in Range(ts)
        BY <1>5, <3>2, LatestRange, Constants
      <4>2. \E k \in 1 .. Len(ts) : ts[k] = n
        BY ONLY <4>1, ts \in Seq(1 .. MaxTrades), RangeFacts
      <4>3. Len(ts) = p + q
        BY <3>2, <3>3
      <4> QED BY ONLY <4>2, <4>3
    <3>5. CASE k \in 1 .. p
      <4>1. view[c].trades[k] = n
        BY <3>2, <3>3, <3>4, <3>5
      <4> QED BY <3>1, <3>3, <3>5, <4>1, RangeFacts
    <3>6. CASE k \notin 1 .. p
      <4>1. k - p \in 1 .. q /\ p + (k - p) = k
        BY <3>6
      <4>2. n = replica.trades[k - p].num
        BY <3>2, <3>3, <3>4, <4>1
      <4>3. replica.trades[k - p] \in Past
        BY <3>1, <3>3, <4>1, RangeFacts DEF Past
      <4> QED BY <4>2, <4>3
    <3> QED BY <3>5, <3>6
  <2>2. CASE ~(replica.known /\ c \notin TickerClients)
    BY <1>2, <1>5, <2>2
  <2> QED BY <2>1, <2>2
<1>6. ViewsBehind'
  <2> SUFFICES ASSUME NEW d \in Clients, NEW n \in Range(view'[d].trades)
               PROVE  n <= trades /\ \A b \in Coming : n < b.num
    BY <1>1, <1>3 DEF ViewsBehind
  <2>1. view'[d] = IF d = c THEN v ELSE view[d]
    BY <1>1, <1>2
  <2>2. n \in Range(view[d].trades) \/ \E a \in Past : n = a.num
    BY <1>5, <2>1
  <2> QED BY <2>2, Zenon DEF Ordered, ViewsBehind, PastOrdered, NoneAhead, Before
<1> QED BY <1>4, <1>6 DEF Ordered

\* The trades that are kept when one arrives.
LEMMA KeptRun ==
  ASSUME NEW s \in Seq(Trade), Sorted(s), NEW t \in Trade, \A x \in Range(s) : Before(x, t)
  PROVE  /\ Kept(Append(s, t)) \in Seq(Trade) /\ Sorted(Kept(Append(s, t)))
         /\ Range(Kept(Append(s, t))) \subseteq Range(s) \cup {t}
         /\ Kept(Append(s, t)) # << >> /\ Last(Kept(Append(s, t))) = t
<1>1. PICK a, r : a = Append(s, t) /\ r = Kept(a)
  OBVIOUS
<1>2. PICK n \in Nat : n = Len(s)
  OBVIOUS
<1>3. a \in Seq(Trade) /\ Len(a) = n + 1 /\ a[n + 1] = t /\ a # << >>
  BY <1>1, <1>2
<1>4. Sorted(a) /\ Range(a) = Range(s) \cup {t}
  BY ZenonT(40), <1>1, SortedAdd, RangeAdd
<1>5. PICK d \in 0 .. Len(a) : r = SubSeq(a, d + 1, Len(a)) /\ d < Len(a)
  <2>1. \E d \in 0 .. Len(a) : r = SubSeq(a, d + 1, Len(a)) /\ (a # << >> => d < Len(a))
    <3>1. TradesKept \in Nat \ {0} /\ r = Latest(a, TradesKept)
      BY <1>1, Constants DEF Kept
    <3>2. a \in Seq(Trade) /\ TradesKept \in Nat \ {0}
      BY <1>3, <3>1
    <3> QED BY ONLY SMTT(40), <3>1, <3>2, LatestFacts
  <2> QED BY <1>3, <2>1
<1>6. /\ r \in Seq(Trade) /\ Len(r) = Len(a) - d
      /\ \A i \in 1 .. Len(r) : i + d \in 1 .. Len(a) /\ r[i] = a[i + d]
  BY <1>3, <1>5, DropFacts
<1>7. Range(r) \subseteq Range(a)
  BY <1>3, <1>5, DropRange
<1>8. Sorted(r)
  BY <1>3, <1>4, <1>5, SortedDrop
<1>9. r # << >> /\ Last(r) = t
  <2>1. Len(r) \in 1 .. Len(r) /\ Len(r) + d = n + 1
    BY <1>2, <1>3, <1>5, <1>6
  <2>2. r[Len(r)] = t
    BY <1>3, <1>6, <2>1
  <2> QED BY <2>1, <2>2 DEF Last
<1> QED BY <1>1, <1>4, <1>6, <1>8, <1>9, <1>7

\* The statistics when a trade arrives: what is left is of the last day, and all of it.
LEMMA ExpiredRun ==
  ASSUME NEW s \in Seq(Trade), Sorted(s), NEW t \in Trade, \A x \in Range(s) : Before(x, t)
  PROVE  /\ Expired(Append(s, t), t.time) \in Seq(Trade) /\ Sorted(Expired(Append(s, t), t.time))
         /\ Range(Expired(Append(s, t), t.time)) \subseteq Range(s) \cup {t}
         /\ t \in Range(Expired(Append(s, t), t.time))
         /\ \A x \in Range(s) : x.time >= t.time - Day => x \in Range(Expired(Append(s, t), t.time))
         /\ \A x \in Range(Expired(Append(s, t), t.time)) : x.time >= t.time - Day
<1>1. PICK a, r : a = Append(s, t) /\ r = Expired(a, t.time)
  OBVIOUS
<1>2. PICK n \in Nat : n = Len(s)
  OBVIOUS
<1>3. a \in Seq(Trade) /\ Len(a) = n + 1 /\ a[n + 1] = t /\ DOMAIN a = 1 .. n + 1 /\ \A k \in 1 .. n : a[k] = s[k]
  BY <1>1, <1>2
<1>4. Sorted(a) /\ Range(a) = Range(s) \cup {t}
  BY ZenonT(40), <1>1, SortedAdd, RangeAdd
<1>5. t.time \in Int /\ Day \in Nat /\ \A k \in 1 .. n + 1 : a[k].time \in Int
  <2>1. \A x \in Trade : x.time \in Int
    BY DEF Trade
  <2>2. \A k \in 1 .. n + 1 : a[k] \in Trade
    BY <1>3
  <2> QED BY <2>1, <2>2, Constants
<1>6. PICK d \in 0 .. Len(a) :
        /\ r = SubSeq(a, d + 1, Len(a))
        /\ \A i \in DOMAIN a : a[i].time >= t.time - Day => d < i
        /\ d < Len(a) => a[d + 1].time >= t.time - Day
  BY <1>1, <1>3, <1>5, ExpiredFacts
<1>7. /\ r \in Seq(Trade) /\ Len(r) = n + 1 - d
      /\ \A i \in 1 .. n + 1 - d : i + d \in 1 .. n + 1 /\ r[i] = a[i + d]
  <2>1. /\ r \in Seq(Trade) /\ Len(r) = Len(a) - d
        /\ \A i \in 1 .. Len(r) : i + d \in 1 .. Len(a) /\ r[i] = a[i + d]
    BY <1>3, <1>6, DropFacts
  <2> QED BY <1>3, <2>1
<1>8. Range(r) \subseteq Range(a)
  BY <1>3, <1>6, DropRange
<1>9. Sorted(r)
  BY <1>3, <1>4, <1>6, SortedDrop
<1>10. ASSUME NEW k \in 1 .. n + 1, a[k].time >= t.time - Day
      PROVE  a[k] \in Range(r)
  <2>1. d < k
    BY <1>3, <1>6, <1>10
  <2>2. k - d \in 1 .. n + 1 - d /\ (k - d) + d = k
    BY <2>1
  <2>3. r[k - d] = a[k]
    BY <1>7, <2>2
  <2> QED BY <1>7, <2>2, <2>3, RangeFacts
<1>11. t \in Range(r)
  <2>1. a[n + 1].time >= t.time - Day /\ n + 1 \in 1 .. n + 1
    BY <1>3, <1>5
  <2> QED BY <1>3, <1>10, <2>1
<1>12. ASSUME NEW x \in Range(s), x.time >= t.time - Day
       PROVE  x \in Range(r)
  <2>1. PICK k \in 1 .. n : s[k] = x
    BY <1>2, RangeFacts
  <2> QED BY <1>3, <1>10, <1>12, <2>1
<1>13. ASSUME NEW x \in Range(r) PROVE x.time >= t.time - Day
  <2>1. PICK i \in 1 .. n + 1 - d : r[i] = x
    BY <1>7, RangeFacts
  <2>2. i + d \in 1 .. n + 1 /\ x = a[i + d] /\ d + 1 \in 1 .. n + 1 /\ d < n + 1
    BY <1>7, <2>1
  <2>3. a[d + 1].time >= t.time - Day
    BY <1>3, <1>6, <2>2
  <2>4. a[d + 1].time <= a[i + d].time
    <3>1. CASE i = 1
      BY <1>5, <2>2, <3>1
    <3>2. CASE i # 1
      <4>1. d + 1 < i + d
        BY <3>2
      <4> QED BY <1>3, <1>4, <2>2, <4>1 DEF Sorted, Before
    <3> QED BY <3>1, <3>2
  <2> QED BY <1>5, <2>2, <2>3, <2>4
<1> QED BY <1>1, <1>4, <1>7, <1>9, <1>11, <1>12, <1>13, <1>8

\* A fill that the broadcaster takes is older than all that is still to come, and younger than the replica's.
LEMMA FillArrives ==
  ASSUME TInv, Ordered, Broadcast, NEW t, Head(wire).kind = "fill", t = Head(wire).trade
  PROVE  /\ t \in Trade /\ t \in Coming /\ \A a \in Past : Before(a, t)
         /\ FillsSorted(wire') /\ FillsOf(wire') \subseteq FillsOf(wire) /\ outbox' = outbox
         /\ \A b \in Coming' : Before(t, b)
<1>1. PICK e : e = Head(wire) /\ e.kind = "fill" /\ t = e.trade
  OBVIOUS
<1>2. wire # << >> /\ wire \in Seq(Event) /\ wire' = Tail(wire) /\ e \in Event /\ e = wire[1]
      /\ Len(wire) \in Nat \ {0} /\ outbox' = outbox
  BY <1>1, BroadcastFacts DEF engine
<1>3. FillsSorted(wire) /\ \A a \in FillsOf(wire), b \in Range(outbox) : Before(a, b)
  BY DEF Ordered, ComingOrdered
<1>4. t \in FillsOf(wire) /\ 1 \in 1 .. Len(wire)
  BY <1>1, <1>2, FillsFacts
<1>5. t \in Trade
  BY <1>2, <1>4, FillsFacts
<1>6. FillsSorted(wire') /\ FillsOf(wire') \subseteq FillsOf(wire) /\ wire' \in Seq(Event)
  BY <1>2, <1>3, TailIsDrop, FillsDrop
<1>7. ASSUME NEW b \in FillsOf(wire') PROVE Before(t, b)
  <2>1. PICK i \in 1 .. Len(wire') : wire'[i].kind = "fill" /\ wire'[i].trade = b
    BY <1>6, FillsFacts
  <2>2. i + 1 \in 1 .. Len(wire) /\ wire'[i] = wire[i + 1]
    BY <1>2, HeadFacts
  <2>3. 1 < i + 1
    OBVIOUS
  <2> QED BY <1>1, <1>2, <1>3, <1>4, <2>1, <2>2, <2>3 DEF FillsSorted
<1>8. \A b \in Coming' : Before(t, b)
  BY <1>2, <1>3, <1>4, <1>7 DEF Coming
<1>9. t \in Coming /\ \A a \in Past : Before(a, t)
  BY <1>4 DEF Coming, Ordered, PastOrdered
<1> QED BY <1>2, <1>5, <1>6, <1>8, <1>9

\* What a broadcast adds to the trades of a view.
LEMMA ViewsGain ==
  ASSUME TInv, Broadcast, NEW c \in Clients
  PROVE  \/ view'[c].trades = view[c].trades
         \/ /\ c \in subscribed /\ c \notin TickerClients /\ Head(wire).kind = "fill"
            /\ view'[c].trades = Latest(Append(view[c].trades, Head(wire).trade.num), TradesShown)
<1>1. PICK e : e = Head(wire)
  OBVIOUS
<1>2. /\ e \in Event /\ replica' \in Replica
      /\ view' = view \/ view' = [d \in Clients |-> IF d \in subscribed THEN Shown(d, e, replica') ELSE view[d]]
  BY <1>1, BroadcastFacts
<1>3. view \in [Clients -> View]
  BY DEF TInv, ClientTypes
<1>4. CASE view' = view
  BY <1>4
<1>5. CASE view' = [d \in Clients |-> IF d \in subscribed THEN Shown(d, e, replica') ELSE view[d]]
  <2>1. view'[c] = IF c \in subscribed THEN Shown(c, e, replica') ELSE view[c]
    BY <1>5
  <2>2. CASE c \in subscribed
    <3>1. PICK r \in Replica : r = replica'
      BY <1>2
    <3>2. PICK v : v = Shown(c, e, r)
      OBVIOUS
    <3>3. /\ c \in TickerClients => v.trades = view[c].trades
          /\ c \notin TickerClients /\ e.kind = "fill" =>
               v.trades = Latest(Append(view[c].trades, e.trade.num), TradesShown)
          /\ c \notin TickerClients /\ e.kind # "fill" => v.trades = view[c].trades
      BY <1>2, <1>3, <3>2, ShownFacts
    <3> QED BY <1>1, <2>1, <2>2, <3>1, <3>2, <3>3
  <2>3. CASE c \notin subscribed
    BY <2>1, <2>3
  <2> QED BY <2>2, <2>3
<1> QED BY <1>2, <1>4, <1>5

LEMMA BroadcastOrdered ==
  ASSUME TInv, Ordered, Broadcast
  PROVE  Ordered'
<1>1. PICK e : e = Head(wire)
  OBVIOUS
<1>2. /\ wire # << >> /\ wire \in Seq(Event) /\ wire' = Tail(wire) /\ e \in Event
      /\ e.kind = "snapshot" => e.delta = e.top
      /\ UNCHANGED <<trades, clock, outbox>> /\ replica' = Applied(replica, e)
  BY <1>1, BroadcastFacts DEF engine
<1>3. replica \in Replica /\ Len(replica.trades) <= TradesKept
      /\ replica.trades \in Seq(Trade) /\ replica.stats \in Seq(Trade)
  BY TradeTypes DEF TInv, GatewayTypes
<1>4. CASE e.kind # "fill"
  <2>1. replica'.trades = replica.trades /\ replica'.stats = replica.stats
    BY <1>2, <1>3, <1>4, AppliedFacts
  <2>2. \A c \in Clients : view'[c].trades = view[c].trades
    BY <1>1, <1>4, ViewsGain
  <2>3. FillsSorted(wire) /\ Sorted(outbox)
    BY DEF Ordered, ComingOrdered
  <2>4. FillsSorted(wire') /\ FillsOf(wire') \subseteq FillsOf(wire)
    BY <1>2, <2>3, TailIsDrop, FillsDrop
  <2>5. Sorted(outbox') /\ Range(outbox') \subseteq Range(outbox)
    BY <1>2, <2>3
  <2> QED BY <1>2, <2>1, <2>2, <2>4, <2>5, FewerComing
<1>5. CASE e.kind = "fill"
  <2>1. PICK t : t = e.trade
    OBVIOUS
  <2>2. /\ t \in Trade /\ t \in Coming /\ \A a \in Past : Before(a, t)
        /\ FillsSorted(wire') /\ FillsOf(wire') \subseteq FillsOf(wire)
        /\ \A b \in Coming' : Before(t, b)
    BY <1>1, <1>5, <2>1, FillArrives
  <2>3. replica'.trades = Kept(Append(replica.trades, t)) /\ replica'.stats = Expired(Append(replica.stats, t), t.time)
    BY <1>2, <1>3, <1>5, <2>1, AppliedFacts
  <2>4. Sorted(replica.trades) /\ Sorted(replica.stats)
        /\ \A x \in Range(replica.trades) \cup Range(replica.stats) : Before(x, t)
    BY <2>2 DEF Ordered, PastOrdered, Past
  <2>5. Sorted(replica'.trades) /\ Range(replica'.trades) \subseteq Range(replica.trades) \cup {t}
    BY <1>3, <2>2, <2>3, <2>4, KeptRun
  <2>6. Sorted(replica'.stats) /\ Range(replica'.stats) \subseteq Range(replica.stats) \cup {t}
    BY <1>3, <2>2, <2>3, <2>4, ExpiredRun
  <2>7. Past' \subseteq Past \cup {t} /\ Coming' \subseteq Coming
    BY <1>2, <2>2, <2>5, <2>6 DEF Past, Coming
  <2>8. ComingOrdered'
    BY <1>2, <2>2 DEF Ordered, ComingOrdered
  <2>9. PastOrdered'
    BY <2>2, <2>5, <2>6, <2>7 DEF Ordered, PastOrdered
  <2>10. NoneAhead'
    BY <1>2, <2>2, <2>7 DEF Ordered, NoneAhead
  <2>11. ViewsBehind'
    <3> SUFFICES ASSUME NEW c \in Clients, NEW n \in Range(view'[c].trades)
                 PROVE  n <= trades /\ \A b \in Coming' : n < b.num
      BY <1>2 DEF ViewsBehind
    <3>1. n \in Range(view[c].trades) \/ n = t.num
      <4>1. CASE view'[c].trades = view[c].trades
        BY <4>1
      <4>2. CASE view'[c].trades = Latest(Append(view[c].trades, t.num), TradesShown)
        <5>1. PICK S : S = 1 .. MaxTrades
          OBVIOUS
        <5>2. view[c].trades \in Seq(S) /\ t.num \in S
          BY <2>2, <5>1 DEF TInv, ClientTypes, View, Trade
        <5>3. Range(Append(view[c].trades, t.num)) = Range(view[c].trades) \cup {t.num}
          BY ONLY <5>2, RangeAdd
        <5>4. Append(view[c].trades, t.num) \in Seq(S)
          BY ONLY <5>2
        <5>5. Range(view'[c].trades) \subseteq Range(Append(view[c].trades, t.num))
          BY <4>2, <5>4, LatestRange, Constants
        <5> QED BY <5>3, <5>5
      <4> QED BY <1>1, <2>1, <4>1, <4>2, ViewsGain
    <3>2. CASE n \in Range(view[c].trades)
      BY <2>7, <3>2 DEF Ordered, ViewsBehind
    <3>3. CASE n = t.num
      BY <2>2, <3>3 DEF Ordered, NoneAhead, Before
    <3> QED BY <3>1, <3>2, <3>3
  <2> QED BY <2>8, <2>9, <2>10, <2>11 DEF Ordered
<1> QED BY <1>4, <1>5

LEMMA InitOrdered == Init => Ordered /\ StatsAreTheLastDay
<1> SUFFICES ASSUME Init PROVE Ordered /\ StatsAreTheLastDay
  OBVIOUS
<1>1. wire = << >> /\ outbox = << >> /\ replica = NewReplica /\ NewReplica.trades = << >> /\ NewReplica.stats = << >>
  BY DEF Init, NewReplica
<1>2. \A c \in Clients : view[c].trades = << >>
  BY DEF Init, NewView
<1>3. Len(wire) = 0 /\ Len(outbox) = 0 /\ Len(replica.trades) = 0 /\ Len(replica.stats) = 0
  BY ONLY <1>1
<1>4. Range(outbox) = {} /\ Past = {} /\ FillsOf(wire) = {}
  BY <1>1, <1>3 DEF Past, Range, FillsOf
<1>5. \A c \in Clients : Range(view[c].trades) = {}
  BY <1>2 DEF Range
<1>6. ComingOrdered /\ PastOrdered /\ NoneAhead /\ ViewsBehind
  BY <1>3, <1>4, <1>5 DEF ComingOrdered, PastOrdered, NoneAhead, ViewsBehind, FillsSorted, Sorted, Coming
<1> QED BY <1>1, <1>6 DEF Ordered, StatsAreTheLastDay

StatsInv == TInv /\ Ordered /\ StatsAreTheLastDay

LEMMA NextOrdered ==
  ASSUME TInv, Ordered, [Next]_vars
  PROVE  Ordered'
<1>1. CASE Change \/ Match \/ Resolve \/ FallBehind \/ UNCHANGED vars
  <2>1. UNCHANGED <<wire, outbox, replica, view, trades, clock>>
    BY <1>1 DEF Change, Match, Resolve, FallBehind, vars, engine, link, gateway, clients
  <2>2. FillsSorted(wire') /\ FillsOf(wire') \subseteq FillsOf(wire) /\ Sorted(outbox')
        /\ Range(outbox') \subseteq Range(outbox)
    BY <2>1 DEF Ordered, ComingOrdered
  <2> QED BY <2>1, <2>2, FewerComing
<1>2. CASE Settle \/ SendFill \/ Tick \/ Lose \/ Ignore \/ Broadcast \/ EngineRestarts \/ GatewayRestarts
  BY <1>2, SettleOrdered, SendFillOrdered, TickOrdered, LoseOrdered, IgnoreOrdered, BroadcastOrdered,
     EngineRestartsOrdered, GatewayRestartsOrdered
<1>3. CASE \E c \in Clients : SubscribeRead(c)
  BY <1>3, SubscribeReadOrdered
<1>4. CASE \E c \in Clients : SubscribeRegister(c) \/ Unsubscribe(c)
  <2>1. UNCHANGED <<wire, outbox, replica, view, trades, clock>>
    BY <1>4 DEF SubscribeRegister, Unsubscribe, engine, link, gateway
  <2>2. FillsSorted(wire') /\ FillsOf(wire') \subseteq FillsOf(wire) /\ Sorted(outbox')
        /\ Range(outbox') \subseteq Range(outbox)
    BY <2>1 DEF Ordered, ComingOrdered
  <2> QED BY <2>1, <2>2, FewerComing
<1> QED BY <1>1, <1>2, <1>3, <1>4 DEF Next

LEMMA BroadcastStats ==
  ASSUME StatsInv, Broadcast
  PROVE  StatsAreTheLastDay'
<1>1. PICK e : e = Head(wire)
  OBVIOUS
<1>2. /\ e \in Event
      /\ e.kind = "snapshot" => e.delta = e.top
      /\ replica' = Applied(replica, e)
  BY <1>1, BroadcastFacts DEF StatsInv
<1>3. replica \in Replica /\ Len(replica.trades) <= TradesKept
      /\ replica.trades \in Seq(Trade) /\ replica.stats \in Seq(Trade)
  BY TradeTypes DEF StatsInv, TInv, GatewayTypes
<1>4. CASE e.kind # "fill"
  <2>1. replica'.trades = replica.trades /\ replica'.stats = replica.stats
    BY <1>2, <1>3, <1>4, AppliedFacts
  <2> QED BY <2>1 DEF StatsInv, StatsAreTheLastDay
<1>5. CASE e.kind = "fill"
  <2>1. PICK t : t = e.trade
    OBVIOUS
  <2>2. t \in Trade /\ \A a \in Past : Before(a, t)
    BY <1>1, <1>5, <2>1, FillArrives DEF StatsInv
  <2>3. PICK ts, st : ts = Kept(Append(replica.trades, t)) /\ st = Expired(Append(replica.stats, t), t.time)
    OBVIOUS
  <2>4. replica'.trades = ts /\ replica'.stats = st
    BY <1>2, <1>3, <1>5, <2>1, <2>3, AppliedFacts
  <2>5. Sorted(replica.trades) /\ Sorted(replica.stats)
        /\ \A x \in Range(replica.trades) \cup Range(replica.stats) : Before(x, t)
    BY <2>2 DEF StatsInv, Ordered, PastOrdered, Past
  <2>6. Range(ts) \subseteq Range(replica.trades) \cup {t} /\ Last(ts) = t
    BY <1>3, <2>2, <2>3, <2>5, KeptRun
  <2>7. /\ t \in Range(st)
        /\ \A x \in Range(replica.stats) : x.time >= t.time - Day => x \in Range(st)
        /\ \A x \in Range(st) : x.time >= t.time - Day
    BY <1>3, <2>2, <2>3, <2>5, ExpiredRun
  <2>8. ASSUME NEW x \in Range(ts), x.time >= t.time - Day
        PROVE  x \in Range(st)
    <3>1. CASE x = t
      BY <2>7, <3>1
    <3>2. CASE x # t
      <4>1. x \in Range(replica.trades) /\ replica.trades # << >>
        BY <2>6, <3>2 DEF Range
      <4>2. PICK l : l = Last(replica.trades)
        OBVIOUS
      <4>3. l \in Range(replica.trades)
        <5>1. Len(replica.trades) \in 1 .. Len(replica.trades)
          BY <1>3, <4>1
        <5> QED BY <1>3, <4>2, <5>1, RangeFacts DEF Last
      <4>4. l \in Trade /\ x \in Trade /\ l.time <= t.time
        BY <1>3, <2>5, <4>1, <4>3, RangeFacts DEF Before
      <4>5. x.time >= l.time - Day
        <5>1. l.time \in Int /\ x.time \in Int /\ t.time \in Int /\ Day \in Int
          BY <2>2, <4>4, Constants DEF Trade
        <5> QED BY <2>8, <4>4, <5>1
      <4>6. x \in Range(replica.stats)
        BY <4>1, <4>2, <4>5 DEF StatsInv, StatsAreTheLastDay
      <4> QED BY <2>7, <2>8, <4>6
    <3> QED BY <3>1, <3>2
  <2> QED BY <2>4, <2>6, <2>7, <2>8 DEF StatsAreTheLastDay
<1> QED BY <1>4, <1>5

LEMMA NextStats == StatsInv /\ [Next]_vars => StatsInv'
<1> SUFFICES ASSUME StatsInv, [Next]_vars PROVE StatsAreTheLastDay'
  BY NextTypes, NextOrdered DEF StatsInv
<1>1. CASE UNCHANGED replica
  BY <1>1 DEF StatsInv, StatsAreTheLastDay
<1>2. CASE GatewayRestarts
  <2>1. replica'.trades = << >>
    BY <1>2 DEF GatewayRestarts, NewReplica
  <2> QED BY <2>1 DEF StatsAreTheLastDay
<1>3. CASE Broadcast
  BY <1>3, BroadcastStats
<1>4. CASE Change \/ Match \/ Settle \/ SendFill \/ Resolve \/ Tick \/ Lose \/ FallBehind \/ Ignore
           \/ EngineRestarts \/ UNCHANGED vars
  BY <1>1, <1>4 DEF Change, Match, Settle, SendFill, Resolve, Tick, Lose, FallBehind, Ignore, EngineRestarts,
     vars, gateway
<1>5. CASE \E c \in Clients : SubscribeRead(c) \/ SubscribeRegister(c) \/ Unsubscribe(c)
  BY <1>1, <1>5 DEF SubscribeRead, SubscribeRegister, Unsubscribe, gateway
<1> QED BY <1>2, <1>3, <1>4, <1>5 DEF Next

\* expire_old_trades keeps all trades within a day of the last one and no older one, whatever
\* datagrams are lost and whoever restarts.
THEOREM FeedStatsAreTheLastDay == Spec => []StatsAreTheLastDay
<1>1. Init => StatsInv
  BY InitTypes, InitOrdered DEF StatsInv
<1>2. StatsInv => StatsAreTheLastDay
  BY DEF StatsInv
<1> QED BY <1>1, <1>2, NextStats, PTL DEF Spec

-----------------------------------------------------------------------------
(* What a client shows. *)

Follows(c) ==
  IF c \in TickerClients
    THEN view[c].ticker = TickerOf(replica)
    ELSE /\ view[c].book = replica.book
         /\ EndsWith(view[c].trades, replica.trades)

\* A client that missed nothing follows from its snapshot on, registered or not.
Following == \A c \in (subscribed \cup reading) \ missed : Follows(c)

Unknown == ~replica.known => replica = NewReplica /\ \A c \in Clients : view[c] = NewView

ViewInv == TInv /\ Following /\ Unknown

LEMMA SameTicker ==
  ASSUME NEW r, NEW q, r.book = q.book, r.stats = q.stats, r.last = q.last
  PROVE  TickerOf(r) = TickerOf(q)
  BY DEF TickerOf, LwtOf, StatsOf

\* The book of a snapshot, over a book that was cleared for it.
LEMMA OverEmpty ==
  ASSUME NEW b \in Book
  PROVE  Over(b, EmptyBook) = b
<1>1. b = [l \in Level |-> b[l]] /\ DOMAIN b = Level
  BY DEF Book
<1> QED BY <1>1 DEF Over

\* What ends with the trades of the gateway does so when both get another, when a view is
\* cut to what it shows, and when the gateway drops its oldest.
LEMMA EndsAdd ==
  ASSUME NEW vs \in Seq(1 .. MaxTrades), NEW ts \in Seq(Trade), EndsWith(vs, ts), NEW t \in Trade
  PROVE  EndsWith(Append(vs, t.num), Append(ts, t))
<1>1. PICK m \in Nat, n \in Nat : m = Len(vs) /\ n = Len(ts)
  OBVIOUS
<1>2. PICK w, a : w = Append(vs, t.num) /\ a = Append(ts, t)
  OBVIOUS
<1>3. /\ Len(w) = m + 1 /\ w[m + 1] = t.num /\ \A k \in 1 .. m : w[k] = vs[k]
      /\ Len(a) = n + 1 /\ a[n + 1] = t /\ \A k \in 1 .. n : a[k] = ts[k]
  BY <1>1, <1>2
<1>4. ASSUME NEW i \in 0 .. TradesShown - 1, i < n + 1
      PROVE  i < m + 1 /\ w[m + 1 - i] = a[n + 1 - i].num
  <2>1. CASE i = 0
    BY <1>3, <2>1
  <2>2. CASE i # 0
    <3>1. i - 1 \in 0 .. TradesShown - 1 /\ i - 1 < n
      BY <1>4, <2>2, Constants
    <3>2. i - 1 < m /\ vs[m - (i - 1)] = ts[n - (i - 1)].num
      BY <1>1, <3>1 DEF EndsWith
    <3>3. /\ m + 1 - i \in 1 .. m /\ m + 1 - i = m - (i - 1)
          /\ n + 1 - i \in 1 .. n /\ n + 1 - i = n - (i - 1)
      BY <2>2, <3>1, <3>2, Constants
    <3> QED BY <1>3, <3>2, <3>3
  <2> QED BY <2>1, <2>2
<1> QED BY <1>2, <1>3, <1>4 DEF EndsWith

LEMMA EndsShown ==
  ASSUME NEW S, NEW vs \in Seq(S), NEW ts \in Seq(Trade), EndsWith(vs, ts)
  PROVE  EndsWith(Latest(vs, TradesShown), ts)
<1>1. TradesShown \in Nat \ {0}
  BY Constants
<1>2. PICK w : w = Latest(vs, TradesShown)
  OBVIOUS
<1>3. ASSUME NEW i \in 0 .. TradesShown - 1, i < Len(ts)
      PROVE  i < Len(w) /\ w[Len(w) - i] = ts[Len(ts) - i].num
  <2>1. i < Len(vs) /\ vs[Len(vs) - i] = ts[Len(ts) - i].num
    BY <1>3 DEF EndsWith
  <2>2. i \in Nat /\ i < TradesShown
    BY <1>1
  <2>3. i < Len(w) /\ w[Len(w) - i] = vs[Len(vs) - i]
    BY ONLY vs \in Seq(S), <1>1, <1>2, <2>1, <2>2, LatestEnd
  <2> QED BY <2>1, <2>3
<1> QED BY <1>2, <1>3 DEF EndsWith

LEMMA EndsKept ==
  ASSUME NEW vs \in Seq(1 .. MaxTrades), NEW ts \in Seq(Trade), EndsWith(vs, ts)
  PROVE  EndsWith(vs, Kept(ts))
<1>1. TradesKept \in Nat \ {0} /\ TradesShown \in Nat
  BY Constants
<1>2. PICK w : w = Kept(ts)
  OBVIOUS
<1>3. ASSUME NEW i \in 0 .. TradesShown - 1, i < Len(w)
      PROVE  i < Len(vs) /\ vs[Len(vs) - i] = w[Len(w) - i].num
  <2>1. i \in Nat
    BY <1>1
  <2>2. i < Len(ts) /\ w[Len(w) - i] = ts[Len(ts) - i]
    BY ONLY ts \in Seq(Trade), <1>1, <1>2, <1>3, <2>1, LatestEnd DEF Kept
  <2> QED BY <2>2 DEF EndsWith
<1> QED BY <1>2, <1>3 DEF EndsWith

LEMMA BroadcastFollowing ==
  ASSUME ViewInv, Broadcast
  PROVE  Following' /\ Unknown'
<1>1. PICK e : e = Head(wire)
  OBVIOUS
<1>2. /\ e \in Event
      /\ e.kind = "snapshot" => e.delta = e.top
      /\ UNCHANGED <<subscribed, reading>>
      /\ replica' = Applied(replica, e) /\ replica' \in Replica
      /\ IF PassedOn(replica, e)
           THEN /\ view' = [c \in Clients |-> IF c \in subscribed THEN Shown(c, e, replica') ELSE view[c]]
                /\ missed' = missed \cup (reading \ subscribed)
           ELSE view' = view /\ missed' = missed
  BY ONLY <1>1, TInv, Broadcast, BroadcastFacts, ViewInv DEF ViewInv
<1>3. replica \in Replica /\ Len(replica.trades) <= TradesKept /\ view \in [Clients -> View]
      /\ subscribed \subseteq Clients /\ reading \subseteq Clients
  BY DEF ViewInv, TInv, GatewayTypes, ClientTypes
<1>4. replica'.known = TRUE
  BY <1>2, <1>3, AppliedFacts
<1>5. Unknown'
  BY <1>4 DEF Unknown
<1>6. CASE ~PassedOn(replica, e)
  <2>1. e.kind = "snapshot" /\ e.delta = replica.book /\ view' = view /\ missed' = missed
    BY <1>2, <1>6 DEF PassedOn
  <2>2. /\ replica'.book = replica.book /\ replica'.trades = replica.trades
        /\ replica'.stats = replica.stats /\ replica'.last = replica.last
    BY <1>2, <1>3, <2>1, AppliedFacts
  <2>3. TickerOf(replica') = TickerOf(replica)
    BY <2>2, SameTicker
  <2> QED BY <1>2, <1>5, <2>1, <2>2, <2>3 DEF ViewInv, Following, Follows
<1>7. CASE PassedOn(replica, e)
  <2> SUFFICES ASSUME NEW c \in (subscribed \cup reading) \ missed' PROVE Follows(c)'
    BY <1>2, <1>5 DEF Following
  <2>1. c \in subscribed /\ c \in Clients /\ c \notin missed
    BY <1>2, <1>3, <1>7
  <2>2. PICK r \in Replica : r = replica' /\ r = Applied(replica, e)
    BY <1>2
  <2>3. PICK v : v = Shown(c, e, r)
    OBVIOUS
  <2>4. view'[c] = v
    BY <1>2, <1>7, <2>1, <2>2, <2>3
  <2>5. CASE c \in TickerClients
    <3>1. v.ticker = TickerOf(r)
      BY <1>2, <1>3, <2>1, <2>3, <2>5, ShownFacts
    <3> QED BY <2>2, <2>4, <2>5, <3>1 DEF Follows
  <2>6. CASE c \notin TickerClients /\ e.kind = "fill"
    <3>1. v.trades = Latest(Append(view[c].trades, e.trade.num), TradesShown) /\ v.book = view[c].book
      BY <1>2, <1>3, <2>1, <2>3, <2>6, ShownFacts
    <3>2. e.trade \in Trade /\ r.book = replica.book /\ r.trades = Kept(Append(replica.trades, e.trade))
      <4>1. /\ e.trade \in Trade /\ Applied(replica, e).book = replica.book
            /\ Applied(replica, e).trades = Kept(Append(replica.trades, e.trade))
        BY <1>2, <1>3, <2>6, AppliedFacts
      <4> QED BY <2>2, <4>1
    <3>3. view[c].book = replica.book /\ EndsWith(view[c].trades, replica.trades)
      BY <2>1, <2>6 DEF ViewInv, Following, Follows
    <3>4. PICK w, a : w = Append(view[c].trades, e.trade.num) /\ a = Append(replica.trades, e.trade)
      OBVIOUS
    <3>5. /\ view[c].trades \in Seq(1 .. MaxTrades) /\ replica.trades \in Seq(Trade)
          /\ w \in Seq(1 .. MaxTrades) /\ a \in Seq(Trade)
      <4>1. view[c].trades \in Seq(1 .. MaxTrades) /\ replica.trades \in Seq(Trade)
        BY <1>3, <2>1 DEF View, Replica
      <4>2. e.trade.num \in 1 .. MaxTrades
        BY <3>2 DEF Trade
      <4> QED BY <3>2, <3>4, <4>1, <4>2
    <3>6. EndsWith(w, a)
      BY <3>2, <3>3, <3>4, <3>5, EndsAdd
    <3>7. EndsWith(w, Kept(a))
      BY ONLY <3>5, <3>6, EndsKept
    <3>8. Kept(a) \in Seq(Trade)
      BY ONLY <3>5, LatestFacts, Constants DEF Kept
    <3>9. EndsWith(Latest(w, TradesShown), Kept(a))
      BY ONLY <3>5, <3>7, <3>8, EndsShown
    <3>10. EndsWith(v.trades, r.trades) /\ v.book = r.book
      BY <3>1, <3>2, <3>3, <3>4, <3>9
    <3> QED BY <2>2, <2>4, <2>6, <3>10 DEF Follows
  <2>7. CASE c \notin TickerClients /\ e.kind # "fill"
    <3>1. /\ v.book = Over(e.delta, IF e.kind = "snapshot" THEN EmptyBook ELSE view[c].book)
          /\ v.trades = view[c].trades
      BY <1>2, <1>3, <2>1, <2>3, <2>7, ShownFacts
    <3>2. /\ e.kind = "snapshot" \/ e.kind = "delta"
          /\ e.kind = "snapshot" => r.book = e.top /\ e.top \in Book
          /\ e.kind = "delta" => r.book = Over(e.delta, replica.book)
          /\ r.trades = replica.trades
      <4>1. /\ e.kind = "snapshot" \/ e.kind = "delta"
            /\ e.kind = "snapshot" => Applied(replica, e).book = e.top /\ e.top \in Book
            /\ e.kind = "delta" => Applied(replica, e).book = Over(e.delta, replica.book)
            /\ Applied(replica, e).trades = replica.trades
        BY <1>2, <1>3, <2>7, AppliedFacts
      <4> QED BY <2>2, <4>1
    <3>3. view[c].book = replica.book /\ EndsWith(view[c].trades, replica.trades)
      BY <2>1, <2>7 DEF ViewInv, Following, Follows
    <3>4. v.book = r.book
      <4>1. CASE e.kind = "snapshot"
        <5>1. Over(e.delta, EmptyBook) = e.top
          BY <1>2, <3>2, <4>1, OverEmpty
        <5> QED BY <3>1, <3>2, <4>1, <5>1
      <4>2. CASE e.kind = "delta"
        BY <3>1, <3>2, <3>3, <4>2
      <4> QED BY <3>2, <4>1, <4>2
    <3> QED BY <2>2, <2>4, <2>7, <3>1, <3>2, <3>3, <3>4 DEF Follows
  <2> QED BY <2>5, <2>6, <2>7
<1> QED BY <1>5, <1>6, <1>7

LEMMA SubscribeReadFollowing ==
  ASSUME ViewInv, NEW c \in Clients, SubscribeRead(c)
  PROVE  Following' /\ Unknown'
<1>1. /\ reading' = reading \cup {c} /\ missed' = missed \ {c} /\ subscribed' = subscribed
      /\ replica' = replica
  BY SubscribeReadFacts DEF ViewInv, gateway
<1>2. PICK v \in View :
        /\ view' = [view EXCEPT ![c] = v]
        /\ ~replica.known => v = view[c]
        /\ replica.known /\ c \in TickerClients => v.ticker = TickerOf(replica)
        /\ replica.known /\ c \notin TickerClients => v = WithSnapshot(view[c], replica)
  BY SubscribeReadFacts DEF ViewInv
<1>3. view \in [Clients -> View] /\ replica \in Replica /\ view[c] \in View /\ replica.trades \in Seq(Trade)
      /\ subscribed \subseteq Clients /\ reading \subseteq Clients
  BY DEF ViewInv, TInv, GatewayTypes, ClientTypes, Replica
<1>4. view'[c] = v /\ \A d \in Clients : d # c => view'[d] = view[d]
  BY <1>2, <1>3
<1>5. Unknown'
  BY <1>1, <1>2, <1>4 DEF ViewInv, Unknown
<1>6. Follows(c)'
  <2>1. CASE ~replica.known
    <3>1. replica = NewReplica /\ v = NewView
      BY <1>2, <2>1 DEF ViewInv, Unknown
    <3>2. NewView.ticker = TickerOf(NewReplica) /\ NewView.book = NewReplica.book /\ NewReplica.trades = << >>
      BY NewTicker DEF NewView, NewReplica
    <3>3. EndsWith(v.trades, replica.trades)
      <4>1. Len(replica.trades) = 0
        BY <3>1, <3>2
      <4> QED BY <4>1, Constants DEF EndsWith
    <3> QED BY <1>1, <1>4, <3>1, <3>2, <3>3 DEF Follows
  <2>2. CASE replica.known /\ c \in TickerClients
    BY <1>1, <1>2, <1>4, <2>2 DEF Follows
  <2>3. CASE replica.known /\ c \notin TickerClients
    <3>1. PICK u \in View, r \in Replica : u = view[c] /\ r = replica /\ v = WithSnapshot(u, r)
      BY <1>2, <1>3, <2>3
    <3>2. WithSnapshot(u, r).book = r.book
      BY ONLY u \in View, r \in Replica, SnapshotFacts
    <3>3. PICK ts \in Seq(1 .. MaxTrades) :
            /\ WithSnapshot(u, r).trades = Latest(ts, TradesShown)
            /\ Len(ts) = Len(u.trades) + Len(r.trades)
            /\ \A i \in 1 .. Len(r.trades) : ts[Len(u.trades) + i] = r.trades[i].num
      BY ONLY u \in View, r \in Replica, SnapshotFacts
    <3>4. EndsWith(ts, r.trades)
      <4>1. PICK p \in Nat, q \in Nat : p = Len(u.trades) /\ q = Len(r.trades)
        BY DEF Replica, View
      <4>2. ASSUME NEW i \in 0 .. TradesShown - 1, i < q
            PROVE  i < p + q /\ ts[p + q - i] = r.trades[q - i].num
        <5>1. TradesShown \in Nat /\ i \in Nat
          BY Constants
        <5>2. q - i \in 1 .. q /\ p + (q - i) = p + q - i /\ i < p + q
          BY <4>2, <5>1
        <5>3. ts[p + (q - i)] = r.trades[q - i].num
          BY <3>3, <4>1, <5>2
        <5> QED BY <5>2, <5>3
      <4>3. Len(ts) = p + q /\ Len(r.trades) = q
        BY <3>3, <4>1
      <4> QED BY <4>2, <4>3 DEF EndsWith
    <3>5. EndsWith(Latest(ts, TradesShown), r.trades)
      <4>1. r.trades \in Seq(Trade)
        BY DEF Replica
      <4> QED BY <3>4, <4>1, EndsShown
    <3>6. v.book = replica.book /\ EndsWith(v.trades, replica.trades)
      BY <3>1, <3>2, <3>3, <3>5
    <3> QED BY <1>1, <1>4, <2>3, <3>6 DEF Follows
  <2> QED BY <2>1, <2>2, <2>3
<1>7. ASSUME NEW d \in (subscribed' \cup reading') \ missed' PROVE Follows(d)'
  <2>1. CASE d = c
    BY <1>6, <2>1
  <2>2. CASE d # c
    <3>1. d \in (subscribed \cup reading) \ missed /\ view'[d] = view[d]
      BY <1>1, <1>3, <1>4, <1>7, <2>2
    <3>2. Follows(d)
      BY <3>1 DEF ViewInv, Following
    <3> QED BY <1>1, <3>1, <3>2 DEF Follows
  <2> QED BY <2>1, <2>2
<1> QED BY <1>5, <1>7 DEF Following

LEMMA NextFollowing == ViewInv /\ [Next]_vars => ViewInv'
<1> SUFFICES ASSUME ViewInv, [Next]_vars PROVE Following' /\ Unknown'
  BY NextTypes DEF ViewInv
<1>1. ASSUME UNCHANGED <<replica, view, missed>>, subscribed' \cup reading' \subseteq subscribed \cup reading
      PROVE  Following' /\ Unknown'
  BY <1>1 DEF ViewInv, Following, Follows, Unknown
<1>2. CASE Change \/ Match \/ Settle \/ SendFill \/ Resolve \/ Tick \/ Lose \/ FallBehind \/ Ignore
           \/ EngineRestarts \/ UNCHANGED vars
  <2>1. UNCHANGED <<replica, view, missed, subscribed, reading>>
    BY <1>2 DEF Change, Match, Settle, SendFill, Resolve, Tick, Lose, FallBehind, Ignore, EngineRestarts,
       vars, gateway, clients
  <2> QED BY <1>1, <2>1
<1>3. CASE \E c \in Clients : SubscribeRegister(c) \/ Unsubscribe(c)
  <2>1. UNCHANGED <<replica, view, missed>> /\ subscribed' \cup reading' \subseteq subscribed \cup reading
    BY <1>3 DEF SubscribeRegister, Unsubscribe, gateway
  <2> QED BY <1>1, <2>1
<1>4. CASE Broadcast \/ \E c \in Clients : SubscribeRead(c)
  BY <1>4, BroadcastFollowing, SubscribeReadFollowing
<1>5. CASE GatewayRestarts
  <2>1. subscribed' = {} /\ reading' = {} /\ replica' = NewReplica /\ view' = [c \in Clients |-> NewView]
    BY <1>5 DEF GatewayRestarts
  <2> QED BY <2>1 DEF Following, Unknown
<1> QED BY <1>2, <1>3, <1>4, <1>5 DEF Next

\* A client that missed no notification between the snapshot and its registration shows the
\* replica's book or day, and its latest trades up to the browser's limit: handle_subscribe, the
\* broadcaster and processChannelNotification agree, whatever the two limits on trades are.
THEOREM FeedViewsFollow == Spec => []ViewsFollow
<1>1. Init => ViewInv
  BY InitTypes DEF Init, ViewInv, Following, Unknown
<1>2. ViewInv => ViewsFollow
  BY DEF ViewInv, Following, Follows, ViewsFollow
<1> QED BY <1>1, <1>2, NextFollowing, PTL DEF Spec

-----------------------------------------------------------------------------
(* A trade is shown at most once for every subscription. *)

Places(s, t) == {i \in DOMAIN s : s[i] = t}

\* Who is subscribed, or about to be, has subscribed.
Counted == \A c \in subscribed \cup reading : subscriptions[c] >= 1

OnceInv == TInv /\ Ordered /\ Counted /\ TradesShownOnce

LEMMA PlacesFinite ==
  ASSUME NEW S, NEW s \in Seq(S), NEW t
  PROVE  IsFiniteSet(Places(s, t)) /\ Cardinality(Places(s, t)) \in Nat
<1>1. Places(s, t) \subseteq 1 .. Len(s) /\ Len(s) \in Nat
  BY DEF Places
<1>2. IsFiniteSet(1 .. Len(s))
  BY <1>1, FS_Interval
<1> QED BY <1>1, <1>2, FS_Subset, FS_CardinalityType

\* A number that is added is there once more.
LEMMA PlacesAdd ==
  ASSUME NEW s \in Seq(1 .. MaxTrades), NEW n \in 1 .. MaxTrades, NEW t, n \notin Range(s)
  PROVE  \/ Places(Append(s, n), t) = Places(s, t)
         \/ t = n /\ Cardinality(Places(Append(s, n), t)) = 1
<1>1. PICK k \in Nat : k = Len(s) /\ DOMAIN s = 1 .. k
  OBVIOUS
<1>2. /\ DOMAIN Append(s, n) = 1 .. k + 1
      /\ \A i \in 1 .. k : Append(s, n)[i] = s[i]
      /\ Append(s, n)[k + 1] = n
  BY <1>1
<1>3. CASE t = n
  <2>1. \A i \in 1 .. k : s[i] # t
    BY <1>1, <1>3 DEF Range
  <2>2. Places(Append(s, n), t) = {k + 1}
    BY <1>2, <1>3, <2>1 DEF Places
  <2> QED BY <1>3, <2>2, FS_Singleton
<1>4. CASE t # n
  <2>1. Places(Append(s, n), t) = Places(s, t)
    BY <1>1, <1>2, <1>4 DEF Places
  <2> QED BY <2>1
<1> QED BY <1>3, <1>4

\* What is cut off takes places away.
LEMMA PlacesLatest ==
  ASSUME NEW S, NEW s \in Seq(S), NEW k \in Nat \ {0}, NEW t
  PROVE  Cardinality(Places(Latest(s, k), t)) <= Cardinality(Places(s, t))
<1>1. DOMAIN s = 1 .. Len(s)
  OBVIOUS
<1>2. PICK d \in 0 .. Len(s) : Latest(s, k) = SubSeq(s, d + 1, Len(s))
  BY ONLY s \in Seq(S), k \in Nat \ {0}, LatestFacts
<1>3. PICK r : r = Latest(s, k)
  OBVIOUS
<1>4. r \in Seq(S) /\ \A i \in 1 .. Len(r) : i + d \in 1 .. Len(s) /\ r[i] = s[i + d]
  BY ONLY s \in Seq(S), <1>2, <1>3, DropFacts
<1>5. PICK A, B : A = Places(r, t) /\ B = Places(s, t)
  OBVIOUS
<1>6. PICK f : f = [i \in A |-> i + d]
  OBVIOUS
<1>7. A \subseteq Int /\ d \in Int
  BY <1>4, <1>5 DEF Places
<1>8. \A i \in A : i + d \in B
  BY <1>1, <1>4, <1>5 DEF Places
<1>9. f \in Injection(A, B)
  <2>1. f \in [A -> B]
    BY <1>6, <1>8
  <2>2. \A i, j \in A : f[i] = f[j] => i = j
    BY <1>6, <1>7
  <2> QED BY <1>6, <2>1, <2>2 DEF Injection, IsInjective
<1>10. IsFiniteSet(B)
  BY <1>5, PlacesFinite
<1>11. Cardinality(A) <= Cardinality(B)
  BY ONLY <1>9, <1>10, FS_Injection
<1> QED BY <1>3, <1>5, <1>11

\* A snapshot has a trade at most once.
LEMMA PlacesSnapshot ==
  ASSUME NEW v \in View, NEW r \in Replica, Sorted(r.trades), NEW t
  PROVE  Cardinality(Places(WithSnapshot(v, r).trades, t)) <= Cardinality(Places(v.trades, t)) + 1
<1>1. PICK w \in Seq(1 .. MaxTrades) :
        /\ WithSnapshot(v, r).trades = Latest(w, TradesShown)
        /\ Len(w) = Len(v.trades) + Len(r.trades)
        /\ \A i \in 1 .. Len(v.trades) : w[i] = v.trades[i]
        /\ \A i \in 1 .. Len(r.trades) : w[Len(v.trades) + i] = r.trades[i].num
  BY SnapshotFacts
<1>2. PICK p \in Nat, q \in Nat : p = Len(v.trades) /\ q = Len(r.trades) /\ DOMAIN v.trades = 1 .. p
  BY DEF View, Replica
<1>3. /\ w \in Seq(1 .. MaxTrades) /\ v.trades \in Seq(1 .. MaxTrades) /\ DOMAIN w = 1 .. p + q
      /\ \A i \in 1 .. p : w[i] = v.trades[i]
      /\ \A i \in 1 .. q : w[p + i] = r.trades[i].num
  BY <1>1, <1>2 DEF View
<1>4. ASSUME NEW i \in 1 .. q, NEW j \in 1 .. q, r.trades[i].num = r.trades[j].num
      PROVE  i = j
  <2>1. \A a \in 1 .. q : r.trades[a].num \in Int
    <3>1. \A a \in 1 .. q : r.trades[a] \in Trade
      BY <1>2 DEF Replica
    <3> QED BY <3>1 DEF Trade
  <2>2. ~(i < j) /\ ~(j < i)
    BY <1>2, <1>4, <2>1 DEF Sorted, Before
  <2> QED BY <2>2
<1>5. PICK k : Places(w, t) \subseteq Places(v.trades, t) \cup {k}
  <2>1. CASE \A i \in 1 .. q : r.trades[i].num # t
    <3>1. ASSUME NEW i \in Places(w, t) PROVE i \in Places(v.trades, t)
      <4>1. i \in 1 .. p + q /\ w[i] = t
        BY <1>3, <3>1 DEF Places
      <4>2. i \in 1 .. p
        <5> SUFFICES ASSUME i \notin 1 .. p PROVE FALSE
          OBVIOUS
        <5>1. i - p \in 1 .. q /\ p + (i - p) = i
          BY <4>1
        <5> QED BY <1>3, <2>1, <4>1, <5>1
      <4> QED BY <1>2, <1>3, <4>1, <4>2 DEF Places
    <3> QED BY <3>1
  <2>2. CASE \E j \in 1 .. q : r.trades[j].num = t
    <3>1. PICK j \in 1 .. q : r.trades[j].num = t
      BY <2>2
    <3>2. ASSUME NEW i \in Places(w, t) PROVE i \in Places(v.trades, t) \cup {p + j}
      <4>1. i \in 1 .. p + q /\ w[i] = t
        BY <1>3, <3>2 DEF Places
      <4>2. CASE i \in 1 .. p
        BY <1>2, <1>3, <4>1, <4>2 DEF Places
      <4>3. CASE i \notin 1 .. p
        <5>1. i - p \in 1 .. q /\ p + (i - p) = i
          BY <4>1, <4>3
        <5>2. i - p = j
          BY ZenonT(40), <1>3, <1>4, <3>1, <4>1, <5>1
        <5> QED BY <5>1, <5>2
      <4> QED BY <4>2, <4>3
    <3> QED BY <3>2
  <2> QED BY <2>1, <2>2
<1>6. PICK A, B : A = Places(v.trades, t) /\ B = A \cup {k}
  OBVIOUS
<1>7. IsFiniteSet(A) /\ Cardinality(A) \in Nat
  BY <1>3, <1>6, PlacesFinite
<1>8. IsFiniteSet(B) /\ Cardinality(B) <= Cardinality(A) + 1
  <2>1. IsFiniteSet(A \cup {k})
        /\ Cardinality(A \cup {k}) = IF k \in A THEN Cardinality(A) ELSE Cardinality(A) + 1
    BY ONLY <1>7, FS_AddElement
  <2> QED BY <1>6, <1>7, <2>1
<1>9. Cardinality(Places(w, t)) <= Cardinality(B)
  BY <1>5, <1>6, <1>8, FS_Subset
<1>10. Cardinality(B) \in Nat /\ Cardinality(Places(w, t)) \in Nat
  BY <1>3, <1>8, FS_CardinalityType, PlacesFinite
<1>11. PICK l : l = Latest(w, TradesShown) /\ l = WithSnapshot(v, r).trades
  BY <1>1
<1>12. Cardinality(Places(l, t)) <= Cardinality(Places(w, t)) /\ Cardinality(Places(l, t)) \in Nat
  <2>1. l \in Seq(1 .. MaxTrades)
    BY <1>11, LatestFacts, Constants
  <2> QED BY <1>11, <2>1, PlacesLatest, PlacesFinite, Constants
<1> QED BY <1>6, <1>7, <1>8, <1>9, <1>10, <1>11, <1>12

LEMMA BroadcastOnce ==
  ASSUME OnceInv, Broadcast
  PROVE  TradesShownOnce'
<1>1. subscriptions' = subscriptions /\ BookClients \subseteq Clients
  BY DEF Broadcast, Clients
<1>2. view \in [Clients -> View] /\ subscriptions \in [Clients -> 0 .. MaxSubscriptions] /\ MaxSubscriptions \in Nat
  BY Constants DEF OnceInv, TInv, ClientTypes
<1> SUFFICES ASSUME NEW c \in BookClients, NEW t \in 1 .. MaxTrades
             PROVE  Cardinality(Places(view'[c].trades, t)) <= subscriptions[c]
  BY <1>1 DEF TradesShownOnce, Places
<1>3. Cardinality(Places(view[c].trades, t)) <= subscriptions[c]
  BY DEF OnceInv, TradesShownOnce, Places
<1>4. CASE view'[c].trades = view[c].trades
  BY <1>3, <1>4
<1>5. CASE /\ c \in subscribed /\ Head(wire).kind = "fill"
           /\ view'[c].trades = Latest(Append(view[c].trades, Head(wire).trade.num), TradesShown)
  <2>1. PICK m : m = Head(wire).trade
    OBVIOUS
  <2>2. m \in Trade /\ m \in Coming
    BY <1>5, <2>1, FillArrives DEF OnceInv
  <2>3. m.num \in 1 .. MaxTrades /\ m.num \notin Range(view[c].trades)
    BY <1>1, <2>2 DEF OnceInv, Ordered, ViewsBehind, Trade
  <2>4. view[c].trades \in Seq(1 .. MaxTrades)
    BY <1>1, <1>2 DEF View
  <2>5. \/ Places(Append(view[c].trades, m.num), t) = Places(view[c].trades, t)
        \/ Cardinality(Places(Append(view[c].trades, m.num), t)) = 1
    BY <2>3, <2>4, PlacesAdd
  <2>6. subscriptions[c] >= 1 /\ subscriptions[c] \in Nat
    BY <1>1, <1>2, <1>5 DEF OnceInv, Counted
  <2>7. PICK w : w = Append(view[c].trades, m.num)
    OBVIOUS
  <2>8. w \in Seq(1 .. MaxTrades) /\ view'[c].trades = Latest(w, TradesShown)
    BY <1>5, <2>1, <2>3, <2>4, <2>7
  <2>9. Cardinality(Places(view'[c].trades, t)) <= Cardinality(Places(w, t))
    BY <2>8, PlacesLatest, Constants
  <2>10. Cardinality(Places(view'[c].trades, t)) \in Nat /\ Cardinality(Places(w, t)) \in Nat
    <3>1. view'[c].trades \in Seq(1 .. MaxTrades)
      BY <2>8, LatestFacts, Constants
    <3> QED BY <2>8, <3>1, PlacesFinite
  <2>11. Cardinality(Places(w, t)) <= subscriptions[c]
    BY <1>3, <2>5, <2>6, <2>7
  <2> QED BY <2>6, <2>9, <2>10, <2>11
<1> QED BY <1>1, <1>4, <1>5, ViewsGain DEF OnceInv

LEMMA SubscribeReadOnce ==
  ASSUME OnceInv, NEW c \in Clients, SubscribeRead(c)
  PROVE  TradesShownOnce'
<1>1. view \in [Clients -> View] /\ subscriptions \in [Clients -> 0 .. MaxSubscriptions]
      /\ MaxSubscriptions \in Nat /\ BookClients \subseteq Clients /\ replica \in Replica
      /\ BookClients \cap TickerClients = {}
  BY Constants, FeedAssumption DEF OnceInv, TInv, ClientTypes, GatewayTypes, Clients
<1>2. subscriptions' = [subscriptions EXCEPT ![c] = @ + 1]
  BY SubscribeReadFacts DEF OnceInv
<1>3. PICK v \in View :
        /\ view' = [view EXCEPT ![c] = v]
        /\ ~replica.known => v = view[c]
        /\ replica.known /\ c \notin TickerClients => v = WithSnapshot(view[c], replica)
  BY SubscribeReadFacts DEF OnceInv
<1> SUFFICES ASSUME NEW d \in BookClients, NEW t \in 1 .. MaxTrades
             PROVE  Cardinality(Places(view'[d].trades, t)) <= subscriptions'[d]
  BY DEF TradesShownOnce, Places
<1>4. d \in Clients /\ subscriptions[d] \in Nat /\ Cardinality(Places(view[d].trades, t)) <= subscriptions[d]
  BY <1>1 DEF OnceInv, TradesShownOnce, Places
<1>5. view[d].trades \in Seq(1 .. MaxTrades) /\ view[d] \in View
  BY <1>1, <1>4 DEF View
<1>6. CASE d # c
  <2>1. view'[d] = view[d] /\ subscriptions'[d] = subscriptions[d]
    BY <1>1, <1>2, <1>3, <1>4, <1>6
  <2> QED BY <1>4, <2>1
<1>7. CASE d = c
  <2>1. view'[d] = v /\ subscriptions'[d] = subscriptions[d] + 1 /\ c \notin TickerClients
    BY <1>1, <1>2, <1>3, <1>4, <1>7
  <2>2. Cardinality(Places(view[d].trades, t)) \in Nat
    BY <1>5, PlacesFinite
  <2>3. CASE ~replica.known
    BY <1>3, <1>4, <1>7, <2>1, <2>2, <2>3
  <2>4. CASE replica.known
    <3>1. v = WithSnapshot(view[d], replica)
      BY <1>3, <1>7, <2>1, <2>4
    <3>2. Sorted(replica.trades)
      BY DEF OnceInv, Ordered, PastOrdered
    <3>3. Cardinality(Places(WithSnapshot(view[d], replica).trades, t)) <= Cardinality(Places(view[d].trades, t)) + 1
      BY <1>1, <1>5, <3>2, PlacesSnapshot
    <3>4. WithSnapshot(view[d], replica) \in View
      BY <1>1, <1>5, SnapshotFacts
    <3>5. v.trades \in Seq(1 .. MaxTrades)
      BY <3>1, <3>4 DEF View
    <3>6. Cardinality(Places(v.trades, t)) \in Nat
      BY <3>5, PlacesFinite
    <3> QED BY <1>4, <2>1, <2>2, <3>1, <3>3, <3>6
  <2> QED BY <2>3, <2>4
<1> QED BY <1>6, <1>7

LEMMA NextOnce == OnceInv /\ [Next]_vars => OnceInv'
<1> SUFFICES ASSUME OnceInv, [Next]_vars PROVE Counted' /\ TradesShownOnce'
  BY NextTypes, NextOrdered DEF OnceInv
<1>1. subscribed \subseteq Clients /\ reading \subseteq Clients /\ MaxSubscriptions \in Nat
      /\ subscriptions \in [Clients -> 0 .. MaxSubscriptions] /\ BookClients \subseteq Clients
  BY Constants DEF OnceInv, TInv, ClientTypes, Clients
<1>2. CASE Change \/ Match \/ Settle \/ SendFill \/ Resolve \/ Tick \/ Lose \/ FallBehind \/ Ignore
           \/ EngineRestarts \/ UNCHANGED vars
  <2>1. UNCHANGED <<view, subscriptions, subscribed, reading>>
    BY <1>2 DEF Change, Match, Settle, SendFill, Resolve, Tick, Lose, FallBehind, Ignore, EngineRestarts,
       vars, clients
  <2> QED BY <2>1 DEF OnceInv, Counted, TradesShownOnce
<1>3. CASE \E c \in Clients : SubscribeRegister(c) \/ Unsubscribe(c)
  <2>1. UNCHANGED <<view, subscriptions>> /\ subscribed' \cup reading' \subseteq subscribed \cup reading
    BY <1>3 DEF SubscribeRegister, Unsubscribe
  <2> QED BY <2>1 DEF OnceInv, Counted, TradesShownOnce
<1>4. CASE Broadcast
  <2>1. UNCHANGED <<subscriptions, subscribed, reading>>
    BY <1>4 DEF Broadcast
  <2> QED BY <1>4, <2>1, BroadcastOnce DEF OnceInv, Counted
<1>5. CASE \E c \in Clients : SubscribeRead(c)
  <2>1. PICK c \in Clients : SubscribeRead(c)
    BY <1>5
  <2>2. subscriptions' = [subscriptions EXCEPT ![c] = @ + 1] /\ reading' = reading \cup {c} /\ subscribed' = subscribed
    BY <2>1, SubscribeReadFacts DEF OnceInv
  <2>3. Counted'
    <3> SUFFICES ASSUME NEW d \in subscribed \cup reading \cup {c} PROVE subscriptions'[d] >= 1
      BY <2>2 DEF Counted
    <3>1. d \in Clients /\ subscriptions[d] \in Nat
      BY <1>1
    <3>2. d # c => subscriptions[d] >= 1
      BY DEF OnceInv, Counted
    <3> QED BY <1>1, <2>2, <3>1, <3>2
  <2> QED BY <2>1, <2>3, SubscribeReadOnce
<1>6. CASE GatewayRestarts
  <2>1. subscribed' = {} /\ reading' = {} /\ view' = [c \in Clients |-> NewView] /\ subscriptions' = subscriptions
    BY <1>6 DEF GatewayRestarts
  <2>2. ASSUME NEW c \in BookClients, NEW t \in 1 .. MaxTrades
        PROVE  Cardinality(Places(view'[c].trades, t)) <= subscriptions'[c]
    <3>1. Places(view'[c].trades, t) = {}
      BY <1>1, <2>1 DEF NewView, Places
    <3>2. Cardinality(Places(view'[c].trades, t)) = 0
      BY <3>1, FS_EmptySet
    <3> QED BY <1>1, <2>1, <3>2
  <2> QED BY <2>1, <2>2 DEF Counted, TradesShownOnce, Places
<1> QED BY <1>2, <1>3, <1>4, <1>5, <1>6 DEF Next

\* However often a client subscribes, and whatever is lost or restarted, processChannelNotification
\* shows a trade at most once for each subscription.
THEOREM FeedTradesShownOnce == Spec => []TradesShownOnce
<1>1. Init => OnceInv
  <2> SUFFICES ASSUME Init PROVE OnceInv
    OBVIOUS
  <2>1. TInv /\ Ordered
    BY InitTypes, InitOrdered
  <2>2. Counted
    BY DEF Init, Counted
  <2>3. TradesShownOnce
    <3> SUFFICES ASSUME NEW c \in BookClients, NEW t \in 1 .. MaxTrades
                 PROVE  Cardinality(Places(view[c].trades, t)) <= subscriptions[c]
      BY DEF TradesShownOnce, Places
    <3>1. c \in Clients /\ view[c] = NewView /\ subscriptions[c] = 0
      BY DEF Init, Clients
    <3>2. Places(view[c].trades, t) = {}
      BY <3>1 DEF NewView, Places
    <3> QED BY <3>1, <3>2, FS_EmptySet
  <2> QED BY <2>1, <2>2, <2>3 DEF OnceInv
<1>2. OnceInv => TradesShownOnce
  BY DEF OnceInv
<1> QED BY <1>1, <1>2, NextOnce, PTL DEF Spec

=============================================================================
