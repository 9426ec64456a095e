--------------------------- MODULE UdpStreamProofs ---------------------------
(***************************************************************************)
(* Proofs about UdpStream, for any capacities and batch sizes and any      *)
(* numbers of messages, heartbeats and restarts: what packets say is true, *)
(* the consumer's stream implements LossyStream, and loss is measured.     *)
(***************************************************************************)
EXTENDS UdpStream, FiniteSetTheorems, TLAPS

-----------------------------------------------------------------------------
(* The invariant. *)

\* The numbers of the sender, from the messages sent to the messages submitted.
SenderInv ==
  /\ batch.run = run /\ batch.first = msgSeq /\ batch.seq <= packetSeq
  /\ \A i \in DOMAIN batch.msgs : batch.msgs[i] = <<run, msgSeq + i>>
  /\ \A i \in DOMAIN queue : queue[i] = <<run, msgSeq + Len(batch.msgs) + i>>
  /\ submitted[run] = msgSeq + Len(batch.msgs) + Len(queue)
  /\ \A r \in Runs : r > run => submitted[r] = 0

\* A packet on the wire lies before the batch that is being filled.
WireInv ==
  \A p \in wire : p.msgs # << >> =>
    /\ p.run <= run
    /\ p.run = run => p.seq < batch.seq /\ p.first + Len(p.msgs) <= msgSeq
    /\ p.first + Len(p.msgs) <= submitted[p.run]

\* Messages of one run have rising numbers along s, and lower ones in s than in t.
Rising(s) == \A i, j \in DOMAIN s : i < j /\ s[i][1] = s[j][1] => s[i][2] < s[j][2]

Before(s, t) == \A i \in DOMAIN s, j \in DOMAIN t : s[i][1] = t[j][1] => s[i][2] < t[j][2]

\* The messages on their way from the receiver to the consumer, and those he took last.
Held == {channel[i] : i \in DOMAIN channel} \cup {pending[i] : i \in DOMAIN pending}
          \cup {<<r, taken[r]>> : r \in Runs}

OrderInv ==
  /\ Rising(channel) /\ Rising(pending) /\ Before(channel, pending)
  /\ \A i \in DOMAIN channel : taken[channel[i][1]] < channel[i][2]
  /\ \A i \in DOMAIN pending : taken[pending[i][1]] < pending[i][2]

\* What the receiver holds was sent, and comes before whatever it may still let in.
HeldInv ==
  /\ \A m \in Held : /\ m[2] > 0 => m[1] <= run
                     /\ m[1] = run => m[2] <= msgSeq
                     /\ m[2] <= submitted[m[1]]
  /\ expected = << >> => \A m \in Held : m[2] = 0
  /\ expected # << >> => \A m \in Held : \A p \in wire :
       p.msgs # << >> /\ p.seq >= expected.packet /\ p.run = m[1] => m[2] <= p.first

IInv == TypeOK /\ SenderInv /\ WireInv /\ PacketsInOrder /\ OrderInv /\ HeldInv

LEMMA Sizes == /\ BatchSize \in Nat \ {0} /\ QueueSize \in Nat \ {0} /\ ChannelSize \in Nat \ {0}
               /\ MaxGaps \in Nat \ {0} /\ MaxRuns \in Nat \ {0}
               /\ MaxMessages \in Nat /\ MaxBeats \in Nat /\ Modulus \in Nat /\ Modulus > MaxMessages
  BY SizesAssumption

-----------------------------------------------------------------------------
(* Sequences. *)

LEMMA TailFacts ==
  ASSUME NEW S, NEW s \in Seq(S), s # << >>
  PROVE  /\ Head(s) \in S /\ Tail(s) \in Seq(S) /\ Len(Tail(s)) = Len(s) - 1
         /\ Head(s) = s[1] /\ 1 \in DOMAIN s
         /\ \A i \in DOMAIN Tail(s) : i + 1 \in DOMAIN s /\ Tail(s)[i] = s[i + 1]
  OBVIOUS

LEMMA AppendFacts ==
  ASSUME NEW S, NEW s \in Seq(S), NEW e \in S
  PROVE  /\ Append(s, e) \in Seq(S) /\ Len(Append(s, e)) = Len(s) + 1
         /\ \A i \in DOMAIN Append(s, e) : \/ i \in DOMAIN s /\ Append(s, e)[i] = s[i]
                                           \/ i = Len(s) + 1 /\ Append(s, e)[i] = e
  OBVIOUS

-----------------------------------------------------------------------------
(* Types. *)

LEMMA InitTypeOK == Init => TypeOK
  <1> SUFFICES ASSUME Init PROVE TypeOK
    OBVIOUS
  <1>1. run = 1 /\ stopping = FALSE /\ 1 \in Runs
    BY Sizes DEF Init, Runs
  <1>2. run \in Runs /\ stopping \in BOOLEAN
    BY <1>1
  <1>3. submitted \in [Runs -> 0 .. MaxMessages] /\ taken \in [Runs -> 0 .. MaxMessages]
    BY Sizes DEF Init
  <1>4. << >> \in Seq(Message) /\ Len(<< >>) = 0
        /\ << >> \in Seq([expected : Nat, received : Nat, size : 0 .. Modulus - 1])
    OBVIOUS
  <1>5. batch \in Packet /\ batch.msgs = << >>
    BY <1>1, <1>4 DEF Init, Packet
  <1>6. 0 \in 0 .. MaxBeats /\ 0 \in 0 .. Modulus - 1
    BY Sizes
  <1>7. /\ queue = << >> /\ packetSeq = 0 /\ msgSeq = 0 /\ beats = 0 /\ wire = {}
        /\ expected = << >> /\ state = "initializing" /\ gaps = << >> /\ missing = 0
        /\ pending = << >> /\ clearing = FALSE /\ channel = << >> /\ accepted = {}
    BY DEF Init
  <1>8. /\ queue \in Seq(Message) /\ Len(queue) = 0 /\ pending \in Seq(Message)
        /\ channel \in Seq(Message) /\ Len(channel) = 0 /\ Len(batch.msgs) = 0
    BY <1>4, <1>5, <1>7
  <1>9. gaps \in Seq([expected : Nat, received : Nat, size : 0 .. Modulus - 1]) /\ Len(gaps) = 0
    BY <1>4, <1>7
  <1>10. /\ packetSeq \in Nat /\ msgSeq \in Nat /\ beats \in 0 .. MaxBeats /\ missing \in 0 .. Modulus - 1
        /\ wire \subseteq Packet /\ accepted \subseteq Message
        /\ expected \in [packet : Nat, msg : Nat] \cup {<< >>}
        /\ state \in {"initializing", "active", "degraded", "down"} /\ clearing \in BOOLEAN
    BY <1>6, <1>7
  <1>11. 0 <= QueueSize /\ 0 <= ChannelSize /\ 0 <= MaxGaps /\ 0 <= BatchSize
    BY Sizes
  <1> QED
    BY <1>2, <1>3, <1>5, <1>8, <1>9, <1>10, <1>11 DEF TypeOK

LEMMA SendBatchTypes ==
  ASSUME TypeOK, NEW msgs \in Seq(Message), Len(msgs) <= BatchSize, SendBatch(msgs), UNCHANGED run
  PROVE  /\ batch' \in Packet /\ Len(batch'.msgs) <= BatchSize /\ packetSeq' \in Nat /\ msgSeq' \in Nat
         /\ wire' \subseteq Packet
  BY SMTT(30) DEF TypeOK, SendBatch, Builder, Counted, Packet

\* The difference the receiver takes wraps.
LEMMA GapFacts ==
  ASSUME NEW a \in Int PROVE a % Modulus \in 0 .. Modulus - 1
  BY Sizes

LEMMA ReceivePacketTypes == TypeOK /\ ReceivePacket => TypeOK'
  <1> SUFFICES ASSUME TypeOK, ReceivePacket PROVE TypeOK'
    OBVIOUS
  <1>1. PICK p \in wire :
          /\ expected' = [packet |-> p.seq + 1, msg |-> p.first + Len(p.msgs)]
          /\ pending' = p.msgs
          /\ \/ /\ gaps' = Recorded([expected |-> ExpectedFor(p).msg, received |-> p.first,
                                     size |-> GapSize(p)])
                /\ missing' = (missing + GapSize(p)) % Modulus
                /\ state' = "degraded"
             \/ /\ state' = IF expected = << >> THEN Activated ELSE state
                /\ UNCHANGED <<gaps, missing>>
    BY DEF ReceivePacket
  <1>2. UNCHANGED <<sender, wire, accepted, clearing, channel, taken>>
    BY DEF ReceivePacket
  <1>3. p \in Packet /\ p.seq \in Nat /\ p.first \in Nat /\ p.msgs \in Seq(Message) /\ Len(p.msgs) \in Nat
    BY SMTT(30) DEF TypeOK, Packet
  <1>4. expected' \in [packet : Nat, msg : Nat] /\ pending' \in Seq(Message)
    BY <1>1, <1>3
  <1>5. ExpectedFor(p).msg \in Nat
    BY <1>3 DEF ExpectedFor, TypeOK
  <1>6. GapSize(p) \in 0 .. Modulus - 1
    <2>1. p.first - ExpectedFor(p).msg \in Int
      BY <1>3, <1>5
    <2> QED
      BY <2>1, GapFacts DEF GapSize
  <1>7. state' \in {"initializing", "active", "degraded", "down"}
    BY <1>1 DEF TypeOK, Activated
  <1>8. missing' \in 0 .. Modulus - 1
    <2>1. missing + GapSize(p) \in Int
      BY <1>6, Sizes DEF TypeOK
    <2> QED
      BY <1>1, <2>1, GapFacts DEF TypeOK
  <1>9. gaps' \in Seq([expected : Nat, received : Nat, size : 0 .. Modulus - 1]) /\ Len(gaps') <= MaxGaps
    <2> DEFINE G == [expected : Nat, received : Nat, size : 0 .. Modulus - 1]
               g == [expected |-> ExpectedFor(p).msg, received |-> p.first, size |-> GapSize(p)]
    <2>1. g \in G
      BY <1>3, <1>5, <1>6
    <2>2. gaps \in Seq(G) /\ Len(gaps) <= MaxGaps
      BY DEF TypeOK
    <2> HIDE DEF G, g
    <2>3. Recorded(g) \in Seq(G) /\ Len(Recorded(g)) <= MaxGaps
      <3>1. Append(gaps, g) \in Seq(G) /\ Len(Append(gaps, g)) = Len(gaps) + 1 /\ Len(gaps) \in Nat
        BY <2>1, <2>2
      <3>2. Append(gaps, g) # << >>
        BY <3>1
      <3>3. Tail(Append(gaps, g)) \in Seq(G) /\ Len(Tail(Append(gaps, g))) = Len(gaps)
        BY <3>1, <3>2
      <3> QED
        BY <2>2, <3>1, <3>3, Sizes DEF Recorded
    <2>4. gaps' = Recorded(g) \/ gaps' = gaps
      BY <1>1 DEF g
    <2> QED
      BY <2>2, <2>3, <2>4 DEF G
  <1> QED
    BY <1>2, <1>4, <1>7, <1>8, <1>9 DEF TypeOK, sender

LEMMA NextTypeOK == TypeOK /\ [Next]_vars => TypeOK'
  <1> SUFFICES ASSUME TypeOK, [Next]_vars PROVE TypeOK'
    OBVIOUS
  <1> USE DEF sender, receiver
  <1>1. run \in Nat /\ run \in Runs
    BY DEF TypeOK, Runs
  <1>2. CASE Submit
    <2>1. <<run, submitted[run] + 1>> \in Message
      BY SMTT(30), <1>1, <1>2, Sizes DEF Submit, TypeOK, Message
    <2>2. queue' \in Seq(Message) /\ Len(queue') = Len(queue) + 1
      BY <1>2, <2>1, AppendFacts DEF Submit, TypeOK
    <2>3. submitted' \in [Runs -> 0 .. MaxMessages]
      <3>1. submitted[run] \in 0 .. MaxMessages /\ submitted[run] < MaxMessages
        BY <1>1, <1>2 DEF Submit, TypeOK
      <3>2. submitted[run] + 1 \in 0 .. MaxMessages
        BY <3>1, Sizes
      <3> QED
        BY <1>2, <3>2 DEF Submit, TypeOK
    <2>4. Len(queue') <= QueueSize
      BY <1>2, <2>2, Sizes DEF Submit, TypeOK
    <2> QED
      BY <1>2, <2>2, <2>3, <2>4 DEF Submit, TypeOK
  <1>3. CASE Collect
    <2>1. queue' \in Seq(Message) /\ Head(queue) \in Message /\ Len(queue') <= QueueSize
      BY <1>3, TailFacts, Sizes DEF Collect, TypeOK
    <2>2. /\ batch' \in Packet /\ Len(batch'.msgs) <= BatchSize /\ packetSeq' \in Nat /\ msgSeq' \in Nat
          /\ wire' \subseteq Packet
      <3>1. CASE Len(batch.msgs) < BatchSize
        <4>1. batch \in Packet /\ batch.msgs \in Seq(Message)
          BY DEF TypeOK, Packet
        <4>2. batch' = [batch EXCEPT !.msgs = Append(batch.msgs, Head(queue))]
          BY <1>3, <3>1 DEF Collect
        <4>3. Append(batch.msgs, Head(queue)) \in Seq(Message)
              /\ Len(Append(batch.msgs, Head(queue))) = Len(batch.msgs) + 1
          BY <2>1, <4>1, AppendFacts
        <4>4. batch' \in Packet /\ batch'.msgs = Append(batch.msgs, Head(queue))
          BY <4>1, <4>2, <4>3 DEF Packet
        <4>5. Len(batch'.msgs) <= BatchSize
          BY <3>1, <4>1, <4>3, <4>4, Sizes
        <4> QED
          BY <1>3, <3>1, <4>4, <4>5 DEF Collect, TypeOK
      <3>2. CASE ~(Len(batch.msgs) < BatchSize)
        <4>1. <<Head(queue)>> \in Seq(Message) /\ Len(<<Head(queue)>>) <= BatchSize
          BY <2>1, Sizes
        <4> QED
          BY <1>3, <3>2, <4>1, SendBatchTypes DEF Collect
      <3> QED
        BY <3>1, <3>2
    <2> QED
      BY <1>3, <2>1, <2>2 DEF Collect, TypeOK
  <1>4. CASE Flush
    <2>1. << >> \in Seq(Message) /\ Len(<< >>) <= BatchSize
      BY Sizes
    <2>2. /\ batch' \in Packet /\ Len(batch'.msgs) <= BatchSize /\ packetSeq' \in Nat /\ msgSeq' \in Nat
          /\ wire' \subseteq Packet
      BY <1>4, <2>1, SendBatchTypes DEF Flush
    <2> QED
      BY <1>4, <2>2 DEF Flush, TypeOK
  <1>5. CASE Heartbeat
    <2>1. Builder(packetSeq, msgSeq, << >>) \in Packet
      BY DEF Builder, Packet, TypeOK
    <2> QED
      BY <1>5, <2>1, Sizes DEF Heartbeat, TypeOK
  <1>6. CASE Shutdown
    BY <1>6 DEF Shutdown, TypeOK
  <1>7. CASE Restart
    <2>1. run' \in Runs
      BY <1>7, Sizes DEF Restart, TypeOK, Runs
    <2>2. batch' \in Packet /\ batch'.msgs = << >>
      BY <1>7, <2>1 DEF Restart, Packet
    <2>3. /\ queue' = << >> /\ packetSeq' = 0 /\ msgSeq' = 0 /\ stopping' = FALSE
          /\ UNCHANGED <<submitted, beats, wire, receiver, clearing, channel, taken>>
      BY <1>7 DEF Restart
    <2>4. queue' \in Seq(Message) /\ Len(queue') = 0 /\ Len(batch'.msgs) = 0
      BY <2>2, <2>3
    <2>5. packetSeq' \in Nat /\ msgSeq' \in Nat /\ 0 <= QueueSize /\ 0 <= BatchSize
      BY <2>3, Sizes
    <2>6. stopping' \in BOOLEAN
      BY <2>3
    <2>7. /\ expected' \in [packet : Nat, msg : Nat] \cup {<< >>}
          /\ state' \in {"initializing", "active", "degraded", "down"}
          /\ gaps' \in Seq([expected : Nat, received : Nat, size : 0 .. Modulus - 1])
          /\ Len(gaps') <= MaxGaps /\ missing' \in 0 .. Modulus - 1
          /\ pending' \in Seq(Message) /\ accepted' \subseteq Message
      BY <2>3 DEF TypeOK
    <2>8. /\ submitted' \in [Runs -> 0 .. MaxMessages] /\ beats' \in 0 .. MaxBeats
          /\ wire' \subseteq Packet /\ clearing' \in BOOLEAN
          /\ channel' \in Seq(Message) /\ Len(channel') <= ChannelSize
          /\ taken' \in [Runs -> 0 .. MaxMessages]
      BY <2>3 DEF TypeOK
    <2> QED
      BY <2>1, <2>2, <2>4, <2>5, <2>7, <2>8, <2>6 DEF TypeOK
  <1>8. CASE ReceiveHeartbeat \/ Silence
    BY <1>8 DEF ReceiveHeartbeat, Silence, Activated, TypeOK
  <1>9. CASE Hand
    <2>1. pending' \in Seq(Message) /\ Head(pending) \in Message
      BY <1>9, TailFacts DEF Hand, TypeOK
    <2>2. channel' \in Seq(Message) /\ Len(channel') <= ChannelSize
      <3>1. CASE Len(channel) < ChannelSize
        <4>1. channel' = Append(channel, Head(pending))
          BY <1>9, <3>1 DEF Hand
        <4> QED
          BY <2>1, <3>1, <4>1, AppendFacts, Sizes DEF TypeOK
      <3>2. CASE ~(Len(channel) < ChannelSize)
        BY <1>9, <3>2 DEF Hand, TypeOK
      <3> QED
        BY <3>1, <3>2
    <2> QED
      BY <1>9, <2>1, <2>2 DEF Hand, TypeOK
  <1>10. CASE ClearGaps \/ ClearState
    <2>1. gaps' = gaps \/ gaps' = << >>
      BY <1>10 DEF ClearGaps, ClearState
    <2>2. /\ gaps' \in Seq([expected : Nat, received : Nat, size : 0 .. Modulus - 1])
          /\ Len(gaps') <= MaxGaps
      <3>1. CASE gaps' = gaps
        BY <3>1 DEF TypeOK
      <3>2. CASE gaps' = << >>
        <4>1. Len(gaps') = 0 /\ \A S : gaps' \in Seq(S)
          BY <3>2
        <4> QED
          BY <4>1, Sizes
      <3> QED
        BY <2>1, <3>1, <3>2
    <2>3. clearing' \in BOOLEAN /\ state' \in {"initializing", "active", "degraded", "down"}
      BY <1>10 DEF ClearGaps, ClearState, TypeOK
    <2>4. UNCHANGED <<sender, wire, expected, missing, pending, accepted, channel, taken>>
      BY <1>10 DEF ClearGaps, ClearState
    <2> QED
      BY <2>2, <2>3, <2>4 DEF TypeOK
  <1>11. CASE Consume
    <2>1. channel' \in Seq(Message) /\ Head(channel) \in Message /\ Len(channel') <= ChannelSize
      BY <1>11, TailFacts, Sizes DEF Consume, TypeOK
    <2>2. taken' \in [Runs -> 0 .. MaxMessages]
      <3>1. Head(channel)[2] \in 0 .. MaxMessages
        BY <2>1, Sizes DEF Message
      <3> QED
        BY <1>11, <3>1 DEF Consume, TypeOK
    <2> QED
      BY <1>11, <2>1, <2>2 DEF Consume, TypeOK
  <1>12. CASE ReceivePacket
    BY <1>12, ReceivePacketTypes
  <1>13. CASE UNCHANGED vars
    BY <1>13 DEF vars, TypeOK
  <1> QED
    BY <1>2, <1>3, <1>4, <1>5, <1>6, <1>7, <1>8, <1>9, <1>10, <1>11, <1>12, <1>13 DEF Next

-----------------------------------------------------------------------------
(* What packets say. *)

\* The types the steps below need of the sender, and of what the receiver holds.
LEMMA TypeFacts ==
  ASSUME TypeOK
  PROVE  /\ run \in Nat /\ run \in Runs /\ packetSeq \in Nat /\ msgSeq \in Nat
         /\ batch.seq \in Nat /\ batch.first \in Nat /\ batch.msgs \in Seq(Message) /\ batch \in Packet
         /\ queue \in Seq(Message) /\ submitted \in [Runs -> Nat]
         /\ \A p \in wire : /\ p.run \in Runs /\ p.run \in Nat /\ p.seq \in Nat /\ p.first \in Nat
                            /\ p.msgs \in Seq(Message) /\ Len(p.msgs) \in Nat
         /\ Runs \subseteq Nat
  <1>1. Runs \subseteq Nat
    BY DEF Runs
  <1>2. run \in Runs /\ packetSeq \in Nat /\ msgSeq \in Nat /\ batch \in Packet
        /\ queue \in Seq(Message) /\ wire \subseteq Packet
    BY DEF TypeOK
  <1>3. submitted \in [Runs -> Nat]
    BY Sizes DEF TypeOK
  <1>4. \A p \in Packet : /\ p.run \in Runs /\ p.seq \in Nat /\ p.first \in Nat
                          /\ p.msgs \in Seq(Message) /\ Len(p.msgs) \in Nat
    BY DEF Packet
  <1> QED
    BY <1>1, <1>2, <1>3, <1>4

LEMMA HeldTypes == TypeOK => \A m \in Held : m[1] \in Runs /\ m[2] \in Nat /\ m = <<m[1], m[2]>>
  <1> SUFFICES ASSUME TypeOK, NEW m \in Held PROVE m[1] \in Runs /\ m[2] \in Nat /\ m = <<m[1], m[2]>>
    OBVIOUS
  <1>1. CASE m \in Message
    BY <1>1, Sizes DEF Message
  <1>2. ASSUME NEW r \in Runs, m = <<r, taken[r]>> PROVE m[1] \in Runs /\ m[2] \in Nat /\ m = <<m[1], m[2]>>
    BY <1>2, Sizes DEF TypeOK
  <1>3. m \in Message \/ \E r \in Runs : m = <<r, taken[r]>>
    BY DEF Held, TypeOK
  <1> QED
    BY <1>1, <1>2, <1>3

\* A batch goes out and the next one begins: its numbers come after all on the wire.
LEMMA SendStep ==
  ASSUME IInv, NEW msgs \in Seq(Message), SendBatch(msgs),
         UNCHANGED <<run, submitted, expected, pending, channel, taken>>
  PROVE  /\ batch'.run = run /\ batch'.first = msgSeq' /\ batch'.seq <= packetSeq'
         /\ batch'.msgs = msgs /\ msgSeq' = msgSeq + Len(batch.msgs)
         /\ WireInv' /\ PacketsInOrder' /\ HeldInv'
  <1> USE DEF IInv
  <1>1. /\ wire' = wire \cup {batch} /\ packetSeq' = packetSeq + 1
        /\ msgSeq' = msgSeq + Len(batch.msgs)
        /\ batch' = [run |-> run, seq |-> packetSeq + 1, first |-> msgSeq', msgs |-> msgs]
    BY DEF SendBatch, Counted, Builder
  <1>2. batch'.run = run /\ batch'.first = msgSeq' /\ batch'.seq = packetSeq' /\ batch'.msgs = msgs
    BY <1>1
  <1>3. /\ batch.run = run /\ batch.first = msgSeq /\ batch.seq < batch'.seq /\ batch.seq <= packetSeq
        /\ \A i \in DOMAIN batch.msgs : batch.msgs[i] = <<batch.run, batch.first + i>>
        /\ batch.first + Len(batch.msgs) = msgSeq' /\ msgSeq' <= submitted[run] /\ msgSeq <= msgSeq'
        /\ Len(batch.msgs) \in Nat
    BY SMTT(30), <1>1, <1>2, TypeFacts DEF SenderInv
  <1>4. WireInv'
    <2> SUFFICES ASSUME NEW p \in wire', p.msgs # << >>
                 PROVE  /\ p.run <= run
                        /\ p.run = run => p.seq < batch'.seq /\ p.first + Len(p.msgs) <= msgSeq'
                        /\ p.first + Len(p.msgs) <= submitted[p.run]
      BY DEF WireInv
    <2>1. CASE p = batch
      BY <1>3, <2>1, TypeFacts
    <2>2. CASE p \in wire
      <3>1. /\ p.run <= run /\ p.first + Len(p.msgs) <= submitted[p.run]
            /\ p.run = run => p.seq < batch.seq /\ p.first + Len(p.msgs) <= msgSeq
        BY <2>2 DEF WireInv
      <3>2. p.seq \in Nat /\ p.first + Len(p.msgs) \in Nat
        BY SMTT(30), <2>2, TypeFacts
      <3>3. batch.seq \in Nat /\ batch'.seq \in Nat /\ msgSeq \in Nat /\ msgSeq' \in Nat
        BY SMTT(30), <1>1, <1>2, <1>3, TypeFacts
      <3> QED
        BY <1>3, <3>1, <3>2, <3>3
    <2> QED
      BY <1>1, <2>1, <2>2
  <1>5. PacketsInOrder'
    <2> SUFFICES ASSUME NEW p \in wire', NEW q \in wire', p.msgs # << >>, q.msgs # << >>
                 PROVE  /\ \A i \in DOMAIN p.msgs : p.msgs[i] = <<p.run, p.first + i>>
                        /\ p.run = q.run /\ p.seq < q.seq => p.first + Len(p.msgs) <= q.first
                        /\ p.run = q.run /\ p.seq = q.seq => p = q
      BY DEF PacketsInOrder
    <2>1. CASE p \in wire /\ q \in wire
      BY <2>1 DEF PacketsInOrder
    <2>2. CASE p \in wire /\ q = batch
      <3>1. p.run = run => p.seq < batch.seq /\ p.first + Len(p.msgs) <= msgSeq
        BY <2>2 DEF WireInv
      <3>2. \A i \in DOMAIN p.msgs : p.msgs[i] = <<p.run, p.first + i>>
        BY <2>2 DEF PacketsInOrder
      <3> QED
        BY SMTT(30), <1>3, <2>2, <3>1, <3>2, TypeFacts
    <2>3. CASE p = batch /\ q \in wire
      <3>1. q.run = run => q.seq < batch.seq
        BY <2>3 DEF WireInv
      <3> QED
        BY SMTT(30), <1>3, <2>3, <3>1, TypeFacts
    <2>4. CASE p = batch /\ q = batch
      BY <1>3, <2>4, TypeFacts
    <2> QED
      BY <1>1, <2>1, <2>2, <2>3, <2>4
  <1>6. HeldInv'
    <2>1. Held' = Held
      BY DEF Held
    <2>2. \A m \in Held : (m[2] > 0 => m[1] <= run) /\ (m[1] = run => m[2] <= msgSeq')
                          /\ m[2] <= submitted[m[1]]
      BY <1>3, HeldTypes, TypeFacts DEF HeldInv
    <2>3. ASSUME expected # << >>, NEW m \in Held, NEW p \in wire', p.msgs # << >>,
                 p.seq >= expected.packet, p.run = m[1]
          PROVE  m[2] <= p.first
      <3>1. CASE p \in wire
        BY <2>3, <3>1 DEF HeldInv
      <3>2. CASE p = batch
        BY <1>3, <2>3, <3>2 DEF HeldInv
      <3> QED
        BY <1>1, <3>1, <3>2
    <2> QED
      BY <2>1, <2>2, <2>3 DEF HeldInv
  <1> QED
    BY <1>1, <1>2, <1>3, <1>4, <1>5, <1>6, TypeFacts

LEMMA SubmitStep == IInv /\ Submit => IInv'
  <1> SUFFICES ASSUME IInv, Submit PROVE IInv'
    OBVIOUS
  <1>1. /\ submitted' = [submitted EXCEPT ![run] = @ + 1]
        /\ queue' = Append(queue, <<run, submitted[run] + 1>>) /\ submitted[run] < MaxMessages
        /\ UNCHANGED <<run, batch, packetSeq, msgSeq, wire, expected, pending, channel, taken>>
    BY DEF Submit, receiver
  <1> USE DEF IInv
  <1>2. TypeOK'
    BY NextTypeOK DEF Next
  <1>3. /\ submitted'[run] = submitted[run] + 1 /\ \A r \in Runs : r # run => submitted'[r] = submitted[r]
        /\ \A r \in Runs : submitted[r] <= submitted'[r] /\ submitted[r] \in Nat
        /\ run \in Runs
    BY <1>1, TypeFacts
  <1>4. SenderInv'
    <2>1. <<run, submitted[run] + 1>> \in Message
      BY SMTT(30), <1>1, <1>3, Sizes DEF Message, TypeOK
    <2>2. /\ Len(queue') = Len(queue) + 1
          /\ \A i \in DOMAIN queue' : \/ i \in DOMAIN queue /\ queue'[i] = queue[i]
                                      \/ i = Len(queue) + 1 /\ queue'[i] = <<run, submitted[run] + 1>>
      BY <1>1, <2>1, AppendFacts, TypeFacts
    <2> DEFINE n == Len(batch.msgs)
    <2>3. /\ submitted[run] = msgSeq + n + Len(queue)
          /\ n \in Nat /\ Len(queue) \in Nat /\ msgSeq \in Nat
          /\ submitted[run] \in Nat
      BY TypeFacts DEF SenderInv
    <2>4. \A i \in DOMAIN queue : queue[i] = <<run, msgSeq + n + i>>
      BY DEF SenderInv
    <2> HIDE DEF n
    <2>5. \A i \in DOMAIN queue' : queue'[i] = <<run, msgSeq + n + i>>
      <3> SUFFICES ASSUME NEW i \in DOMAIN queue' PROVE queue'[i] = <<run, msgSeq + n + i>>
        OBVIOUS
      <3>1. CASE i \in DOMAIN queue /\ queue'[i] = queue[i]
        BY <2>4, <3>1
      <3>2. CASE i = Len(queue) + 1 /\ queue'[i] = <<run, submitted[run] + 1>>
        <4>1. submitted[run] + 1 = msgSeq + n + i
          BY <2>3, <3>2
        <4> QED
          BY <3>2, <4>1
      <3> QED
        BY <2>2, <3>1, <3>2
    <2>6. submitted'[run] = msgSeq + n + Len(queue')
      BY <1>3, <2>2, <2>3
    <2>7. \A r \in Runs : r > run => submitted'[r] = 0
      BY <1>1, <1>3, TypeFacts DEF SenderInv
    <2> QED
      BY <1>1, <2>5, <2>6, <2>7 DEF SenderInv, n
  <1>5. WireInv'
    BY SMTT(30), <1>1, <1>3, TypeFacts DEF WireInv
  <1>6. PacketsInOrder' /\ OrderInv'
    BY <1>1 DEF PacketsInOrder, OrderInv, Rising, Before
  <1>7. HeldInv'
    <2>1. Held' = Held
      BY <1>1 DEF Held
    <2>2. \A m \in Held : m[1] \in Runs /\ m[2] \in Nat /\ m[2] <= submitted[m[1]]
      BY HeldTypes DEF HeldInv
    <2>3. \A m \in Held : m[2] <= submitted'[m[1]]
      BY <1>3, <2>2
    <2> QED
      BY <1>1, <2>1, <2>3 DEF HeldInv
  <1> QED
    BY <1>2, <1>4, <1>5, <1>6, <1>7

LEMMA CollectStep == IInv /\ Collect => IInv'
  <1> SUFFICES ASSUME IInv, Collect PROVE IInv'
    OBVIOUS
  <1> USE DEF IInv, receiver
  <1>1. TypeOK'
    BY NextTypeOK DEF Next
  <1>2. OrderInv'
    BY DEF Collect, OrderInv, Rising, Before
  <1>3. /\ queue' = Tail(queue) /\ Len(queue') = Len(queue) - 1
        /\ Head(queue) = <<run, msgSeq + Len(batch.msgs) + 1>> /\ Head(queue) \in Message
        /\ \A i \in DOMAIN queue' : i + 1 \in DOMAIN queue /\ queue'[i] = queue[i + 1]
    BY TailFacts, TypeFacts DEF Collect, SenderInv
  <1>4. /\ Len(batch.msgs) \in Nat /\ Len(queue) \in Nat /\ msgSeq \in Nat /\ queue' \in Seq(Message)
        /\ UNCHANGED <<run, submitted, expected, pending, channel, taken>>
    BY <1>3, TailFacts, TypeFacts DEF Collect
  <1>5. CASE Len(batch.msgs) < BatchSize
    <2>1. /\ batch' = [batch EXCEPT !.msgs = Append(batch.msgs, Head(queue))]
          /\ UNCHANGED <<packetSeq, msgSeq, wire>>
      BY <1>5 DEF Collect
    <2>2. /\ batch'.run = batch.run /\ batch'.first = batch.first /\ batch'.seq = batch.seq
          /\ batch'.msgs = Append(batch.msgs, Head(queue))
      BY <2>1, TypeFacts DEF Packet
    <2>3. /\ Len(batch'.msgs) = Len(batch.msgs) + 1 /\ Len(batch'.msgs) \in Nat
          /\ \A i \in DOMAIN batch'.msgs :
               \/ i \in DOMAIN batch.msgs /\ batch'.msgs[i] = batch.msgs[i]
               \/ i = Len(batch.msgs) + 1 /\ batch'.msgs[i] = Head(queue)
      <3>1. batch.msgs \in Seq(Message) /\ Len(batch.msgs) \in Nat
        BY TypeFacts
      <3> QED
        BY <1>3, <2>2, <3>1, AppendFacts
    <2>4. \A i \in DOMAIN queue' : queue'[i] = <<run, msgSeq + Len(batch'.msgs) + i>>
      <3> SUFFICES ASSUME NEW i \in DOMAIN queue' PROVE queue'[i] = <<run, msgSeq + Len(batch'.msgs) + i>>
        OBVIOUS
      <3>1. queue'[i] = <<run, msgSeq + Len(batch.msgs) + (i + 1)>>
        BY <1>3 DEF SenderInv
      <3>2. i \in Nat
        BY <1>4
      <3>3. msgSeq + Len(batch.msgs) + (i + 1) = msgSeq + Len(batch'.msgs) + i
        BY SMTT(30), <1>4, <2>3, <3>2
      <3> QED
        BY <3>1, <3>3
    <2>5. \A i \in DOMAIN batch'.msgs : batch'.msgs[i] = <<run, msgSeq + i>>
      <3> SUFFICES ASSUME NEW i \in DOMAIN batch'.msgs PROVE batch'.msgs[i] = <<run, msgSeq + i>>
        OBVIOUS
      <3>1. CASE i \in DOMAIN batch.msgs /\ batch'.msgs[i] = batch.msgs[i]
        BY <3>1 DEF SenderInv
      <3>2. CASE i = Len(batch.msgs) + 1 /\ batch'.msgs[i] = Head(queue)
        <4>1. msgSeq + Len(batch.msgs) + 1 = msgSeq + i
          BY <1>4, <3>2
        <4> QED
          BY <1>3, <3>2, <4>1
      <3> QED
        BY <2>3, <3>1, <3>2
    <2>6. SenderInv'
      <3>1. submitted[run] = msgSeq + Len(batch'.msgs) + Len(queue')
        BY <1>3, <1>4, <2>3 DEF SenderInv
      <3>2. \A r \in Runs : r > run => submitted[r] = 0
        BY DEF SenderInv
      <3>3. batch'.run = run /\ batch'.first = msgSeq /\ batch'.seq <= packetSeq
        BY <2>2 DEF SenderInv
      <3> QED
        BY <1>4, <2>1, <2>4, <2>5, <3>1, <3>2, <3>3 DEF SenderInv
    <2>7. WireInv' /\ PacketsInOrder'
      BY <1>4, <2>1, <2>2 DEF WireInv, PacketsInOrder
    <2>8. HeldInv'
      BY <1>4, <2>1 DEF HeldInv, Held
    <2> QED
      BY <1>1, <1>2, <2>6, <2>7, <2>8
  <1>6. CASE ~(Len(batch.msgs) < BatchSize)
    <2> DEFINE msgs == <<Head(queue)>>
    <2>1. msgs \in Seq(Message) /\ Len(msgs) = 1 /\ msgs[1] = Head(queue) /\ SendBatch(msgs)
      BY <1>3, <1>6 DEF Collect
    <2>2. DOMAIN msgs = {1}
      BY <2>1
    <2> HIDE DEF msgs
    <2>3. /\ batch'.run = run /\ batch'.first = msgSeq' /\ batch'.seq <= packetSeq'
          /\ batch'.msgs = msgs /\ msgSeq' = msgSeq + Len(batch.msgs)
          /\ WireInv' /\ PacketsInOrder' /\ HeldInv'
      BY <1>4, <2>1, SendStep
    <2>4. \A i \in DOMAIN queue' : queue'[i] = <<run, msgSeq' + 1 + i>>
      <3> SUFFICES ASSUME NEW i \in DOMAIN queue' PROVE queue'[i] = <<run, msgSeq' + 1 + i>>
        OBVIOUS
      <3>1. queue'[i] = <<run, msgSeq + Len(batch.msgs) + (i + 1)>>
        BY <1>3 DEF SenderInv
      <3>2. i \in Nat
        BY <1>4
      <3>3. msgSeq + Len(batch.msgs) + (i + 1) = msgSeq' + 1 + i
        BY <1>4, <2>3, <3>2
      <3> QED
        BY <3>1, <3>3
    <2>5. SenderInv'
      <3>1. submitted[run] = msgSeq' + 1 + Len(queue')
        BY <1>3, <1>4, <2>3 DEF SenderInv
      <3>2. \A r \in Runs : r > run => submitted[r] = 0
        BY DEF SenderInv
      <3>3. \A i \in DOMAIN msgs : msgs[i] = <<run, msgSeq' + i>>
        BY <1>3, <2>1, <2>2, <2>3
      <3> QED
        BY <1>4, <2>1, <2>3, <2>4, <3>1, <3>2, <3>3 DEF SenderInv
    <2> QED
      BY <1>1, <1>2, <2>3, <2>5
  <1> QED
    BY <1>5, <1>6

LEMMA FlushStep == IInv /\ Flush => IInv'
  <1> SUFFICES ASSUME IInv, Flush PROVE IInv'
    OBVIOUS
  <1> USE DEF IInv, receiver
  <1>1. TypeOK'
    BY NextTypeOK DEF Next
  <1>2. /\ << >> \in Seq(Message) /\ Len(<< >>) = 0 /\ SendBatch(<< >>)
        /\ queue = << >> /\ UNCHANGED <<run, submitted, queue, expected, pending, channel, taken>>
    BY DEF Flush, FlushDue
  <1>3. /\ batch'.run = run /\ batch'.first = msgSeq' /\ batch'.seq <= packetSeq'
        /\ batch'.msgs = << >> /\ msgSeq' = msgSeq + Len(batch.msgs)
        /\ WireInv' /\ PacketsInOrder' /\ HeldInv'
    BY <1>2, SendStep
  <1>4. SenderInv'
    BY <1>2, <1>3, TypeFacts DEF SenderInv
  <1>5. OrderInv'
    BY <1>2 DEF OrderInv, Rising, Before
  <1> QED
    BY <1>1, <1>3, <1>4, <1>5

\* A heartbeat has no messages, but takes a packet number.
LEMMA HeartbeatStep == IInv /\ Heartbeat => IInv'
  <1> SUFFICES ASSUME IInv, Heartbeat PROVE IInv'
    OBVIOUS
  <1> USE DEF IInv, receiver
  <1>1. TypeOK'
    BY NextTypeOK DEF Next
  <1>2. /\ \A p \in wire' : p.msgs # << >> => p \in wire
        /\ packetSeq' = packetSeq + 1
        /\ UNCHANGED <<run, submitted, queue, batch, msgSeq, expected, pending, channel, taken>>
    BY DEF Heartbeat, Builder
  <1>3. SenderInv' /\ WireInv'
    BY <1>2, TypeFacts DEF SenderInv, WireInv
  <1>4. PacketsInOrder' /\ OrderInv'
    BY <1>2 DEF PacketsInOrder, OrderInv, Rising, Before
  <1>5. HeldInv'
    BY <1>2 DEF HeldInv, Held
  <1> QED
    BY <1>1, <1>3, <1>4, <1>5

\* A new run has everything before it.
LEMMA RestartStep == IInv /\ Restart => IInv'
  <1> SUFFICES ASSUME IInv, Restart PROVE IInv'
    OBVIOUS
  <1> USE DEF IInv, receiver
  <1>1. TypeOK'
    BY NextTypeOK DEF Next
  <1>2. /\ run' = run + 1 /\ run' \in Runs /\ queue' = << >> /\ packetSeq' = 0 /\ msgSeq' = 0
        /\ batch'.run = run' /\ batch'.seq = 0 /\ batch'.first = 0 /\ batch'.msgs = << >>
        /\ UNCHANGED <<submitted, wire, expected, pending, channel, taken>>
    BY TypeFacts, Sizes DEF Restart, Runs
  <1>3. SenderInv'
    BY <1>2, TypeFacts DEF SenderInv
  <1>4. WireInv'
    BY SMTT(30), <1>2, TypeFacts DEF WireInv
  <1>5. PacketsInOrder' /\ OrderInv'
    BY <1>2 DEF PacketsInOrder, OrderInv, Rising, Before
  <1>6. HeldInv'
    <2>1. Held' = Held
      BY <1>2 DEF Held
    <2>2. \A m \in Held : (m[2] > 0 => m[1] <= run') /\ (m[1] = run' => m[2] <= 0)
      BY <1>2, HeldTypes, TypeFacts DEF HeldInv
    <2> QED
      BY <1>2, <2>1, <2>2 DEF HeldInv
  <1> QED
    BY <1>1, <1>3, <1>4, <1>5, <1>6

-----------------------------------------------------------------------------
(* What the receiver lets in. *)

\* A step that leaves packets and sender alone.
LEMMA ReceiverStep ==
  ASSUME IInv, TypeOK', UNCHANGED <<sender, wire>>, OrderInv', HeldInv'
  PROVE  IInv'
  BY DEF IInv, sender, SenderInv, WireInv, PacketsInOrder

LEMMA FewerHeld ==
  ASSUME HeldInv, UNCHANGED <<sender, wire, expected>>, Held' \subseteq Held
  PROVE  HeldInv'
  BY DEF HeldInv, sender

LEMMA QuietStep ==
  ASSUME IInv, TypeOK', UNCHANGED <<run, submitted, queue, batch, packetSeq, msgSeq, wire, expected,
                                    pending, channel, taken>>
  PROVE  IInv'
  <1>1. SenderInv' /\ WireInv' /\ PacketsInOrder'
    BY DEF IInv, SenderInv, WireInv, PacketsInOrder
  <1>2. OrderInv'
    BY DEF IInv, OrderInv, Rising, Before
  <1>3. HeldInv'
    BY DEF IInv, HeldInv, Held
  <1> QED
    BY <1>1, <1>2, <1>3 DEF IInv

\* A message goes into the channel, or is dropped.
LEMMA HandStep == IInv /\ Hand => IInv'
  <1> SUFFICES ASSUME IInv, Hand PROVE IInv'
    OBVIOUS
  <1>1. TypeOK /\ OrderInv /\ HeldInv
    BY DEF IInv
  <1>2. TypeOK'
    BY <1>1, NextTypeOK DEF Next
  <1>3. /\ pending # << >> /\ pending' = Tail(pending)
        /\ UNCHANGED <<sender, wire, expected, taken>>
    BY DEF Hand
  <1>4. /\ pending \in Seq(Message) /\ channel \in Seq(Message)
    BY <1>1 DEF TypeOK
  <1>5. /\ 1 \in DOMAIN pending /\ Head(pending) = pending[1] /\ Head(pending) \in Message
        /\ \A i \in DOMAIN pending' : i + 1 \in DOMAIN pending /\ pending'[i] = pending[i + 1]
                                      /\ i \in Nat /\ i > 0
    BY <1>3, <1>4, TailFacts
  <1>6. \/ channel' = channel
        \/ \A i \in DOMAIN channel' : \/ i \in DOMAIN channel /\ channel'[i] = channel[i]
                                      \/ i = Len(channel) + 1 /\ channel'[i] = pending[1]
    <2>1. channel' = channel \/ channel' = Append(channel, pending[1])
      BY <1>5 DEF Hand
    <2> QED
      BY <1>4, <1>5, <2>1, AppendFacts
  <1>7. Held' \subseteq Held
    BY <1>3, <1>5, <1>6 DEF Held
  <1>8. HeldInv'
    BY <1>1, <1>3, <1>7, FewerHeld
  <1>9. OrderInv'
    <2>1. Rising(pending')
      BY <1>1, <1>5 DEF OrderInv, Rising
    <2>2. \A i \in DOMAIN pending' :
            /\ taken[pending'[i][1]] < pending'[i][2]
            /\ pending[1][1] = pending'[i][1] => pending[1][2] < pending'[i][2]
            /\ \A j \in DOMAIN channel : channel[j][1] = pending'[i][1] => channel[j][2] < pending'[i][2]
      BY <1>1, <1>5 DEF OrderInv, Rising, Before
    <2>3. /\ \A i \in DOMAIN channel : i \in Nat /\ i <= Len(channel)
          /\ Len(channel) \in Nat
      BY <1>4
    <2>4. CASE channel' = channel
      BY <1>1, <1>3, <2>1, <2>2, <2>4 DEF OrderInv, Before, Rising
    <2>5. CASE \A i \in DOMAIN channel' : \/ i \in DOMAIN channel /\ channel'[i] = channel[i]
                                          \/ i = Len(channel) + 1 /\ channel'[i] = pending[1]
      <3>1. \A j \in DOMAIN channel : channel[j][1] = pending[1][1] => channel[j][2] < pending[1][2]
        BY <1>1, <1>5 DEF OrderInv, Before
      <3>2. Rising(channel')
        BY <1>1, <2>3, <2>5, <3>1 DEF OrderInv, Rising
      <3>3. Before(channel', pending')
        BY <2>2, <2>5 DEF Before
      <3>4. \A i \in DOMAIN channel' : taken[channel'[i][1]] < channel'[i][2]
        BY <1>1, <1>5, <2>5 DEF OrderInv
      <3> QED
        BY <1>3, <2>1, <2>2, <3>2, <3>3, <3>4 DEF OrderInv
    <2> QED
      BY <1>6, <2>4, <2>5
  <1> QED
    BY <1>2, <1>3, <1>8, <1>9, ReceiverStep

LEMMA ConsumeStep == IInv /\ Consume => IInv'
  <1> SUFFICES ASSUME IInv, Consume PROVE IInv'
    OBVIOUS
  <1>1. TypeOK /\ OrderInv /\ HeldInv
    BY DEF IInv
  <1>2. TypeOK'
    BY <1>1, NextTypeOK DEF Next
  <1>3. /\ channel # << >> /\ channel' = Tail(channel)
        /\ taken' = [taken EXCEPT ![Head(channel)[1]] = Head(channel)[2]]
        /\ UNCHANGED <<sender, wire, expected, pending>>
    BY DEF Consume, receiver
  <1>4. channel \in Seq(Message) /\ pending \in Seq(Message) /\ taken \in [Runs -> 0 .. MaxMessages]
    BY <1>1 DEF TypeOK
  <1>5. /\ 1 \in DOMAIN channel /\ Head(channel) = channel[1] /\ channel[1] \in Message
        /\ \A i \in DOMAIN channel' : i + 1 \in DOMAIN channel /\ channel'[i] = channel[i + 1]
                                      /\ i \in Nat /\ i > 0
    BY <1>3, <1>4, TailFacts
  <1>6. channel[1][1] \in Runs /\ channel[1] = <<channel[1][1], channel[1][2]>>
    BY <1>5 DEF Message
  <1>7. /\ taken'[channel[1][1]] = channel[1][2]
        /\ \A r \in Runs : r # channel[1][1] => taken'[r] = taken[r]
    BY <1>3, <1>4, <1>5, <1>6
  <1>8. Held' \subseteq Held
    BY <1>3, <1>5, <1>6, <1>7 DEF Held
  <1>9. OrderInv'
    <2>1. Rising(channel') /\ Before(channel', pending)
      BY <1>1, <1>5 DEF OrderInv, Rising, Before
    <2>2. \A i \in DOMAIN channel' : channel'[i][1] \in Runs /\ taken'[channel'[i][1]] < channel'[i][2]
      <3> SUFFICES ASSUME NEW i \in DOMAIN channel'
                   PROVE  channel'[i][1] \in Runs /\ taken'[channel'[i][1]] < channel'[i][2]
        OBVIOUS
      <3>1. i + 1 \in DOMAIN channel /\ channel'[i] = channel[i + 1] /\ 1 < i + 1
        BY <1>5
      <3>2. channel[i + 1] \in Message
        BY <1>4, <3>1
      <3>3. channel[i + 1][1] \in Runs
        BY <3>2 DEF Message
      <3>4. channel[i + 1][1] = channel[1][1] => channel[1][2] < channel[i + 1][2]
        BY <1>1, <1>5, <3>1 DEF OrderInv, Rising
      <3>5. taken[channel[i + 1][1]] < channel[i + 1][2]
        BY <1>1, <3>1 DEF OrderInv
      <3> QED
        BY <1>7, <3>1, <3>3, <3>4, <3>5
    <2>3. \A i \in DOMAIN pending : taken'[pending[i][1]] < pending[i][2]
      <3> SUFFICES ASSUME NEW i \in DOMAIN pending PROVE taken'[pending[i][1]] < pending[i][2]
        OBVIOUS
      <3>1. pending[i] \in Message
        BY <1>4
      <3>2. pending[i][1] \in Runs
        BY <3>1 DEF Message
      <3>3. channel[1][1] = pending[i][1] => channel[1][2] < pending[i][2]
        BY <1>1, <1>5 DEF OrderInv, Before
      <3>4. taken[pending[i][1]] < pending[i][2]
        BY <1>1 DEF OrderInv
      <3> QED
        BY <1>7, <3>2, <3>3, <3>4
    <2>4. Rising(pending)
      BY <1>1 DEF OrderInv
    <2> QED
      BY <1>3, <2>1, <2>2, <2>3, <2>4 DEF OrderInv, Rising, Before
  <1> QED
    BY <1>1, <1>2, <1>3, <1>8, <1>9, FewerHeld, ReceiverStep

\* A packet is let in: its messages come after all that the receiver holds of its run, and before
\* all that it can still let in.
LEMMA ReceivePacketStep == IInv /\ ReceivePacket => IInv'
  <1> SUFFICES ASSUME IInv, ReceivePacket PROVE IInv'
    OBVIOUS
  <1>1. TypeOK /\ WireInv /\ PacketsInOrder /\ OrderInv /\ HeldInv
    BY DEF IInv
  <1>2. TypeOK'
    BY <1>1, ReceivePacketTypes
  <1>3. PICK p \in wire : /\ p.msgs # << >> /\ ~Duplicate(p)
                          /\ expected' = [packet |-> p.seq + 1, msg |-> p.first + Len(p.msgs)]
                          /\ pending' = p.msgs
    BY DEF ReceivePacket
  <1>4. UNCHANGED <<sender, wire, channel, taken>> /\ pending = << >>
    BY DEF ReceivePacket
  <1>5. expected # << >> => p.seq >= expected.packet
    <2>1. ASSUME expected # << >> PROVE p.seq >= expected.packet
      <3>1. expected.packet \in Nat /\ p.seq \in Nat
        BY <1>1, <2>1, TypeFacts DEF TypeOK
      <3>2. ~(p.seq < expected.packet)
        BY <1>3, <2>1 DEF Duplicate, ExpectedFor
      <3> QED
        BY <3>1, <3>2
    <2> QED
      BY <2>1
  <1>6. /\ p.run \in Nat /\ p.run \in Runs /\ p.seq \in Nat /\ p.first \in Nat /\ p.msgs \in Seq(Message)
        /\ Len(p.msgs) \in Nat
        /\ p.run <= run /\ p.first + Len(p.msgs) <= submitted[p.run]
        /\ p.run = run => p.first + Len(p.msgs) <= msgSeq
    BY <1>1, <1>3, TypeFacts DEF WireInv
  <1>7. \A i \in DOMAIN p.msgs : /\ p.msgs[i] = <<p.run, p.first + i>> /\ i \in Nat /\ 0 < i
                                 /\ i <= Len(p.msgs)
    BY <1>1, <1>3, <1>6 DEF PacketsInOrder
  <1>8. \A m \in Held : m[1] = p.run => m[2] <= p.first
    <2> SUFFICES ASSUME NEW m \in Held, m[1] = p.run PROVE m[2] <= p.first
      OBVIOUS
    <2>1. CASE expected = << >>
      BY <1>1, <1>6, <2>1 DEF HeldInv
    <2>2. CASE expected # << >>
      BY <1>1, <1>3, <1>5, <2>2 DEF HeldInv
    <2> QED
      BY <2>1, <2>2
  <1>9. Held' \subseteq Held \cup {p.msgs[i] : i \in DOMAIN p.msgs}
    BY <1>3, <1>4 DEF Held
  <1>10. expected' # << >> /\ expected'.packet = p.seq + 1
    <2>1. DOMAIN expected' = {"packet", "msg"}
      BY <1>3
    <2>2. DOMAIN << >> = {}
      OBVIOUS
    <2> QED
      BY <1>3, <2>1, <2>2
  <1>11. HeldInv'
    <2>1. ASSUME NEW i \in DOMAIN p.msgs
          PROVE  /\ p.msgs[i][1] = p.run /\ p.msgs[i][2] = p.first + i
                 /\ p.first + i <= p.first + Len(p.msgs)
      BY <1>6, <1>7
    <2>2. ASSUME NEW m \in Held'
          PROVE  (m[2] > 0 => m[1] <= run) /\ (m[1] = run => m[2] <= msgSeq) /\ m[2] <= submitted[m[1]]
      <3>1. CASE m \in Held
        BY <1>1, <3>1 DEF HeldInv
      <3>2. ASSUME NEW i \in DOMAIN p.msgs, m = p.msgs[i]
            PROVE  (m[2] > 0 => m[1] <= run) /\ (m[1] = run => m[2] <= msgSeq) /\ m[2] <= submitted[m[1]]
        <4>1. m[1] = p.run /\ m[2] = p.first + i /\ p.first + i <= p.first + Len(p.msgs) /\ i \in Nat
          BY <1>7, <2>1, <3>2
        <4>2. msgSeq \in Nat /\ submitted[p.run] \in Nat
          BY <1>1, <1>6, TypeFacts
        <4> QED
          BY SMTT(30), <1>6, <4>1, <4>2
      <3> QED
        BY <1>9, <3>1, <3>2
    <2>3. ASSUME NEW m \in Held', NEW q \in wire, q.msgs # << >>, q.seq >= p.seq + 1, q.run = m[1]
          PROVE  m[2] <= q.first
      <3>1. q.seq \in Nat /\ p.seq < q.seq /\ q.first \in Nat
        <4>1. q.seq \in Nat /\ q.first \in Nat
          BY <1>1, TypeFacts
        <4> QED
          BY <1>6, <2>3, <4>1
      <3>2. CASE m \in Held
        <4>1. CASE expected = << >>
          BY <1>1, <3>1, <3>2, <4>1 DEF HeldInv
        <4>2. CASE expected # << >>
          <5>1. expected.packet \in Nat
            BY <1>1, <4>2 DEF TypeOK
          <5>2. q.seq >= expected.packet
            BY <1>5, <1>6, <3>1, <4>2, <5>1
          <5> QED
            BY <1>1, <2>3, <3>2, <4>2, <5>2 DEF HeldInv
        <4> QED
          BY <4>1, <4>2
      <3>3. ASSUME NEW i \in DOMAIN p.msgs, m = p.msgs[i] PROVE m[2] <= q.first
        <4>1. p.run = q.run
          BY <2>1, <2>3, <3>3
        <4>2. p.first + Len(p.msgs) <= q.first
          BY <1>1, <1>3, <2>3, <3>1, <4>1 DEF PacketsInOrder
        <4> QED
          BY <1>6, <1>7, <2>1, <3>1, <3>3, <4>2
      <3> QED
        BY <1>9, <3>2, <3>3
    <2> QED
      BY <1>4, <1>10, <2>2, <2>3 DEF HeldInv, sender
  <1>12. OrderInv'
    <2>1. Rising(p.msgs)
      BY <1>6, <1>7 DEF Rising
    <2>2. Before(channel, p.msgs)
      <3> SUFFICES ASSUME NEW i \in DOMAIN channel, NEW j \in DOMAIN p.msgs,
                          channel[i][1] = p.msgs[j][1]
                   PROVE  channel[i][2] < p.msgs[j][2]
        BY DEF Before
      <3>1. p.msgs[j][1] = p.run /\ p.msgs[j][2] = p.first + j /\ j \in Nat /\ 0 < j
        BY <1>7
      <3>2. channel[i] \in Held
        BY DEF Held
      <3>3. channel[i][2] <= p.first /\ channel[i][2] \in Nat
        BY <1>1, <1>8, <3>1, <3>2, HeldTypes
      <3> QED
        BY <1>6, <3>1, <3>3
    <2>3. \A j \in DOMAIN p.msgs : taken[p.msgs[j][1]] < p.msgs[j][2]
      <3> SUFFICES ASSUME NEW j \in DOMAIN p.msgs PROVE taken[p.msgs[j][1]] < p.msgs[j][2]
        OBVIOUS
      <3>1. p.msgs[j][1] = p.run /\ p.msgs[j][2] = p.first + j /\ j \in Nat /\ 0 < j
        BY <1>7
      <3>2. <<p.run, taken[p.run]>> \in Held
        BY <1>6 DEF Held
      <3>3. taken[p.run] <= p.first /\ taken[p.run] \in Nat
        BY <1>1, <1>8, <3>2, HeldTypes
      <3> QED
        BY <1>6, <3>1, <3>3
    <2> QED
      BY <1>1, <1>3, <1>4, <2>1, <2>2, <2>3 DEF OrderInv
  <1> QED
    BY <1>2, <1>4, <1>11, <1>12, ReceiverStep

-----------------------------------------------------------------------------
(* The theorems. *)

LEMMA InitIInv == Init => IInv
  <1> SUFFICES ASSUME Init PROVE IInv
    OBVIOUS
  <1>1. TypeOK
    BY InitTypeOK
  <1>2. /\ run = 1 /\ submitted = [r \in Runs |-> 0] /\ queue = << >> /\ packetSeq = 0 /\ msgSeq = 0
        /\ batch.run = 1 /\ batch.seq = 0 /\ batch.first = 0 /\ batch.msgs = << >> /\ 1 \in Runs
        /\ wire = {} /\ pending = << >> /\ channel = << >> /\ taken = [r \in Runs |-> 0]
        /\ expected = << >>
    BY Sizes DEF Init, Runs
  <1>3. SenderInv
    BY <1>2 DEF SenderInv
  <1>4. WireInv /\ PacketsInOrder
    BY <1>2 DEF WireInv, PacketsInOrder
  <1>5. OrderInv
    BY <1>2 DEF OrderInv, Rising, Before
  <1>6. HeldInv
    <2>1. \A m \in Held : m[1] \in Runs /\ m[2] = 0
      BY <1>2 DEF Held
    <2>2. \A r \in Runs : submitted[r] = 0
      BY <1>2
    <2> QED
      BY <1>2, <2>1, <2>2 DEF HeldInv
  <1> QED
    BY <1>1, <1>3, <1>4, <1>5, <1>6 DEF IInv

LEMMA NextIInv == IInv /\ [Next]_vars => IInv'
  <1> SUFFICES ASSUME IInv, [Next]_vars PROVE IInv'
    OBVIOUS
  <1>1. TypeOK'
    BY NextTypeOK DEF IInv
  <1>2. CASE Submit \/ Collect \/ Flush \/ Heartbeat \/ Restart
    BY <1>2, SubmitStep, CollectStep, FlushStep, HeartbeatStep, RestartStep
  <1>3. CASE ReceivePacket \/ Hand \/ Consume
    BY <1>3, ReceivePacketStep, HandStep, ConsumeStep
  <1>4. CASE Shutdown \/ ReceiveHeartbeat \/ Silence \/ ClearGaps \/ ClearState \/ UNCHANGED vars
    <2>1. UNCHANGED <<run, submitted, queue, batch, packetSeq, msgSeq, wire, expected, pending,
                      channel, taken>>
      BY <1>4 DEF Shutdown, ReceiveHeartbeat, Silence, ClearGaps, ClearState, vars, sender, receiver
    <2> QED
      BY <1>1, <2>1, QuietStep
  <1> QED
    BY <1>2, <1>3, <1>4 DEF Next

LEMMA Inductive == Spec => []IInv
  BY InitIInv, NextIInv, PTL DEF Spec

\* The state of sender, network and receiver is well-typed, the wrapping size of a gap and the
\* bounded queues included.
THEOREM StreamTypeCorrect == Spec => []TypeOK
  <1>1. IInv => TypeOK
    BY DEF IInv
  <1> QED
    BY <1>1, Inductive, PTL

\* The numbers in packets are true, although heartbeats take packet numbers and a batch keeps the
\* number it was begun with (send_heartbeat, PacketBuilder).
THEOREM NumbersAreTrue == Spec => []PacketsInOrder
  <1>1. IInv => PacketsInOrder
    BY DEF IInv
  <1> QED
    BY <1>1, Inductive, PTL

\* With any loss, delay and duplication of packets and any restarts of the sender, the consumer
\* gets the messages of a run in order and none twice (process_packet).
THEOREM StreamIsLossy == Spec => InOrderAtMostOnce
  <1>1. Init => Stream!Init
    BY DEF Init, Stream!Init
  <1>2. ASSUME IInv, [Next]_vars PROVE [Stream!Next]_<<submitted, taken>>
    <2>1. TypeOK /\ OrderInv /\ HeldInv
      BY <1>2 DEF IInv
    <2>2. CASE Submit
      BY <2>1, <2>2, TypeFacts DEF Submit, Stream!Next, Stream!Submit
    <2>3. CASE Consume
      <3> DEFINE m == channel[1]
      <3>1. /\ 1 \in DOMAIN channel /\ m \in Message /\ m \in Held
            /\ taken' = [taken EXCEPT ![m[1]] = m[2]] /\ UNCHANGED submitted
        <4>1. channel \in Seq(Message) /\ channel # << >>
          BY <2>1, <2>3 DEF Consume, TypeOK
        <4>2. Head(channel) = m /\ 1 \in DOMAIN channel /\ m \in Message
          BY <4>1, TailFacts
        <4> QED
          BY <2>3, <4>2 DEF Consume, Held, sender
      <3>2. taken[m[1]] < m[2] /\ m[2] <= submitted[m[1]]
        BY <2>1, <3>1 DEF OrderInv, HeldInv
      <3>3. m[1] \in Runs /\ m[2] \in Nat /\ taken[m[1]] \in Nat /\ submitted[m[1]] \in Nat
        <4>1. m[1] \in Runs /\ m[2] \in Nat
          BY <2>1, <3>1, HeldTypes
        <4>2. \A r \in Runs : taken[r] \in Nat /\ submitted[r] \in Nat
          BY <2>1, Sizes DEF TypeOK
        <4> QED
          BY <4>1, <4>2
      <3> HIDE DEF m
      <3>4. m[2] \in taken[m[1]] + 1 .. submitted[m[1]]
        BY <3>2, <3>3
      <3> QED
        BY <3>1, <3>3, <3>4 DEF Stream!Next, Stream!Take
    <2>4. CASE ~Submit /\ ~Consume
      <3>1. UNCHANGED <<submitted, taken>>
        BY <1>2, <2>4 DEF Next, Collect, Flush, Heartbeat, Shutdown, Restart, ReceiveHeartbeat,
             ReceivePacket, Hand, Silence, ClearGaps, ClearState, vars, sender
      <3> QED
        BY <3>1
    <2> QED
      BY <2>2, <2>3, <2>4
  <1> QED
    BY <1>1, <1>2, Inductive, PTL DEF Spec, InOrderAtMostOnce, Stream!Spec

-----------------------------------------------------------------------------
(* The measure of loss. *)

\* The packets with messages, and the number after the last message of one.
Sent == {w \in wire : w.msgs # << >>}

After(p) == p.first + Len(p.msgs)

\* The numbers of packets and messages move on together: packets with neighbouring numbers have
\* neighbouring messages, and without heartbeats a packet between two of them had messages.
NumberingInv ==
  /\ \A p \in Sent : p.run = run =>
       /\ p.seq + 1 = batch.seq => After(p) = msgSeq
       /\ beats = 0 /\ p.seq + 1 < batch.seq => After(p) < msgSeq
  /\ \A p, q \in Sent : p.run = q.run =>
       /\ q.seq = p.seq + 1 => q.first = After(p)
       /\ beats = 0 /\ p.seq + 1 < q.seq => After(p) < q.first
  /\ beats = 0 => batch.seq = packetSeq

\* What the receiver expects is what follows a packet that was sent.
ExpectedWasSent ==
  expected # << >> => \E e \in Sent : expected = [packet |-> e.seq + 1, msg |-> After(e)]

NothingYet == expected = << >> => Processed = {} /\ missing = 0 /\ gaps = << >>

\* From its first message on, the receiver has processed or counted all it does not expect.
CountedFrom(f) ==
  /\ <<1, f>> \in Processed
  /\ \A m \in Processed : m[1] = 1 /\ f <= m[2] /\ m[2] <= expected.msg
  /\ missing + Cardinality(Processed) = expected.msg - (f - 1)

LossInv ==
  run = 1 =>
    /\ ExpectedWasSent /\ NothingYet
    /\ expected # << >> => \E f \in Nat \ {0} : CountedFrom(f)
    /\ GapsAreLosses
    /\ \A i \in DOMAIN gaps : gaps[i].received <= expected.msg

MeasureInv == IInv /\ NumberingInv /\ LossInv

LEMMA SentFacts ==
  ASSUME IInv, NEW p \in Sent
  PROVE  /\ p \in wire /\ p.msgs # << >> /\ p.run \in Nat /\ p.run <= run
         /\ p.seq \in Nat /\ p.first \in Nat /\ p.msgs \in Seq(Message) /\ Len(p.msgs) \in Nat
         /\ After(p) \in Nat /\ After(p) <= submitted[p.run]
         /\ p.run = run => p.seq < batch.seq /\ After(p) <= msgSeq
  <1>1. p \in wire /\ p.msgs # << >> /\ TypeOK /\ WireInv
    BY DEF Sent, IInv
  <1>2. /\ p.run \in Nat /\ p.seq \in Nat /\ p.first \in Nat /\ p.msgs \in Seq(Message)
        /\ Len(p.msgs) \in Nat
    BY <1>1, TypeFacts
  <1> QED
    BY <1>1, <1>2 DEF WireInv, After

\* Nothing is sent, or a heartbeat.
LEMMA NumbersKept ==
  ASSUME NumberingInv, Sent' = Sent, UNCHANGED <<run, msgSeq>>, batch'.seq = batch.seq,
         beats' = 0 => beats = 0 /\ packetSeq' = packetSeq
  PROVE  NumberingInv'
  BY DEF NumberingInv, After

\* A batch goes out: it has messages, so the numbers of packets and messages both move on.
LEMMA BatchNumbers ==
  ASSUME IInv, NumberingInv, NEW msgs, SendBatch(msgs), batch.msgs # << >>,
         UNCHANGED <<run, beats>>
  PROVE  NumberingInv'
  <1>1. /\ batch.run = run /\ batch.first = msgSeq /\ batch.seq <= packetSeq
        /\ run \in Nat /\ packetSeq \in Nat /\ msgSeq \in Nat /\ batch.seq \in Nat
        /\ batch.msgs \in Seq(Message)
    BY TypeFacts DEF IInv, SenderInv
  <1>2. Len(batch.msgs) \in Nat /\ Len(batch.msgs) > 0
    BY <1>1
  <1>3. /\ wire' = wire \cup {batch} /\ packetSeq' = packetSeq + 1
        /\ msgSeq' = After(batch) /\ batch'.seq = packetSeq + 1
    BY <1>1 DEF SendBatch, Counted, Builder, After
  <1>4. After(batch) \in Nat /\ msgSeq < After(batch)
    BY <1>1, <1>2 DEF After
  <1>5. Sent' = Sent \cup {batch}
    BY <1>3 DEF Sent
  <1>6. \A p \in Sent : /\ p.seq \in Nat /\ p.first \in Nat /\ After(p) \in Nat
                        /\ p.run = run => p.seq < batch.seq /\ After(p) <= msgSeq
    BY SentFacts
  <1>7. ASSUME NEW p \in Sent', p.run = run
        PROVE  /\ p.seq + 1 = batch'.seq => After(p) = msgSeq'
               /\ beats = 0 /\ p.seq + 1 < batch'.seq => After(p) < msgSeq'
    <2>1. CASE p = batch
      <3>1. beats = 0 => batch.seq = packetSeq
        BY DEF NumberingInv
      <3> QED
        BY <1>1, <1>3, <2>1, <3>1
    <2>2. CASE p \in Sent
      BY <1>1, <1>3, <1>4, <1>6, <1>7, <2>2
    <2> QED
      BY <1>5, <2>1, <2>2
  <1>8. ASSUME NEW p \in Sent', NEW q \in Sent', p.run = q.run
        PROVE  /\ q.seq = p.seq + 1 => q.first = After(p)
               /\ beats = 0 /\ p.seq + 1 < q.seq => After(p) < q.first
    <2>1. CASE p \in Sent /\ q \in Sent
      BY <1>8, <2>1 DEF NumberingInv
    <2>2. CASE p \in Sent /\ q = batch
      <3>1. /\ p.seq + 1 = batch.seq => After(p) = msgSeq
            /\ beats = 0 /\ p.seq + 1 < batch.seq => After(p) < msgSeq
        BY <1>1, <1>8, <2>2 DEF NumberingInv
      <3> QED
        BY <1>1, <2>2, <3>1
    <2>3. CASE p = batch /\ q \in Sent
      <3>1. q.seq < batch.seq /\ q.seq \in Nat
        BY <1>1, <1>6, <1>8, <2>3
      <3> QED
        BY <1>1, <2>3, <3>1
    <2>4. CASE p = batch /\ q = batch
      BY <1>1, <2>4
    <2> QED
      BY <1>5, <2>1, <2>2, <2>3, <2>4
  <1>9. beats = 0 => batch'.seq = packetSeq'
    BY <1>3
  <1> QED
    BY <1>7, <1>8, <1>9 DEF NumberingInv, After

LEMMA NumberingStep == IInv /\ NumberingInv /\ [Next]_vars => NumberingInv'
  <1> SUFFICES ASSUME IInv, NumberingInv, [Next]_vars PROVE NumberingInv'
    OBVIOUS
  <1>1. CASE Collect
    <2>1. CASE Len(batch.msgs) < BatchSize
      <3>1. UNCHANGED <<run, beats, wire, msgSeq, packetSeq>> /\ batch'.seq = batch.seq
        <4>1. batch' = [batch EXCEPT !.msgs = Append(@, Head(queue))]
              /\ UNCHANGED <<run, beats, wire, msgSeq, packetSeq>>
          BY <1>1, <2>1 DEF Collect
        <4> QED
          BY <4>1, TypeFacts DEF IInv, Packet
      <3>2. Sent' = Sent
        BY <3>1 DEF Sent
      <3> QED
        BY <3>1, <3>2, NumbersKept
    <2>2. CASE ~(Len(batch.msgs) < BatchSize)
      <3>1. batch.msgs # << >>
        BY <2>2, Sizes
      <3>2. SendBatch(<<Head(queue)>>) /\ UNCHANGED <<run, beats>>
        BY <1>1, <2>2 DEF Collect
      <3> QED
        BY <3>1, <3>2, BatchNumbers
    <2> QED
      BY <2>1, <2>2
  <1>2. CASE Flush
    <2>1. batch.msgs # << >> /\ SendBatch(<< >>) /\ UNCHANGED <<run, beats>>
      BY <1>2 DEF Flush, FlushDue
    <2> QED
      BY <2>1, BatchNumbers
  <1>3. CASE Heartbeat
    <2>1. /\ wire' = wire \cup {Builder(packetSeq, msgSeq, << >>)} /\ beats' = beats + 1
          /\ UNCHANGED <<run, batch, msgSeq>>
      BY <1>3 DEF Heartbeat
    <2>2. Builder(packetSeq, msgSeq, << >>).msgs = << >>
      BY DEF Builder
    <2>3. Sent' = Sent
      BY <2>1, <2>2 DEF Sent
    <2>4. beats' # 0
      BY <2>1, Sizes DEF IInv, TypeOK
    <2> QED
      BY <2>1, <2>3, <2>4, NumbersKept
  <1>4. CASE Restart
    <2>1. run' = run + 1 /\ packetSeq' = 0 /\ batch'.seq = 0 /\ UNCHANGED <<wire, beats>>
      BY <1>4 DEF Restart
    <2>2. Sent' = Sent
      BY <2>1 DEF Sent
    <2>3. \A p \in Sent : p.run # run'
      BY <2>1, SentFacts, TypeFacts DEF IInv
    <2> QED
      BY <2>1, <2>2, <2>3 DEF NumberingInv, After
  <1>5. CASE ~Collect /\ ~Flush /\ ~Heartbeat /\ ~Restart
    <2>1. UNCHANGED <<run, batch, packetSeq, msgSeq, beats, wire>>
      BY <1>5 DEF Next, Submit, Shutdown, ReceiveHeartbeat, ReceivePacket, Hand, Silence, ClearGaps,
           ClearState, Consume, vars, sender
    <2>2. Sent' = Sent
      BY <2>1 DEF Sent
    <2> QED
      BY <2>1, <2>2, NumbersKept
  <1> QED
    BY <1>1, <1>2, <1>3, <1>4, <1>5

LEMMA ProcessedTypes ==
  ASSUME TypeOK
  PROVE  /\ IsFiniteSet(Processed) /\ Cardinality(Processed) \in Nat
         /\ \A m \in Processed : m[1] \in Runs /\ m[2] \in 1 .. MaxMessages /\ m = <<m[1], m[2]>>
  <1>1. Processed \in SUBSET Message
    BY DEF Processed, TypeOK
  <1>2. IsFiniteSet(1 .. MaxRuns) /\ IsFiniteSet(1 .. MaxMessages)
    BY Sizes, FS_Interval
  <1>3. IsFiniteSet(Message)
    BY <1>2, FS_Product DEF Message, Runs
  <1>4. IsFiniteSet(Processed)
    BY <1>1, <1>3, FS_Subset
  <1>5. \A m \in Message : m[1] \in Runs /\ m[2] \in 1 .. MaxMessages /\ m = <<m[1], m[2]>>
    BY DEF Message
  <1> QED
    BY <1>1, <1>4, <1>5, FS_CardinalityType

\* The receiver's account is left as it is, or its gaps are cleared.
LEMMA LossKept ==
  ASSUME LossInv, UNCHANGED <<run, expected, missing>>, Processed' = Processed,
         gaps' = gaps \/ gaps' = << >>, Sent \subseteq Sent', beats' = 0 => beats = 0
  PROVE  LossInv'
  <1> SUFFICES ASSUME run = 1
               PROVE  /\ ExpectedWasSent' /\ NothingYet'
                      /\ expected # << >> => \E f \in Nat \ {0} : CountedFrom(f)'
                      /\ GapsAreLosses'
                      /\ \A i \in DOMAIN gaps' : gaps'[i].received <= expected.msg
    BY DEF LossInv
  <1>1. /\ ExpectedWasSent /\ NothingYet /\ GapsAreLosses
        /\ expected # << >> => \E f \in Nat \ {0} : CountedFrom(f)
        /\ \A i \in DOMAIN gaps : gaps[i].received <= expected.msg
    BY DEF LossInv
  <1>2. ExpectedWasSent' /\ NothingYet'
    BY <1>1 DEF ExpectedWasSent, NothingYet, After
  <1>3. expected # << >> => \E f \in Nat \ {0} : CountedFrom(f)'
    BY <1>1 DEF CountedFrom
  <1>4. DOMAIN << >> = {}
    OBVIOUS
  <1>5. GapsAreLosses' /\ \A i \in DOMAIN gaps' : gaps'[i].received <= expected.msg
    <2>1. CASE gaps' = gaps
      BY <1>1, <2>1 DEF GapsAreLosses
    <2>2. CASE gaps' = << >>
      BY <1>4, <2>2 DEF GapsAreLosses
    <2> QED
      BY <2>1, <2>2
  <1> QED
    BY <1>2, <1>3, <1>5

\* The messages of a packet, counted.
LEMMA PacketCount ==
  ASSUME IInv, run = 1, NEW p \in Sent
  PROVE  LET new == {p.msgs[i] : i \in DOMAIN p.msgs}
         IN /\ p.run = 1
            /\ IsFiniteSet(new) /\ Cardinality(new) = Len(p.msgs) /\ Len(p.msgs) > 0
            /\ <<1, p.first + 1>> \in new
            /\ \A m \in new : m[1] = 1 /\ m[2] \in Nat /\ p.first < m[2] /\ m[2] <= After(p)
  <1> DEFINE n   == Len(p.msgs)
             s   == p.msgs
             new == {s[i] : i \in DOMAIN s}
  <1>1. /\ p \in wire /\ s # << >> /\ s \in Seq(Message) /\ n \in Nat /\ p.first \in Nat
        /\ p.run \in Nat /\ p.run \in Runs /\ p.run <= 1
    BY SentFacts, TypeFacts DEF IInv
  <1>2. p.run = 1
    BY <1>1 DEF Runs
  <1>3. DOMAIN s = 1 .. n /\ n > 0 /\ s \in [1 .. n -> new]
    BY <1>1
  <1>4. \A i \in 1 .. n : s[i] = <<1, p.first + i>>
    BY <1>1, <1>2, <1>3 DEF IInv, PacketsInOrder
  <1> HIDE DEF s, n
  <1>5. \A i, j \in 1 .. n : s[i] = s[j] => i = j
    <2> SUFFICES ASSUME NEW i \in 1 .. n, NEW j \in 1 .. n, s[i] = s[j] PROVE i = j
      OBVIOUS
    <2>1. <<1, p.first + i>> = <<1, p.first + j>>
      BY <1>4
    <2>2. p.first + i = p.first + j
      BY <2>1
    <2> QED
      BY <1>1, <2>2
  <1>6. s \in Bijection(1 .. n, new)
    <2>1. \A t \in new : \E i \in 1 .. n : s[i] = t
      BY <1>3
    <2> HIDE DEF new
    <2>2. IsInjective(s)
      BY <1>3, <1>5 DEF IsInjective
    <2> QED
      BY <1>3, <2>1, <2>2 DEF Bijection, Injection, Surjection
  <1>7. ExistsBijection(1 .. n, new)
    BY <1>6 DEF ExistsBijection
  <1>8. IsFiniteSet(new) /\ Cardinality(new) = n
    BY <1>1, <1>7, FS_NatBijection, FS_CountingElements
  <1>9. <<1, p.first + 1>> \in new
    <2>1. 1 \in 1 .. n
      BY <1>1, <1>3
    <2>2. s[1] \in new /\ s[1] = <<1, p.first + 1>>
      BY <1>3, <1>4, <2>1
    <2> QED
      BY <2>2
  <1>10. \A m \in new : m[1] = 1 /\ m[2] \in Nat /\ p.first < m[2] /\ m[2] <= p.first + n
    <2> SUFFICES ASSUME NEW i \in 1 .. n
                 PROVE  s[i][1] = 1 /\ s[i][2] \in Nat /\ p.first < s[i][2] /\ s[i][2] <= p.first + n
      BY <1>3
    <2>1. s[i] = <<1, p.first + i>>
      BY <1>4
    <2>2. s[i][1] = 1 /\ s[i][2] = p.first + i
      BY <2>1
    <2> QED
      BY <1>1, <2>2
  <1> QED
    BY <1>2, <1>3, <1>8, <1>9, <1>10 DEF s, n, After

\* Arithmetic: what is missing up to a grows by b - a and stays below k; and processing n more adds up.
LEMMA FitsBelow ==
  ASSUME NEW a \in Nat, NEW b \in Nat, NEW m \in Nat, NEW k \in Nat, a <= b, m <= a, b < k
  PROVE  b - a \in 0 .. k - 1 /\ m + (b - a) \in 0 .. k - 1
  OBVIOUS

LEMMA AddsUp ==
  ASSUME NEW m \in Nat, NEW c \in Nat, NEW a \in Nat, NEW f \in Nat, NEW b \in Nat, NEW n \in Nat,
         m + c = a - (f - 1)
  PROVE  (m + (b - a)) + (c + n) = (b + n) - (f - 1)
  OBVIOUS

\* A difference that is in range does not wrap.
LEMMA NoWrap == ASSUME NEW a \in 0 .. Modulus - 1 PROVE a % Modulus = a
  BY Sizes

LEMMA RecordedFacts ==
  ASSUME TypeOK, NEW gap \in [expected : Nat, received : Nat, size : 0 .. Modulus - 1]
  PROVE  \A i \in DOMAIN Recorded(gap) :
           Recorded(gap)[i] = gap \/ \E j \in DOMAIN gaps : Recorded(gap)[i] = gaps[j]
  <1> DEFINE G   == [expected : Nat, received : Nat, size : 0 .. Modulus - 1]
             all == Append(gaps, gap)
  <1>1. gaps \in Seq(G)
    BY DEF TypeOK
  <1> HIDE DEF G
  <1>2. gap \in G
    BY DEF G
  <1>3. /\ all \in Seq(G) /\ Len(all) = Len(gaps) + 1
        /\ \A i \in DOMAIN all : all[i] = gap \/ \E j \in DOMAIN gaps : all[i] = gaps[j]
    BY <1>1, <1>2, AppendFacts
  <1>4. all # << >>
    BY <1>1, <1>3
  <1> HIDE DEF all
  <1>5. \A i \in DOMAIN Tail(all) : i + 1 \in DOMAIN all /\ Tail(all)[i] = all[i + 1]
    BY <1>3, <1>4, TailFacts
  <1>6. Recorded(gap) = all \/ Recorded(gap) = Tail(all)
    BY DEF Recorded, all
  <1> QED
    BY <1>3, <1>5, <1>6

\* A message that a gap covers is lost, and was not processed.
Lost(gap, quiet, processed) ==
  /\ gap.size = gap.received - gap.expected
  /\ quiet => gap.size > 0
  /\ \A n \in gap.expected + 1 .. gap.received : <<1, n>> \notin processed

LEMMA LostGaps == GapsAreLosses <=> \A i \in DOMAIN gaps : Lost(gaps[i], beats = 0, Processed)
  BY DEF GapsAreLosses, Lost

\* The first packet: nothing is missing, and counting begins with its first message.
LEMMA FirstPacketLoss ==
  ASSUME IInv, LossInv, run = 1, expected = << >>, NEW p \in Sent, UNCHANGED <<run, gaps, missing>>,
         Processed' = Processed \cup {p.msgs[i] : i \in DOMAIN p.msgs}, expected'.msg = After(p)
  PROVE  /\ \E f \in Nat \ {0} : CountedFrom(f)'
         /\ GapsAreLosses' /\ \A i \in DOMAIN gaps' : gaps'[i].received <= expected'.msg
  <1> DEFINE new == {p.msgs[i] : i \in DOMAIN p.msgs}
             f   == p.first + 1
  <1>1. Processed = {} /\ missing = 0 /\ gaps = << >>
    BY DEF LossInv, NothingYet
  <1>2. Processed' = new
    BY <1>1
  <1>3. /\ Cardinality(new) = Len(p.msgs) /\ <<1, p.first + 1>> \in new
        /\ \A m \in new : m[1] = 1 /\ m[2] \in Nat /\ p.first < m[2] /\ m[2] <= After(p)
    BY PacketCount
  <1>4. p.first \in Nat /\ Len(p.msgs) \in Nat /\ After(p) = p.first + Len(p.msgs)
    BY SentFacts DEF After
  <1> HIDE DEF new
  <1>6. CountedFrom(f)'
    <2>1. missing' + Cardinality(Processed') = expected'.msg - (f - 1)
      <3>1. missing' = 0 /\ Cardinality(Processed') = Len(p.msgs)
        BY <1>1, <1>2, <1>3
      <3>2. expected'.msg = p.first + Len(p.msgs)
        BY <1>4
      <3> QED
        BY <1>4, <3>1, <3>2
    <2>2. \A m \in Processed' : m[1] = 1 /\ f <= m[2] /\ m[2] <= expected'.msg
      BY <1>2, <1>3, <1>4
    <2> QED
      BY <1>2, <1>3, <2>1, <2>2 DEF CountedFrom
  <1>7. f \in Nat \ {0}
    BY <1>4
  <1>8. DOMAIN gaps' = {}
    BY <1>1
  <1> QED
    BY <1>6, <1>7, <1>8 DEF GapsAreLosses

Accounted(p) ==
  IF p.seq > expected.packet
    THEN /\ gaps' = Recorded([expected |-> expected.msg, received |-> p.first, size |-> GapSize(p)])
         /\ missing' = (missing + GapSize(p)) % Modulus
    ELSE UNCHANGED <<gaps, missing>>

\* A later packet: what lies between it and what was expected is counted, and is recorded as a
\* gap when packets are missing.
LEMMA LaterPacketLoss ==
  ASSUME IInv, NumberingInv, LossInv, run = 1, expected # << >>, NEW p \in Sent, ~Duplicate(p),
         UNCHANGED <<run, beats>>,
         Accounted(p),
         Processed' = Processed \cup {p.msgs[i] : i \in DOMAIN p.msgs}, expected'.msg = After(p)
  PROVE  /\ \E f \in Nat \ {0} : CountedFrom(f)'
         /\ GapsAreLosses' /\ \A i \in DOMAIN gaps' : gaps'[i].received <= expected'.msg
  <1> DEFINE new == {p.msgs[i] : i \in DOMAIN p.msgs}
             d   == p.first - expected.msg
             gap == [expected |-> expected.msg, received |-> p.first, size |-> d]
  <1>1. /\ ExpectedWasSent /\ GapsAreLosses /\ \E f \in Nat \ {0} : CountedFrom(f)
        /\ \A i \in DOMAIN gaps : gaps[i].received <= expected.msg
    BY DEF LossInv
  <1>2. PICK e \in Sent : expected = [packet |-> e.seq + 1, msg |-> After(e)]
    BY <1>1 DEF ExpectedWasSent
  <1>3. PICK f \in Nat \ {0} : CountedFrom(f)
    BY <1>1
  <1>4. /\ IsFiniteSet(new) /\ Cardinality(new) = Len(p.msgs) /\ p.run = 1 /\ e.run = 1
        /\ \A m \in new : m[1] = 1 /\ m[2] \in Nat /\ p.first < m[2] /\ m[2] <= After(p)
    BY PacketCount
  <1>5. /\ p.first \in Nat /\ Len(p.msgs) \in Nat /\ After(p) = p.first + Len(p.msgs)
        /\ p.seq \in Nat /\ e.seq \in Nat /\ After(e) \in Nat
    BY SentFacts DEF After
  <1>6. expected.packet = e.seq + 1 /\ expected.msg = After(e)
    BY <1>2
  <1>7. p.seq >= e.seq + 1
    BY <1>5, <1>6 DEF Duplicate, ExpectedFor
  <1>8. /\ After(e) <= p.first
        /\ p.seq = e.seq + 1 => p.first = After(e)
        /\ beats = 0 /\ e.seq + 1 < p.seq => After(e) < p.first
    <2>1. After(e) <= p.first
      BY <1>4, <1>5, <1>7, SentFacts DEF IInv, PacketsInOrder, After
    <2> QED
      BY <1>4, <2>1 DEF NumberingInv
  <1>9. /\ IsFiniteSet(Processed) /\ Cardinality(Processed) \in Nat
        /\ \A m \in Processed : m[2] \in Nat
    BY ProcessedTypes DEF IInv
  <1>10. /\ <<1, f>> \in Processed /\ f \in Nat /\ f > 0
         /\ \A m \in Processed : m[1] = 1 /\ f <= m[2] /\ m[2] <= After(e)
         /\ missing + Cardinality(Processed) = After(e) - (f - 1)
    BY <1>3, <1>6 DEF CountedFrom
  <1>11. missing \in Nat /\ p.first < Modulus
    <2>1. After(p) <= submitted[1]
      BY <1>4, SentFacts
    <2>3. submitted \in [Runs -> 0 .. MaxMessages] /\ 1 \in Runs
      BY DEF IInv, TypeOK
    <2>4. submitted[1] \in 0 .. MaxMessages
      BY <2>3
    <2>2. missing \in Nat
      BY Sizes DEF IInv, TypeOK
    <2> QED
      BY <1>5, <2>1, <2>2, <2>4, Sizes
  <1> HIDE DEF new
  <1>12. d \in 0 .. Modulus - 1 /\ missing + d \in 0 .. Modulus - 1
    <2>1. d = p.first - After(e) /\ After(e) <= p.first
      BY <1>6, <1>8
    <2>2. missing <= After(e)
      <3>1. missing + Cardinality(Processed) = After(e) - (f - 1)
        BY <1>10
      <3> QED
        BY <1>5, <1>9, <1>11, <3>1
    <2>3. p.first \in Nat /\ After(e) \in Nat /\ missing \in Nat /\ Modulus \in Nat /\ p.first < Modulus
      BY <1>5, <1>11, Sizes
    <2>4. /\ p.first - After(e) \in 0 .. Modulus - 1
          /\ missing + (p.first - After(e)) \in 0 .. Modulus - 1
      BY <2>1, <2>2, <2>3, FitsBelow
    <2> HIDE DEF d
    <2> QED
      BY <2>1, <2>4
  <1>13. GapSize(p) = d
    BY <1>12, NoWrap DEF GapSize, ExpectedFor
  <1>14. /\ missing' = missing + d
         /\ gaps' = gaps \/ (gaps' = Recorded(gap) /\ (beats = 0 => d > 0))
    <2>1. CASE p.seq > expected.packet
      <3>1. missing' = missing + d /\ gaps' = Recorded(gap)
        BY <1>12, <1>13, <2>1, NoWrap DEF Accounted
      <3>2. beats = 0 => d > 0
        BY <1>5, <1>6, <1>8, <2>1
      <3> QED
        BY <3>1, <3>2
    <2>2. CASE ~(p.seq > expected.packet)
      <3>1. p.seq = e.seq + 1
        BY <1>5, <1>6, <1>7, <2>2
      <3> QED
        BY <1>5, <1>6, <1>8, <1>11, <2>2, <3>1 DEF Accounted
    <2> QED
      BY <2>1, <2>2
  <1>15. CountedFrom(f)'
    <2>1. Processed \cap new = {}
      <3> SUFFICES ASSUME NEW m \in Processed, m \in new PROVE FALSE
        OBVIOUS
      <3>1. m[2] <= After(e) /\ p.first < m[2] /\ m[2] \in Nat
        BY <1>4, <1>10
      <3> QED
        BY <1>5, <1>8, <3>1
    <2>2. Cardinality(Processed') = Cardinality(Processed) + Len(p.msgs)
      <3>1. Cardinality(Processed \cup new) = Cardinality(Processed) + Cardinality(new) - Cardinality({})
        BY <1>4, <1>9, <2>1, FS_Union
      <3> QED
        BY <1>4, <1>5, <1>9, <3>1, FS_EmptySet DEF new
    <2>3. missing' + Cardinality(Processed') = expected'.msg - (f - 1)
      <3>1. /\ missing + Cardinality(Processed) = After(e) - (f - 1)
            /\ missing' = missing + (p.first - After(e))
            /\ expected'.msg = p.first + Len(p.msgs)
        BY <1>5, <1>6, <1>10, <1>14
      <3>2. /\ missing \in Nat /\ Cardinality(Processed) \in Nat /\ f \in Nat
            /\ p.first \in Nat /\ Len(p.msgs) \in Nat /\ After(e) \in Nat
        BY <1>5, <1>9, <1>10, <1>11
      <3> HIDE DEF d
      <3>3. (missing + (p.first - After(e))) + (Cardinality(Processed) + Len(p.msgs))
              = (p.first + Len(p.msgs)) - (f - 1)
        <4> DEFINE c == Cardinality(Processed)
                   a == After(e)
                   b == p.first
                   n == Len(p.msgs)
        <4>1. missing \in Nat /\ c \in Nat /\ a \in Nat /\ f \in Nat /\ b \in Nat /\ n \in Nat
              /\ missing + c = a - (f - 1)
          BY <3>1, <3>2
        <4> HIDE DEF c, a, b, n
        <4>2. (missing + (b - a)) + (c + n) = (b + n) - (f - 1)
          BY <4>1, AddsUp
        <4> QED
          BY <4>2 DEF c, a, b, n
      <3>4. missing' = missing + (p.first - After(e))
        BY <3>1
      <3>5. missing' + Cardinality(Processed') = (p.first + Len(p.msgs)) - (f - 1)
        BY <2>2, <3>3, <3>4
      <3> QED
        BY <3>1, <3>5
    <2>4. \A m \in Processed' : m[1] = 1 /\ f <= m[2] /\ m[2] <= expected'.msg
      <3>1. ASSUME NEW m \in Processed PROVE m[1] = 1 /\ f <= m[2] /\ m[2] <= After(p)
        <4>1. m[1] = 1 /\ f <= m[2] /\ m[2] <= After(e) /\ m[2] \in Nat
          BY <1>9, <1>10
        <4> QED
          BY <1>5, <1>8, <4>1
      <3>2. f <= p.first
        BY <1>5, <1>8, <1>9, <1>10
      <3>3. \A m \in new : m[1] = 1 /\ f <= m[2] /\ m[2] <= After(p)
        BY <1>4, <1>5, <1>10, <3>2
      <3> QED
        BY <3>1, <3>3 DEF new
    <2> QED
      BY <1>10, <2>3, <2>4 DEF CountedFrom
  <1>16. \A i \in DOMAIN gaps' : Lost(gaps'[i], beats = 0, Processed') /\ gaps'[i].received <= expected'.msg
    <2>1. ASSUME NEW j \in DOMAIN gaps PROVE Lost(gaps[j], beats = 0, Processed') /\ gaps[j].received <= expected'.msg
      <3>1. gaps[j].expected \in Nat /\ gaps[j].received \in Nat
        <4> DEFINE G == [expected : Nat, received : Nat, size : 0 .. Modulus - 1]
        <4>1. gaps \in Seq(G)
          BY DEF IInv, TypeOK
        <4>2. \A g \in G : g.expected \in Nat /\ g.received \in Nat
          OBVIOUS
        <4> HIDE DEF G
        <4>3. gaps[j] \in G
          BY <4>1
        <4> QED
          BY <4>2, <4>3
      <3>2. Lost(gaps[j], beats = 0, Processed) /\ gaps[j].received <= After(e)
        BY <1>1, <1>6, LostGaps
      <3>3. \A n \in gaps[j].expected + 1 .. gaps[j].received : <<1, n>> \notin new
        BY <1>4, <1>5, <1>8, <3>1, <3>2
      <3>4. gaps[j].received <= expected'.msg
        BY <1>5, <1>8, <3>1, <3>2
      <3> QED
        BY <3>2, <3>3, <3>4 DEF Lost, new
    <2>2. ASSUME beats = 0 => d > 0 PROVE Lost(gap, beats = 0, Processed') /\ gap.received <= expected'.msg
      <3>1. ASSUME NEW n \in After(e) + 1 .. p.first
            PROVE  <<1, n>> \notin Processed /\ <<1, n>> \notin new
        <4>1. n \in Nat /\ After(e) < n /\ n <= p.first
          BY <1>5
        <4>2. <<1, n>> \in Processed => n <= After(e)
          BY <1>10
        <4>3. <<1, n>> \in new => p.first < n
          BY <1>4
        <4> QED
          BY <1>5, <4>1, <4>2, <4>3
      <3>2. \A n \in After(e) + 1 .. p.first : <<1, n>> \notin Processed'
        BY <3>1 DEF new
      <3>3. /\ gap.expected = After(e) /\ gap.received = p.first /\ gap.size = p.first - After(e)
            /\ beats = 0 => gap.size > 0
        BY <1>6, <2>2
      <3>4. p.first <= After(p)
        BY <1>5
      <3> HIDE DEF gap
      <3> QED
        BY <3>2, <3>3, <3>4 DEF Lost
    <2>3. gap \in [expected : Nat, received : Nat, size : 0 .. Modulus - 1]
      BY <1>5, <1>6, <1>12
    <2> HIDE DEF gap, d
    <2>4. CASE gaps' = gaps
      BY <2>1, <2>4
    <2>5. CASE gaps' = Recorded(gap) /\ (beats = 0 => d > 0)
      <3>1. \A i \in DOMAIN gaps' : gaps'[i] = gap \/ \E j \in DOMAIN gaps : gaps'[i] = gaps[j]
        BY <2>3, <2>5, RecordedFacts DEF IInv
      <3> QED
        BY <2>1, <2>2, <2>5, <3>1
    <2> QED
      BY <1>14, <2>4, <2>5
  <1>17. GapsAreLosses'
    BY <1>16 DEF GapsAreLosses, Lost
  <1> QED
    BY <1>3, <1>15, <1>16, <1>17

LEMMA ReceivePacketLoss ==
  ASSUME IInv, NumberingInv, LossInv, ReceivePacket
  PROVE  LossInv'
  <1>1. PICK p \in wire :
          /\ p.msgs # << >> /\ ~Duplicate(p)
          /\ IF p.seq > ExpectedFor(p).packet
               THEN /\ gaps' = Recorded([expected |-> ExpectedFor(p).msg, received |-> p.first,
                                         size |-> GapSize(p)])
                    /\ missing' = (missing + GapSize(p)) % Modulus
               ELSE UNCHANGED <<gaps, missing>>
          /\ expected' = [packet |-> p.seq + 1, msg |-> p.first + Len(p.msgs)]
          /\ pending' = p.msgs
    BY DEF ReceivePacket
  <1>2. pending = << >> /\ UNCHANGED <<run, beats, wire, accepted>>
    BY DEF ReceivePacket, sender
  <1>3. p \in Sent /\ Sent' = Sent
    BY <1>1, <1>2 DEF Sent
  <1>4. Processed' = Processed \cup {p.msgs[i] : i \in DOMAIN p.msgs}
    BY <1>1, <1>2 DEF Processed
  <1>5. expected' = [packet |-> p.seq + 1, msg |-> After(p)] /\ expected'.msg = After(p)
        /\ expected' # << >>
    <2>1. DOMAIN expected' = {"packet", "msg"} /\ DOMAIN << >> = {}
      BY <1>1
    <2>2. expected' # << >>
      BY <2>1
    <2> QED
      BY <1>1, <2>2 DEF After
  <1>6. ExpectedWasSent' /\ NothingYet'
    BY <1>3, <1>5 DEF ExpectedWasSent, NothingYet, After
  <1>7. CASE run = 1 /\ expected = << >>
    <2>1. ExpectedFor(p).packet = p.seq /\ p.seq \in Nat
      BY <1>3, <1>7, SentFacts DEF ExpectedFor
    <2>2. UNCHANGED <<gaps, missing>>
      BY <1>1, <2>1
    <2> QED
      BY <1>2, <1>3, <1>4, <1>5, <1>6, <1>7, <2>2, FirstPacketLoss DEF LossInv
  <1>8. CASE run = 1 /\ expected # << >>
    <2>1. ExpectedFor(p) = expected
      BY <1>8 DEF ExpectedFor
    <2>2. Accounted(p)
      BY <1>1, <2>1 DEF Accounted
    <2>3. /\ \E f \in Nat \ {0} : CountedFrom(f)'
          /\ GapsAreLosses' /\ \A i \in DOMAIN gaps' : gaps'[i].received <= expected'.msg
      BY <1>1, <1>2, <1>3, <1>4, <1>5, <1>8, <2>2, LaterPacketLoss
    <2> QED
      BY <1>6, <2>3 DEF LossInv
  <1> QED
    BY <1>2, <1>7, <1>8 DEF LossInv

LEMMA LossStep == IInv /\ NumberingInv /\ LossInv /\ [Next]_vars => LossInv'
  <1> SUFFICES ASSUME IInv, NumberingInv, LossInv, [Next]_vars PROVE LossInv'
    OBVIOUS
  <1>1. CASE ReceivePacket
    BY <1>1, ReceivePacketLoss
  <1>2. CASE Restart
    <2>1. run' # 1
      BY <1>2, Sizes DEF Restart, IInv, TypeOK, Runs
    <2> QED
      BY <2>1 DEF LossInv
  <1>3. CASE Hand
    <2>1. /\ pending # << >> /\ pending' = Tail(pending) /\ accepted' = accepted \cup {Head(pending)}
          /\ UNCHANGED <<run, beats, wire, expected, gaps, missing>>
      BY <1>3 DEF Hand, sender
    <2>2. pending \in Seq(Message)
      BY DEF IInv, TypeOK
    <2>3. /\ Head(pending) = pending[1] /\ 1 \in DOMAIN pending
          /\ \A i \in DOMAIN pending' : i + 1 \in DOMAIN pending /\ pending'[i] = pending[i + 1]
      BY <2>1, <2>2, TailFacts
    <2>4. \A i \in DOMAIN pending : i = 1 \/ (i - 1 \in DOMAIN pending' /\ pending'[i - 1] = pending[i])
      <3>1. DOMAIN pending = 1 .. Len(pending) /\ DOMAIN pending' = 1 .. Len(pending) - 1
            /\ Len(pending) \in Nat
        BY <2>1, <2>2
      <3>2. \A i \in DOMAIN pending : i = 1 \/ i - 1 \in DOMAIN pending'
        BY <3>1
      <3> QED
        BY <2>3, <3>1, <3>2
    <2>5. Processed' = Processed
      BY <2>1, <2>3, <2>4 DEF Processed
    <2>6. Sent' = Sent
      BY <2>1 DEF Sent
    <2> QED
      BY <2>1, <2>5, <2>6, LossKept
  <1>4. CASE ~ReceivePacket /\ ~Restart /\ ~Hand
    <2>1. UNCHANGED <<run, expected, missing, accepted, pending>> /\ (gaps' = gaps \/ gaps' = << >>)
      BY <1>4 DEF Next, Submit, Collect, Flush, Heartbeat, Shutdown, ReceiveHeartbeat, Silence,
           ClearGaps, ClearState, Consume, vars, sender, receiver
    <2>2. Processed' = Processed
      BY <2>1 DEF Processed
    <2>3. wire \subseteq wire'
      BY <1>4 DEF Next, Submit, Collect, Flush, Heartbeat, Shutdown, ReceiveHeartbeat, Silence,
           ClearGaps, ClearState, Consume, SendBatch, vars
    <2>4. Sent \subseteq Sent'
      BY <2>3 DEF Sent
    <2>5. beats' = beats \/ beats' = beats + 1
      BY <1>4 DEF Next, Submit, Collect, Flush, Heartbeat, Shutdown, ReceiveHeartbeat, Silence,
           ClearGaps, ClearState, Consume, vars, sender
    <2>6. beats' = 0 => beats = 0
      BY <2>5, Sizes DEF IInv, TypeOK
    <2> QED
      BY <2>1, <2>2, <2>4, <2>6, LossKept
  <1> QED
    BY <1>1, <1>2, <1>3, <1>4

LEMMA InitMeasure == Init => NumberingInv /\ LossInv
  <1> SUFFICES ASSUME Init PROVE NumberingInv /\ LossInv
    OBVIOUS
  <1>1. /\ wire = {} /\ expected = << >> /\ gaps = << >> /\ missing = 0 /\ pending = << >>
        /\ accepted = {} /\ batch.seq = 0 /\ packetSeq = 0
    BY DEF Init
  <1>2. Sent = {} /\ Processed = {} /\ DOMAIN gaps = {}
    BY <1>1 DEF Sent, Processed
  <1> QED
    BY <1>1, <1>2 DEF NumberingInv, LossInv, ExpectedWasSent, NothingYet, GapsAreLosses

\* The first message is the least that was processed.
LEMMA MeasureSuffices == MeasureInv => LossIsMeasured
  <1> SUFFICES ASSUME MeasureInv, run = 1
               PROVE  /\ GapsAreLosses
                      /\ expected # << >> =>
                           missing + Cardinality(Processed)
                             = expected.msg - (Min({m[2] : m \in Processed}) - 1)
    BY DEF LossIsMeasured
  <1>1. GapsAreLosses /\ (expected # << >> => \E f \in Nat \ {0} : CountedFrom(f))
    BY DEF MeasureInv, LossInv
  <1>2. ASSUME expected # << >>
        PROVE  missing + Cardinality(Processed)
                 = expected.msg - (Min({m[2] : m \in Processed}) - 1)
    <2> DEFINE S == {m[2] : m \in Processed}
    <2>1. PICK f \in Nat \ {0} : CountedFrom(f)
      BY <1>1, <1>2
    <2>2. f \in S /\ \A x \in S : f <= x /\ x \in Nat
      BY <2>1, ProcessedTypes DEF CountedFrom, MeasureInv, IInv
    <2>3. missing + Cardinality(Processed) = expected.msg - (f - 1)
      BY <2>1 DEF CountedFrom
    <2> HIDE DEF S
    <2>4. Min(S) \in S /\ \A x \in S : Min(S) <= x
      BY <2>2 DEF Min
    <2>5. Min(S) = f
      <3>1. Min(S) \in Nat /\ f \in Nat /\ f <= Min(S) /\ Min(S) <= f
        BY <2>2, <2>4
      <3> QED
        BY <3>1
    <2> QED
      BY <2>3, <2>5 DEF S
  <1> QED
    BY <1>1, <1>2

\* Until the sender restarts, total_gap_messages and the messages processed make up all since the
\* first, and a gap that is kept is a loss for good, however late its packets arrive (process_packet,
\* Gap::size).
THEOREM LossAlwaysMeasured == Spec => []LossIsMeasured
  <1>1. Init => MeasureInv
    BY InitIInv, InitMeasure DEF MeasureInv
  <1>2. MeasureInv /\ [Next]_vars => MeasureInv'
    BY NextIInv, NumberingStep, LossStep DEF MeasureInv
  <1> QED
    BY <1>1, <1>2, MeasureSuffices, PTL DEF Spec

=============================================================================
