------------------------------ MODULE UdpStream ------------------------------
(***************************************************************************)
(* The message stream of udp_proto: a sender thread that batches what it   *)
(* is given into numbered packets and fills silence with heartbeats        *)
(* (sender.rs), a network that loses, delays and duplicates packets, and a *)
(* receiver thread that drops what it has seen, records gaps and hands the *)
(* rest to a bounded channel (receiver.rs).  The sender may stop or crash, *)
(* and then counts from zero again; the receiver stays.                    *)
(*                                                                         *)
(* A message is known by the run of the sender it was submitted in and its *)
(* place in it.  Counters are u64 in the code; only the difference the     *)
(* receiver takes wraps here (a debug build would panic instead).          *)
(***************************************************************************)
EXTENDS Integers, Sequences, FiniteSets, FiniteSetsExt

CONSTANTS
  BatchSize,      \* messages that fit into MAX_MTU
  QueueSize,      \* channel_capacity of the sender
  ChannelSize,    \* channel_capacity of the receiver
  MaxGaps,        \* gaps the receiver remembers, 100 in the code
  Modulus,        \* 2^64 in the code
  MaxMessages,    \* bound: messages submitted in one run
  MaxBeats,       \* bound: heartbeats sent
  MaxRuns         \* bound: runs of the sender

ASSUME SizesAssumption ==
  /\ {BatchSize, QueueSize, ChannelSize, MaxGaps, MaxRuns} \subseteq Nat \ {0}
  /\ {MaxMessages, MaxBeats} \subseteq Nat
  /\ Modulus \in Nat /\ Modulus > MaxMessages

Runs == 1 .. MaxRuns

Message == Runs \X (1 .. MaxMessages)

\* A packet without messages is a heartbeat.  Its run is not on the wire.
Packet == [run : Runs, seq : Nat, first : Nat, msgs : Seq(Message)]

VARIABLES
  run,            \* the run of the sender, from 1
  stopping,       \* the sender's thread has left its loop for the last messages
  submitted,      \* run -> messages submitted
  queue,          \* the sender's channel
  batch,          \* PacketBuilder: the packet being filled, numbered when it was begun
  packetSeq, msgSeq,            \* of the sender
  beats,          \* heartbeats sent
  wire,           \* packets that may still arrive, or arrive again
  expected,       \* [packet, msg] the receiver expects, or << >> before the first packet
  state, gaps, missing,         \* of the receiver; missing is total_gap_messages
  pending,        \* messages of the packet being processed
  clearing,       \* clear_gaps has emptied the gaps, but not yet set the state
  channel,        \* the receiver's channel
  taken,          \* run -> the place of the last message the consumer took
  accepted        \* ghost: messages the receiver has processed

sender == <<run, stopping, submitted, queue, batch, packetSeq, msgSeq, beats>>

receiver == <<expected, state, gaps, missing, pending, accepted>>

vars == <<sender, wire, receiver, clearing, channel, taken>>

Builder(seq, first, msgs) == [run |-> run, seq |-> seq, first |-> first, msgs |-> msgs]

Init ==
  /\ run = 1
  /\ stopping = FALSE
  /\ submitted = [r \in Runs |-> 0]
  /\ queue = << >>
  /\ packetSeq = 0 /\ msgSeq = 0
  /\ batch = [run |-> 1, seq |-> 0, first |-> 0, msgs |-> << >>]
  /\ beats = 0
  /\ wire = {}
  /\ expected = << >>
  /\ state = "initializing"
  /\ gaps = << >> /\ missing = 0
  /\ pending = << >>
  /\ clearing = FALSE
  /\ channel = << >>
  /\ taken = [r \in Runs |-> 0]
  /\ accepted = {}

-----------------------------------------------------------------------------
\* try_send, while there is room.
Submit ==
  /\ ~stopping
  /\ Len(queue) < QueueSize
  /\ submitted[run] < MaxMessages
  /\ submitted' = [submitted EXCEPT ![run] = @ + 1]
  /\ queue' = Append(queue, <<run, submitted[run] + 1>>)
  /\ UNCHANGED <<run, stopping, batch, packetSeq, msgSeq, beats, wire, receiver, clearing,
                 channel, taken>>

\* Seeded mistake: the message counter stays behind when a partial batch is sent.
CountedFullOnly(n) == IF n = BatchSize THEN n ELSE 0

Counted(n) == n

\* The packet goes out, both counters move on, and a new one is begun with msgs.
SendBatch(msgs) ==
  /\ wire' = wire \cup {batch}
  /\ packetSeq' = packetSeq + 1
  /\ msgSeq' = msgSeq + Counted(Len(batch.msgs))
  /\ batch' = Builder(packetSeq', msgSeq', msgs)

\* The thread has a message: into the batch, or into the next one when it is full.
Collect ==
  /\ queue # << >>
  /\ queue' = Tail(queue)
  /\ IF Len(batch.msgs) < BatchSize
       THEN /\ batch' = [batch EXCEPT !.msgs = Append(@, Head(queue))]
            /\ UNCHANGED <<packetSeq, msgSeq, wire>>
       ELSE SendBatch(<<Head(queue)>>)
  /\ UNCHANGED <<run, stopping, submitted, beats, receiver, clearing, channel, taken>>

\* Seeded mistake: a batch is sent when it is full only.
FlushDueWhenFull == queue = << >> /\ Len(batch.msgs) = BatchSize

\* max_batch_delay has passed without a message, or the queue has been drained.
FlushDue == queue = << >> /\ batch.msgs # << >>

Flush ==
  /\ FlushDue
  /\ SendBatch(<< >>)
  /\ UNCHANGED <<run, stopping, submitted, queue, beats, receiver, clearing, channel, taken>>

\* A heartbeat takes a number of its own, and the batch begun before keeps the same one.
Heartbeat ==
  /\ ~stopping
  /\ queue = << >> /\ batch.msgs = << >>
  /\ beats < MaxBeats
  /\ beats' = beats + 1
  /\ wire' = wire \cup {Builder(packetSeq, msgSeq, << >>)}
  /\ packetSeq' = packetSeq + 1
  /\ UNCHANGED <<run, stopping, submitted, queue, batch, msgSeq, receiver, clearing, channel,
                 taken>>

\* The thread finds that it is to stop: what it did since shutdown was called are steps before
\* this one, and Collect and Flush go on until the queue is drained.
Shutdown ==
  /\ ~stopping
  /\ stopping' = TRUE
  /\ UNCHANGED <<run, submitted, queue, batch, packetSeq, msgSeq, beats, wire, receiver,
                 clearing, channel, taken>>

\* A new sender, after a shutdown, or after a crash that took queue and batch with it.
Restart ==
  /\ run < MaxRuns
  /\ run' = run + 1
  /\ stopping' = FALSE
  /\ queue' = << >>
  /\ packetSeq' = 0 /\ msgSeq' = 0
  /\ batch' = [run |-> run', seq |-> 0, first |-> 0, msgs |-> << >>]
  /\ UNCHANGED <<submitted, beats, wire, receiver, clearing, channel, taken>>

-----------------------------------------------------------------------------
Activated == IF state \in {"initializing", "down"} THEN "active" ELSE state

\* The first packet sets what is expected.
ExpectedFor(p) ==
  IF expected = << >> THEN [packet |-> p.seq, msg |-> p.first] ELSE expected

\* Seeded mistake: the packet just received is not known as a duplicate.
DuplicateOfEarlier(p) == p.seq + 1 < ExpectedFor(p).packet

\* Seeded mistake: only the packet just received is known as a duplicate.
DuplicateOfLast(p) == p.seq + 1 = ExpectedFor(p).packet

Duplicate(p) == p.seq < ExpectedFor(p).packet

\* Seeded mistake: every packet that is missing counts as one message.
GapSizeInPackets(p) == p.seq - ExpectedFor(p).packet

\* Seeded mistake: the difference is a signed number.
GapSizeSigned(p) == p.first - ExpectedFor(p).msg

GapSize(p) == (p.first - ExpectedFor(p).msg) % Modulus

\* Room is made for the latest gap.
Recorded(gap) ==
  LET all == Append(gaps, gap)
  IN IF Len(all) > MaxGaps THEN Tail(all) ELSE all

ReceiveHeartbeat ==
  /\ pending = << >>
  /\ \E p \in wire : p.msgs = << >>
  /\ state' = Activated
  /\ UNCHANGED <<sender, wire, expected, gaps, missing, pending, accepted, clearing, channel,
                 taken>>

\* process_packet, up to its loop over the messages.
ReceivePacket ==
  /\ pending = << >>
  /\ \E p \in wire :
       LET due == ExpectedFor(p)
       IN /\ p.msgs # << >>
          /\ ~Duplicate(p)
          /\ IF p.seq > due.packet
               THEN /\ gaps' = Recorded([expected |-> due.msg, received |-> p.first,
                                         size |-> GapSize(p)])
                    /\ missing' = (missing + GapSize(p)) % Modulus
                    /\ state' = "degraded"
               ELSE /\ state' = IF expected = << >> THEN Activated ELSE state
                    /\ UNCHANGED <<gaps, missing>>
          /\ expected' = [packet |-> p.seq + 1, msg |-> p.first + Len(p.msgs)]
          /\ pending' = p.msgs
  /\ UNCHANGED <<sender, wire, accepted, clearing, channel, taken>>

\* One message of the loop: dropped without a trace when the channel is full.
Hand ==
  /\ pending # << >>
  /\ pending' = Tail(pending)
  /\ accepted' = accepted \cup {Head(pending)}
  /\ channel' = IF Len(channel) < ChannelSize THEN Append(channel, Head(pending)) ELSE channel
  /\ UNCHANGED <<sender, wire, expected, state, gaps, missing, clearing, taken>>

\* Nothing has arrived for stream_timeout.
Silence ==
  /\ expected # << >> /\ pending = << >>
  /\ state' = "down"
  /\ UNCHANGED <<sender, wire, expected, gaps, missing, pending, accepted, clearing, channel,
                 taken>>

\* clear_gaps, in the consumer's thread: one lock, and then the other.  The consumer is taken
\* to call it after a gap ("after recovery").
ClearGaps ==
  /\ ~clearing
  /\ gaps # << >>
  /\ gaps' = << >>
  /\ clearing' = TRUE
  /\ UNCHANGED <<sender, wire, expected, state, missing, pending, accepted, channel, taken>>

ClearState ==
  /\ clearing
  /\ clearing' = FALSE
  /\ state' = IF state = "degraded" THEN "active" ELSE state
  /\ UNCHANGED <<sender, wire, expected, gaps, missing, pending, accepted, channel, taken>>

Consume ==
  /\ channel # << >>
  /\ channel' = Tail(channel)
  /\ taken' = [taken EXCEPT ![Head(channel)[1]] = Head(channel)[2]]
  /\ UNCHANGED <<sender, wire, receiver, clearing>>

Next ==
  \/ Submit \/ Collect \/ Flush \/ Heartbeat \/ Shutdown \/ Restart
  \/ ReceiveHeartbeat \/ ReceivePacket \/ Hand \/ Silence
  \/ ClearGaps \/ ClearState \/ Consume

Spec == Init /\ [][Next]_vars

\* The sender's thread runs; nothing is assumed of the network or the consumer.
FairSpec == Spec /\ WF_vars(Collect) /\ WF_vars(Flush)

-----------------------------------------------------------------------------
TypeOK ==
  /\ run \in Runs /\ stopping \in BOOLEAN
  /\ submitted \in [Runs -> 0 .. MaxMessages]
  /\ queue \in Seq(Message) /\ Len(queue) <= QueueSize
  /\ batch \in Packet /\ Len(batch.msgs) <= BatchSize
  /\ packetSeq \in Nat /\ msgSeq \in Nat /\ beats \in 0 .. MaxBeats
  /\ wire \subseteq Packet
  /\ expected \in [packet : Nat, msg : Nat] \cup {<< >>}
  /\ state \in {"initializing", "active", "degraded", "down"}
  /\ gaps \in Seq([expected : Nat, received : Nat, size : 0 .. Modulus - 1])
  /\ Len(gaps) <= MaxGaps
  /\ missing \in 0 .. Modulus - 1
  /\ pending \in Seq(Message) /\ clearing \in BOOLEAN
  /\ channel \in Seq(Message) /\ Len(channel) <= ChannelSize
  /\ taken \in [Runs -> 0 .. MaxMessages]
  /\ accepted \subseteq Message

\* The numbers on the wire tell the truth: every message of a packet bears the number in
\* which it was submitted, and of two packets of a run the one with the greater number has
\* the later messages - although heartbeats use packet numbers up as well.
PacketsInOrder ==
  \A p, q \in {w \in wire : w.msgs # << >>} :
    /\ \A i \in DOMAIN p.msgs : p.msgs[i] = <<p.run, p.first + i>>
    /\ p.run = q.run /\ p.seq < q.seq => p.first + Len(p.msgs) <= q.first
    /\ p.run = q.run /\ p.seq = q.seq => p = q

Stream == INSTANCE LossyStream

\* Whatever the network does to packets, and however often the sender restarts, the consumer
\* has the messages of a run in order and none twice.
InOrderAtMostOnce == Stream!Spec

Processed == accepted \cup {pending[i] : i \in DOMAIN pending}

\* A recorded gap is a loss for good: no message of it is ever processed, however late its
\* packet arrives; and without heartbeats no gap is empty.
GapsAreLosses ==
  \A i \in DOMAIN gaps :
    LET gap == gaps[i]
    IN /\ gap.size = gap.received - gap.expected
       /\ beats = 0 => gap.size > 0
       /\ \A n \in gap.expected + 1 .. gap.received : <<1, n>> \notin Processed

\* Loss is measured: as long as the sender has not restarted, every message since the first
\* one is either processed or counted in total_gap_messages, and never both; and the gaps that
\* are kept name messages that are lost.
LossIsMeasured ==
  run = 1 =>
    /\ GapsAreLosses
    /\ expected # << >> =>
         LET first == Min({m[2] : m \in Processed})
         IN missing + Cardinality(Processed) = expected.msg - (first - 1)

OnTheWire(m) == \E p \in wire : \E i \in DOMAIN p.msgs : p.msgs[i] = m

\* What is submitted to a sender that is not restarted any more leaves the machine: no message
\* stays behind in a partial batch, with or without a shutdown.
MessagesLeave ==
  \A n \in 1 .. MaxMessages :
    (run = MaxRuns /\ submitted[run] >= n) ~> OnTheWire(<<MaxRuns, n>>)

\* "Gap detected, waiting for recovery" (udp_proto/src/receiver.rs:67): a degraded stream has
\* lost something.
DegradedMeansLoss == run = 1 /\ state = "degraded" => missing > 0
=============================================================================
