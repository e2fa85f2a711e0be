---------------------------- MODULE MessageQueue ----------------------------
(***************************************************************************)
(* The byte queue behind the MQTT client (src/utility/queue): a ring       *)
(* buffer of Size bytes (ringbuf.cpp) in which every packet is framed by a *)
(* start and an end byte and the three control bytes are escaped           *)
(* (proto.cpp), with the QUEUE_* operations of queue.cpp and the loop with *)
(* which the client makes room in a full queue.                            *)
(*                                                                         *)
(* A write that finds the ring full stops where it is and leaves the bytes *)
(* written so far behind, and the parser that reads the ring starts with   *)
(* an uninitialized isBegin.  Nevertheless the ring behaves as a queue of  *)
(* whole packets (PacketFifo).                                             *)
(***************************************************************************)
EXTENDS Integers, SequencesExt

CONSTANTS Size,         \* QUEUE_BUFFER_SIZE
          MaxLen,       \* MQTT_BUF_SIZE, the reader's buffer
          Packets       \* the packets clients queue

ASSUME QueueAssumption == Size \in Nat \ {0, 1} /\ MaxLen \in Nat

VARIABLES rb,           \* the RINGBUF: bytes, read and write index, fill count
          answer,       \* what the last operation returned
          held          \* the packets the ring holds, Held(rb)

queueVars == <<rb, answer, held>>

Byte == 0..255
Escape == 125           \* 0x7D
Begin  == 126           \* 0x7E
End    == 127           \* 0x7F

Flip(b) == IF (b \div 32) % 2 = 1 THEN b - 32 ELSE b + 32    \* b ^ 0x20

(***************************************************************************)
(* ringbuf.cpp.  Both operations return the ring and whether they worked.  *)
(***************************************************************************)
Wrapped(i) == IF i >= Size THEN 0 ELSE i

RINGBUF_Put(r, c) ==
    IF r.fill_cnt >= Size THEN [r EXCEPT !.ok = FALSE]
    ELSE [r EXCEPT !.fill_cnt = @ + 1, !.buf[r.p_w] = c, !.p_w = Wrapped(@ + 1)]

RINGBUF_Get(r) ==
    [r EXCEPT !.fill_cnt = @ - 1, !.p_r = Wrapped(@ + 1)]

(***************************************************************************)
(* proto.cpp: framing a packet into the ring, which stops at the first     *)
(* byte that does not fit.                                                 *)
(***************************************************************************)
Escaped(b) == IF b \in {Escape, Begin, End} THEN <<Escape, Flip(b)>> ELSE <<b>>

(* Mutant: the start byte is left out.                                     *)
Unframed(p) == FlattenSeq([i \in 1..Len(p) |-> Escaped(p[i])]) \o <<End>>

Framed(p) == <<Begin>> \o FlattenSeq([i \in 1..Len(p) |-> Escaped(p[i])]) \o <<End>>

RECURSIVE PutAll(_, _)
PutAll(r, bytes) ==
    IF bytes = <<>> \/ ~r.ok THEN r ELSE PutAll(RINGBUF_Put(r, Head(bytes)), Tail(bytes))

PROTO_AddRb(r, p) == PutAll([r EXCEPT !.ok = TRUE], Framed(p))

(* Mutant: a start byte does not discard what was read before.             *)
KeepsData(z, c) ==
    CASE c = Escape -> [z EXCEPT !.isEsc = TRUE]
      [] c = Begin  -> [z EXCEPT !.isEsc = FALSE, !.isBegin = TRUE]
      [] c = End    -> [z EXCEPT !.isBegin = FALSE, !.done = TRUE]
      [] OTHER      ->
           IF ~z.isBegin THEN z
           ELSE [z EXCEPT !.isEsc = FALSE,
                          !.data = IF Len(@) < MaxLen
                                   THEN Append(@, IF z.isEsc THEN Flip(c) ELSE c)
                                   ELSE @]

(* One byte through the parser: data collects the packet, done says that   *)
(* an end byte was met.                                                    *)
PROTO_ParseByte(z, c) ==
    CASE c = Escape -> [z EXCEPT !.isEsc = TRUE]
      [] c = Begin  -> [z EXCEPT !.data = <<>>, !.isEsc = FALSE, !.isBegin = TRUE]
      [] c = End    -> [z EXCEPT !.isBegin = FALSE, !.done = TRUE]
      [] OTHER      ->
           IF ~z.isBegin THEN z
           ELSE [z EXCEPT !.isEsc = FALSE,
                          !.data = IF Len(@) < MaxLen
                                   THEN Append(@, IF z.isEsc THEN Flip(c) ELSE c)
                                   ELSE @]

(* Reading until an end byte or the end of the ring.  isBegin is not       *)
(* initialized: b is whatever the stack holds.                             *)
RECURSIVE ParseAll(_, _)
ParseAll(r, z) ==
    IF z.done \/ r.fill_cnt <= 0 THEN [ring |-> [r EXCEPT !.ok = z.done], proto |-> z]
    ELSE ParseAll(RINGBUF_Get(r), PROTO_ParseByte(z, r.buf[r.p_r]))

PROTO_ParseRb(r, b) ==
    ParseAll(r, [data |-> <<>>, isEsc |-> FALSE, isBegin |-> b, done |-> FALSE])

(* The bytes in the ring, oldest first, and the packets they hold: what    *)
(* lies between an end byte and the last start byte before it, unescaped.  *)
Bytes(r) == SubSeq([i \in 1..Size |-> r.buf[(r.p_r + i - 1) % Size]], 1, r.fill_cnt)

RECURSIVE Unescaped(_)
Unescaped(s) ==
    CASE s = <<>>                        -> <<>>
      [] Len(s) > 1 /\ Head(s) = Escape -> <<Flip(s[2])>> \o Unescaped(SubSeq(s, 3, Len(s)))
      [] OTHER                           -> <<Head(s)>> \o Unescaped(Tail(s))

RECURSIVE Whole(_)
Whole(s) ==
    IF \A i \in 1..Len(s) : s[i] # End THEN <<>>
    ELSE LET e == CHOOSE i \in 1..Len(s) : s[i] = End /\ \A j \in 1..i - 1 : s[j] # End
             b == Max({0} \cup {i \in 1..e : s[i] = Begin})
         IN <<Unescaped(SubSeq(s, b + 1, e - 1))>> \o Whole(SubSeq(s, e + 1, Len(s)))

Held(r) == Whole(Bytes(r))

(***************************************************************************)
(* queue.cpp, and the loop of Publish, Subscribe and UnSubscribe in        *)
(* MqttClient.cpp, which drops the oldest packets until the new one fits   *)
(* and gives up when there is none to drop.                                *)
(***************************************************************************)
Outcome(status) == [status |-> status, data |-> <<>>]

QUEUE_Puts(p) ==
    /\ rb' = PROTO_AddRb(rb, p)
    /\ answer' = Outcome(IF rb'.ok THEN "put" ELSE "full")
    /\ held' = Held(rb')

QUEUE_Gets ==
    \E b \in BOOLEAN :
      LET s == PROTO_ParseRb(rb, b) IN
      /\ rb' = s.ring
      /\ answer' = IF s.proto.done THEN [status |-> "got", data |-> s.proto.data]
                                 ELSE Outcome("empty")
      /\ held' = Held(rb')

RECURSIVE MakeRoom(_, _, _)
MakeRoom(r, p, b) ==
    LET put == PROTO_AddRb(r, p)
        got == PROTO_ParseRb(put, b).ring
    IN IF put.ok \/ ~got.ok THEN [ring |-> IF put.ok THEN put ELSE got, ok |-> put.ok]
       ELSE MakeRoom(got, p, b)

PutMakingRoom(p) ==
    \E b \in BOOLEAN :
      LET m == MakeRoom(rb, p, b)
      IN /\ rb' = m.ring
         /\ answer' = Outcome(IF m.ok THEN "put" ELSE "lost")
         /\ held' = Held(rb')

QueueInit ==
    /\ rb = [buf |-> [i \in 0..Size - 1 |-> 0], p_r |-> 0, p_w |-> 0,
             fill_cnt |-> 0, ok |-> TRUE]
    /\ answer = Outcome("none")
    /\ held = <<>>

QueueNext ==
    \/ QUEUE_Gets
    \/ \E p \in Packets : QUEUE_Puts(p) \/ PutMakingRoom(p)

QueueSpec == QueueInit /\ [][QueueNext]_queueVars

-----------------------------------------------------------------------------
(* Whatever was dropped and wherever a write was cut off, the oldest byte  *)
(* of the ring is a start of packet, so the uninitialized isBegin of the   *)
(* parser never decides what a read returns.                               *)
StartsWithFrame == rb.fill_cnt > 0 => rb.buf[rb.p_r] = Begin

(* The ring implements a queue of whole packets: a write that does not fit *)
(* leaves every queued packet in place and adds none, a read returns the   *)
(* oldest packet unchanged, and making room drops the oldest ones only.    *)
Fifo == INSTANCE PacketFifo WITH packets <- held

ImplementsFifo == Fifo!FifoSpec
=============================================================================
