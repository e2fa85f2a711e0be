----------------------------- MODULE PacketFifo -----------------------------
(***************************************************************************)
(* What the byte queue of src/utility/queue promises its client: a first-  *)
(* in first-out queue of whole packets.  A packet is put whole or not at   *)
(* all, and taken whole (cut to the reader's buffer) or not at all.        *)
(***************************************************************************)
EXTENDS Integers, SequencesExt

CONSTANTS Packets, MaxLen

VARIABLES packets,      \* the packets queued, oldest first
          answer        \* the outcome of the last call, and the packet read

fifoVars == <<packets, answer>>

Outcome(status) == [status |-> status, data |-> <<>>]

FifoInit == packets = <<>> /\ answer = Outcome("none")

Put(p) ==
    \/ packets' = Append(packets, p) /\ answer' = Outcome("put")
    \/ answer' = Outcome("full") /\ UNCHANGED packets

Get ==
    \/ /\ packets # <<>>
       /\ answer' = [status |-> "got",
                     data |-> SubSeq(Head(packets), 1, Min({MaxLen, Len(Head(packets))}))]
       /\ packets' = Tail(packets)
    \/ packets = <<>> /\ answer' = Outcome("empty") /\ UNCHANGED packets

(* The oldest packets give way to p, or p and all of them are lost.        *)
PutEvicting(p) ==
    \/ /\ \E n \in 0..Len(packets) :
            packets' = Append(SubSeq(packets, n + 1, Len(packets)), p)
       /\ answer' = Outcome("put")
    \/ packets' = <<>> /\ answer' = Outcome("lost")

FifoNext == Get \/ \E p \in Packets : Put(p) \/ PutEvicting(p)

FifoSpec == FifoInit /\ [][FifoNext]_fifoVars
=============================================================================
