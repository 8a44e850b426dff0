------------------------------- MODULE RecordFifo -------------------------------
(***************************************************************************)
(* What the bitstream transport promises about bytes (CopyRingBitstream-   *)
(* Producer of h264_bitstream_transport.hpp, the "executable contract"): a *)
(* queue of bounded size.  A record is appended whole or not at all; the   *)
(* consumer takes cells one by one, in order, none lost, none twice, none  *)
(* altered.                                                                *)
(***************************************************************************)
EXTENDS Integers, Sequences

CONSTANTS Nothing,    \* the consumer has taken no cell yet
          Capacity    \* capacity_

VARIABLES queue,      \* ring_
          last        \* the cell the consumer took last

FifoInit == queue = <<>> /\ last = Nothing

(* pushNal, and the control records of the FPGA transport *)
Push == /\ Len(queue') \in (Len(queue) + 1)..Capacity
        /\ SubSeq(queue', 1, Len(queue)) = queue
        /\ UNCHANGED last

(* consumeBytes *)
Take == queue # <<>> /\ last' = Head(queue) /\ queue' = Tail(queue)

FifoSpec == FifoInit /\ [][Push \/ Take]_<<queue, last>>
================================================================================
