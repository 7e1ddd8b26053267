----------------------------- MODULE MoldWalker -----------------------------
(***************************************************************************)
(* The MoldUDP64 walker of the software (class MoldParser of               *)
(* sw/parser/mold_parser.hpp): the sequence policy, one packet a step.     *)
(* A packet has a sequence number and its message blocks, or ends the      *)
(* session; a block is the type byte of the message and its length.        *)
(* Files end with a whole packet, and no block is empty.                   *)
(***************************************************************************)
EXTENDS Integers, Sequences

VARIABLES
  st    \* MoldStats: next_seq, seq_init, gaps and session_end

InitialStats ==
  [next_seq |-> 0, seq_init |-> FALSE, gap_events |-> 0, gap_msgs |-> 0,
   session_end |-> FALSE]

Stale(p) == st.seq_init /\ p.seq < st.next_seq

\* A packet above the expected number is a gap, and accepted.
Gap(p) == IF st.seq_init /\ p.seq > st.next_seq THEN p.seq - st.next_seq ELSE 0

\* The loop of walk for one packet.
StatsAfter(p) ==
  IF p.end THEN [st EXCEPT !.session_end = TRUE]
  ELSE IF Stale(p) THEN st
  ELSE [st EXCEPT !.next_seq = p.seq + Len(p.blocks),
                  !.seq_init = TRUE,
                  !.gap_events = @ + (IF Gap(p) > 0 THEN 1 ELSE 0),
                  !.gap_msgs = @ + Gap(p)]

\* The messages it hands out: all blocks of the packet or none.
Applied(p) ==
  IF p.end \/ Stale(p) THEN <<>>
  ELSE [i \in DOMAIN p.blocks |-> [num |-> p.seq + i - 1, block |-> p.blocks[i]]]

\* decode_body: a type whose length is not the block's is not a message.
DecodesTo(block, lens) == block.type = block.len /\ block.len \in lens
=============================================================================
