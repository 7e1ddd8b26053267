------------------------------ MODULE FeedPath ------------------------------
(***************************************************************************)
(* One feed, sent through the hardware pipeline as UDP datagrams and read  *)
(* by the software: the comparison that sim/tests/test_mold.cpp and        *)
(* sw/tests/test_mold_parser.cpp make for one session.  Datagrams come     *)
(* with any sequence numbers: some are lost, others late or sent twice.    *)
(* The source presents beats as the drivers do (sim/rtl_driver.hpp, and    *)
(* drive_beats of sim/tests/test_framer_wide.cpp with its partial beats),  *)
(* and the engine takes its time to accept a message.                      *)
(***************************************************************************)
EXTENDS RtlIngest, MoldWalker
LOCAL SX == INSTANCE SequencesExt

CONSTANTS
  PartialSizes,   \* sizes of beats that are not full
  Payloads,       \* the blocks a datagram may carry, as sequences
  MaxSeq,         \* bound on sequence numbers
  MaxDatagrams    \* bound on the datagrams of a feed

VARIABLES
  src,      \* bytes of the datagram in transmission that are still to be sent
  first,    \* its next beat is its first
  sent,     \* datagrams so far
  due       \* the messages the software has and the engine has yet to accept

feedVars == <<rtlVars, st, src, first, sent, due>>

\* A block on the wire: its length and a body that starts with its type.
Bytes(num, block) ==
  <<block.len \div 256, block.len % 256>> \o
  [i \in 1 .. block.len |-> IF i = 1 THEN block.type ELSE 16 * num + i]

Blocks(num, bs) == SX!FlattenSeq([i \in DOMAIN bs |-> Bytes(num + i - 1, bs[i])])

Zeros(n) == [i \in 1 .. n |-> 0]

\* A datagram as it arrives in each mode (udp_wrap and mold_header).
Frame(p) ==
  (IF mode = "raw" THEN <<>> ELSE Zeros(UdpHdr)) \o
  (IF mode # "mold" THEN <<>>
   ELSE Zeros(MoldHdr - 2) \o <<p.seq, IF p.end THEN EndCount ELSE Len(p.blocks)>>) \o
  Blocks(p.seq, p.blocks)

\* The valid bodies of a datagram the engine is to get: in mold mode of the blocks
\* the software hands out, else of all, where an empty frame is none.
Messages(p) ==
  LET valid == SelectSeq(IF mode = "mold" THEN Applied(p)
                         ELSE [i \in DOMAIN p.blocks |->
                                 [num |-> p.seq + i - 1, block |-> p.blocks[i]]],
                         LAMBDA x : DecodesTo(x.block, BodyLens))
  IN  [i \in DOMAIN valid |->
         DropBytes(Bytes(valid[i].num, valid[i].block), 2)]

FeedInit ==
  /\ RtlInit
  /\ st = InitialStats
  /\ src = <<>> /\ first = FALSE
  /\ sent = 0
  /\ due = <<>>

\* Nothing follows the end of the session; without MoldUDP64 nothing ends it.
Packets ==
  {p \in [seq : IF mode = "mold" THEN 1 .. MaxSeq ELSE {2 * sent + 1},
          end : BOOLEAN, blocks : Payloads \cup {<<>>}] :
     /\ p.end => p.blocks = <<>> /\ mode = "mold"
     /\ mode = "mold" => \A i \in DOMAIN p.blocks : p.blocks[i].len # 0}

NextDatagram(p) ==
  /\ src = <<>> /\ sent < MaxDatagrams /\ ~st.session_end
  /\ src' = Frame(p)
  /\ first' = TRUE
  /\ sent' = sent + 1
  /\ st' = IF mode = "mold" THEN StatsAfter(p) ELSE st
  /\ due' = due \o Messages(p)
  /\ UNCHANGED rtlVars

\* Beats are full words up to the last one; past the header they may be smaller.
BeatSizes ==
  LET full == Smaller(WordBytes, Len(src))
  IN  IF full = 0 THEN {}
      ELSE {full} \cup {n \in PartialSizes :
                         /\ n < full
                         /\ mode = "raw" \/ (~first /\ word_idx > SkipWords)}

\* A cycle in which n bytes are presented.
Cycle(n, accept) ==
  /\ Clock(SubSeq(src, 1, n), n > 0 /\ first, accept)
  /\ src' = DropBytes(src, n)
  /\ first' = (first /\ n = 0)
  /\ due' = IF accept THEN DropBytes(due, 1) ELSE due
  /\ UNCHANGED <<st, sent>>

Sends == \E n \in BeatSizes, accept \in BOOLEAN : Cycle(n, accept)
Accepts == \E n \in BeatSizes \cup {0} : Cycle(n, TRUE)
Cycles == \E n \in BeatSizes \cup {0}, accept \in BOOLEAN : Cycle(n, accept)

FeedNext ==
  \/ \E p \in Packets : NextDatagram(p)
  \/ Cycles

\* The clock runs, the source sends on while it may, the engine gets round to
\* every message.
FeedSpec ==
  /\ FeedInit /\ [][FeedNext]_feedVars
  /\ WF_feedVars(Cycles) /\ WF_feedVars(Sends) /\ WF_feedVars(Accepts)

-----------------------------------------------------------------------------
(* Properties. *)

\* The window never holds more than its 32 bytes, a body beat stays inside
\* body[], and the message in the framer never exceeds its storage.
IngestTypeOK ==
  /\ Len(win) <= WinBytes
  /\ Len(out) <= WordBytes /\ Len(a.data) <= WordBytes
  /\ framer.len \in 0 .. 65535 /\ framer.remain \in 0 .. framer.len
  /\ framer.state \in {"body", "settle"} =>
       /\ framer.len \in 1 .. MsgMaxBytes
       /\ framer.widx * WordBytes < framer.len
  /\ mold.state \in {"stream", "decide"} /\ mold.a_off \in 0 .. WordBytes
  /\ mold.hdr_left \in 0 .. MoldHdr
  /\ dec \in Seq(0 .. 255)

\* The engine gets the messages the software applies, in order, each once and
\* with its own bytes: nothing of a stale datagram, a header or an oversized
\* frame, and nothing of the next message that is being assembled meanwhile.
DeliveredInOrder ==
  [][dec_valid /\ ~dec_valid' =>
       due # <<>> /\ dec = Head(due) /\ due' = Tail(due)]_feedVars

\* Once the last bytes of a datagram are past the sequence policy, the hardware's
\* telemetry is what the software counts for the same datagrams.
TelemetryAgrees ==
  src = <<>> /\ a.data = NoBeat /\ mold.state = "stream" =>
    /\ seqs.init = st.seq_init /\ seqs.expected = st.next_seq
    /\ seqs.gap_events = st.gap_events /\ seqs.gap_msgs = st.gap_msgs
    /\ seqs.session_end = st.session_end

\* The pipeline's state: nothing outgrows its storage, and the counts of both
\* sides agree.
IngestInv == IngestTypeOK /\ TelemetryAgrees

\* The pipeline never gets stuck with bytes in it: every message the software
\* has is delivered to the engine in the end.
EverythingDelivered == []<>(due = <<>>)
=============================================================================
