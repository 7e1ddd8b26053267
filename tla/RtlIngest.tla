----------------------------- MODULE RtlIngest -----------------------------
(***************************************************************************)
(* The ingest pipeline of the hardware, cycle by cycle: udp_stripper,      *)
(* mold_stripper, itch_framer and itch_decoder as orderbook_top connects   *)
(* them, between a source of beats and the engine that accepts messages.   *)
(*                                                                         *)
(* A beat is the sequence of its valid bytes, NoBeat when valid is low.    *)
(* Operators without a prime are wires; a clock edge updates all registers *)
(* at once.  A byte is a number.  Sequence number and count of a MoldUDP64 *)
(* header are its last two bytes, and the body length of a message type is *)
(* the type itself; sizes are constants.                                   *)
(***************************************************************************)
EXTENDS Integers, Sequences

CONSTANTS
  WordBytes,     \* WORD_BYTES
  UdpHdr,        \* HDR_BYTES of udp_stripper
  MoldHdr,       \* HDR_BYTES of mold_stripper
  MsgMaxBytes,   \* MSG_MAX_BYTES
  BodyLens,      \* the body lengths of the message types
  EndCount       \* the count that ends a session: 0xFFFF

\* "a beat is <=16 bytes, the header is 20"
ASSUME IngestAssumption ==
  /\ WordBytes \in Nat \ {0} /\ UdpHdr \in Nat
  /\ MoldHdr \in Nat /\ WordBytes < MoldHdr
  /\ MsgMaxBytes \in Nat /\ BodyLens \subseteq 1 .. MsgMaxBytes
  /\ EndCount \in 0 .. 255

VARIABLES
  mode,       \* raw_mode and mold_mode: "raw", "udp" or "mold"
  word_idx,   \* udp_stripper
  mold,       \* mold_stripper: state and header fields
  seqs,       \* mold_stripper: sequence tracking
  a,          \* mold_stripper: stage A
  out,        \* mold_stripper: the output register
  framer,     \* itch_framer: state, len_q, remain_q, widx_q
  win,        \* itch_framer: the window's valid bytes, oldest first
  body,       \* itch_decoder: body[]
  dec,        \* itch_decoder: the bytes the fields of dec come from
  dec_valid   \* itch_decoder

rtlVars == <<mode, word_idx, mold, seqs, a, out, framer, win, body, dec, dec_valid>>

NoBeat == <<>>
WinBytes == 2 * WordBytes
Smaller(m, n) == IF m < n THEN m ELSE n
DropBytes(s, n) == SubSeq(s, n + 1, Len(s))

RtlInit ==
  /\ mode \in {"raw", "udp", "mold"}
  /\ word_idx = 0
  /\ mold = [state |-> "stream", hdr |-> <<>>, hdr_left |-> 0, a_off |-> 0,
             seq |-> 0, cnt |-> 0, drop |-> FALSE]
  /\ seqs = [init |-> FALSE, expected |-> 0, gap_events |-> 0, gap_msgs |-> 0,
             session_end |-> FALSE]
  /\ a = [data |-> NoBeat, sop |-> FALSE]
  /\ out = NoBeat
  /\ framer = [state |-> "hdr", len |-> 0, remain |-> 0, widx |-> 0]
  /\ win = <<>>
  /\ body = [i \in 1 .. MsgMaxBytes |-> 0]
  /\ dec = <<>>
  /\ dec_valid = FALSE

-----------------------------------------------------------------------------
(* itch_framer: what it takes from the front of its window, and when it is  *)
(* ready.                                                                   *)

\* Mutant of BeatBytes: the final beat waits for one more byte.
BeatBytesLate ==
  IF framer.remain <= WordBytes
  THEN IF Len(win) > framer.remain THEN framer.remain ELSE 0
  ELSE IF Len(win) >= WordBytes THEN WordBytes ELSE 0

\* A body leaves in whole words, its last beat with what remains.
BeatBytes ==
  IF framer.remain <= WordBytes
  THEN IF Len(win) >= framer.remain THEN framer.remain ELSE 0
  ELSE IF Len(win) >= WordBytes THEN WordBytes ELSE 0

Consume ==
  CASE framer.state = "hdr"              -> IF Len(win) >= 2 THEN 2 ELSE 0
    [] framer.state \in {"body", "drop"} -> BeatBytes
    [] framer.state = "settle"           -> 0

FramerReady == Len(win) - Consume <= WinBytes - WordBytes

MsgComplete == framer.state = "settle" /\ ~dec_valid
MsgBeat == IF framer.state = "body" THEN SubSeq(win, 1, Consume) ELSE NoBeat

-----------------------------------------------------------------------------
(* mold_stripper. *)

HdrLeft == IF a.data # NoBeat /\ a.sop THEN MoldHdr ELSE mold.hdr_left
HdrActive == HdrLeft # 0
HdrBytes == Smaller(HdrLeft, Len(a.data))      \* k
Completes == HdrActive /\ HdrBytes = HdrLeft
HdrPay == Completes /\ Len(a.data) > HdrBytes

OutFree == out = NoBeat \/ FramerReady

AConsume ==
  /\ mold.state = "stream" /\ a.data # NoBeat
  /\ IF HdrActive THEN ~HdrPay ELSE mold.drop \/ OutFree

MoldReady == IF mode = "mold" THEN a.data = NoBeat \/ AConsume ELSE FramerReady

\* What the framer sees, given what the stripper below it presents.
MoldOut(stripped) == IF mode = "mold" THEN out ELSE stripped

\* Header bytes to skip in a beat that is held while the policy decides.
HeldOffset == IF HdrPay THEN HdrBytes ELSE 0

\* S_STREAM with a beat in stage A.
TakeHeader ==
  LET hdr == (IF a.sop THEN <<>> ELSE mold.hdr) \o SubSeq(a.data, 1, HdrBytes)
  IN  IF Completes
      THEN [mold EXCEPT !.hdr = <<>>, !.hdr_left = 0,
                        !.seq = hdr[MoldHdr - 1], !.cnt = hdr[MoldHdr],
                        !.a_off = HeldOffset, !.state = "decide"]
      ELSE [mold EXCEPT !.hdr = hdr, !.hdr_left = HdrLeft - HdrBytes]

\* Mutant of DropsDatagram: a stale datagram is let through.
DropsEndOnly == mold.cnt = EndCount

\* S_DECIDE: the end of the session and stale datagrams are dropped whole.
DropsDatagram ==
  mold.cnt = EndCount \/ (seqs.init /\ mold.seq < seqs.expected)

\* Mutant of SeqsAfter: the messages of a gap are not counted.
SeqsAfterGapIgnored ==
  IF mold.cnt = EndCount THEN [seqs EXCEPT !.session_end = TRUE]
  ELSE IF seqs.init /\ mold.seq < seqs.expected THEN seqs
  ELSE [seqs EXCEPT !.init = TRUE, !.expected = mold.seq + mold.cnt]

SeqsAfter ==
  IF mold.cnt = EndCount THEN [seqs EXCEPT !.session_end = TRUE]
  ELSE IF seqs.init /\ mold.seq < seqs.expected THEN seqs
  ELSE LET gap == seqs.init /\ mold.seq > seqs.expected
       IN  [seqs EXCEPT !.init = TRUE, !.expected = mold.seq + mold.cnt,
                        !.gap_events = @ + (IF gap THEN 1 ELSE 0),
                        !.gap_msgs = @ + (IF gap THEN mold.seq - seqs.expected
                                          ELSE 0)]

\* Payload of stage A goes to the output register.
Forwards == AConsume /\ ~HdrActive /\ ~mold.drop

MoldClock(beat, sop) ==
  IF mode # "mold" THEN UNCHANGED <<mold, seqs, a, out>>
  ELSE /\ mold' = CASE mold.state = "decide" ->
                         [mold EXCEPT !.drop = DropsDatagram, !.state = "stream"]
                    [] mold.state = "stream" /\ a.data # NoBeat /\ HdrActive ->
                         TakeHeader
                    [] AConsume /\ ~HdrActive -> [mold EXCEPT !.a_off = 0]
                    [] OTHER -> mold
       /\ seqs' = IF mold.state = "decide" THEN SeqsAfter ELSE seqs
       /\ out' = IF Forwards THEN DropBytes(a.data, mold.a_off)
                 ELSE IF FramerReady THEN NoBeat
                 ELSE out
       /\ a' = IF beat # NoBeat /\ MoldReady THEN [data |-> beat, sop |-> sop]
               ELSE IF AConsume THEN [data |-> NoBeat, sop |-> FALSE]
               ELSE a

-----------------------------------------------------------------------------
(* udp_stripper. *)

SkipWords == UdpHdr \div WordBytes     \* HDR_SKIP_WORDS
SkipRem == UdpHdr % WordBytes          \* HDR_SKIP_REM

WordIdx(sop) == IF sop /\ mode # "raw" THEN 0 ELSE word_idx
SplitWord(sop) == mode # "raw" /\ WordIdx(sop) = SkipWords

\* Header words are discarded, the word that ends the header loses its front.
Stripped(beat, sop) ==
  CASE mode # "raw" /\ WordIdx(sop) < SkipWords -> NoBeat
    [] SplitWord(sop)                           -> DropBytes(beat, SkipRem)
    [] OTHER                                    -> beat

StripSop(beat, sop) == SplitWord(sop) /\ Stripped(beat, sop) # NoBeat

InReady == MoldReady \/ (mode # "raw" /\ word_idx < SkipWords)

\* word_idx stops counting at 0xFFFF; past the header it makes no difference.
UdpClock(beat, sop) ==
  word_idx' = IF beat = NoBeat \/ ~InReady THEN word_idx
              ELSE Smaller(WordIdx(sop) + 1, SkipWords + 1)

-----------------------------------------------------------------------------
(* The clocked part of itch_framer and itch_decoder. *)

WireLength(hi, lo) == 256 * hi + lo

FramerAfter ==
  CASE framer.state = "hdr" /\ Consume # 0 ->
         LET len == WireLength(win[1], win[2])
         IN  [state |-> IF len = 0 THEN "hdr"
                        ELSE IF len > MsgMaxBytes THEN "drop" ELSE "body",
              len |-> len, remain |-> len, widx |-> 0]
    [] framer.state \in {"body", "drop"} /\ Consume # 0 ->
         LET final == framer.remain <= WordBytes
         IN  [framer EXCEPT
                !.remain = @ - Consume,
                !.state = IF ~final THEN @
                          ELSE IF @ = "body" THEN "settle" ELSE "hdr",
                !.widx = IF final \/ framer.state = "drop" THEN @ ELSE @ + 1]
    [] MsgComplete -> [framer EXCEPT !.state = "hdr"]
    [] OTHER -> framer

FramerClock(beat) ==
  /\ framer' = FramerAfter
  /\ win' = DropBytes(win, Consume) \o (IF FramerReady THEN beat ELSE NoBeat)

\* The message in body[]: nothing when its length is not that of its type.
IsMessage == body[1] \in BodyLens /\ framer.len = body[1]

DecoderClock(accept) ==
  /\ body' = [i \in 1 .. MsgMaxBytes |->
                LET k == i - framer.widx * WordBytes
                IN  IF k \in DOMAIN MsgBeat THEN MsgBeat[k] ELSE body[i]]
  /\ dec' = IF ~MsgComplete THEN dec
            ELSE IF IsMessage THEN SubSeq(body, 1, framer.len) ELSE <<>>
  /\ dec_valid' = IF MsgComplete THEN IsMessage ELSE dec_valid /\ ~accept

-----------------------------------------------------------------------------
\* A clock edge.  A beat is presented when in_ready is high; the engine may
\* accept the message the decoder holds.
Clock(beat, sop, accept) ==
  /\ beat # NoBeat => InReady
  /\ accept => dec_valid
  /\ UdpClock(beat, sop)
  /\ MoldClock(Stripped(beat, sop), StripSop(beat, sop))
  /\ FramerClock(MoldOut(Stripped(beat, sop)))
  /\ DecoderClock(accept)
  /\ UNCHANGED mode
=============================================================================
