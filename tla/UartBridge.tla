----------------------------- MODULE UartBridge -----------------------------
(***************************************************************************)
(* The serial bridge of the board (fpga/board/uart_itch_bridge.sv): the    *)
(* frame receiver that feeds ITCH messages to the book, the snapshot latch *)
(* and the frame sender.  One step per byte of a line, and one for what    *)
(* the core does between two bytes: the bus is three decades faster than   *)
(* the line, so a message is fed before the next byte is in.               *)
(*                                                                         *)
(* A byte is a number.  A payload has PayloadDn bytes and a snapshot three *)
(* of its fields, a byte each: msg_total, the sum of the mc_ counters,     *)
(* which is the same number, and frame_err_count.                          *)
(***************************************************************************)
EXTENDS Integers, Sequences, SequencesExt

CONSTANTS
  PayloadDn,     \* PAYLOAD_DN
  MsgMaxBytes    \* MSG_MAX_BYTES

ASSUME BridgeAssumption ==
  /\ PayloadDn \in Nat \ {0, 1} /\ MsgMaxBytes \in 3 .. PayloadDn

VARIABLES
  rx,       \* the frame receiver: frx_q, ftype_q, pay_q (as received), csum_q
  tx,       \* the frame sender: ftx_q, ftx_cnt_q, snap_q, tx_csum_q
  errs,     \* frame_err_q; the sticky flag with it only lights an LED
  book      \* the core: messages fed to it, and those it has committed

bridgeVars == <<rx, tx, errs, book>>

MAG0 == 165     \* A5
MAG1 == 90      \* 5A
T_ITCH == 1
T_SNAP == 2
T_BAND == 3
T_SNAPRESP == 129
SnapBytes == 3

Csum(bytes) == FoldSeq(LAMBDA x, y : x + y, 0, bytes) % 256

Hunting == [state |-> "mag0", type |-> 0, pay |-> <<>>, csum |-> 0]
Quiet == [state |-> "idle", snap |-> <<>>, cnt |-> 0, csum |-> 0]

BridgeInit ==
  /\ rx = Hunting /\ tx = Quiet
  /\ errs = 0
  /\ book = [fed |-> 0, total |-> 0]

-----------------------------------------------------------------------------
(* The frame receiver takes byte b. *)

\* itch_len, and the feed's length with the prefix.
ItchLen == rx.pay[1] * 256 + rx.pay[2]
FeedBytes == SubSeq(rx.pay, 1, ItchLen + 2)

LengthOk == ItchLen # 0 /\ ItchLen <= MsgMaxBytes - 2

\* FR_MAG0 and FR_MAG1: the hunt.
Preamble(b) ==
  CASE rx.state = "mag0" -> IF b = MAG0 THEN "mag1" ELSE "mag0"
    [] rx.state = "mag1" -> IF b = MAG1 THEN "type"
                            ELSE IF b = MAG0 THEN "mag1" ELSE "mag0"

Hunt(b) ==
  /\ rx.state \in {"mag0", "mag1"}
  /\ rx' = [Hunting EXCEPT !.state = Preamble(b)]
  /\ UNCHANGED errs

TakeType(b) ==
  /\ rx.state = "type"
  /\ rx' = [state |-> "body", type |-> b, pay |-> <<>>, csum |-> b]
  /\ UNCHANGED errs

BodyEnds == Len(rx.pay) = PayloadDn - 1

TakeBody(b) ==
  /\ rx.state = "body"
  /\ rx' = [rx EXCEPT !.pay = Append(@, b), !.csum = (@ + b) % 256,
                      !.state = IF BodyEnds THEN "csum" ELSE "body"]
  /\ UNCHANGED errs


Sound(b) == b = rx.csum

\* FR_CSUM: the frame is dropped whole or acted upon.
Accepts(b) ==
  Sound(b) /\ (rx.type \in {T_SNAP, T_BAND} \/ (rx.type = T_ITCH /\ LengthOk))

TakeCsum(b) ==
  /\ rx.state = "csum"
  /\ rx' = IF ~Accepts(b) \/ rx.type = T_BAND THEN Hunting
           ELSE IF rx.type = T_ITCH THEN [rx EXCEPT !.state = "feed", !.csum = 0]
           ELSE [Hunting EXCEPT !.state = "snap_go"]
  /\ errs' = IF Accepts(b) THEN errs ELSE errs + 1

\* While a snapshot is asked for and sent nobody looks at the byte.
Ignore(b) ==
  /\ rx.state \in {"snap_go", "snap"}
  /\ UNCHANGED <<rx, errs>>

\* Before the next byte the feed is over.
RxByte(b) ==
  /\ Hunt(b) \/ TakeType(b) \/ TakeBody(b) \/ TakeCsum(b) \/ Ignore(b)
  /\ UNCHANGED <<tx, book>>

\* FR_FEED up to its last beat.
Feed ==
  /\ rx.state = "feed"
  /\ rx' = Hunting
  /\ book' = [book EXCEPT !.fed = @ + 1]
  /\ UNCHANGED <<tx, errs>>

\* The core behind the ingest bus commits a message.
Commit ==
  /\ book.total < book.fed
  /\ book' = [book EXCEPT !.total = @ + 1]
  /\ UNCHANGED <<rx, tx, errs>>

-----------------------------------------------------------------------------
(* The snapshot. *)

SnapNow == <<book.total, book.total, errs>>

\* snap_go: FT_IDLE latches all fields in one cycle.
Latch ==
  /\ rx.state = "snap_go" /\ tx.state = "idle"
  /\ tx' = [tx EXCEPT !.state = "mag0", !.snap = SnapNow]
  /\ rx' = [rx EXCEPT !.state = "snap"]
  /\ UNCHANGED <<errs, book>>

\* Mutant of Latched: the fields are read as they are sent.
LatchedLive == SnapNow

Latched == tx.snap

\* The byte on txb_q.
TxByte ==
  CASE tx.state = "mag0" -> MAG0
    [] tx.state = "mag1" -> MAG1
    [] tx.state = "type" -> T_SNAPRESP
    [] tx.state = "body" -> Latched[tx.cnt + 1]
    [] tx.state = "csum" -> tx.csum

\* The transmitter is free and takes the byte.
TxStep ==
  /\ tx.state # "idle"
  /\ tx' = CASE tx.state = "mag0" -> [tx EXCEPT !.state = "mag1"]
             [] tx.state = "mag1" -> [tx EXCEPT !.state = "type"]
             [] tx.state = "type" -> [tx EXCEPT !.state = "body", !.csum = T_SNAPRESP]
             [] tx.state = "body" ->
                  [tx EXCEPT !.csum = (@ + TxByte) % 256, !.cnt = @ + 1,
                             !.state = IF tx.cnt = SnapBytes - 1 THEN "csum" ELSE "body"]
             [] tx.state = "csum" -> Quiet
  /\ UNCHANGED <<rx, errs, book>>

\* Mutant of SnapOver: looks for the sender at its last byte and may miss it.
SnapOverAtCsum == rx.state = "snap" /\ tx.state = "csum"

\* FR_SNAP ends when the sender is idle again.
SnapOver == rx.state = "snap" /\ tx.state = "idle"

SnapEnds ==
  /\ SnapOver
  /\ rx' = Hunting
  /\ UNCHANGED <<tx, errs, book>>
=============================================================================
