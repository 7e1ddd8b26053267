------------------------------ MODULE BoardLink ------------------------------
(***************************************************************************)
(* The board on its serial line: tools/ob_host.py streams frames to the    *)
(* bridge and polls for snapshots, as cmd_stream does, over a line that    *)
(* may damage one byte of a frame in either direction.  A poll that is not *)
(* answered within its timeout is given up and the stream goes on; what    *)
(* the board sends later stays in the port's buffer for the next poll.     *)
(***************************************************************************)
EXTENDS UartBridge

CONSTANTS
  Garbles,      \* what a damaged byte may turn into
  Bodies,       \* the lengths of message bodies
  MaxFrames     \* bound on the message frames and polls of a stream

VARIABLES
  down,     \* bytes of the frame on its way to the board
  hit,      \* a byte of it was damaged, or came while the bridge ignores them
  carried,  \* the message it carries, NoMsg when it is not an ITCH frame
  due,      \* the message the bridge owes to the book
  lost,     \* message frames that were hit
  host,     \* the host: sent, frames, state, the snapshot parser, the verdict
  inbuf,    \* the port's input buffer
  garbled   \* a byte of the reply was damaged

linkVars == <<bridgeVars, down, hit, carried, due, lost, host, inbuf, garbled>>

NoMsg == <<>>
NoReply == <<>>
NoParse == [state |-> 0, type |-> 0, buf |-> <<>>]

\* Message k: a length prefix and a body, padded to the payload (frame_itch).
Message(k, len) == <<0, len>> \o [i \in 1 .. len |-> k]
Padded(m) == m \o [i \in 1 .. PayloadDn - Len(m) |-> 0]
FrameOf(type, payload) ==
  <<MAG0, MAG1, type>> \o payload \o <<Csum(<<type>> \o payload)>>

LinkInit ==
  /\ BridgeInit
  /\ down = <<>> /\ hit = FALSE /\ carried = NoMsg /\ due = NoMsg /\ lost = 0
  /\ host = [sent |-> 0, frames |-> 0, state |-> "stream", parse |-> NoParse,
             got |-> NoReply]
  /\ inbuf = <<>> /\ garbled = FALSE

-----------------------------------------------------------------------------
(* The host.  It and the core are faster than the line: between two bytes they  *)
(* do what they can, except that the book may take its time to commit.          *)

Polling == host.state \in {"poll", "final"}

CoreDone == rx.state \notin {"feed", "snap_go"} /\ ~SnapOver
HostDone == Polling => inbuf = <<>>

Writes(frame, m) ==
  /\ down = <<>> /\ CoreDone
  /\ down' = frame /\ carried' = m /\ hit' = FALSE
  /\ UNCHANGED <<bridgeVars, due, lost, inbuf, garbled>>

SendMessage ==
  /\ host.state = "stream" /\ host.frames < MaxFrames
  /\ \E len \in Bodies :
       LET m == Message(host.sent + 1, len)
       IN  Writes(FrameOf(T_ITCH, Padded(m)), m)
  /\ host' = [host EXCEPT !.sent = @ + 1, !.frames = @ + 1, !.got = NoReply]

\* SET_BAND, and a frame whose length prefix is zero as test_board.cpp sends it.
SendOther ==
  /\ host.state = "stream" /\ host.frames = 0
  /\ \E type \in {T_ITCH, T_BAND} : Writes(FrameOf(type, Padded(<<>>)), NoMsg)
  /\ host' = [host EXCEPT !.frames = @ + 1]

\* A poll during the stream, and the one after its end.
SendPoll(state) ==
  /\ host.state = "stream"
  /\ state = "poll" => host.frames < MaxFrames
  /\ Writes(FrameOf(T_SNAP, Padded(<<>>)), NoMsg)
  /\ host' = [host EXCEPT !.state = state, !.frames = @ + 1, !.parse = NoParse,
                       !.got = NoReply]

\* One byte through read_snapshot's hunt.
ParseByte(p, b) ==
  CASE p.state = 0 -> [p EXCEPT !.state = IF b = MAG0 THEN 1 ELSE 0]
    [] p.state = 1 -> [p EXCEPT !.state = IF b = MAG1 THEN 2
                                          ELSE IF b = MAG0 THEN 1 ELSE 0]
    [] p.state = 2 -> [state |-> 3, type |-> b, buf |-> <<>>]
    [] p.state = 3 -> IF Len(p.buf) = SnapBytes THEN NoParse
                      ELSE [p EXCEPT !.buf = Append(@, b)]

\* Mutant of Complete: the reply's checksum is not looked at.
CompleteUnchecked(p, b) ==
  p.state = 3 /\ Len(p.buf) = SnapBytes /\ p.type = T_SNAPRESP

Complete(p, b) ==
  /\ p.state = 3 /\ Len(p.buf) = SnapBytes
  /\ p.type = T_SNAPRESP /\ b = Csum(<<p.type>> \o p.buf)

HostRead ==
  /\ Polling /\ inbuf # <<>>
  /\ inbuf' = Tail(inbuf)
  /\ LET p == host.parse
         b == Head(inbuf)
     IN  host' = IF Complete(p, b)
                 THEN [host EXCEPT !.state = IF @ = "final" THEN "end" ELSE "stream",
                                   !.got = p.buf, !.parse = NoParse]
                 ELSE [host EXCEPT !.parse = ParseByte(p, b)]
  /\ UNCHANGED <<bridgeVars, down, hit, carried, due, lost, garbled>>

\* The deadline of read_snapshot: the stream goes on without a snapshot.
Timeout ==
  /\ Polling
  /\ host' = [host EXCEPT !.state = IF @ = "final" THEN "end" ELSE "stream",
                          !.got = NoReply, !.parse = NoParse]
  /\ UNCHANGED <<bridgeVars, down, hit, carried, due, lost, inbuf, garbled>>

-----------------------------------------------------------------------------
(* The line. *)

\* A byte arrives, damaged or not; with the last one the frame is whole.
Arrive(b) ==
  LET ignored == rx.state = "snap"
      bad == hit \/ b # Head(down) \/ ignored
      last == Len(down) = 1
  IN  /\ CoreDone /\ HostDone
      /\ RxByte(b)
      /\ down' = Tail(down)
      /\ hit' = (bad /\ ~last)
      /\ carried' = IF last THEN NoMsg ELSE carried
      /\ due' = IF last /\ ~bad THEN carried ELSE due
      /\ lost' = IF last /\ bad /\ carried # NoMsg THEN lost + 1 ELSE lost
      /\ UNCHANGED <<host, inbuf, garbled>>

Deliver == down # <<>> /\ Arrive(Head(down))
Damage == down # <<>> /\ ~hit /\ \E b \in Garbles : b # Head(down) /\ Arrive(b)

FeedBook ==
  /\ Feed
  /\ due' = NoMsg
  /\ UNCHANGED <<down, hit, carried, lost, host, inbuf, garbled>>

Core ==
  /\ Commit \/ Latch \/ SnapEnds
  /\ UNCHANGED <<down, hit, carried, due, lost, host, inbuf, garbled>>

\* A byte of the reply reaches the port.
Reply(b) ==
  /\ HostDone
  /\ TxStep
  /\ inbuf' = Append(inbuf, b)
  /\ garbled' = (tx.state # "csum" /\ (garbled \/ b # TxByte))
  /\ UNCHANGED <<down, hit, carried, due, lost, host>>

DeliverReply == tx.state # "idle" /\ Reply(TxByte)
DamageReply ==
  /\ tx.state # "idle" /\ ~garbled
  /\ \E b \in Garbles : b # TxByte /\ Reply(b)

LinkNext ==
  \/ SendMessage \/ SendOther \/ SendPoll("poll") \/ SendPoll("final")
  \/ HostRead \/ Timeout
  \/ Deliver \/ Damage
  \/ FeedBook \/ Core
  \/ DeliverReply \/ DamageReply

\* The lines and the core go on, and the host's deadline passes.
LinkSpec ==
  /\ LinkInit /\ [][LinkNext]_linkVars
  /\ WF_linkVars(Deliver) /\ WF_linkVars(FeedBook) /\ WF_linkVars(Core)
  /\ WF_linkVars(DeliverReply) /\ WF_linkVars(HostRead)

-----------------------------------------------------------------------------
(* Properties. *)

\* The receiver's payload never outgrows pay_q, counters follow each other.
LinkTypeOK ==
  /\ rx.state \in {"mag0", "mag1", "type", "body", "csum", "feed", "snap_go", "snap"}
  /\ Len(rx.pay) <= PayloadDn /\ rx.csum \in 0 .. 255
  /\ rx.state = "feed" => ItchLen + 2 <= PayloadDn
  /\ tx.cnt \in 0 .. SnapBytes /\ tx.csum \in 0 .. 255
  /\ book.total \in 0 .. book.fed

\* "One corrupted UART byte can never leak bytes into the book's framer", and the
\* hunt recovers on the next frame: what is fed is a message the host sent, whole,
\* and every message whose own frame came undamaged is fed, whatever happened to
\* the frames before it, as long as no payload contains the preamble.
FedIsDue ==
  /\ rx.state = "feed" => FeedBytes = due
  /\ due # NoMsg => rx.state = "feed"


\* A snapshot the host accepts is one the board has had, although the core commits
\* messages while it is being sent and bytes of it may be damaged: its counters are
\* of one moment, and never more than the frames of the stream.
SnapshotIsReal ==
  host.got # NoReply =>
    /\ host.got[1] = host.got[2] /\ host.got[1] <= book.total
    /\ host.got[3] <= errs /\ host.got[1] + host.got[3] <= host.frames

\* "[verify] msg_total==sent, frame_errs==0": when the final snapshot says so no
\* message was lost, also if it is a late answer to an earlier poll.
VerifiedIsDelivered ==
  host.state = "end" /\ host.got # NoReply /\ host.got[1] = host.sent
    /\ host.got[3] = 0 => lost = 0 /\ book.total = host.sent

\* The bridge always gets back to the hunt: no frame and no snapshot holds it.
BridgeReturns ==
  rx.state \in {"feed", "snap_go", "snap"} ~> rx.state \in {"mag0", "mag1"}
=============================================================================
