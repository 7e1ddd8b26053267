----------------------------- MODULE RtlRefTable -----------------------------
(***************************************************************************)
(* The order-reference table of the hardware, cycle by cycle               *)
(* (rtl/order_ref_table.sv): open addressing with linear probing, one      *)
(* probe per clock, tombstones, and an answer held in result registers.    *)
(*                                                                         *)
(* A command is a record; NoCmd is cmd_valid low.  The registers of the    *)
(* command and of the probe are dead when the table is idle and are then   *)
(* given one value.  The result registers are different: res_found keeps   *)
(* the answer of the last command that wrote it.                           *)
(***************************************************************************)
EXTENDS Integers

CONSTANTS
  TableSize,   \* TABLE_SIZE
  MaxProbe,    \* MAX_PROBE
  Refs,        \* order references
  Home         \* hash_ref: the slot a reference hashes to

ASSUME RefTableAssumption ==
  /\ TableSize \in Nat \ {0}
  /\ MaxProbe \in 1 .. TableSize
  /\ Home \in [Refs -> 0 .. TableSize - 1]

VARIABLES
  mem,     \* mem: the slots
  probe,   \* state, the command registers, idx_q, probes_q, have_tomb_q and tomb_idx_q
  resp     \* done, res_found and the other res_ registers; ins_fail_count # 0

tableVars == <<mem, probe, resp>>

NoOrder == [side |-> "none"]
NoCmd == [op |-> "none"]
NoTomb == -1
Slots == 0 .. TableSize - 1

Empty == [state |-> "empty"]
Tomb == [state |-> "tomb"]
Live(r, order) == [state |-> "live", ref |-> r, order |-> order]

Insert(r, order, unique) ==
  [op |-> "insert", ref |-> r, order |-> order, unique |-> unique]
Lookup(r) == [op |-> "lookup", ref |-> r]
Delete(r) == [op |-> "delete", ref |-> r]

Probe(state, cmd, idx, n, tomb) ==
  [state |-> state, cmd |-> cmd, idx |-> idx, n |-> n, tomb |-> tomb]
IdleProbe == Probe("idle", NoCmd, 0, 0, NoTomb)

TableInit ==
  /\ mem = [i \in Slots |-> Empty]
  /\ probe = IdleProbe
  /\ resp = [done |-> FALSE, found |-> FALSE, order |-> NoOrder, fails |-> FALSE]

-----------------------------------------------------------------------------
(* One action per state of the FSM, and per outcome of a probe. *)

NextSlot(i) == (i + 1) % TableSize

\* The default of every cycle: done is low, a result once read is dead.
Quiet == resp' = [resp EXCEPT !.done = FALSE, !.order = NoOrder]

\* A probe that ends the command; res_found and, for a lookup, the order.
Answer(found, order) ==
  /\ probe' = Probe("done", NoCmd, 0, 0, NoTomb)
  /\ resp' = [resp EXCEPT !.done = FALSE, !.found = found, !.order = order]

TableIdle(cmd) ==
  /\ probe.state = "idle"
  /\ probe' = IF cmd = NoCmd THEN probe ELSE Probe("hash", cmd, 0, 0, NoTomb)
  /\ Quiet /\ UNCHANGED mem

TableHash ==
  /\ probe.state = "hash"
  /\ probe' = [probe EXCEPT !.state = "home"]
  /\ Quiet /\ UNCHANGED mem

TableHome ==
  /\ probe.state = "home"
  /\ probe' = Probe("probe", probe.cmd, Home[probe.cmd.ref], 1, NoTomb)
  /\ Quiet /\ UNCHANGED mem

Probing(ops) == probe.state = "probe" /\ probe.cmd.op \in ops
Hit == mem[probe.idx].state = "live" /\ mem[probe.idx].ref = probe.cmd.ref
AtEmpty == mem[probe.idx] = Empty
LastProbe == probe.n >= MaxProbe
Write(i) ==
  mem' = [mem EXCEPT ![i] = Live(probe.cmd.ref, probe.cmd.order)]

\* The slot is another key's or a tombstone: on to the next one.
StepOn ==
  probe' = [probe EXCEPT
              !.idx = NextSlot(@), !.n = @ + 1,
              !.tomb = IF mem[probe.idx] = Tomb /\ @ = NoTomb
                         /\ probe.cmd.op = "insert"
                       THEN probe.idx ELSE @]

InsertOverLive ==
  /\ Probing({"insert"}) /\ Hit
  /\ Answer(~probe.cmd.unique, NoOrder)
  /\ IF probe.cmd.unique THEN UNCHANGED mem ELSE Write(probe.idx)

InsertAtEmpty ==
  /\ Probing({"insert"}) /\ AtEmpty
  /\ Write(IF probe.tomb # NoTomb THEN probe.tomb ELSE probe.idx)
  /\ Answer(TRUE, NoOrder)

\* The budget is used up: the tombstone remembered BEFORE this probe is taken.
InsertAtTomb ==
  /\ Probing({"insert"}) /\ ~Hit /\ ~AtEmpty /\ LastProbe
  /\ probe.tomb # NoTomb
  /\ Write(probe.tomb)
  /\ Answer(TRUE, NoOrder)

\* There is none: ins_fail_count is all that is written, res_found is not.
InsertFails ==
  /\ Probing({"insert"}) /\ ~Hit /\ ~AtEmpty /\ LastProbe
  /\ probe.tomb = NoTomb
  /\ probe' = Probe("done", NoCmd, 0, 0, NoTomb)
  /\ resp' = [resp EXCEPT !.done = FALSE, !.order = NoOrder, !.fails = TRUE]
  /\ UNCHANGED mem

Finds ==
  /\ Probing({"lookup", "delete"}) /\ Hit
  /\ Answer(TRUE, mem[probe.idx].order)
  /\ IF probe.cmd.op = "delete"
     THEN mem' = [mem EXCEPT ![probe.idx] = Tomb] ELSE UNCHANGED mem

Misses ==
  /\ Probing({"lookup", "delete"}) /\ ~Hit /\ (AtEmpty \/ LastProbe)
  /\ Answer(FALSE, NoOrder)
  /\ UNCHANGED mem

StepsOn ==
  /\ Probing({"insert", "lookup", "delete"})
  /\ ~Hit /\ ~AtEmpty /\ ~LastProbe
  /\ StepOn
  /\ Quiet /\ UNCHANGED mem

TableDone ==
  /\ probe.state = "done"
  /\ probe' = IdleProbe
  /\ resp' = [resp EXCEPT !.done = TRUE]
  /\ UNCHANGED mem

\* A clock edge with cmd on the command port.
TableClock(cmd) ==
  \/ TableIdle(cmd)
  \/ TableHash
  \/ TableHome
  \/ InsertOverLive
  \/ InsertAtEmpty
  \/ InsertAtTomb
  \/ InsertFails
  \/ Finds
  \/ Misses
  \/ StepsOn
  \/ TableDone

-----------------------------------------------------------------------------
(* What is in the table, and what a search of at most MaxProbe slots finds.  *)

Orders(r) == {i \in Slots : mem[i].state = "live" /\ mem[i].ref = r}

\* The k-th slot, from 0, of the window of r.
Window(r, k) == (Home[r] + k) % TableSize
Reachable(r, i) ==
  \E k \in 0 .. MaxProbe - 1 :
    /\ Window(r, k) = i
    /\ \A j \in 0 .. k - 1 : mem[Window(r, j)] # Empty

\* Every live reference is in one slot only, and a search for it gets there: no
\* clearing, reuse of a tombstone or wrap past the last slot cuts its chain off.
TableIsMap ==
  \A r \in Refs : \A i, j \in Orders(r) : i = j /\ Reachable(r, i)
=============================================================================
