----------------------------- MODULE BookEngine -----------------------------
(***************************************************************************)
(* The software matching-side book (class BookEngine of                    *)
(* sw/book/order_book.hpp): the order-reference table and one OrderBook    *)
(* per stock locate, applied one decoded ITCH message at a time.  The      *)
(* table is the partial map its interface promises, bounded by its         *)
(* capacity; OrderRefTable models how the code implements it.              *)
(*                                                                         *)
(* A handler is one action: the status it returns is computed in the order *)
(* of the code's checks, and its effect on the state depends on it.        *)
(***************************************************************************)
EXTENDS OrderBook

CONSTANTS
  RefIds,        \* order references in use; any set without NullRef
  NullRef,       \* order reference 0, never a live order
  Locates,       \* stock locate codes in use; locate 0 is never one
  RefCapacity,   \* slots of the order-reference table
  MsgQtys,       \* share quantities messages carry
  MsgPrices,     \* prices Add and Replace messages carry
  TradePrices,   \* prices executions and trades carry
  NoOrder,       \* an absent entry of the table
  NoBook         \* an absent entry of books_

ASSUME RefIdsAssumption == IsFiniteSet(RefIds) /\ NullRef \notin RefIds
ASSUME LocatesAssumption == Locates \subseteq Nat \ {0}
ASSUME RefCapacityAssumption == RefCapacity \in Nat /\ RefCapacity > 0
ASSUME MsgAssumption ==
  MsgQtys \subseteq U32 /\ MsgPrices \subseteq U32 /\ TradePrices \subseteq U32

VARIABLES
  refs,          \* refs_: order reference -> resting order
  books,         \* books_: locate -> book
  last_status,   \* last_status_: what the last apply() reported
  clean,         \* every integrity counter of ctr_ is still zero
  exec           \* the ExecResult the last apply() filled in

vars == <<refs, books, last_status, clean, exec>>

-----------------------------------------------------------------------------
(* Decoded messages.  Locate 0, side "?" and NullRef are the invalid       *)
(* values of their fields; prices and quantities include whatever invalid  *)
(* values the constants do.                                                *)

MsgRefs == RefIds \cup {NullRef}
MsgLocates == Locates \cup {0}
MsgSides == Sides \cup {"?"}

AddMsgs == [type : {"Add"}, ref : MsgRefs, locate : MsgLocates,
            side : MsgSides, price : MsgPrices, shares : MsgQtys]
ExecMsgs == [type : {"Exec"}, ref : MsgRefs, shares : MsgQtys]
ExecPriceMsgs == [type : {"ExecPrice"}, ref : MsgRefs, shares : MsgQtys,
                  price : TradePrices, printable : BOOLEAN]
CancelMsgs == [type : {"Cancel"}, ref : MsgRefs, shares : MsgQtys]
DeleteMsgs == [type : {"Delete"}, ref : MsgRefs]
ReplaceMsgs == [type : {"Replace"}, ref : MsgRefs, new_ref : MsgRefs,
                price : MsgPrices, shares : MsgQtys]
TradeMsgs == [type : {"Trade"}, locate : MsgLocates, price : TradePrices,
              shares : MsgQtys]
OtherMsgs == [type : {"System", "Unknown"}]

-----------------------------------------------------------------------------
Order == [locate : Locates, side : Sides, price : Prices,
          shares : U32 \ {0}]

Statuses == {"Ignored", "Applied", "InvalidEvent", "DuplicateReference",
             "MissingReference", "ReferenceTableFull", "ResyncRequired"}

ExecResult == [contributes : BOOLEAN, price : U32, shares : U32,
               locate : MsgLocates]

NoExec == [contributes |-> FALSE, price |-> 0, shares |-> 0, locate |-> 0]

ASSUME AbsentAssumption == NoOrder \notin Order /\ NoBook \notin Book

LiveIn(table) == {r \in RefIds : table[r] # NoOrder}
LiveRefs == LiveIn(refs)

\* insert() of a reference that is not in the table: it fails for reference
\* 0 and when every slot is taken.
CanInsert(table, r) == r \in RefIds /\ Cardinality(LiveIn(table)) < RefCapacity

Erase(table, r) == [table EXCEPT ![r] = NoOrder]
Insert(table, r, o) == [table EXCEPT ![r] = o]

\* The book get_or_make() returns; a new one is empty.
BookOf(l) == IF books[l] = NoBook THEN EmptyBook ELSE books[l]
PutBook(l, b) == [books EXCEPT ![l] = b]

\* What apply() records at its end: reject() counts everything but Ignored
\* and Applied.
Report(status) ==
  /\ last_status' = status
  /\ clean' = (clean /\ status \in {"Ignored", "Applied"})

Init ==
  /\ refs = [r \in RefIds |-> NoOrder]
  /\ books = [l \in Locates |-> NoBook]
  /\ last_status = "Ignored"
  /\ clean = TRUE
  /\ exec = NoExec

-----------------------------------------------------------------------------
ValidAdd(m) ==
  /\ m.side \in Sides /\ m.ref # NullRef /\ m.locate # 0
  /\ m.price \in Prices /\ m.shares # 0

AddStatus(m) ==
  IF ~ValidAdd(m) THEN "InvalidEvent"
  ELSE IF m.ref \in LiveRefs THEN "DuplicateReference"
  ELSE IF ~CanAdd(BookOf(m.locate), m.side, m.price, m.shares)
    THEN "InvalidEvent"
  ELSE IF ~CanInsert(refs, m.ref) THEN "ReferenceTableFull"
  ELSE "Applied"

OrderOf(m) == [locate |-> m.locate, side |-> m.side, price |-> m.price,
               shares |-> m.shares]

\* on_add.  The book is made before can_add and the table are asked, so a
\* rejected Add may leave an empty book behind.  add() asks can_add of the
\* same book once more, hence its rollback is not reached.
OnAdd(m) ==
  LET status == AddStatus(m)
      b == BookOf(m.locate)
  IN  /\ Report(status)
      /\ exec' = NoExec
      /\ refs' = IF status = "Applied" THEN Insert(refs, m.ref, OrderOf(m))
                 ELSE refs
      /\ books' = IF status = "Applied"
                  THEN PutBook(m.locate, Add(b, m.side, m.price, m.shares))
                  ELSE IF ValidAdd(m) /\ m.ref \notin LiveRefs
                  THEN PutBook(m.locate, b)
                  ELSE books

\* Taking qty shares off the live order r, in the order of the code: the
\* book first, then the table.
CanReduceBy(r, qty) ==
  CanRemove(BookOf(refs[r].locate), refs[r].side, refs[r].price, qty,
            refs[r].shares = qty)

\* Mutant of BookAfterReduce: the order count keeps an order that is gone.
BookKeepsOrderCount(r, qty) ==
  Remove(BookOf(refs[r].locate), refs[r].side, refs[r].price, qty, FALSE)

BookAfterReduce(r, qty) ==
  Remove(BookOf(refs[r].locate), refs[r].side, refs[r].price, qty,
         refs[r].shares = qty)

\* Mutant of RefsAfterReduce: a partial reduction is not written back.
RefsKeptAfterReduce(r, qty) == IF refs[r].shares = qty THEN Erase(refs, r) ELSE refs

RefsAfterReduce(r, qty) ==
  IF refs[r].shares = qty THEN Erase(refs, r)
  ELSE [refs EXCEPT ![r].shares = @ - qty]

\* Mutant of ReduceStatus: more shares than the order has are taken off.
OverReduceStatus(m) ==
  IF m.ref = NullRef \/ m.shares = 0 THEN "InvalidEvent"
  ELSE IF m.ref \notin LiveRefs THEN "MissingReference"
  ELSE IF ~CanReduceBy(m.ref, m.shares) THEN "ResyncRequired"
  ELSE "Applied"

ReduceStatus(m) ==
  IF m.ref = NullRef \/ m.shares = 0 THEN "InvalidEvent"
  ELSE IF m.ref \notin LiveRefs THEN "MissingReference"
  ELSE IF m.shares > refs[m.ref].shares THEN "InvalidEvent"
  ELSE IF ~CanReduceBy(m.ref, m.shares) THEN "ResyncRequired"
  ELSE "Applied"

\* The price and the printability of an execution: those of the message for
\* an Order Executed With Price, of the resting order otherwise.
ExecOf(m) ==
  [contributes |-> m.type = "ExecPrice" => m.printable,
   price |-> IF m.type = "ExecPrice" THEN m.price ELSE refs[m.ref].price,
   shares |-> m.shares,
   locate |-> refs[m.ref].locate]

\* on_reduce: an execution or a partial cancel.
OnReduce(m) ==
  LET status == ReduceStatus(m)
      l == refs[m.ref].locate
  IN  /\ Report(status)
      /\ exec' = IF status = "Applied" /\ m.type # "Cancel" THEN ExecOf(m)
                 ELSE NoExec
      /\ refs' = IF status = "Applied" THEN RefsAfterReduce(m.ref, m.shares)
                 ELSE refs
      /\ books' = CASE status = "Applied" ->
                         PutBook(l, BookAfterReduce(m.ref, m.shares))
                    [] status = "ResyncRequired" -> PutBook(l, BookOf(l))
                    [] OTHER -> books

DeleteStatus(m) ==
  IF m.ref \notin LiveRefs THEN "MissingReference"
  ELSE IF ~CanReduceBy(m.ref, refs[m.ref].shares) THEN "ResyncRequired"
  ELSE "Applied"

\* on_delete.
OnDelete(m) ==
  LET status == DeleteStatus(m)
      l == refs[m.ref].locate
  IN  /\ Report(status)
      /\ exec' = NoExec
      /\ refs' = IF status = "Applied" THEN Erase(refs, m.ref) ELSE refs
      /\ books' = CASE status = "Applied" ->
                         PutBook(l, BookAfterReduce(m.ref, refs[m.ref].shares))
                    [] status = "ResyncRequired" -> PutBook(l, BookOf(l))
                    [] OTHER -> books

ValidReplace(m) ==
  /\ m.new_ref # NullRef /\ m.new_ref # m.ref
  /\ m.price \in Prices /\ m.shares # 0

ReplaceStatus(m) ==
  LET old == refs[m.ref]
      b == BookOf(old.locate)
  IN  IF m.ref \notin LiveRefs THEN "MissingReference"
      ELSE IF ~ValidReplace(m) THEN "InvalidEvent"
      ELSE IF m.new_ref \in LiveRefs THEN "DuplicateReference"
      ELSE IF ~CanReplace(b, old.side, old.price, old.shares, m.price, m.shares)
        THEN "InvalidEvent"
      ELSE IF ~CanInsert(Erase(refs, m.ref), m.new_ref)
        THEN "ReferenceTableFull"
      ELSE IF ~ReplaceSucceeds(b, old.side, old.price, old.shares,
                               m.price, m.shares)
        THEN "ResyncRequired"
      ELSE "Applied"

\* on_replace.  The failed insertion and the failed book update put the old
\* entry back, the latter without undoing what replace() did to the book.
OnReplace(m) ==
  LET status == ReplaceStatus(m)
      old == refs[m.ref]
      b == BookOf(old.locate)
  IN  /\ Report(status)
      /\ exec' = NoExec
      /\ refs' = IF status = "Applied"
                 THEN Insert(Erase(refs, m.ref), m.new_ref,
                             [old EXCEPT !.price = m.price, !.shares = m.shares])
                 ELSE refs
      /\ books' = IF status \in {"Applied", "ResyncRequired"}
                  THEN PutBook(old.locate,
                               Replace(b, old.side, old.price, old.shares,
                                       m.price, m.shares))
                  ELSE IF /\ m.ref \in LiveRefs /\ ValidReplace(m)
                          /\ m.new_ref \notin LiveRefs
                  THEN PutBook(old.locate, b)
                  ELSE books

\* The cases of apply() that touch neither the table nor a book.
OnTrade(m) ==
  /\ Report("Applied")
  /\ exec' = [contributes |-> TRUE, price |-> m.price, shares |-> m.shares,
              locate |-> m.locate]
  /\ UNCHANGED <<refs, books>>

OnOther(m) ==
  /\ Report(IF m.type = "System" THEN "Applied" ELSE "Ignored")
  /\ exec' = NoExec
  /\ UNCHANGED <<refs, books>>

ReduceMsgs == ExecMsgs \cup ExecPriceMsgs \cup CancelMsgs

Next ==
  \/ \E m \in AddMsgs : OnAdd(m)
  \/ \E m \in ReduceMsgs : OnReduce(m)
  \/ \E m \in DeleteMsgs : OnDelete(m)
  \/ \E m \in ReplaceMsgs : OnReplace(m)
  \/ \E m \in TradeMsgs : OnTrade(m)
  \/ \E m \in OtherMsgs : OnOther(m)

Spec == Init /\ [][Next]_vars

-----------------------------------------------------------------------------
(* Properties. *)

\* The variables have the types the declarations give them.
TypeOK ==
  /\ refs \in [RefIds -> Order \cup {NoOrder}]
  /\ books \in [Locates -> Book \cup {NoBook}]
  /\ last_status \in Statuses
  /\ clean \in BOOLEAN
  /\ exec \in ExecResult

\* The orders of a table that rest at a level, and the shares of a set of them
\* one by one: a total of shares is the number of these units.
RestsAt(o, l, s, p) == o.locate = l /\ o.side = s /\ o.price = p
OrdersAt(table, l, s, p) == {r \in LiveIn(table) : RestsAt(table[r], l, s, p)}
SharesOf(table, rs) == UNION {{r} \X (1 .. table[r].shares) : r \in rs}

OrderCount(table, l, s, p) == Cardinality(OrdersAt(table, l, s, p))
ShareTotal(table, l, s, p) ==
  Cardinality(SharesOf(table, OrdersAt(table, l, s, p)))

\* The table and the books never drift apart: each level counts exactly the
\* live orders that rest at it and totals exactly their remaining shares, and
\* no live order rests in a book that does not exist.  Every handler keeps the
\* two structures in step by hand.
LevelsMatchRefs ==
  \A l \in Locates, s \in Sides, p \in Prices :
    /\ BookOf(l).orders[s][p] = OrderCount(refs, l, s, p)
    /\ BookOf(l).shares[s][p] = ShareTotal(refs, l, s, p)

\* The table never holds more orders than it has slots: the insertion of a
\* Replace uses the slot its erasure freed.
TableFits == Cardinality(LiveRefs) <= RefCapacity

\* The cached best prices are the highest bid and the lowest ask level that
\* hold shares, whatever levels were emptied and rescanned before.
BestIsExtreme ==
  \A l \in Locates, s \in Sides :
    BookOf(l).best[s] = BestPrice(s, BookOf(l).shares[s])

\* The engine never has to tell its caller that table and book disagree: in
\* every state, for every message, the ResyncRequired exits of the handlers and
\* the rollback of a Replace whose insertion fails are unreachable.
RollbacksUnreachable ==
  /\ \A m \in ReduceMsgs : ReduceStatus(m) # "ResyncRequired"
  /\ \A m \in DeleteMsgs : DeleteStatus(m) # "ResyncRequired"
  /\ \A m \in ReplaceMsgs :
       ReplaceStatus(m) \notin {"ReferenceTableFull", "ResyncRequired"}

\* A rejected message changes no order and no level; at most it leaves behind
\* an empty book ("...is_atomic" in sw/tests/test_book_engine.cpp).
RejectIsAtomic ==
  [][last_status' \notin {"Ignored", "Applied"} =>
       /\ refs' = refs
       /\ \A l \in Locates : BookOf(l)' = BookOf(l)]_vars

\* A message that takes shares off the table and is published to the
\* statistics took exactly the published shares, all from live orders of the
\* published locate.
ExecutionsLeaveTheBook ==
  [][exec' # NoExec /\ refs' # refs =>
       LET before == SharesOf(refs, LiveRefs)
           after  == SharesOf(refs', LiveIn(refs'))
       IN  /\ after \subseteq before
           /\ Cardinality(before \ after) = exec'.shares
           /\ \A u \in before \ after : refs[u[1]].locate = exec'.locate]_vars
=============================================================================
