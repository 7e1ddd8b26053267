------------------------- MODULE OrderManager_proofs -------------------------
(***************************************************************************)
(* Proofs about OrderManager, for every feed, every book, every own size   *)
(* and any number of own orders: one order works at most and the manager   *)
(* knows which, a round trip leaves nothing behind, and what entered is    *)
(* what leaves; and where no order fills at two levels at once, the        *)
(* position is what the fills add up to.                                   *)
(***************************************************************************)
EXTENDS OrderManager, FillEngine_proofs

-----------------------------------------------------------------------------
(* The calls that may be due. *)

\* The calls of the session by name, as todo lists them.
CallName == {"poll", "print", "settle", "buy", "sell", "exit", "cancel entry", "repeg",
             "bars", "cancel exit", "close", "end"}

\* The next call, and lists that have one more call in front.
Starts(t, c) == t # <<>> /\ Head(t) = c
Call(c, S) == {<<c>> \o t : t \in S}

\* The tails of EndCalls: what finish has still to do.
AtCancelEntry == <<"cancel entry", "cancel exit", "close", "end">>
AtCancelExit == <<"cancel exit", "close", "end">>
AtClose == <<"close", "end">>
AtEnd == <<"end">>

\* The lists by the call that is due, each from those that may follow it: the bars
\* of a print or of the end of the stream, and what on_bar, on_trade_print and
\* poll_fills put in front of them.
AtBars == {<<"bars">>, EndCalls}
AtRepeg == Call("repeg", AtBars)
AtSettle == Call("settle", AtBars \cup AtRepeg)
AtEntry == Call("buy", AtRepeg) \cup Call("sell", AtRepeg)
AtExit == Call("exit", {<<"bars">>} \cup AtRepeg)
AtCancel == Call("cancel entry", AtExit \cup AtEntry \cup AtRepeg)
AtPrint == {<<"print", "bars">>}
AtPoll == Call("poll", {<<>>} \cup AtPrint \cup AtSettle \cup AtBars \cup AtRepeg)

\* Every list the session can have.
Calls ==
  {<<>>} \cup AtBars \cup AtRepeg \cup AtSettle \cup AtEntry \cup AtExit \cup AtCancel
    \cup AtPrint \cup AtPoll \cup {AtCancelEntry, AtCancelExit, AtClose, AtEnd}

\* A list put together from a call and the calls after it.
LEMMA Pushed ==
  ASSUME NEW S, NEW c \in S, NEW x \in Seq(S)
  PROVE  /\ <<c>> \o x \in Seq(S) /\ <<c>> \o x # <<>>
         /\ Head(<<c>> \o x) = c /\ Tail(<<c>> \o x) = x
OBVIOUS

\* Two calls in front of a list, as submit_entry and FiringExit put them.
LEMMA PushedTwo ==
  ASSUME NEW S, NEW c \in S, NEW d \in S, NEW x \in Seq(S)
  PROVE  <<c, d>> \o x = <<c>> \o (<<d>> \o x)
<1>1. <<c>> \in Seq(S) /\ <<d>> \in Seq(S) /\ <<c, d>> \in Seq(S)
  OBVIOUS
<1>2. <<c>> \o <<d>> = <<c, d>>
  <2>1. PICK u, v : u = <<c>> \o <<d>> /\ v = <<c, d>>
    OBVIOUS
  <2>2. /\ u \in Seq(S) /\ Len(u) = 2 /\ u[1] = c /\ u[2] = d
        /\ v \in Seq(S) /\ Len(v) = 2 /\ v[1] = c /\ v[2] = d
    <3>1. Len(<<c>>) = 1 /\ Len(<<d>>) = 1 /\ Len(<<c, d>>) = 2
      OBVIOUS
    <3>2. <<c>> \o <<d>> \in Seq(S) /\ Len(<<c>> \o <<d>>) = 2
      BY <1>1, <3>1, ConcatProperties
    <3>3. (<<c>> \o <<d>>)[1] = c /\ (<<c>> \o <<d>>)[2] = d
      OBVIOUS
    <3>4. <<c, d>>[1] = c /\ <<c, d>>[2] = d
      OBVIOUS
    <3> QED
      BY <1>1, <2>1, <3>1, <3>2, <3>3, <3>4, Zenon
  <2>3. \A i \in 1 .. Len(u) : u[i] = v[i]
    BY <2>2
  <2>4. u = v
    BY <2>2, <2>3, SeqEqual
  <2> QED
    BY <2>1, <2>4
<1>3. (<<c>> \o <<d>>) \o x = <<c>> \o (<<d>> \o x)
  BY <1>1, ConcatAssociative
<1> QED
  BY <1>2, <1>3

\* The first call of a list and those after it.
LEMMA CallFacts ==
  ASSUME NEW c \in CallName, NEW S, S \subseteq Seq(CallName), NEW t \in Call(c, S)
  PROVE  t \in Seq(CallName) /\ Starts(t, c) /\ Tail(t) \in S /\ t = <<c>> \o Tail(t)
<1>1. PICK x \in S : t = <<c>> \o x
  BY DEF Call
<1>2. x \in Seq(CallName)
  BY <1>1
<1>3. t \in Seq(CallName) /\ t # <<>> /\ Head(t) = c /\ Tail(t) = x
  BY <1>1, <1>2, Pushed, Zenon
<1> QED
  BY <1>1, <1>3 DEF Starts

\* The calls by name.
LEMMA NamesOfCalls ==
  /\ "poll" \in CallName /\ "print" \in CallName /\ "settle" \in CallName
  /\ "buy" \in CallName /\ "sell" \in CallName /\ "exit" \in CallName
  /\ "cancel entry" \in CallName /\ "repeg" \in CallName /\ "bars" \in CallName
  /\ "cancel exit" \in CallName /\ "close" \in CallName /\ "end" \in CallName
BY DEF CallName

\* Short lists of calls, by their elements.
LEMMA OneCall ==
  ASSUME NEW S, NEW a \in S
  PROVE  <<a>> \in Seq(S) /\ <<a>> # <<>> /\ Head(<<a>>) = a /\ Tail(<<a>>) = <<>>
OBVIOUS

LEMMA TwoCalls ==
  ASSUME NEW S, NEW a \in S, NEW b \in S
  PROVE  /\ <<a, b>> \in Seq(S) /\ <<a, b>> # <<>>
         /\ Head(<<a, b>>) = a /\ Tail(<<a, b>>) = <<b>>
OBVIOUS

LEMMA ThreeCalls ==
  ASSUME NEW S, NEW a \in S, NEW b \in S, NEW c \in S
  PROVE  /\ <<a, b, c>> \in Seq(S) /\ <<a, b, c>> # <<>>
         /\ Head(<<a, b, c>>) = a /\ Tail(<<a, b, c>>) = <<b, c>>
OBVIOUS

\* The lists of calls that are written out.
LEMMA FixedLists ==
  /\ <<"bars">> \in Seq(CallName) /\ <<"bars">> # <<>>
  /\ Head(<<"bars">>) = "bars" /\ Tail(<<"bars">>) = <<>>
  /\ <<"print", "bars">> \in Seq(CallName) /\ <<"print", "bars">> # <<>>
  /\ Head(<<"print", "bars">>) = "print" /\ Tail(<<"print", "bars">>) = <<"bars">>
  /\ EndCalls \in Seq(CallName) /\ EndCalls # <<>>
  /\ Head(EndCalls) = "bars" /\ Tail(EndCalls) = AtCancelEntry
  /\ AtCancelEntry \in Seq(CallName) /\ AtCancelEntry # <<>>
  /\ Head(AtCancelEntry) = "cancel entry" /\ Tail(AtCancelEntry) = AtCancelExit
  /\ AtCancelExit \in Seq(CallName) /\ AtCancelExit # <<>>
  /\ Head(AtCancelExit) = "cancel exit" /\ Tail(AtCancelExit) = AtClose
  /\ AtClose \in Seq(CallName) /\ AtClose # <<>>
  /\ Head(AtClose) = "close" /\ Tail(AtClose) = AtEnd
  /\ AtEnd \in Seq(CallName) /\ AtEnd # <<>>
  /\ Head(AtEnd) = "end" /\ Tail(AtEnd) = <<>>
<1>1. /\ <<"bars">> \in Seq(CallName) /\ <<"bars">> # <<>>
      /\ Head(<<"bars">>) = "bars" /\ Tail(<<"bars">>) = <<>>
  BY NamesOfCalls, OneCall, Zenon
<1>2. /\ <<"print", "bars">> \in Seq(CallName) /\ <<"print", "bars">> # <<>>
      /\ Head(<<"print", "bars">>) = "print" /\ Tail(<<"print", "bars">>) = <<"bars">>
  BY NamesOfCalls, TwoCalls, Zenon
<1>3. /\ EndCalls \in Seq(CallName) /\ EndCalls # <<>>
      /\ Head(EndCalls) = "bars" /\ Tail(EndCalls) = AtCancelEntry
  <2>1. PICK a, b, c, d, e \in CallName :
             a = "bars" /\ b = "cancel entry" /\ c = "cancel exit" /\ d = "close" /\ e = "end"
    BY NamesOfCalls, Zenon
  <2>2. /\ <<a, b, c, d, e>> \in Seq(CallName) /\ <<a, b, c, d, e>> # <<>>
        /\ Head(<<a, b, c, d, e>>) = a /\ Tail(<<a, b, c, d, e>>) = <<b, c, d, e>>
    OBVIOUS
  <2> QED
    BY <2>1, <2>2, Zenon DEF EndCalls, AtCancelEntry
<1>4. /\ AtCancelEntry \in Seq(CallName) /\ AtCancelEntry # <<>>
      /\ Head(AtCancelEntry) = "cancel entry" /\ Tail(AtCancelEntry) = AtCancelExit
  <2>1. PICK a, b, c, d \in CallName :
             a = "cancel entry" /\ b = "cancel exit" /\ c = "close" /\ d = "end"
    BY NamesOfCalls, Zenon
  <2>2. /\ <<a, b, c, d>> \in Seq(CallName) /\ <<a, b, c, d>> # <<>>
        /\ Head(<<a, b, c, d>>) = a /\ Tail(<<a, b, c, d>>) = <<b, c, d>>
    OBVIOUS
  <2> QED
    BY <2>1, <2>2, Zenon DEF AtCancelEntry, AtCancelExit
<1>5. /\ AtCancelExit \in Seq(CallName) /\ AtCancelExit # <<>>
      /\ Head(AtCancelExit) = "cancel exit" /\ Tail(AtCancelExit) = AtClose
  <2>1. PICK a, b, c \in CallName : a = "cancel exit" /\ b = "close" /\ c = "end"
    BY NamesOfCalls, Zenon
  <2>2. /\ <<a, b, c>> \in Seq(CallName) /\ <<a, b, c>> # <<>>
        /\ Head(<<a, b, c>>) = a /\ Tail(<<a, b, c>>) = <<b, c>>
    BY ThreeCalls
  <2> QED
    BY <2>1, <2>2, Zenon DEF AtCancelExit, AtClose
<1>6. /\ AtClose \in Seq(CallName) /\ AtClose # <<>>
      /\ Head(AtClose) = "close" /\ Tail(AtClose) = AtEnd
  BY NamesOfCalls, TwoCalls, Zenon DEF AtClose, AtEnd
<1>7. /\ AtEnd \in Seq(CallName) /\ AtEnd # <<>>
      /\ Head(AtEnd) = "end" /\ Tail(AtEnd) = <<>>
  BY NamesOfCalls, OneCall, Zenon DEF AtEnd
<1> QED
  BY <1>1, <1>2, <1>3, <1>4, <1>5, <1>6, <1>7

\* After the bars (the loop over completed bars) comes the next message or finish.
LEMMA BarsShape ==
  ASSUME NEW t \in AtBars
  PROVE  t \in Seq(CallName) /\ Starts(t, "bars") /\ Tail(t) \in {<<>>, AtCancelEntry}
BY FixedLists, Zenon DEF AtBars, Starts

\* After the end of on_bar comes the next completed bar.
LEMMA RepegShape ==
  /\ AtBars \subseteq Seq(CallName) /\ AtRepeg \subseteq Seq(CallName)
  /\ \A t \in AtRepeg : Starts(t, "repeg") /\ Tail(t) \in AtBars
<1>1. AtBars \subseteq Seq(CallName)
  BY BarsShape
<1>2. \A t \in AtRepeg : t \in Seq(CallName) /\ Starts(t, "repeg") /\ Tail(t) \in AtBars
  BY <1>1, CallFacts, NamesOfCalls DEF AtRepeg
<1> QED
  BY <1>1, <1>2

\* After a submission (submit_entry) comes what was left of on_bar.
LEMMA SettleShape ==
  /\ AtSettle \subseteq Seq(CallName)
  /\ \A t \in AtSettle : Starts(t, "settle") /\ Tail(t) \in AtBars \cup AtRepeg
<1>1. AtBars \cup AtRepeg \subseteq Seq(CallName)
  BY RepegShape
<1> QED
  BY <1>1, CallFacts, NamesOfCalls DEF AtSettle

\* After an entry (submit_entry) comes the end of on_bar.
LEMMA EntryShape ==
  /\ AtEntry \subseteq Seq(CallName)
  /\ \A t \in AtEntry : (Starts(t, "buy") \/ Starts(t, "sell")) /\ Tail(t) \in AtRepeg
<1>1. AtRepeg \subseteq Seq(CallName)
  BY RepegShape
<1>2. \A t \in Call("buy", AtRepeg) :
        t \in Seq(CallName) /\ Starts(t, "buy") /\ Tail(t) \in AtRepeg
  BY <1>1, CallFacts, NamesOfCalls
<1>3. \A t \in Call("sell", AtRepeg) :
        t \in Seq(CallName) /\ Starts(t, "sell") /\ Tail(t) \in AtRepeg
  BY <1>1, CallFacts, NamesOfCalls
<1> QED
  BY <1>2, <1>3 DEF AtEntry

\* After an exit (submit_exit) come the bars, or the end of on_bar.
LEMMA ExitShape ==
  /\ AtExit \subseteq Seq(CallName)
  /\ \A t \in AtExit : Starts(t, "exit") /\ Tail(t) \in AtBars \cup AtRepeg
<1>1. {<<"bars">>} \cup AtRepeg \subseteq Seq(CallName)
  BY RepegShape DEF AtBars
<1>2. \A t \in AtExit : /\ t \in Seq(CallName) /\ Starts(t, "exit")
                       /\ Tail(t) \in {<<"bars">>} \cup AtRepeg
  BY <1>1, CallFacts, NamesOfCalls DEF AtExit
<1> QED
  BY <1>2 DEF AtBars

\* After cancel_working_entry comes an exit, an entry or the end of on_bar.
LEMMA CancelShape ==
  /\ AtCancel \subseteq Seq(CallName)
  /\ \A t \in AtCancel : /\ Starts(t, "cancel entry")
                         /\ Tail(t) \in AtExit \cup AtEntry \cup AtRepeg
<1>1. AtExit \cup AtEntry \cup AtRepeg \subseteq Seq(CallName)
  BY RepegShape, ExitShape, EntryShape
<1> QED
  BY <1>1, CallFacts, NamesOfCalls DEF AtCancel

\* After poll_fills comes what was to be done when it was called.
LEMMA PollShape ==
  /\ AtPoll \subseteq Seq(CallName)
  /\ \A t \in AtPoll : /\ Starts(t, "poll")
                       /\ Tail(t) \in {<<>>} \cup AtPrint \cup AtSettle \cup AtBars \cup AtRepeg
<1>1. PICK S : S = {<<>>} \cup AtPrint \cup AtSettle \cup AtBars \cup AtRepeg
  OBVIOUS
<1>2. S \subseteq Seq(CallName)
  <2>1. <<>> \in Seq(CallName)
    OBVIOUS
  <2>2. AtPrint \subseteq Seq(CallName)
    BY FixedLists, Zenon DEF AtPrint
  <2> QED
    BY <1>1, <2>1, <2>2, RepegShape, SettleShape
<1>3. AtPoll = Call("poll", S)
  BY <1>1 DEF AtPoll
<1>4. \A t \in Call("poll", S) :
        t \in Seq(CallName) /\ Starts(t, "poll") /\ Tail(t) \in S
  BY <1>2, CallFacts, NamesOfCalls
<1> QED
  BY <1>1, <1>3, <1>4

\* What finish does in order, and what follows a print (on_trade_print).
LEMMA FixedShape ==
  /\ Starts(AtCancelEntry, "cancel entry") /\ Tail(AtCancelEntry) = AtCancelExit
  /\ Starts(AtCancelExit, "cancel exit") /\ Tail(AtCancelExit) = AtClose
  /\ Starts(AtClose, "close") /\ Tail(AtClose) = AtEnd
  /\ Starts(AtEnd, "end")
  /\ {AtCancelEntry, AtCancelExit, AtClose, AtEnd} \subseteq Seq(CallName)
  /\ \A t \in AtPrint : /\ t \in Seq(CallName) /\ Starts(t, "print")
                        /\ Tail(t) = <<"bars">>
BY FixedLists, Zenon DEF Starts, AtPrint

\* What may follow the call that is due.
Due(t) ==
  /\ t \in Seq(CallName)
  /\ Starts(t, "poll") =>
       Tail(t) \in {<<>>} \cup AtPrint \cup AtSettle \cup AtBars \cup AtRepeg
  /\ Starts(t, "print") => Tail(t) = <<"bars">>
  /\ Starts(t, "settle") => Tail(t) \in AtBars \cup AtRepeg
  /\ Starts(t, "buy") \/ Starts(t, "sell") => Tail(t) \in AtRepeg
  /\ Starts(t, "exit") => Tail(t) \in AtBars \cup AtRepeg
  /\ Starts(t, "cancel entry") =>
       Tail(t) \in AtExit \cup AtEntry \cup AtRepeg \cup {AtCancelExit}
  /\ Starts(t, "repeg") => Tail(t) \in AtBars
  /\ Starts(t, "bars") => t \in AtBars /\ Tail(t) \in {<<>>, AtCancelEntry}
  /\ Starts(t, "cancel exit") => Tail(t) = AtClose
  /\ Starts(t, "close") => Tail(t) = AtEnd

\* Whatever call is due, the calls after it are those of the source.
LEMMA DueIs ==
  ASSUME NEW t \in Calls
  PROVE  Due(t)
<1>1. CASE t = <<>>
  BY <1>1 DEF Due, Starts
<1>2. CASE t \in AtBars
  BY <1>2, BarsShape DEF Due, Starts
<1>3. CASE t \in AtRepeg
  BY <1>3, RepegShape DEF Due, Starts
<1>4. CASE t \in AtSettle
  BY <1>4, SettleShape DEF Due, Starts
<1>5. CASE t \in AtEntry
  BY <1>5, EntryShape DEF Due, Starts
<1>6. CASE t \in AtExit
  BY <1>6, ExitShape DEF Due, Starts
<1>7. CASE t \in AtCancel
  BY <1>7, CancelShape DEF Due, Starts
<1>8. CASE t \in AtPrint
  BY <1>8, FixedShape DEF Due, Starts
<1>9. CASE t \in AtPoll
  BY <1>9, PollShape DEF Due, Starts
<1>10. CASE t \in {AtCancelEntry, AtCancelExit, AtClose, AtEnd}
  BY <1>10, FixedShape DEF Due, Starts
<1> QED
  BY <1>1, <1>2, <1>3, <1>4, <1>5, <1>6, <1>7, <1>8, <1>9, <1>10 DEF Calls

-----------------------------------------------------------------------------
(* What fills report and what rests of the own order. *)

\* The shares fills report, and what rests of the only order.
Reported(fs) == SumOver(Shares(fs), DOMAIN fs)
Resting(os) == IF os = <<>> THEN 0 ELSE os[1].remaining

\* The fields of a fill.
LEMMA FillIs ==
  ASSUME NEW f \in Fill
  PROVE  /\ f.ref \in Nat \ {0} /\ f.side \in Sides /\ f.shares \in U32 /\ f.shares # 0
         /\ f.shares \in Nat
BY MaxU32Assumption DEF Fill, U32

\* The shares that fills report, one by one.
LEMMA SharesType ==
  ASSUME NEW fs \in Seq(Fill)
  PROVE  /\ Len(fs) \in Nat /\ DOMAIN fs = 1 .. Len(fs) /\ IsFiniteSet(DOMAIN fs)
         /\ DOMAIN Shares(fs) = DOMAIN fs
         /\ \A k \in DOMAIN fs :
              /\ Shares(fs)[k] = fs[k].shares /\ Shares(fs)[k] \in Nat /\ fs[k] \in Fill
              /\ fs[k].shares # 0 /\ fs[k].shares \in Nat
         /\ Reported(fs) \in Nat
<1>1. Len(fs) \in Nat /\ DOMAIN fs = 1 .. Len(fs) /\ \A k \in DOMAIN fs : fs[k] \in Fill
  OBVIOUS
<1>2. IsFiniteSet(DOMAIN fs)
  BY <1>1, FS_Interval
<1>3. /\ DOMAIN Shares(fs) = DOMAIN fs
      /\ \A k \in DOMAIN fs : Shares(fs)[k] = fs[k].shares
  BY DEF Shares
<1>4. \A k \in DOMAIN fs : fs[k].shares # 0 /\ fs[k].shares \in Nat
  BY <1>1, FillIs
<1>5. Reported(fs) \in Nat
  BY <1>2, <1>3, <1>4, SumType DEF Reported
<1> QED
  BY <1>1, <1>2, <1>3, <1>4, <1>5

\* No fill reports nothing.
LEMMA ReportedNone == Reported(<<>>) = 0
<1>1. DOMAIN <<>> = {}
  OBVIOUS
<1> QED
  BY <1>1, SumEmpty DEF Reported

\* One fill reports its shares.
LEMMA ReportedOne ==
  ASSUME NEW fs \in Seq(Fill), Len(fs) = 1
  PROVE  Reported(fs) = fs[1].shares
<1>1. /\ DOMAIN fs = 1 .. 1 /\ 1 .. 1 = {1} /\ IsFiniteSet(DOMAIN fs)
      /\ \A k \in DOMAIN fs : Shares(fs)[k] \in Nat
      /\ Shares(fs)[1] = fs[1].shares /\ fs[1].shares \in Nat
  BY SharesType
<1>2. SumOver(Shares(fs), {1}) = SumOver(Shares(fs), {1} \ {1}) + Shares(fs)[1]
  BY <1>1, SumWith
<1>3. {1} \ {1} = {}
  OBVIOUS
<1>4. SumOver(Shares(fs), {}) = 0
  BY SumEmpty
<1>5. SumOver(Shares(fs), {1}) = fs[1].shares
  <2>1. SumOver(Shares(fs), {1} \ {1}) = 0
    BY <1>3, <1>4, Zenon
  <2>2. PICK f : f = Shares(fs)
    OBVIOUS
  <2>3. PICK x \in Nat : x = fs[1].shares
    BY <1>1
  <2>4. SumOver(f, {1}) = 0 + x
    BY <1>1, <1>2, <2>1, <2>2, <2>3, Zenon
  <2>5. 0 + x = x
    OBVIOUS
  <2> QED
    BY <2>2, <2>3, <2>4, <2>5, Zenon
<1> QED
  BY <1>1, <1>5, Zenon DEF Reported

\* The first fill is taken off the list (poll_fills).
LEMMA ReportedHead ==
  ASSUME NEW fs \in Seq(Fill), fs # <<>>
  PROVE  /\ Head(fs) = fs[1] /\ Head(fs) \in Fill /\ Tail(fs) \in Seq(Fill)
         /\ Len(Tail(fs)) = Len(fs) - 1
         /\ \A k \in DOMAIN Tail(fs) : k + 1 \in DOMAIN fs /\ Tail(fs)[k] = fs[k + 1]
         /\ Reported(fs) = Head(fs).shares + Reported(Tail(fs))
<1>1. /\ Len(fs) \in Nat /\ Len(fs) >= 1 /\ 1 \in DOMAIN fs
      /\ Head(fs) = fs[1] /\ Head(fs) \in Fill /\ Tail(fs) \in Seq(Fill)
      /\ Len(Tail(fs)) = Len(fs) - 1
      /\ \A k \in DOMAIN Tail(fs) : k + 1 \in DOMAIN fs /\ Tail(fs)[k] = fs[k + 1]
  OBVIOUS
<1>2. PICK ts \in Seq(Fill) : ts = Tail(fs)
  BY <1>1
<1>3. /\ DOMAIN fs = 1 .. Len(fs) /\ IsFiniteSet(DOMAIN fs)
      /\ \A k \in DOMAIN fs : Shares(fs)[k] \in Nat /\ Shares(fs)[k] = fs[k].shares
  BY SharesType
<1>4. /\ DOMAIN ts = 1 .. Len(fs) - 1
      /\ \A k \in DOMAIN ts : Shares(ts)[k] = ts[k].shares
  BY <1>1, <1>2, SharesType
<1>5. /\ SumOver(Shares(fs), DOMAIN fs)
           = SumOver(Shares(fs), DOMAIN fs \ {1}) + Shares(fs)[1]
      /\ IsFiniteSet(DOMAIN fs \ {1})
  BY <1>1, <1>3, SumWith
<1>6. SumOver(Shares(ts), DOMAIN ts) = SumOver(Shares(fs), DOMAIN fs \ {1})
  <2>1. PICK pos : pos = [k \in DOMAIN ts |-> k + 1]
    OBVIOUS
  <2>2. pos \in [DOMAIN ts -> DOMAIN fs \ {1}]
    BY <1>1, <1>3, <1>4, <2>1
  <2>3. \A k \in DOMAIN ts : Shares(ts)[k] = Shares(fs)[pos[k]]
    BY <1>1, <1>2, <1>3, <1>4, <2>1
  <2>4. \A k, l \in DOMAIN ts : pos[k] = pos[l] => k = l
    BY <1>4, <2>1
  <2>5. \A x \in DOMAIN fs \ {1} : \E k \in DOMAIN ts : pos[k] = x
    <3>1. ASSUME NEW x \in DOMAIN fs \ {1}
          PROVE  x - 1 \in DOMAIN ts /\ pos[x - 1] = x
      BY <1>1, <1>3, <1>4, <2>1
    <3> QED
      BY <3>1
  <2>6. \A x \in DOMAIN fs \ {1} : Shares(fs)[x] \in Nat
    BY <1>3
  <2> QED
    BY <1>5, <2>2, <2>3, <2>4, <2>5, <2>6, SumRenamed
<1>7. Reported(fs) = fs[1].shares + Reported(ts)
  <2>1. SumOver(Shares(ts), DOMAIN ts) \in Nat /\ Shares(fs)[1] \in Nat
    BY <1>1, <1>3, SharesType DEF Reported
  <2> QED
    BY <1>1, <1>3, <1>5, <1>6, <2>1 DEF Reported
<1> QED
  BY <1>1, <1>2, <1>7

\* Nothing of a list is kept.
LEMMA KeepNone ==
  ASSUME NEW s
  PROVE  Keep(s, {}) = <<>>
<1>1. PICK u : u = Keep(s, {})
  OBVIOUS
<1>2. 1 \in Nat /\ {} \in SUBSET (1 .. 1)
  OBVIOUS
<1>3. u \in Seq({s[i] : i \in {}}) /\ \E pos : Lists(u, s, {}, pos)
  BY <1>1, <1>2, KeepNames
<1>4. PICK pos : pos \in [1 .. Len(u) -> {}]
  BY <1>3 DEF Lists
<1>5. Len(u) = 0
  BY <1>3, <1>4
<1> QED
  BY <1>1, <1>3, <1>5

\* One element of a list is kept.
LEMMA KeepOnly ==
  ASSUME NEW s
  PROVE  Len(Keep(s, {1})) = 1 /\ Keep(s, {1})[1] = s[1]
<1>1. PICK u : u = Keep(s, {1})
  OBVIOUS
<1>2. 1 \in Nat /\ {1} \in SUBSET (1 .. 1)
  OBVIOUS
<1>3. u \in Seq({s[i] : i \in {1}}) /\ \E pos : Lists(u, s, {1}, pos)
  BY <1>1, <1>2, KeepNames
<1>4. PICK pos : /\ pos \in [1 .. Len(u) -> {1}]
                 /\ \A j, k \in 1 .. Len(u) : j < k => pos[j] < pos[k]
                 /\ \A i \in {1} : \E k \in 1 .. Len(u) : pos[k] = i
                 /\ \A k \in 1 .. Len(u) : u[k] = s[pos[k]]
  BY <1>3 DEF Lists
<1>5. Len(u) \in Nat
  BY <1>3
<1>6. Len(u) >= 1
  BY <1>4, <1>5
<1>7. ~(Len(u) >= 2)
  <2>1. SUFFICES ASSUME Len(u) >= 2 PROVE FALSE
    OBVIOUS
  <2>2. 1 \in 1 .. Len(u) /\ 2 \in 1 .. Len(u)
    BY <1>5, <2>1
  <2>3. pos[1] = 1 /\ pos[2] = 1 /\ pos[1] < pos[2]
    BY <1>4, <2>2
  <2> QED
    BY <2>3
<1>8. Len(u) = 1
  <2>1. PICK n \in Nat : n = Len(u)
    BY <1>5
  <2>2. n >= 1 /\ ~(n >= 2)
    BY <1>6, <1>7, <2>1
  <2>3. n = 1
    BY <2>2
  <2> QED
    BY <2>1, <2>3
<1> QED
  BY <1>1, <1>4, <1>8

\* A list of one.
LEMMA OneElement ==
  ASSUME NEW S, NEW s \in Seq(S), Len(s) = 1
  PROVE  s # <<>> /\ DOMAIN s = {1}
<1>1. DOMAIN s = 1 .. 1
  OBVIOUS
<1>2. s # <<>>
  OBVIOUS
<1>3. 1 .. 1 = {1}
  OBVIOUS
<1> QED
  BY <1>1, <1>2, <1>3, Zenon

\* Lists of the same positions are of one length.
LEMMA SameLength ==
  ASSUME NEW m \in Nat, NEW n \in Nat, 1 .. m = 1 .. n
  PROVE  m = n
<1>1. m \in 1 .. m \/ m = 0
  OBVIOUS
<1>2. n \in 1 .. n \/ n = 0
  OBVIOUS
<1>3. m \in 1 .. n \/ m = 0
  BY <1>1
<1>4. n \in 1 .. m \/ n = 0
  BY <1>2
<1>5. m <= n /\ n <= m
  BY <1>3, <1>4
<1> QED
  BY <1>5
-----------------------------------------------------------------------------
(* What the market does to the own order when there is one. *)

\* What open and fills are then, for one order before.
OneKept ==
  /\ Len(open') <= 1
  /\ \A k \in DOMAIN open' : open # <<>> /\ open'[k].ref = open[1].ref /\ open'[k].side = open[1].side
  /\ \A k \in DOMAIN fills' :
       open # <<>> /\ fills'[k].ref = open[1].ref /\ fills'[k].side = open[1].side
  /\ Len(fills') <= 1
  /\ Reported(fills') + Resting(open') = Resting(open)

\* The own order, if there is one.
LEMMA OneIs ==
  ASSUME FillTypeOK, Len(open) <= 1
  PROVE  \/ open = <<>> /\ Len(open) = 0 /\ DOMAIN open = {} /\ Resting(open) = 0
         \/ /\ open # <<>> /\ Len(open) = 1 /\ DOMAIN open = {1}
            /\ Resting(open) = open[1].remaining /\ open[1].remaining \in Nat
            /\ open[1].remaining # 0 /\ open[1].remaining <= MaxU32
            /\ open[1] \in OwnOrder
<1>1. Len(open) \in Nat /\ DOMAIN open = 1 .. Len(open) /\ open \in Seq(OwnOrder)
  BY OwnType, TypeIs
<1>2. CASE Len(open) = 0
  <2>1. open = <<>>
    BY <1>1, <1>2
  <2> QED
    BY <1>1, <1>2, <2>1 DEF Resting
<1>3. CASE Len(open) = 1
  <2>1. open # <<>> /\ DOMAIN open = {1}
    BY <1>1, <1>3, OneElement
  <2>2. /\ open[1] \in OwnOrder /\ open[1].remaining \in U32 \ {0}
        /\ open[1].remaining \in Nat
    BY <2>1, OwnType
  <2>3. open[1].remaining <= MaxU32
    BY <2>2, MaxU32Assumption DEF U32
  <2> QED
    BY <1>3, <2>1, <2>2, <2>3 DEF Resting
<1> QED
  <2>1. Len(open) = 0 \/ Len(open) = 1
    BY <1>1
  <2> QED
    BY <1>2, <1>3, <2>1

\* Nothing happens to it.
LEMMA NoEffectOne ==
  ASSUME FillTypeOK, NoEffect, Len(open) <= 1
  PROVE  OneKept
<1>1. open' = open /\ fills' = <<>> /\ DOMAIN fills' = {} /\ Len(fills') = 0
  BY DEF NoEffect
<1>2. Reported(fills') = 0
  BY <1>1, ReportedNone
<1>3. Resting(open') = Resting(open) /\ Resting(open) \in Nat
  BY <1>1, OneIs DEF Resting
<1>4. \A k \in DOMAIN open : open # <<>> /\ k = 1
  BY OneIs
<1> QED
  BY <1>1, <1>2, <1>3, <1>4 DEF OneKept

\* A removal only moves it up its queue.
LEMMA RemovedOne ==
  ASSUME FillTypeOK, OwnSound, NEW r, NEW side, NEW price, NEW x \in Nat,
         RemovedFrom(r, side, price, x), Len(open) <= 1
  PROVE  OneKept
<1>1. /\ open' \in Seq(OwnOrder) /\ SameOrders(open') /\ fills' = <<>>
      /\ Remaining(open') = Remaining(open)
  BY RemovedStep
<1>2. /\ DOMAIN open' = DOMAIN open
      /\ \A i \in DOMAIN open : open'[i].ref = open[i].ref /\ open'[i].side = open[i].side
  BY <1>1 DEF SameOrders
<1>3. Reported(fills') = 0 /\ DOMAIN fills' = {} /\ Len(fills') = 0
  BY <1>1, ReportedNone
<1>4. Len(open') = Len(open)
  <2>1. Len(open') \in Nat /\ DOMAIN open' = 1 .. Len(open') /\ DOMAIN open = 1 .. Len(open)
        /\ Len(open) \in Nat
    BY <1>1, OwnType
  <2>2. 1 .. Len(open') = 1 .. Len(open)
    BY <1>2, <2>1
  <2> QED
    BY <2>1, <2>2, SameLength
<1>5. Resting(open') = Resting(open) /\ Resting(open) \in Nat
  <2>1. CASE open = <<>>
    <3>1. open' = <<>>
      BY <1>1, <1>4, <2>1
    <3> QED
      BY <2>1, <3>1 DEF Resting
  <2>2. CASE open # <<>>
    <3>1. 1 \in DOMAIN open /\ open' # <<>> /\ Resting(open) = open[1].remaining
          /\ open[1].remaining \in Nat
      BY <1>2, <2>2, OneIs
    <3>2. Remaining(open')[1] = open'[1].remaining /\ Remaining(open)[1] = open[1].remaining
      BY <1>2, <3>1 DEF Remaining
    <3> QED
      BY <1>1, <3>1, <3>2 DEF Resting
  <2> QED
    BY <2>1, <2>2
<1>6. \A k \in DOMAIN open : open # <<>> /\ k = 1
  BY OneIs
<1> QED
  BY <1>2, <1>3, <1>4, <1>5, <1>6 DEF OneKept

\* What an execution leaves of it, and reports, when it gets g shares.
LEMMA ExecutedOne ==
  ASSUME FillTypeOK, OwnSound, NEW r, NEW side \in Sides, NEW price \in Nat,
         NEW q \in Nat, Executed(r, side, price, q), Len(open) <= 1
  PROVE  OneKept
<1>1. PICK after, stay, rec, A, B :
        /\ after = AfterExec(r, side, price, q) /\ stay = Staying(r, side, price, q)
        /\ rec = FillRecords(r, side, price, q)
        /\ A = Served(r, side, price, q, SuperiorOnes(side, price))
        /\ B = Served(r, side, price, q, LevelOnes(side, price))
  OBVIOUS
<1>2. open' = Keep(after, stay) /\ fills' = Keep(rec, A) \o Keep(rec, B)
  BY <1>1, ExecutedIs
<1>3. open' \in Seq(OwnOrder) /\ fills' \in Seq(Fill)
  BY ExecutedStep
<1>4. CASE open = <<>>
  <2>1. stay = {} /\ A = {} /\ B = {}
    BY <1>1, <1>4 DEF Staying, Served, SuperiorOnes, LevelOnes
  <2>2. open' = <<>> /\ Keep(rec, A) = <<>> /\ Keep(rec, B) = <<>>
    BY <1>2, <2>1, KeepNone
  <2>3. fills' = <<>>
    BY <1>2, <2>2
  <2>4. Reported(fills') = 0 /\ Resting(open') = 0 /\ Resting(open) = 0
    BY <1>4, <2>2, <2>3, ReportedNone DEF Resting
  <2> QED
    BY <2>2, <2>3, <2>4 DEF OneKept
<1>5. CASE open # <<>>
  <2>1. /\ DOMAIN open = {1} /\ Resting(open) = open[1].remaining
        /\ open[1].remaining \in Nat /\ 1 \in DOMAIN open
    BY <1>5, OneIs
  <2>2. PICK g \in Nat : g = Got(r, side, price, q, 1)
    BY <2>1, GotType
  <2>3. g <= open[1].remaining
    BY <2>1, <2>2, GotType
  <2>4. /\ SameOrders(after) /\ after[1].remaining = open[1].remaining - g
        /\ stay \in SUBSET {1}
        /\ 1 \in stay <=> open[1].remaining - g # 0
    <3>1. stay = {i \in DOMAIN open : after[i].remaining # 0}
      BY <1>1 DEF Staying
    <3>2. SameOrders(after) /\ after[1].remaining = open[1].remaining - g
      BY <1>1, <2>1, <2>2, AfterExecType
    <3> QED
      BY <2>1, <3>1, <3>2
  <2>5. after[1].ref = open[1].ref /\ after[1].side = open[1].side
    BY <2>1, <2>4 DEF SameOrders
  <2>6. /\ rec[1].ref = open[1].ref /\ rec[1].side = side /\ rec[1].shares = g
    <3>1. rec[1] = FillRec(open[1].ref, side, open[1].price, g, TRUE)
      BY <1>1, <2>1, <2>2 DEF FillRecords
    <3> QED
      BY <3>1 DEF FillRec
  <2>7. /\ A \in SUBSET {1} /\ B \in SUBSET {1}
        /\ 1 \in A <=> 1 \in SuperiorOnes(side, price) /\ g # 0
        /\ 1 \in B <=> 1 \in LevelOnes(side, price) /\ g # 0
    BY <1>1, <2>1, <2>2 DEF Served, SuperiorOnes, LevelOnes
  <2>8. 1 \in LevelOnes(side, price) => 1 \notin SuperiorOnes(side, price)
    BY <2>1, AheadOnesAre
  <2>9. g # 0 => 1 \in SuperiorOnes(side, price) \/ 1 \in LevelOnes(side, price)
    BY <2>1, <2>2 DEF Got, Through, AheadOnes, BehindOnes
  <2>10. 1 \in SuperiorOnes(side, price) \/ 1 \in LevelOnes(side, price)
           => open[1].side = side
    BY DEF SuperiorOnes, LevelOnes, SameLevel
  <2>11. /\ Len(open') <= 1 /\ Resting(open') = open[1].remaining - g
         /\ \A k \in DOMAIN open' : open'[k].ref = open[1].ref /\ open'[k].side = open[1].side
    <3>1. CASE 1 \in stay
      <4>1. stay = {1}
        BY <2>4, <3>1
      <4>2. Len(open') = 1 /\ open'[1] = after[1]
        BY <1>2, <4>1, KeepOnly
      <4>3. open' # <<>> /\ DOMAIN open' = {1}
        BY <1>3, <4>2, OneElement
      <4> QED
        BY <2>4, <2>5, <4>2, <4>3 DEF Resting
    <3>2. CASE 1 \notin stay
      <4>1. stay = {}
        BY <2>4, <3>2
      <4>2. open' = <<>>
        BY <1>2, <4>1, KeepNone
      <4> QED
        BY <2>4, <3>2, <4>2 DEF Resting
    <3> QED
      BY <3>1, <3>2
  <2>12. /\ Len(fills') <= 1 /\ Reported(fills') = g
         /\ \A k \in DOMAIN fills' :
              fills'[k].ref = open[1].ref /\ fills'[k].side = open[1].side
    <3>1. CASE g = 0
      <4>1. A = {} /\ B = {}
        BY <2>7, <3>1
      <4>2. fills' = <<>>
        BY <1>2, <4>1, KeepNone
      <4> QED
        BY <3>1, <4>2, ReportedNone
    <3>2. CASE g # 0
      <4>1. (A = {1} /\ B = {}) \/ (A = {} /\ B = {1})
        BY <2>7, <2>8, <2>9, <3>2
      <4>2. PICK u : u = Keep(rec, {1})
        OBVIOUS
      <4>3. Len(u) = 1 /\ u[1] = rec[1]
        BY <4>2, KeepOnly
      <4>4. fills' = u \o <<>> \/ fills' = <<>> \o u
        BY <1>2, <4>1, <4>2, KeepNone
      <4>5. rec[1] \in Fill
        <5>1. SuperiorOnes(side, price) \in SUBSET DOMAIN open
              /\ LevelOnes(side, price) \in SUBSET DOMAIN open
          BY DEF SuperiorOnes, LevelOnes
        <5> QED
          BY <1>1, <4>1, <5>1, FillRecordsType
      <4>6. u \in Seq(Fill)
        <5>1. 1 \in Nat /\ {1} \in SUBSET (1 .. 1) /\ \A i \in {1} : rec[i] \in Fill
          BY <4>5
        <5> QED
          BY <4>2, <5>1, KeepType
      <4>7. fills' = u
        BY <4>4, <4>6
      <4>8. DOMAIN fills' = {1}
        BY <4>3, <4>6, <4>7, OneElement
      <4>9. Reported(fills') = g
        BY <1>3, <2>6, <4>3, <4>7, ReportedOne
      <4>10. rec[1].ref = open[1].ref /\ rec[1].side = open[1].side
        BY <2>6, <2>9, <2>10, <3>2
      <4>11. fills'[1] = rec[1] /\ Len(fills') = 1
        BY <4>3, <4>7, Zenon
      <4> QED
        BY <4>8, <4>9, <4>10, <4>11
    <3> QED
      BY <3>1, <3>2
  <2>13. Reported(fills') + Resting(open') = Resting(open)
    BY <2>1, <2>3, <2>11, <2>12
  <2> QED
    BY <1>5, <2>11, <2>12, <2>13 DEF OneKept
<1> QED
  BY <1>4, <1>5

\* So does a message.
LEMMA LeavesOne ==
  ASSUME IInv, FillTypeOK, OwnSound, NEW r, Leaves(r), Len(open) <= 1
  PROVE  OneKept
<1>1. CASE ~Concerns(r)
  BY <1>1, NoEffectOne DEF Leaves
<1>2. CASE Concerns(r)
  BY <1>2, ConcernsType, RemovedOne DEF Leaves
<1> QED
  BY <1>1, <1>2

\* So does an execution or a partial cancel (handle_exec, handle_remove).
LEMMA ReductionOne ==
  ASSUME IInv, FillTypeOK, OwnSound, NEW m \in FeedReductions, SeesReduction(m),
         Len(open) <= 1
  PROVE  OneKept
<1>1. CASE ~Concerns(m.ref)
  BY <1>1, NoEffectOne DEF SeesReduction
<1>2. CASE Concerns(m.ref)
  <2> DEFINE o == refs[m.ref]
             q == Least(m.shares, o.shares)
  <2>1. m.shares \in Nat
    BY MsgType, MaxU32Assumption DEF FeedReductions, ReduceFields, U32
  <2>2. q \in Nat /\ o.side \in Sides /\ o.price \in Nat
    BY <1>2, <2>1, ConcernsType, ArithmeticFacts
  <2>3. CASE m.type = "Cancel"
    <3>1. RemovedFrom(m.ref, o.side, o.price, q)
      BY <1>2, <2>3 DEF SeesReduction
    <3> QED
      BY <2>2, <3>1, RemovedOne
  <2>4. CASE m.type # "Cancel"
    <3>1. Executed(m.ref, o.side, o.price, q)
      BY <1>2, <2>4 DEF SeesReduction
    <3> QED
      BY <2>2, <3>1, ExecutedOne
  <2> QED
    BY <2>3, <2>4
<1> QED
  BY <1>1, <1>2

\* What a message does to the simulation and to its one order.
FeedResultOne ==
  /\ IInv' /\ FillTypeOK' /\ OwnSound' /\ OneKept /\ next_ref' = next_ref

\* Whatever the message, the one order rests or is reported, whole.
LEMMA FeedOne ==
  ASSUME IInv, FillTypeOK, OwnSound, FeedMessage, Len(open) <= 1
  PROVE  FeedResultOne
<1>1. OneKept
  <2>1. ASSUME NEW m, SeesAdd(m)
        PROVE  OneKept
    BY <2>1, NoEffectOne DEF SeesAdd
  <2>2. ASSUME NEW m \in FeedReductions, SeesReduction(m)
        PROVE  OneKept
    BY <2>2, ReductionOne
  <2>3. ASSUME NEW m, SeesDelete(m)
        PROVE  OneKept
    BY <2>3, LeavesOne DEF SeesDelete
  <2>4. ASSUME NEW m, SeesReplace(m)
        PROVE  OneKept
    BY <2>4, LeavesOne DEF SeesReplace
  <2>5. ASSUME SeesOther
        PROVE  OneKept
    BY <2>5, NoEffectOne DEF SeesOther
  <2> QED
    BY <2>1, <2>2, <2>3, <2>4, <2>5 DEF FeedMessage
<1>2. IInv'
  BY FeedHandles, NextInv
<1>3. FeedResult
  BY FeedSound
<1>4. /\ open' \in Seq(OwnOrder) /\ fills' \in Seq(Fill) /\ Ordered(open')
      /\ next_ref' = next_ref
      /\ max_market_ref' \in RefIds \cup {0} /\ increasing' \in BOOLEAN
      /\ \A k \in DOMAIN open' : /\ open'[k].ref < next_ref'
                                /\ open'[k].watermark <= max_market_ref'
  BY <1>3 DEF FeedResult, OwnSoundNext
<1>5. next_ref' \in Nat \ {0}
  BY <1>4, TypeIs
<1>6. FillTypeOK'
  BY <1>4, <1>5 DEF FillTypeOK, Fill
<1>7. OwnSound'
  BY <1>4 DEF OwnSound
<1> QED
  BY <1>1, <1>2, <1>4, <1>6, <1>7 DEF FeedResultOne
-----------------------------------------------------------------------------
(* Submitting an order when none works, and cancelling the one that does. *)

\* The order that rests, alone, when left shares are not taken by the sweep.
Alone(side, price, left) ==
  [ref |-> next_ref, side |-> side, price |-> price, remaining |-> left,
   queue_ahead |-> QueueAtEntry(<<>>, side, price), watermark |-> max_market_ref]

\* What a submission is, by the parts of the order and of its fills.
SubmittedOne(side, shares) ==
  /\ FillTypeOK' /\ OwnSound'
  /\ Len(open') <= 1
  /\ \A k \in DOMAIN open' : open'[k].ref = next_ref /\ open'[k].side = side
  /\ \A k \in DOMAIN fills' : fills'[k].ref = next_ref /\ fills'[k].side = side
  /\ Reported(fills') \in Nat /\ Resting(open') \in Nat
  /\ Reported(fills') + Resting(open') = shares

\* Every fill of the sweep is the new order's.
LEMMA SweepIsOwn ==
  ASSUME IInv, NEW side \in Sides, NEW price, NEW shares \in U32, next_ref \in Nat \ {0}
  PROVE  \A k \in DOMAIN SweepFills(side, price, shares) :
           /\ SweepFills(side, price, shares)[k].ref = next_ref
           /\ SweepFills(side, price, shares)[k].side = side
<1>1. PICK taken, recs, I : /\ taken = SweepFills(side, price, shares)
                            /\ recs = SweepRecords(side, price, shares)
                            /\ I = Taken(side, price, shares)
  OBVIOUS
<1>2. PICK pos : Names(taken, recs, I, pos)
  BY <1>1, SweepNames
<1>3. I \subseteq Prices
  BY <1>1 DEF Taken
<1>4. ASSUME NEW k \in DOMAIN taken
      PROVE  taken[k].ref = next_ref /\ taken[k].side = side
  <2>1. pos[k] \in I /\ taken[k] = recs[pos[k]]
    BY <1>2 DEF Names
  <2>2. PICK i \in Prices : i = pos[k]
    BY <1>3, <2>1
  <2>3. recs[i].ref = next_ref /\ recs[i].side = side
    BY <1>1, SweepRecordsType
  <2> QED
    BY <2>1, <2>2, <2>3
<1> QED
  BY <1>1, <1>4

\* A submission while no other order works (submit_limit).
LEMMA SubmitAlone ==
  ASSUME IInv, FillTypeOK, NEW side \in Sides, NEW price \in U32, NEW shares \in U32,
         SubmitTo(<<>>, side, price, shares)
  PROVE  SubmittedOne(side, shares)
<1>1. next_ref \in Nat \ {0} /\ shares \in Nat /\ max_market_ref \in RefIds \cup {0}
  BY TypeIs, MaxU32Assumption DEF U32
<1>2. PICK fs : fs = SweepFills(side, price, shares)
  OBVIOUS
<1>3. fs \in Seq(Fill) /\ Reported(fs) \in Nat /\ Reported(fs) <= shares
  BY <1>1, <1>2, SweepType DEF Reported
<1>4. PICK left \in Nat : left = shares - Reported(fs)
  BY <1>1, <1>3
<1>5. PICK new : new = Alone(side, price, left)
  OBVIOUS
<1>6. /\ fills' = fs /\ open' = (IF left = 0 THEN <<>> ELSE Append(<<>>, new))
      /\ next_ref' = next_ref + 1
      /\ max_market_ref' = max_market_ref /\ increasing' = increasing
  BY <1>2, <1>4, <1>5 DEF SubmitTo, Alone, Reported
<1>7. QueueAtEntry(<<>>, side, price) \in Nat
  <2>1. DOMAIN <<>> = {}
    OBVIOUS
  <2>2. {i \in DOMAIN <<>> : SameLevel(<<>>[i], side, price)} = {}
    BY <2>1
  <2>3. QueueAtEntry(<<>>, side, price) = Displayed(side, price) + SumOver(Remaining(<<>>), {})
    BY <2>2 DEF QueueAtEntry
  <2>4. SumOver(Remaining(<<>>), {}) = 0
    BY SumEmpty
  <2> QED
    BY <2>3, <2>4, DisplayedType
<1>8. left # 0 => new \in OwnOrder
  <2>1. left \in U32
    BY <1>1, <1>3, <1>4, MaxU32Assumption DEF U32
  <2> QED
    BY <1>1, <1>5, <1>7, <2>1 DEF Alone, OwnOrder
<1>9. /\ new.ref = next_ref /\ new.side = side /\ new.remaining = left
      /\ new.watermark = max_market_ref
  BY <1>5 DEF Alone
<1>10. open' \in Seq(OwnOrder) /\ Len(open') <= 1 /\ Resting(open') = left
       /\ \A k \in DOMAIN open' : open'[k] = new /\ k = 1
  <2>1. CASE left = 0
    BY <1>6, <2>1 DEF Resting
  <2>2. CASE left # 0
    <3>1. PICK u : u = Append(<<>>, new)
      OBVIOUS
    <3>2. new \in OwnOrder /\ u = <<new>>
      BY <1>8, <2>2, <3>1
    <3>3. u \in Seq(OwnOrder) /\ Len(u) = 1 /\ u[1] = new
      BY <3>2
    <3>4. u # <<>> /\ DOMAIN u = {1}
      BY <3>3, OneElement
    <3>5. open' = u
      BY <1>6, <2>2, <3>1
    <3>6. Resting(u) = left
      BY <1>9, <3>3, <3>4, Zenon DEF Resting
    <3>7. \A k \in DOMAIN u : u[k] = new /\ k = 1
      BY <3>3, <3>4
    <3>8. Len(u) <= 1
      BY <3>3
    <3> QED
      BY <3>3, <3>5, <3>6, <3>7, <3>8, Zenon
  <2> QED
    BY <2>1, <2>2
<1>11. next_ref < next_ref + 1 /\ next_ref + 1 \in Nat \ {0}
  BY <1>1
<1>12. max_market_ref <= max_market_ref
  <2>1. max_market_ref \in Nat
    BY <1>1, FillAssumption
  <2> QED
    BY <2>1
<1>13. FillTypeOK'
  <2>1. increasing \in BOOLEAN
    BY TypeIs
  <2> QED
    BY <1>1, <1>3, <1>6, <1>10, <1>11, <2>1 DEF FillTypeOK, Fill
<1>14. OwnSound'
  <2>1. Ordered(open')
    <3> SUFFICES ASSUME NEW i \in DOMAIN open', NEW j \in DOMAIN open', j < i
                 PROVE  FALSE
      BY DEF Ordered
    <3>1. i = 1 /\ j = 1
      BY <1>10
    <3> QED
      BY <3>1
  <2>2. \A k \in DOMAIN open' :
          open'[k].ref < next_ref' /\ open'[k].watermark <= max_market_ref'
    BY <1>6, <1>9, <1>10, <1>11, <1>12
  <2> QED
    BY <2>1, <2>2 DEF OwnSound
<1>15. \A k \in DOMAIN fills' : fills'[k].ref = next_ref /\ fills'[k].side = side
  BY <1>1, <1>2, <1>6, SweepIsOwn
<1>16. /\ Reported(fills') \in Nat /\ Resting(open') \in Nat
       /\ Reported(fills') + Resting(open') = shares
  BY <1>1, <1>3, <1>4, <1>6, <1>10
<1> QED
  BY <1>9, <1>10, <1>13, <1>14, <1>15, <1>16 DEF SubmittedOne

\* Nothing is left when the only order goes.
LEMMA WithoutOne ==
  ASSUME FillTypeOK, Len(open) <= 1, NEW i \in DOMAIN open
  PROVE  Without(i) = <<>>
<1>1. DOMAIN open \ {i} = {}
  BY OneIs
<1> QED
  BY <1>1, KeepNone DEF Without
-----------------------------------------------------------------------------
(* The inductive invariant. *)

\* The state of the order manager.
OmTypeOK ==
  /\ side_ \in {-1, 0, 1} /\ qty_ \in Nat /\ entry_shares_ \in Nat /\ exit_shares_ \in Nat
  /\ entry_ref_ \in Nat /\ exit_ref_ \in Nat /\ entry_dir_ \in {-1, 0, 1}
  /\ protective \in BOOLEAN /\ logged \in Int

\* What is open and what is still to be booked is one order's, on one side.
Belongs(ref, side) ==
  /\ open # <<>> \/ fills # <<>>
  /\ \A i \in DOMAIN open : open[i].ref = ref /\ open[i].side = side
  /\ \A k \in DOMAIN fills : fills[k].ref = ref /\ fills[k].side = side

\* What is held with what the entry can still bring fits 32 bits.
EntryWorks ==
  /\ entry_dir_ # 0 /\ side_ \in {0, entry_dir_}
  /\ Belongs(entry_ref_, SideOf(entry_dir_))
  /\ qty_ + Reported(fills) + Resting(open) <= MaxU32

\* The exit is for all that is held.
ExitWorks ==
  /\ side_ # 0
  /\ Belongs(exit_ref_, SideOf(-side_))
  /\ Reported(fills) + Resting(open) = qty_

\* Neither an entry nor an exit works.
Idle == entry_ref_ = NoRef /\ exit_ref_ = NoRef

\* One order at most works, as the entry or as the exit.
Working ==
  /\ Len(open) <= 1
  /\ entry_ref_ = NoRef \/ exit_ref_ = NoRef
  /\ entry_ref_ # NoRef => EntryWorks
  /\ exit_ref_ # NoRef => ExitWorks
  /\ Idle => open = <<>>

\* What is held entered and did not leave (close_round_trip), and fits 32 bits.
Holding ==
  /\ qty_ <= MaxU32 /\ qty_ = entry_shares_ - exit_shares_
  /\ side_ = 0 <=> qty_ = 0

\* Nothing is held and no exit works.
Flat == side_ = 0 /\ exit_ref_ = NoRef

\* An entry is due.
Buys(t) == Starts(t, "buy") \/ Starts(t, "sell")

\* What each call finds: fills only while they are polled, an exit or an entry only
\* when nothing else works, nothing working when finish closes the position.
Flow ==
  /\ todo \in Calls
  /\ fills # <<>> => Starts(todo, "poll")
  /\ Starts(todo, "exit") => Idle
  /\ Starts(todo, "cancel entry") /\ Starts(Tail(todo), "exit") => exit_ref_ = NoRef
  /\ Buys(todo) => Flat
  /\ Starts(todo, "cancel entry") /\ Buys(Tail(todo)) => Flat
  /\ Starts(todo, "cancel exit") => entry_ref_ = NoRef
  /\ Starts(todo, "close") => Idle
  /\ Starts(todo, "end") => Idle /\ side_ = 0

\* The simulation is sound, and the invariant of the session.
SimOK == IInv /\ FillTypeOK /\ OwnSound
OInv == SimOK /\ OmTypeOK /\ Working /\ Holding /\ Flow

\* Doing in terms of Starts.
LEMMA DoingIs == ASSUME NEW c PROVE Doing(c) <=> Starts(todo, c)
BY DEF Doing, Starts

\* A list of calls starts with one.
LEMMA StartsOnce ==
  ASSUME NEW t, NEW c, NEW d, Starts(t, c), Starts(t, d)
  PROVE  c = d
BY DEF Starts

\* The calls after a poll, a settlement or an order that was looked at ask for
\* nothing.
Free(t) ==
  /\ t \in Calls
  /\ \/ t = <<>> \/ Starts(t, "poll") \/ Starts(t, "print") \/ Starts(t, "settle")
     \/ Starts(t, "repeg") \/ Starts(t, "bars")

\* They find what they assume.
LEMMA FreeFlow ==
  ASSUME Free(todo'), fills' = <<>> \/ Starts(todo', "poll")
  PROVE  Flow'
<1>1. /\ ~Starts(todo', "exit") /\ ~Starts(todo', "cancel entry") /\ ~Buys(todo')
      /\ ~Starts(todo', "cancel exit") /\ ~Starts(todo', "close") /\ ~Starts(todo', "end")
  <2>1. CASE todo' = <<>>
    BY <2>1 DEF Starts, Buys
  <2>2. CASE todo' # <<>>
    <3>1. PICK h : h = Head(todo')
      OBVIOUS
    <3>2. h \in {"poll", "print", "settle", "repeg", "bars"}
      BY <2>2, <3>1 DEF Free, Starts
    <3> QED
      BY <3>1, <3>2 DEF Starts, Buys
  <2> QED
    BY <2>1, <2>2
<1> QED
  BY <1>1 DEF Flow, Free

\* Lists that are free.
LEMMA BarsFree ==
  ASSUME NEW t \in AtBars \cup AtRepeg
  PROVE  Free(t)
<1>1. t \in Calls
  BY DEF Calls
<1>2. Starts(t, "bars") \/ Starts(t, "repeg")
  BY BarsShape, RepegShape
<1> QED
  BY <1>1, <1>2 DEF Free

\* What is due after a call that is followed by bars, and nothing is asked.
LEMMA PollFree ==
  ASSUME NEW t \in {<<>>} \cup AtPrint \cup AtSettle \cup AtBars \cup AtRepeg
  PROVE  Free(<<"poll">> \o t) /\ Starts(<<"poll">> \o t, "poll") /\ Free(t)
<1>1. t \in Seq(CallName)
  <2>1. CASE t = <<>>
    BY <2>1
  <2>2. CASE t \in AtPrint
    BY <2>2, FixedShape
  <2> QED
    BY <2>1, <2>2, SettleShape, RepegShape
<1>2. Starts(<<"poll">> \o t, "poll")
  BY <1>1, NamesOfCalls, Pushed, Zenon DEF Starts
<1>3. <<"poll">> \o t \in AtPoll
  BY DEF AtPoll, Call
<1>4. <<"poll">> \o t \in Calls /\ t \in Calls
  BY <1>3 DEF Calls
<1>5. t = <<>> \/ Starts(t, "print") \/ Starts(t, "settle") \/ Starts(t, "bars") \/ Starts(t, "repeg")
  BY FixedShape, SettleShape, BarsShape, RepegShape
<1> QED
  BY <1>2, <1>4, <1>5 DEF Free

\* What is due when an entry was submitted.
LEMMA SettleFree ==
  ASSUME NEW t \in AtBars \cup AtRepeg
  PROVE  /\ Free(<<"poll", "settle">> \o t) /\ Starts(<<"poll", "settle">> \o t, "poll")
         /\ Free(<<"poll">> \o t) /\ Starts(<<"poll">> \o t, "poll")
<1>1. t \in Seq(CallName)
  BY RepegShape
<1>2. <<"poll", "settle">> \o t = <<"poll">> \o (<<"settle">> \o t)
  <2>1. PICK S : S = CallName
    OBVIOUS
  <2>2. PICK c \in S, d \in S : c = "poll" /\ d = "settle"
    BY <2>1, NamesOfCalls
  <2>3. t \in Seq(S)
    BY <1>1, <2>1
  <2>4. <<c, d>> \o t = <<c>> \o (<<d>> \o t)
    BY <2>3, PushedTwo
  <2> QED
    BY <2>2, <2>4
<1>3. <<"settle">> \o t \in AtSettle
  BY DEF AtSettle, Call
<1> QED
  BY <1>2, <1>3, PollFree

\* When the simulation is not touched it stays sound.
LEMMA SimStays ==
  ASSUME SimOK, UNCHANGED fillVars
  PROVE  SimOK'
<1>1. UNCHANGED vars /\ UNCHANGED ownVars
  BY DEF fillVars
<1>2. IInv'
  BY <1>1, NextInv DEF SimOK
<1>3. /\ open' = open /\ fills' = fills /\ max_market_ref' = max_market_ref
      /\ next_ref' = next_ref /\ increasing' = increasing
  BY <1>1 DEF ownVars
<1>4. FillTypeOK'
  BY <1>3 DEF SimOK, FillTypeOK
<1>5. OwnSound'
  BY <1>3 DEF SimOK, OwnSound
<1> QED
  BY <1>2, <1>4, <1>5 DEF SimOK

\* Nor when its orders and fills are emptied.
LEMMA SimEmptied ==
  ASSUME SimOK, UNCHANGED vars, UNCHANGED <<max_market_ref, next_ref, increasing>>,
         open' = <<>>, fills' \in Seq(Fill)
  PROVE  SimOK'
<1>1. IInv'
  BY NextInv DEF SimOK
<1>2. FillTypeOK'
  <2>1. <<>> \in Seq(OwnOrder)
    OBVIOUS
  <2>2. /\ max_market_ref \in RefIds \cup {0} /\ next_ref \in Nat \ {0}
        /\ increasing \in BOOLEAN
    BY TypeIs DEF SimOK
  <2> QED
    BY <2>1, <2>2 DEF FillTypeOK, Fill
<1>3. OwnSound'
  <2>1. DOMAIN <<>> = {}
    OBVIOUS
  <2> QED
    BY <2>1 DEF OwnSound, Ordered
<1> QED
  BY <1>1, <1>2, <1>3 DEF SimOK

\* When nothing that is held or works changes.
LEMMA WorkStays ==
  ASSUME Working, Holding, UNCHANGED <<open, fills, positionVars, workingVars>>
  PROVE  Working' /\ Holding'
<1>1. /\ open' = open /\ fills' = fills /\ side_' = side_ /\ qty_' = qty_
      /\ entry_shares_' = entry_shares_ /\ exit_shares_' = exit_shares_
      /\ entry_ref_' = entry_ref_ /\ entry_dir_' = entry_dir_ /\ exit_ref_' = exit_ref_
  BY DEF positionVars, workingVars
<1>2. Working'
  BY <1>1 DEF Working, EntryWorks, ExitWorks, Belongs, Idle
<1> QED
  BY <1>1, <1>2 DEF Holding

\* A reference that works is that of the order that is open when nothing is
\* still to be booked.
LEMMA FindIs ==
  ASSUME SimOK, Working, fills = <<>>, NEW ref, ref = entry_ref_ \/ ref = exit_ref_
  PROVE  /\ ref # NoRef => Find(ref) /\ Places(ref) = {1} /\ open # <<>> /\ Len(open) = 1
         /\ ref = NoRef => ~Find(ref) /\ Places(ref) = {}
<1>1. FillTypeOK
  BY DEF SimOK
<1>2. CASE ref # NoRef
  <2>1. Belongs(ref, SideOf(entry_dir_)) \/ Belongs(ref, SideOf(-side_))
    BY <1>2 DEF Working, EntryWorks, ExitWorks
  <2>2. open # <<>> /\ \A i \in DOMAIN open : open[i].ref = ref
    BY <2>1 DEF Belongs
  <2>3. DOMAIN open = {1} /\ Len(open) = 1
    BY <1>1, <2>2, OneIs DEF Working
  <2>4. Places(ref) = {1}
    BY <2>2, <2>3 DEF Places
  <2> QED
    BY <1>2, <2>2, <2>3, <2>4 DEF Find
<1>3. CASE ref = NoRef
  <2>1. \A i \in DOMAIN open : open[i].ref # 0
    BY <1>1, OwnType
  <2>2. Places(ref) = {}
    BY <1>3, <2>1 DEF Places, NoRef
  <2> QED
    BY <1>3, <2>2 DEF Find
<1> QED
  BY <1>2, <1>3
-----------------------------------------------------------------------------
(* The loop of the session. *)

\* Fills are there only while they are polled.
LEMMA NothingToBook ==
  ASSUME Flow, NEW c, todo = <<>> \/ (Starts(todo, c) /\ c # "poll")
  PROVE  fills = <<>>
BY DEF Flow, Starts

\* What a call in the list of calls is followed by.
LEMMA DueHere ==
  ASSUME Flow
  PROVE  Due(todo)
BY DueIs DEF Flow

\* A step that only looks.
Looks ==
  /\ UNCHANGED fillVars /\ UNCHANGED positionVars /\ UNCHANGED workingVars
  /\ UNCHANGED logged /\ protective' \in BOOLEAN

\* It keeps all but the flow of calls.
LEMMA LooksOnly ==
  ASSUME OInv, Looks
  PROVE  /\ SimOK' /\ OmTypeOK' /\ Working' /\ Holding'
         /\ fills' = fills /\ side_' = side_ /\ exit_ref_' = exit_ref_
         /\ entry_ref_' = entry_ref_
<1>1. SimOK'
  BY SimStays DEF OInv, Looks
<1>2. /\ open' = open /\ fills' = fills
      /\ side_' = side_ /\ qty_' = qty_
      /\ entry_shares_' = entry_shares_ /\ exit_shares_' = exit_shares_
      /\ entry_ref_' = entry_ref_ /\ entry_dir_' = entry_dir_ /\ exit_ref_' = exit_ref_
  BY DEF Looks, fillVars, ownVars, positionVars, workingVars
<1>3. Working' /\ Holding'
  BY <1>2, WorkStays DEF OInv, Looks
<1>4. OmTypeOK'
  BY <1>2 DEF OInv, Looks, OmTypeOK
<1> QED
  BY <1>1, <1>2, <1>3, <1>4

\* What the calls that follow a cancel and those that enter ask for.
LEMMA CancelFlow ==
  ASSUME todo' \in AtCancel \cup {AtCancelEntry}, fills' = <<>>,
         Starts(Tail(todo'), "exit") => exit_ref_' = NoRef,
         Buys(Tail(todo')) => Flat'
  PROVE  Flow'
<1>1. todo' \in Calls /\ Starts(todo', "cancel entry")
  BY CancelShape, FixedShape DEF Calls
<1>2. /\ ~Starts(todo', "exit") /\ ~Buys(todo') /\ ~Starts(todo', "poll")
      /\ ~Starts(todo', "cancel exit") /\ ~Starts(todo', "close") /\ ~Starts(todo', "end")
  BY <1>1 DEF Starts, Buys
<1> QED
  BY <1>1, <1>2 DEF Flow

\* An entry that is next.
LEMMA EntryFlow ==
  ASSUME todo' \in AtEntry, fills' = <<>>, Flat'
  PROVE  Flow'
<1>1. todo' \in Calls /\ Buys(todo')
  BY EntryShape DEF Calls, Buys
<1>2. /\ ~Starts(todo', "exit") /\ ~Starts(todo', "cancel entry") /\ ~Starts(todo', "poll")
      /\ ~Starts(todo', "cancel exit") /\ ~Starts(todo', "close") /\ ~Starts(todo', "end")
  BY <1>1 DEF Starts, Buys
<1> QED
  BY <1>1, <1>2 DEF Flow

\* An exit that follows the cancelling of the entry.
LEMMA ExitAfterCancel ==
  ASSUME NEW x \in {<<"bars">>} \cup AtRepeg,
         todo' = <<"cancel entry">> \o (<<"exit">> \o x), fills' = <<>>, exit_ref_' = NoRef
  PROVE  Flow'
<1>1. PICK y : y = <<"exit">> \o x
  OBVIOUS
<1>2. y \in AtExit
  BY <1>1 DEF AtExit, Call
<1>3. y \in Seq(CallName) /\ Starts(y, "exit")
  BY <1>2, ExitShape
<1>4. todo' \in AtCancel /\ Tail(todo') = y
  <2>1. todo' = <<"cancel entry">> \o y
    BY <1>1
  <2>2. PICK c \in CallName : c = "cancel entry"
    BY NamesOfCalls
  <2>3. Tail(<<c>> \o y) = y
    BY <1>3, Pushed
  <2> QED
    BY <1>2, <2>1, <2>2, <2>3 DEF AtCancel, Call
<1>5. ~Buys(Tail(todo'))
  BY <1>3, <1>4 DEF Buys, Starts
<1> QED
  BY <1>4, <1>5, CancelFlow

\* A protective exit (on_trade_print).
LEMMA TradePrintInv ==
  ASSUME OInv, NEW fires \in BOOLEAN, OnTradePrint(fires)
  PROVE  OInv'
<1>1. Starts(todo, "print") /\ Flow
  BY DoingIs DEF OnTradePrint, OInv
<1>2. Rest = <<"bars">> /\ fills = <<>>
  <2>1. Tail(todo) = <<"bars">>
    BY <1>1, DueHere DEF Due
  <2> QED
    BY <1>1, <2>1, NothingToBook DEF Rest
<1>3. Looks /\ protective' = protective
  BY DEF OnTradePrint, Looks, fillVars, OInv, OmTypeOK
<1>4. /\ SimOK' /\ OmTypeOK' /\ Working' /\ Holding'
      /\ fills' = <<>> /\ exit_ref_' = exit_ref_
  BY <1>2, <1>3, LooksOnly
<1>5. CASE todo' = Rest
  <2>1. <<"bars">> \in AtBars
    BY DEF AtBars
  <2> QED
    BY <1>2, <1>4, <1>5, <2>1, BarsFree, FreeFlow DEF OInv
<1>6. CASE todo' = FiringExit \o Rest /\ exit_ref_ = NoRef
  <2>1. PICK x : x = <<"bars">>
    OBVIOUS
  <2>2. x \in {<<"bars">>} \cup AtRepeg /\ x \in Seq(CallName)
    BY <2>1, FixedLists
  <2>3. FiringExit \o x = <<"cancel entry">> \o (<<"exit">> \o x)
    <3>1. PICK S : S = CallName
      OBVIOUS
    <3>2. PICK c \in S, d \in S : c = "cancel entry" /\ d = "exit"
      BY <3>1, NamesOfCalls
    <3>3. x \in Seq(S)
      BY <2>2, <3>1
    <3>4. <<c, d>> \o x = <<c>> \o (<<d>> \o x)
      BY <3>3, PushedTwo
    <3> QED
      BY <3>2, <3>4 DEF FiringExit
  <2>4. todo' = <<"cancel entry">> \o (<<"exit">> \o x)
    BY <1>2, <1>6, <2>1, <2>3
  <2>5. Flow'
    BY <1>4, <1>6, <2>2, <2>4, ExitAfterCancel
  <2> QED
    BY <1>4, <2>5 DEF OInv
<1> QED
  BY <1>5, <1>6 DEF OnTradePrint

\* The signals of a bar (on_bar).
LEMMA BarInv ==
  ASSUME OInv, NEW el \in BOOLEAN, NEW es \in BOOLEAN, NEW xl \in BOOLEAN,
         NEW xs \in BOOLEAN, OnBar(el, es, xl, xs)
  PROVE  OInv'
<1>1. Starts(todo, "bars") /\ Flow
  BY DoingIs DEF OnBar, OInv
<1>2. todo \in AtBars /\ todo \in Seq(CallName) /\ fills = <<>>
  <2>1. todo \in AtBars /\ todo \in Seq(CallName)
    BY <1>1, DueHere DEF Due
  <2>2. fills = <<>>
    BY <1>1, NothingToBook
  <2> QED
    BY <2>1, <2>2
<1>3. Looks
  BY DEF OnBar, Looks, fillVars
<1>4. /\ SimOK' /\ OmTypeOK' /\ Working' /\ Holding'
      /\ fills' = <<>> /\ exit_ref_' = exit_ref_ /\ side_' = side_
  BY <1>2, <1>3, LooksOnly
<1>5. PICK x : x = <<"repeg">> \o todo
  OBVIOUS
<1>6. x \in AtRepeg /\ x \in Seq(CallName)
  <2>1. x \in AtRepeg
    BY <1>2, <1>5 DEF AtRepeg, Call
  <2> QED
    BY <2>1, RepegShape
<1>7. PICK first, second :
        /\ Arbitration(el, es, xl, xs) = first \o second
        /\ \/ /\ first = <<"cancel entry">>
              /\ \/ second = <<"exit">> /\ exit_ref_ = NoRef
                 \/ second = <<>>
           \/ first = <<>> /\ second = <<>>
           \/ /\ first \in {<<"cancel entry">>, <<>>} /\ second \in {<<"buy">>, <<"sell">>}
              /\ Flat
  <2>1. CASE (side_ > 0 /\ xl) \/ (side_ < 0 /\ xs)
    <3>1. Arbitration(el, es, xl, xs)
            = <<"cancel entry">> \o (IF exit_ref_ = NoRef THEN <<"exit">> ELSE <<>>)
      BY <2>1 DEF Arbitration
    <3> QED
      BY <3>1, Zenon
  <2>2. CASE ~((side_ > 0 /\ xl) \/ (side_ < 0 /\ xs)) /\ (side_ # 0 \/ exit_ref_ # NoRef \/ el = es)
    <3>1. Arbitration(el, es, xl, xs) = <<>>
      BY <2>2, Zenon DEF Arbitration
    <3>2. <<>> \o <<>> = <<>>
      OBVIOUS
    <3> QED
      BY <3>1, <3>2, Zenon
  <2>3. CASE /\ ~((side_ > 0 /\ xl) \/ (side_ < 0 /\ xs))
             /\ ~(side_ # 0 \/ exit_ref_ # NoRef \/ el = es)
    <3>1. Arbitration(el, es, xl, xs)
            = (IF (el /\ entry_dir_ < 0) \/ (es /\ entry_dir_ > 0)
               THEN <<"cancel entry">> ELSE <<>>)
              \o (IF el THEN <<"buy">> ELSE <<"sell">>)
      BY <2>3, Zenon DEF Arbitration
    <3>2. Flat
      BY <2>3 DEF Flat
    <3> QED
      BY <3>1, <3>2, Zenon
  <2> QED
    BY <2>1, <2>2, <2>3
<1>8. /\ first \in Seq(CallName) /\ second \in Seq(CallName) /\ <<"repeg">> \in Seq(CallName)
      /\ \A c \in {"cancel entry", "exit", "buy", "sell"} : <<c>> \in Seq(CallName)
  <2>1. \A c \in CallName : <<c>> \in Seq(CallName)
    OBVIOUS
  <2>2. /\ <<"cancel entry">> \in Seq(CallName) /\ <<"exit">> \in Seq(CallName)
        /\ <<"buy">> \in Seq(CallName) /\ <<"sell">> \in Seq(CallName)
        /\ <<"repeg">> \in Seq(CallName)
    BY <2>1, NamesOfCalls, Zenon
  <2>3. <<>> \in Seq(CallName)
    OBVIOUS
  <2> QED
    BY <1>7, <2>2, <2>3, Zenon
<1>9. todo' = first \o (second \o x)
  <2>1. todo' = ((first \o second) \o <<"repeg">>) \o todo
    BY <1>7 DEF OnBar
  <2>2. ((first \o second) \o <<"repeg">>) \o todo = first \o (second \o (<<"repeg">> \o todo))
    <3>1. PICK S, r : S = CallName /\ r = <<"repeg">>
      OBVIOUS
    <3>2. first \in Seq(S) /\ second \in Seq(S) /\ r \in Seq(S) /\ todo \in Seq(S)
      BY <1>2, <1>8, <3>1, Zenon
    <3>3. first \o second \in Seq(S) /\ r \o todo \in Seq(S)
      BY <3>2
    <3>4. ((first \o second) \o r) \o todo = (first \o second) \o (r \o todo)
      BY <3>2, <3>3, ConcatAssociative, SMTT(60)
    <3>5. (first \o second) \o (r \o todo) = first \o (second \o (r \o todo))
      BY <3>2, <3>3, ConcatAssociative, SMTT(60)
    <3> QED
      BY <3>1, <3>4, <3>5, Zenon
  <2> QED
    BY <1>5, <2>1, <2>2, Zenon
<1>10. <<>> \o x = x
  BY <1>6
<1>11. CASE first = <<>> /\ second = <<>>
  <2>1. todo' = x
    BY <1>9, <1>10, <1>11
  <2> QED
    BY <1>4, <1>6, <2>1, BarsFree, FreeFlow DEF OInv
<1>12. CASE first = <<"cancel entry">> /\ second = <<"exit">> /\ exit_ref_ = NoRef
  <2>1. todo' = <<"cancel entry">> \o (<<"exit">> \o x)
    BY <1>9, <1>12
  <2> QED
    BY <1>4, <1>6, <1>12, <2>1, ExitAfterCancel DEF OInv
<1>13. CASE first = <<"cancel entry">> /\ second = <<>>
  <2>1. todo' = <<"cancel entry">> \o x
    BY <1>9, <1>10, <1>13
  <2>2. todo' \in AtCancel
    BY <1>6, <2>1 DEF AtCancel, Call
  <2>3. Tail(todo') = x
    <3>1. PICK c \in CallName : c = "cancel entry"
      BY NamesOfCalls
    <3>2. Tail(<<c>> \o x) = x
      BY <1>6, Pushed
    <3> QED
      BY <2>1, <3>1, <3>2
  <2>4. ~Starts(Tail(todo'), "exit") /\ ~Buys(Tail(todo'))
    <3>1. Starts(x, "repeg")
      BY <1>6, RepegShape
    <3> QED
      BY <2>3, <3>1 DEF Starts, Buys
  <2>5. Flow'
    BY <1>4, <2>2, <2>4, CancelFlow
  <2> QED
    BY <1>4, <2>5 DEF OInv
<1>14. CASE first \in {<<"cancel entry">>, <<>>} /\ second \in {<<"buy">>, <<"sell">>} /\ Flat
  <2>1. PICK y : y = second \o x
    OBVIOUS
  <2>2. y \in AtEntry
    BY <1>6, <1>14, <2>1 DEF AtEntry, Call
  <2>3. y \in Seq(CallName) /\ Buys(y) /\ ~Starts(y, "exit")
    BY <2>2, EntryShape DEF Buys, Starts
  <2>4. Flat'
    BY <1>4, <1>14 DEF Flat
  <2>5. CASE first = <<>>
    <3>1. todo' = y
      BY <1>9, <2>1, <2>3, <2>5
    <3> QED
      BY <1>4, <2>2, <2>4, <3>1, EntryFlow DEF OInv
  <2>6. CASE first = <<"cancel entry">>
    <3>1. todo' = <<"cancel entry">> \o y
      BY <1>9, <2>1, <2>6
    <3>2. todo' \in AtCancel
      BY <2>2, <3>1 DEF AtCancel, Call
    <3>3. Tail(todo') = y
      <4>1. PICK c \in CallName : c = "cancel entry"
        BY NamesOfCalls
      <4>2. Tail(<<c>> \o y) = y
        BY <2>3, Pushed
      <4> QED
        BY <3>1, <4>1, <4>2
    <3>4. Flow'
      BY <1>4, <2>3, <2>4, <3>2, <3>3, CancelFlow
    <3> QED
      BY <1>4, <3>4 DEF OInv
  <2> QED
    BY <1>14, <2>5, <2>6
<1> QED
  BY <1>7, <1>11, <1>12, <1>13, <1>14

\* The completed bars are done.
LEMMA BarsDoneInv ==
  ASSUME OInv, BarsDone
  PROVE  OInv'
<1>1. Starts(todo, "bars") /\ Flow
  BY DoingIs DEF BarsDone, OInv
<1>2. todo' \in {<<>>, AtCancelEntry} /\ fills = <<>>
  <2>1. todo' \in {<<>>, AtCancelEntry}
    BY <1>1, DueHere DEF Due, BarsDone, Rest
  <2>2. fills = <<>>
    BY <1>1, NothingToBook
  <2> QED
    BY <2>1, <2>2
<1>3. Looks
  BY DEF BarsDone, Looks, fillVars, OInv, OmTypeOK
<1>4. SimOK' /\ OmTypeOK' /\ Working' /\ Holding' /\ fills' = <<>>
  BY <1>2, <1>3, LooksOnly
<1>5. CASE todo' = <<>>
  <2>1. Free(todo')
    BY <1>5 DEF Free, Calls
  <2> QED
    BY <1>4, <2>1, FreeFlow DEF OInv
<1>6. CASE todo' = AtCancelEntry
  <2>1. Starts(Tail(todo'), "cancel exit")
    BY <1>6, FixedShape
  <2>2. ~Starts(Tail(todo'), "exit") /\ ~Buys(Tail(todo'))
    BY <2>1 DEF Starts, Buys
  <2>3. Flow'
    BY <1>4, <1>6, <2>2, CancelFlow
  <2> QED
    BY <1>4, <2>3 DEF OInv
<1> QED
  BY <1>2, <1>5, <1>6

\* The stream ends (finish is due).
LEMMA EndOfStreamInv ==
  ASSUME OInv, EndOfStream
  PROVE  OInv'
<1>1. todo = <<>> /\ Flow /\ todo' = EndCalls
  BY DEF EndOfStream, OInv
<1>2. Looks
  BY DEF EndOfStream, Looks, fillVars, OInv, OmTypeOK
<1>3. SimOK' /\ OmTypeOK' /\ Working' /\ Holding' /\ fills' = <<>>
  BY <1>1, <1>2, NothingToBook, LooksOnly
<1>4. todo' \in AtBars
  BY <1>1 DEF AtBars
<1> QED
  BY <1>3, <1>4, BarsFree, FreeFlow DEF OInv

\* Nothing happens.
LEMMA StutterInv ==
  ASSUME OInv, UNCHANGED omVars
  PROVE  OInv'
<1>1. Looks /\ todo' = todo
  BY DEF omVars, Looks, fillVars, OInv, OmTypeOK
<1>2. /\ SimOK' /\ OmTypeOK' /\ Working' /\ Holding'
      /\ fills' = fills /\ side_' = side_ /\ exit_ref_' = exit_ref_
      /\ entry_ref_' = entry_ref_
  BY <1>1, LooksOnly
<1>3. Flow'
  BY <1>1, <1>2 DEF OInv, Flow, Idle, Flat
<1> QED
  BY <1>2, <1>3 DEF OInv
-----------------------------------------------------------------------------
(* Orders. *)

\* The prices an order is submitted at fit 32 bits.
LEMMA PricesFit ==
  ASSUME IInv, NEW dir
  PROVE  EntryPrice(dir) \in U32 /\ ExitPrice \in U32
<1>1. MaxPrice \in Nat /\ MaxU32 \in Nat /\ CrossTicks \in Nat /\ MaxPrice + CrossTicks <= MaxU32
  BY PricesType, MaxU32Assumption, OmAssumption
<1>2. BookOf(Locate) \in Book
  BY FillAssumption, BookOfType DEF IInv
<1>3. \A side \in Sides : BestOf(side) \in 0 .. MaxPrice
  BY <1>2 DEF BestOf, Book
<1>4. BUY \in Sides /\ SELL \in Sides
  BY DEF Sides
<1>5. \A p \in 0 .. MaxPrice : p \in U32 /\ Below(p) \in U32 /\ Above(p) \in U32
  BY <1>1 DEF Below, Above, U32
<1> QED
  BY <1>3, <1>4, <1>5 DEF EntryPrice, ExitPrice

\* Cancelling the order a reference works by, if any (cancel_working_entry, finish).
LEMMA CancelOne ==
  ASSUME SimOK, Working, fills = <<>>, NEW ref, ref = entry_ref_ \/ ref = exit_ref_,
         Find(ref) => Cancel(CHOOSE i \in Places(ref) : TRUE),
         ~Find(ref) => UNCHANGED fillVars
  PROVE  /\ SimOK' /\ fills' = <<>>
         /\ ref # NoRef => open' = <<>>
         /\ ref = NoRef => open' = open
<1>1. FillTypeOK /\ Len(open) <= 1
  BY DEF SimOK, Working
<1>2. CASE ref # NoRef
  <2>1. Find(ref) /\ Places(ref) = {1} /\ open # <<>>
    BY <1>2, FindIs
  <2>2. PICK j : j = (CHOOSE i \in Places(ref) : TRUE)
    OBVIOUS
  <2>3. j \in DOMAIN open
    <3>1. \E i \in Places(ref) : TRUE
      BY <2>1
    <3>2. j \in Places(ref)
      BY <2>2, <3>1, Zenon
    <3> QED
      BY <3>2 DEF Places
  <2>4. Cancel(j)
    BY <2>1, <2>2
  <2>5. Without(j) = <<>>
    BY <1>1, <2>3, WithoutOne
  <2>6. /\ UNCHANGED vars /\ UNCHANGED <<max_market_ref, next_ref, increasing>>
        /\ open' = <<>> /\ fills' = <<>>
    BY <2>4, <2>5 DEF Cancel, vars
  <2>7. <<>> \in Seq(Fill)
    OBVIOUS
  <2>8. SimOK'
    BY <2>6, <2>7, SimEmptied
  <2> QED
    BY <1>2, <2>6, <2>8
<1>3. CASE ref = NoRef
  <2>1. UNCHANGED fillVars
    BY <1>3, FindIs
  <2>2. open' = open /\ fills' = <<>>
    BY <2>1 DEF fillVars, ownVars
  <2> QED
    BY <1>3, <2>1, <2>2, SimStays
<1> QED
  BY <1>2, <1>3

\* cancel_working_entry.
LEMMA CancelEntryInv ==
  ASSUME OInv, CancelWorkingEntry
  PROVE  OInv'
<1>1. Starts(todo, "cancel entry") /\ Flow /\ SimOK /\ Working /\ OmTypeOK /\ Holding
  BY DoingIs DEF CancelWorkingEntry, OInv
<1>2. fills = <<>>
  BY <1>1 DEF Flow, Starts
<1>3. Tail(todo) \in AtExit \cup AtEntry \cup AtRepeg \cup {AtCancelExit} /\ todo' = Tail(todo)
  BY <1>1, DueHere DEF Due, CancelWorkingEntry, Rest
<1>4. /\ side_' = side_ /\ qty_' = qty_ /\ entry_shares_' = entry_shares_
      /\ exit_shares_' = exit_shares_ /\ entry_ref_' = NoRef /\ entry_dir_' = entry_dir_
      /\ exit_ref_' = exit_ref_ /\ protective' = protective /\ logged' = logged
  BY DEF CancelWorkingEntry, positionVars
<1>5. /\ SimOK' /\ fills' = <<>>
      /\ entry_ref_ # NoRef => open' = <<>>
      /\ entry_ref_ = NoRef => open' = open
  <2>1. /\ Find(entry_ref_) => Cancel(CHOOSE i \in Places(entry_ref_) : TRUE)
        /\ ~Find(entry_ref_) => UNCHANGED fillVars
    BY DEF CancelWorkingEntry
  <2> QED
    BY <1>1, <1>2, <2>1, CancelOne
<1>6. OmTypeOK'
  BY <1>1, <1>4 DEF OmTypeOK, NoRef
<1>7. Holding'
  BY <1>1, <1>4 DEF Holding
<1>8. Working'
  <2>1. CASE entry_ref_ = NoRef
    BY <1>1, <1>2, <1>4, <1>5, <2>1 DEF Working, ExitWorks, Belongs, Idle
  <2>2. CASE entry_ref_ # NoRef
    <3>1. exit_ref_ = NoRef
      BY <1>1, <2>2 DEF Working
    <3>2. open' = <<>> /\ Len(open') <= 1
      BY <1>5, <2>2
    <3> QED
      BY <1>4, <3>1, <3>2 DEF Working
  <2> QED
    BY <2>1, <2>2
<1>9. Flow'
  <2>1. CASE Tail(todo) \in AtExit
    <3>1. Starts(Tail(todo), "exit")
      BY <2>1, ExitShape
    <3>2. Idle'
      BY <1>1, <1>4, <3>1 DEF Flow, Idle
    <3>3. todo' \in Calls /\ Starts(todo', "exit")
      BY <1>3, <2>1, <3>1 DEF Calls
    <3>4. /\ ~Starts(todo', "cancel entry") /\ ~Buys(todo')
          /\ ~Starts(todo', "cancel exit") /\ ~Starts(todo', "close") /\ ~Starts(todo', "end")
      BY <3>3 DEF Starts, Buys
    <3> QED
      BY <1>5, <3>2, <3>3, <3>4 DEF Flow
  <2>2. CASE Tail(todo) \in AtEntry
    <3>1. Buys(Tail(todo))
      BY <2>2, EntryShape DEF Buys
    <3>2. Flat'
      BY <1>1, <1>4, <3>1 DEF Flow, Flat
    <3> QED
      BY <1>3, <1>5, <2>2, <3>2, EntryFlow
  <2>3. CASE Tail(todo) \in AtRepeg
    BY <1>3, <1>5, <2>3, BarsFree, FreeFlow
  <2>4. CASE Tail(todo) = AtCancelExit
    <3>1. todo' \in Calls /\ Starts(todo', "cancel exit")
      BY <1>3, <2>4, FixedShape DEF Calls
    <3>2. /\ ~Starts(todo', "cancel entry") /\ ~Buys(todo')
          /\ ~Starts(todo', "exit") /\ ~Starts(todo', "close") /\ ~Starts(todo', "end")
      BY <3>1 DEF Starts, Buys
    <3> QED
      BY <1>4, <1>5, <3>1, <3>2 DEF Flow
  <2> QED
    BY <1>3, <2>1, <2>2, <2>3, <2>4
<1> QED
  BY <1>5, <1>6, <1>7, <1>8, <1>9 DEF OInv

\* The exit is cancelled at the end of the stream (finish).
LEMMA CancelExitInv ==
  ASSUME OInv, CancelExit
  PROVE  OInv'
<1>1. Starts(todo, "cancel exit") /\ Flow /\ SimOK /\ Working /\ OmTypeOK /\ Holding
  BY DoingIs DEF CancelExit, OInv
<1>2. fills = <<>> /\ entry_ref_ = NoRef
  <2>1. fills = <<>>
    BY <1>1 DEF Flow, Starts
  <2> QED
    BY <1>1, <2>1 DEF Flow
<1>3. todo' = AtClose
  BY <1>1, DueHere DEF Due, CancelExit, Rest
<1>4. /\ side_' = side_ /\ qty_' = qty_ /\ entry_shares_' = entry_shares_
      /\ exit_shares_' = exit_shares_ /\ entry_ref_' = NoRef /\ entry_dir_' = entry_dir_
      /\ protective' = protective /\ logged' = logged
  BY <1>2 DEF CancelExit, positionVars
<1>5. /\ SimOK' /\ fills' = <<>>
      /\ exit_ref_ # NoRef => open' = <<>>
      /\ exit_ref_ = NoRef => open' = open
  <2>1. /\ Find(exit_ref_) => Cancel(CHOOSE i \in Places(exit_ref_) : TRUE)
        /\ ~Find(exit_ref_) => UNCHANGED fillVars
    BY DEF CancelExit
  <2> QED
    BY <1>1, <1>2, <2>1, CancelOne
<1>6. exit_ref_' = NoRef
  BY <1>1, <1>2, FindIs DEF CancelExit
<1>7. open' = <<>>
  BY <1>1, <1>2, <1>5 DEF Working, Idle
<1>8. OmTypeOK'
  BY <1>1, <1>4, <1>6 DEF OmTypeOK, NoRef
<1>9. Holding'
  BY <1>1, <1>4 DEF Holding
<1>10. Working'
  <2>1. Len(open') <= 1
    BY <1>7
  <2> QED
    BY <1>4, <1>6, <1>7, <2>1 DEF Working
<1>11. Flow'
  <2>1. todo' \in Calls /\ Starts(todo', "close")
    BY <1>3, FixedShape DEF Calls
  <2>2. /\ ~Starts(todo', "cancel entry") /\ ~Buys(todo')
        /\ ~Starts(todo', "exit") /\ ~Starts(todo', "cancel exit") /\ ~Starts(todo', "end")
    BY <2>1 DEF Starts, Buys
  <2> QED
    BY <1>4, <1>5, <1>6, <2>1, <2>2 DEF Flow, Idle
<1> QED
  BY <1>5, <1>8, <1>9, <1>10, <1>11 DEF OInv

\* What is held is closed at the end of the stream (finish).
LEMMA ForceCloseInv ==
  ASSUME OInv, ForceClose
  PROVE  OInv'
<1>1. Starts(todo, "close") /\ Flow /\ SimOK /\ Working /\ OmTypeOK /\ Holding
  BY DoingIs DEF ForceClose, OInv
<1>2. fills = <<>> /\ Idle /\ open = <<>>
  <2>1. fills = <<>>
    BY <1>1 DEF Flow, Starts
  <2>2. Idle
    BY <1>1 DEF Flow
  <2> QED
    BY <1>1, <2>1, <2>2 DEF Working
<1>3. todo' = AtEnd
  BY <1>1, DueHere DEF Due, ForceClose, Rest
<1>4. /\ UNCHANGED fillVars /\ entry_ref_' = NoRef /\ exit_ref_' = NoRef
      /\ entry_dir_' = entry_dir_ /\ protective' = protective
  BY <1>2 DEF ForceClose, Idle, workingVars
<1>5. SimOK' /\ open' = <<>> /\ fills' = <<>>
  BY <1>1, <1>2, <1>4, SimStays DEF fillVars, ownVars
<1>6. /\ side_' = 0 /\ Holding' /\ OmTypeOK'
  <2>1. CASE side_ # 0 /\ qty_ > 0
    <3>1. /\ side_' = 0 /\ qty_' = 0 /\ entry_shares_' = 0 /\ exit_shares_' = 0
          /\ logged' = logged - side_ * qty_
      BY <2>1 DEF ForceClose, CloseRoundTrip
    <3>2. logged - side_ * qty_ \in Int
      <4>1. logged \in Int /\ side_ \in Int /\ qty_ \in Int
        BY <1>1 DEF OmTypeOK
      <4> QED
        BY <4>1
    <3>3. Holding'
      BY <3>1, MaxU32Assumption DEF Holding
    <3> QED
      BY <1>1, <1>4, <3>1, <3>2, <3>3 DEF OmTypeOK, NoRef
  <2>2. CASE ~(side_ # 0 /\ qty_ > 0)
    <3>1. /\ side_' = side_ /\ qty_' = qty_ /\ entry_shares_' = entry_shares_
          /\ exit_shares_' = exit_shares_ /\ logged' = logged
      BY <2>2 DEF ForceClose, positionVars
    <3>2. side_ = 0
      BY <1>1, <2>2 DEF Holding, OmTypeOK
    <3> QED
      BY <1>1, <1>4, <3>1, <3>2 DEF OmTypeOK, Holding, NoRef
  <2> QED
    BY <2>1, <2>2
<1>7. Working'
  <2>1. Len(open') <= 1
    BY <1>5
  <2> QED
    BY <1>4, <1>5, <2>1 DEF Working
<1>8. Flow'
  <2>1. todo' \in Calls /\ Starts(todo', "end")
    BY <1>3, FixedShape DEF Calls
  <2>2. /\ ~Starts(todo', "cancel entry") /\ ~Buys(todo')
        /\ ~Starts(todo', "exit") /\ ~Starts(todo', "cancel exit") /\ ~Starts(todo', "close")
    BY <2>1 DEF Starts, Buys
  <2> QED
    BY <1>4, <1>5, <1>6, <2>1, <2>2 DEF Flow, Idle
<1> QED
  BY <1>5, <1>6, <1>7, <1>8 DEF OInv
\* A submission while nothing works (submit_limit).
LEMMA SubmitSound ==
  ASSUME SimOK, UNCHANGED vars, NEW side \in Sides, NEW price \in U32,
         NEW shares \in U32, shares # 0, SubmitTo(<<>>, side, price, shares)
  PROVE  /\ SimOK' /\ Len(open') <= 1 /\ next_ref \in Nat /\ next_ref # NoRef
         /\ open' # <<>> \/ fills' # <<>>
         /\ \A k \in DOMAIN open' : open'[k].ref = next_ref /\ open'[k].side = side
         /\ \A k \in DOMAIN fills' : fills'[k].ref = next_ref /\ fills'[k].side = side
         /\ Reported(fills') \in Nat /\ Resting(open') \in Nat
         /\ Reported(fills') + Resting(open') = shares
<1>1. IInv /\ FillTypeOK
  BY DEF SimOK
<1>2. SubmittedOne(side, shares)
  BY <1>1, SubmitAlone
<1>3. IInv'
  BY <1>1, NextInv
<1>4. SimOK'
  BY <1>2, <1>3 DEF SimOK, SubmittedOne
<1>5. next_ref \in Nat /\ next_ref # NoRef /\ next_ref' = next_ref + 1
  BY <1>1, TypeIs DEF NoRef, SubmitTo
<1>6. open' # <<>> \/ fills' # <<>>
  <2>1. SUFFICES ASSUME open' = <<>>, fills' = <<>> PROVE FALSE
    OBVIOUS
  <2>2. Reported(fills') = 0 /\ Resting(open') = 0
    BY <2>1, ReportedNone DEF Resting
  <2> QED
    BY <1>2, <2>2 DEF SubmittedOne
<1>7. /\ Len(open') <= 1
      /\ \A k \in DOMAIN open' : open'[k].ref = next_ref /\ open'[k].side = side
      /\ \A k \in DOMAIN fills' : fills'[k].ref = next_ref /\ fills'[k].side = side
      /\ Reported(fills') \in Nat /\ Resting(open') \in Nat
      /\ Reported(fills') + Resting(open') = shares
  BY <1>2 DEF SubmittedOne
<1> QED
  BY <1>4, <1>5, <1>6, <1>7

\* The side of an order.
LEMMA SideOfType ==
  ASSUME NEW dir
  PROVE  SideOf(dir) \in Sides
BY DEF SideOf, Sides

\* An entry is submitted (submit_entry, and on_bar for a passive one that is moved).
EntrySubmitted(price, shares) ==
  /\ UNCHANGED vars /\ SubmitTo(<<>>, SideOf(entry_dir_'), price, shares)
  /\ entry_ref_' = next_ref /\ exit_ref_ = NoRef /\ exit_ref_' = exit_ref_
  /\ entry_dir_' \in {-1, 1} /\ side_ \in {0, entry_dir_'}
  /\ side_' = side_ /\ qty_' = qty_ /\ entry_shares_' = entry_shares_
  /\ exit_shares_' = exit_shares_ /\ protective' = protective /\ logged' = logged

\* An entry that was submitted works.
LEMMA EntryStarts ==
  ASSUME SimOK, OmTypeOK, Holding, NEW price \in U32, NEW shares \in U32, shares # 0,
         EntrySubmitted(price, shares), qty_ + shares <= MaxU32
  PROVE  SimOK' /\ OmTypeOK' /\ Holding' /\ Working'
<1>1. /\ UNCHANGED vars /\ SubmitTo(<<>>, SideOf(entry_dir_'), price, shares)
      /\ entry_ref_' = next_ref /\ exit_ref_' = NoRef
      /\ entry_dir_' \in {-1, 1} /\ side_ \in {0, entry_dir_'}
      /\ side_' = side_ /\ qty_' = qty_ /\ entry_shares_' = entry_shares_
      /\ exit_shares_' = exit_shares_ /\ protective' = protective /\ logged' = logged
  BY DEF EntrySubmitted
<1>2. PICK side \in Sides : side = SideOf(entry_dir_')
  BY SideOfType
<1>3. /\ SimOK' /\ Len(open') <= 1 /\ next_ref \in Nat /\ next_ref # NoRef
      /\ open' # <<>> \/ fills' # <<>>
      /\ \A k \in DOMAIN open' : open'[k].ref = next_ref /\ open'[k].side = side
      /\ \A k \in DOMAIN fills' : fills'[k].ref = next_ref /\ fills'[k].side = side
      /\ Reported(fills') \in Nat /\ Resting(open') \in Nat
      /\ Reported(fills') + Resting(open') = shares
  BY <1>1, <1>2, SubmitSound
<1>4. OmTypeOK'
  BY <1>1, <1>3 DEF OmTypeOK, NoRef
<1>5. Holding'
  BY <1>1 DEF Holding
<1>6. EntryWorks'
  <2>1. Belongs(entry_ref_, SideOf(entry_dir_))'
    BY <1>1, <1>2, <1>3 DEF Belongs
  <2>2. qty_' + Reported(fills') + Resting(open') <= MaxU32
    <3>1. PICK q \in Nat, s \in Nat : q = qty_ /\ s = shares
      BY MaxU32Assumption DEF OmTypeOK, U32
    <3> QED
      BY <1>1, <1>3, <3>1
  <2> QED
    BY <1>1, <2>1, <2>2 DEF EntryWorks
<1>7. Working'
  BY <1>1, <1>3, <1>6 DEF Working, Idle
<1> QED
  BY <1>3, <1>4, <1>5, <1>7

\* submit_entry.
LEMMA SubmitEntryInv ==
  ASSUME OInv, NEW dir \in {-1, 1}, NEW shares \in OwnQtys \cup {0}, SubmitEntry(dir, shares)
  PROVE  OInv'
<1>1. Flow /\ SimOK /\ Working /\ OmTypeOK /\ Holding
  BY DEF OInv
<1>2. Buys(todo)
  BY DoingIs DEF SubmitEntry, Buys
<1>3. fills = <<>>
  BY <1>1, <1>2 DEF Flow, Buys, Starts
<1>4. PICK t \in AtRepeg : t = Tail(todo)
  BY <1>1, <1>2, DueHere DEF Due, Buys
<1>5. Flat
  BY <1>1, <1>2 DEF Flow
<1>6. Rest = t
  BY <1>4 DEF Rest
<1>7. CASE todo' = Rest /\ UNCHANGED <<fillVars, entry_ref_, entry_dir_>>
  <2>1. Looks
    BY <1>1, <1>7 DEF SubmitEntry, Looks, fillVars, workingVars, OmTypeOK
  <2>2. SimOK' /\ OmTypeOK' /\ Working' /\ Holding' /\ fills' = <<>>
    BY <1>3, <2>1, LooksOnly
  <2> QED
    BY <1>6, <1>7, <2>2, BarsFree, FreeFlow DEF OInv
<1>8. CASE /\ entry_ref_ = NoRef /\ entry_dir_' = dir /\ todo' = Rest
           /\ UNCHANGED <<fillVars, entry_ref_>>
  <2>1. /\ UNCHANGED fillVars /\ open' = open /\ fills' = fills
        /\ side_' = side_ /\ qty_' = qty_ /\ entry_shares_' = entry_shares_
        /\ exit_shares_' = exit_shares_ /\ entry_ref_' = NoRef
        /\ exit_ref_' = exit_ref_ /\ protective' = protective /\ logged' = logged
    BY <1>8 DEF SubmitEntry, fillVars, ownVars, positionVars
  <2>2. SimOK'
    BY <1>1, <2>1, SimStays
  <2>3. OmTypeOK'
    BY <1>1, <1>8, <2>1 DEF OmTypeOK, NoRef
  <2>4. Holding'
    BY <1>1, <2>1 DEF Holding
  <2>5. Working'
    <3>1. exit_ref_ = NoRef
      BY <1>5 DEF Flat
    <3> QED
      BY <1>1, <1>8, <2>1, <3>1 DEF Working, Idle
  <2>6. Flow'
    BY <1>3, <1>6, <1>8, <2>1, BarsFree, FreeFlow
  <2> QED
    BY <2>2, <2>3, <2>4, <2>5, <2>6 DEF OInv
<1>9. CASE /\ entry_ref_ = NoRef /\ entry_dir_' = dir /\ EntryPrice(dir) # 0 /\ shares # 0
           /\ SubmitLimit(SideOf(dir), EntryPrice(dir), shares)
           /\ entry_ref_' = next_ref /\ todo' = <<"poll", "settle">> \o Rest
  <2>1. EntryPrice(dir) \in U32 /\ shares \in U32 /\ shares <= MaxU32 /\ shares \in Nat
    <3>1. shares \in U32
      BY <1>9, FillAssumption
    <3> QED
      BY <1>1, <3>1, PricesFit, MaxU32Assumption DEF SimOK, U32
  <2>2. PICK price \in U32 : price = EntryPrice(dir)
    BY <2>1
  <2>3. side_ = 0 /\ qty_ = 0 /\ exit_ref_ = NoRef /\ open = <<>>
    BY <1>1, <1>5, <1>9 DEF Flat, Holding, Working, Idle
  <2>4. EntrySubmitted(price, shares)
    <3>1. UNCHANGED vars /\ SubmitTo(<<>>, SideOf(entry_dir_'), price, shares)
      BY <1>9, <2>2, <2>3 DEF SubmitLimit
    <3>2. /\ side_' = side_ /\ qty_' = qty_ /\ entry_shares_' = entry_shares_
          /\ exit_shares_' = exit_shares_ /\ exit_ref_' = exit_ref_
          /\ protective' = protective /\ logged' = logged
      BY DEF SubmitEntry, positionVars
    <3> QED
      BY <1>9, <2>3, <3>1, <3>2 DEF EntrySubmitted
  <2>5. qty_ + shares <= MaxU32
    BY <2>1, <2>3
  <2>6. SimOK' /\ OmTypeOK' /\ Holding' /\ Working'
    BY <1>1, <1>9, <2>1, <2>4, <2>5, EntryStarts
  <2>7. Flow'
    <3>1. todo' = <<"poll", "settle">> \o t
      BY <1>6, <1>9
    <3> QED
      BY <3>1, SettleFree, FreeFlow
  <2> QED
    BY <2>6, <2>7 DEF OInv
<1> QED
  BY <1>7, <1>8, <1>9 DEF SubmitEntry

\* The entry that was filled when it was submitted, and the one that rests.
LEMMA SettleInv ==
  ASSUME OInv, SettleEntry
  PROVE  OInv'
<1>1. Starts(todo, "settle") /\ Flow /\ SimOK /\ Working /\ OmTypeOK
  BY DoingIs DEF SettleEntry, OInv
<1>2. fills = <<>>
  BY <1>1 DEF Flow, Starts
<1>3. Tail(todo) \in AtBars \cup AtRepeg /\ todo' = Tail(todo)
  BY <1>1, DueHere DEF Due, SettleEntry, Rest
<1>4. entry_ref_' = entry_ref_
  BY <1>1, <1>2, FindIs DEF SettleEntry
<1>5. Looks
  BY <1>1, <1>4 DEF SettleEntry, Looks, fillVars, workingVars, OmTypeOK
<1>6. SimOK' /\ OmTypeOK' /\ Working' /\ Holding' /\ fills' = <<>>
  BY <1>2, <1>5, LooksOnly
<1> QED
  BY <1>3, <1>6, BarsFree, FreeFlow DEF OInv

\* A passive entry that is moved to the touch (on_bar).
LEMMA RepegInv ==
  ASSUME OInv, Repeg
  PROVE  OInv'
<1>1. Starts(todo, "repeg") /\ Flow /\ SimOK /\ Working /\ OmTypeOK /\ Holding
  BY DoingIs DEF Repeg, OInv
<1>2. fills = <<>> /\ FillTypeOK
  BY <1>1 DEF Flow, Starts, SimOK
<1>3. PICK t \in AtBars : t = Tail(todo)
  BY <1>1, DueHere DEF Due
<1>4. Rest = t
  BY <1>3 DEF Rest
<1>5. PICK best, moved :
        /\ best = EntryPrice(entry_dir_)
        /\ moved = {i \in Places(entry_ref_) : best # 0 /\ best # open[i].price}
  OBVIOUS
<1>6. \/ todo' = Rest /\ UNCHANGED <<fillVars, entry_ref_>>
      \/ /\ entry_ref_ # NoRef /\ ~Find(entry_ref_)
      \/ /\ entry_ref_ # NoRef
         /\ \E i \in moved :
              SubmitTo(Without(i), SideOf(entry_dir_), best, open[i].remaining)
         /\ UNCHANGED vars /\ entry_ref_' = next_ref
         /\ todo' = <<"poll", "settle">> \o Rest
  BY <1>5 DEF Repeg
<1>7. CASE todo' = Rest /\ UNCHANGED <<fillVars, entry_ref_>>
  <2>1. Looks
    BY <1>1, <1>7 DEF Repeg, Looks, fillVars, workingVars, OmTypeOK
  <2>2. SimOK' /\ OmTypeOK' /\ Working' /\ Holding' /\ fills' = <<>>
    BY <1>2, <2>1, LooksOnly
  <2> QED
    BY <1>4, <1>7, <2>2, BarsFree, FreeFlow DEF OInv
<1>8. CASE entry_ref_ # NoRef /\ ~Find(entry_ref_)
  BY <1>1, <1>2, <1>8, FindIs
<1>9. CASE /\ entry_ref_ # NoRef
           /\ \E i \in moved :
                SubmitTo(Without(i), SideOf(entry_dir_), best, open[i].remaining)
           /\ UNCHANGED vars /\ entry_ref_' = next_ref
           /\ todo' = <<"poll", "settle">> \o Rest
  <2>1. PICK i \in moved :
          SubmitTo(Without(i), SideOf(entry_dir_), best, open[i].remaining)
    BY <1>9
  <2>2. Places(entry_ref_) = {1} /\ open # <<>>
    BY <1>1, <1>2, <1>9, FindIs
  <2>3. i = 1 /\ i \in DOMAIN open
    BY <1>5, <2>1, <2>2 DEF Places
  <2>4. Len(open) <= 1
    BY <1>1 DEF Working
  <2>5. Without(i) = <<>>
    BY <1>2, <2>3, <2>4, WithoutOne
  <2>6. PICK left \in Nat : left = open[1].remaining /\ left # 0 /\ Resting(open) = left
    BY <1>2, <2>2, <2>4, OneIs
  <2>7. EntryWorks /\ exit_ref_ = NoRef
    BY <1>1, <1>9 DEF Working
  <2>8. qty_ + left <= MaxU32
    <3>1. Reported(fills) = 0
      BY <1>2, ReportedNone
    <3>2. qty_ \in Nat
      BY <1>1 DEF OmTypeOK
    <3> QED
      BY <2>6, <2>7, <3>1, <3>2 DEF EntryWorks
  <2>9. left \in U32
    BY <2>6, <2>8, <1>1, MaxU32Assumption DEF U32, OmTypeOK
  <2>10. PICK price \in U32 : price = best
    BY <1>1, <1>5, PricesFit DEF SimOK
  <2>11. EntrySubmitted(price, left)
    <3>1. /\ side_' = side_ /\ qty_' = qty_ /\ entry_shares_' = entry_shares_
          /\ exit_shares_' = exit_shares_ /\ exit_ref_' = exit_ref_
          /\ entry_dir_' = entry_dir_
          /\ protective' = protective /\ logged' = logged
      BY DEF Repeg, positionVars
    <3>2. entry_dir_ \in {-1, 1} /\ side_ \in {0, entry_dir_}
      BY <1>1, <2>7 DEF OmTypeOK, EntryWorks
    <3>3. SubmitTo(<<>>, SideOf(entry_dir_'), price, left)
      BY <2>1, <2>3, <2>5, <2>6, <2>10, <3>1
    <3> QED
      BY <1>9, <2>7, <3>1, <3>2, <3>3 DEF EntrySubmitted
  <2>12. SimOK' /\ OmTypeOK' /\ Holding' /\ Working'
    BY <1>1, <2>6, <2>8, <2>9, <2>11, EntryStarts
  <2>13. Flow'
    <3>1. todo' = <<"poll", "settle">> \o t
      BY <1>4, <1>9
    <3> QED
      BY <3>1, SettleFree, FreeFlow
  <2> QED
    BY <2>12, <2>13 DEF OInv
<1> QED
  BY <1>6, <1>7, <1>8, <1>9

\* submit_exit.
LEMMA SubmitExitInv ==
  ASSUME OInv, SubmitExit
  PROVE  OInv'
<1>1. Starts(todo, "exit") /\ Flow /\ SimOK /\ Working /\ OmTypeOK /\ Holding
  BY DoingIs DEF SubmitExit, OInv
<1>2. fills = <<>>
  BY <1>1 DEF Flow, Starts
<1>3. PICK t \in AtBars \cup AtRepeg : t = Tail(todo)
  BY <1>1, DueHere DEF Due
<1>4. Rest = t
  BY <1>3 DEF Rest
<1>5. entry_ref_ = NoRef /\ exit_ref_ = NoRef /\ open = <<>>
  <2>1. Idle
    BY <1>1 DEF Flow
  <2> QED
    BY <1>1, <2>1 DEF Working, Idle
<1>6. CASE todo' = Rest /\ UNCHANGED <<fillVars, exit_ref_>>
  <2>1. Looks
    BY <1>1, <1>6 DEF SubmitExit, Looks, fillVars, workingVars, OmTypeOK
  <2>2. SimOK' /\ OmTypeOK' /\ Working' /\ Holding' /\ fills' = <<>>
    BY <1>2, <2>1, LooksOnly
  <2> QED
    BY <1>4, <1>6, <2>2, BarsFree, FreeFlow DEF OInv
<1>7. CASE /\ side_ # 0 /\ qty_ # 0 /\ SubmitLimit(SideOf(-side_), ExitPrice, qty_)
           /\ exit_ref_' = next_ref /\ todo' = <<"poll">> \o Rest
  <2>1. qty_ \in U32 /\ ExitPrice \in U32
    BY <1>1, PricesFit, MaxU32Assumption DEF SimOK, OmTypeOK, Holding, U32
  <2>2. PICK side \in Sides, price \in U32 : side = SideOf(-side_) /\ price = ExitPrice
    BY <2>1, SideOfType
  <2>3. UNCHANGED vars /\ SubmitTo(<<>>, side, price, qty_)
    BY <1>5, <1>7, <2>2 DEF SubmitLimit
  <2>4. /\ SimOK' /\ Len(open') <= 1 /\ next_ref \in Nat /\ next_ref # NoRef
        /\ open' # <<>> \/ fills' # <<>>
        /\ \A k \in DOMAIN open' : open'[k].ref = next_ref /\ open'[k].side = side
        /\ \A k \in DOMAIN fills' : fills'[k].ref = next_ref /\ fills'[k].side = side
        /\ Reported(fills') + Resting(open') = qty_
    BY <1>1, <1>7, <2>1, <2>3, SubmitSound
  <2>5. /\ side_' = side_ /\ qty_' = qty_ /\ entry_shares_' = entry_shares_
        /\ exit_shares_' = exit_shares_ /\ entry_ref_' = NoRef /\ entry_dir_' = entry_dir_
        /\ protective' = protective /\ logged' = logged
    BY <1>5 DEF SubmitExit, positionVars
  <2>6. OmTypeOK' /\ Holding'
    BY <1>1, <1>7, <2>4, <2>5 DEF OmTypeOK, Holding, NoRef
  <2>7. ExitWorks'
    <3>1. Belongs(exit_ref_, SideOf(-side_))'
      BY <1>7, <2>2, <2>4, <2>5 DEF Belongs
    <3> QED
      BY <1>7, <2>4, <2>5, <3>1 DEF ExitWorks
  <2>8. Working'
    BY <1>7, <2>4, <2>5, <2>7 DEF Working, Idle
  <2>9. Flow'
    <3>1. todo' = <<"poll">> \o t
      BY <1>4, <1>7
    <3> QED
      BY <3>1, SettleFree, FreeFlow
  <2> QED
    BY <2>4, <2>6, <2>8, <2>9 DEF OInv
<1> QED
  BY <1>6, <1>7 DEF SubmitExit
-----------------------------------------------------------------------------
(* Messages and fills. *)

\* A message, before its fills are booked.
LEMMA OnMessageInv ==
  ASSUME OInv, OnMessage
  PROVE  OInv'
<1>1. todo = <<>> /\ Flow /\ SimOK /\ Working /\ OmTypeOK /\ Holding /\ FeedMessage
  BY DEF OnMessage, OInv
<1>2. fills = <<>> /\ FillTypeOK /\ OwnSound /\ IInv /\ Len(open) <= 1
  BY <1>1 DEF Flow, Starts, SimOK, Working
<1>3. IInv' /\ FillTypeOK' /\ OwnSound' /\ OneKept /\ SimOK'
  BY <1>1, <1>2, FeedOne DEF FeedResultOne, SimOK
<1>4. /\ side_' = side_ /\ qty_' = qty_ /\ entry_shares_' = entry_shares_
      /\ exit_shares_' = exit_shares_ /\ entry_ref_' = entry_ref_
      /\ entry_dir_' = entry_dir_ /\ exit_ref_' = exit_ref_
      /\ protective' = protective /\ logged' = logged
  BY DEF OnMessage, positionVars, workingVars
<1>5. OmTypeOK' /\ Holding'
  BY <1>1, <1>4 DEF OmTypeOK, Holding
<1>6. /\ Len(open') <= 1
      /\ \A k \in DOMAIN open' :
           open # <<>> /\ open'[k].ref = open[1].ref /\ open'[k].side = open[1].side
      /\ \A k \in DOMAIN fills' :
           open # <<>> /\ fills'[k].ref = open[1].ref /\ fills'[k].side = open[1].side
      /\ Reported(fills') + Resting(open') = Resting(open)
  BY <1>3 DEF OneKept
<1>7. Reported(fills) = 0
  BY <1>2, ReportedNone
<1>8. ASSUME NEW ref, NEW side, Belongs(ref, side)
      PROVE  /\ open' # <<>> \/ fills' # <<>>
             /\ \A k \in DOMAIN open' : open'[k].ref = ref /\ open'[k].side = side
             /\ \A k \in DOMAIN fills' : fills'[k].ref = ref /\ fills'[k].side = side
             /\ Resting(open) \in Nat
  <2>1. open # <<>>
    BY <1>2, <1>8 DEF Belongs
  <2>2. 1 \in DOMAIN open /\ Resting(open) \in Nat /\ Resting(open) # 0
    BY <1>2, <2>1, OneIs
  <2>3. open[1].ref = ref /\ open[1].side = side
    BY <1>8, <2>2 DEF Belongs
  <2>4. open' # <<>> \/ fills' # <<>>
    <3>1. SUFFICES ASSUME open' = <<>>, fills' = <<>> PROVE FALSE
      OBVIOUS
    <3>2. Reported(fills') = 0 /\ Resting(open') = 0
      BY <3>1, ReportedNone DEF Resting
    <3> QED
      BY <1>6, <2>2, <3>2
  <2> QED
    BY <1>6, <2>2, <2>3, <2>4
<1>9. Reported(fills') \in Nat /\ Resting(open') \in Nat
  <2>1. fills' \in Seq(Fill) /\ open' \in Seq(OwnOrder)
    BY <1>3 DEF FillTypeOK, Fill
  <2>2. Reported(fills') \in Nat
    BY <2>1, SharesType
  <2>3. Resting(open') \in Nat
    <3>1. PICK os \in Seq(OwnOrder) : os = open'
      BY <2>1
    <3>2. os # <<>> => os[1] \in OwnOrder
      BY <3>1
    <3>3. \A o \in OwnOrder : o.remaining \in Nat
      BY MaxU32Assumption DEF OwnOrder, U32
    <3> QED
      BY <3>1, <3>2, <3>3 DEF Resting
  <2> QED
    BY <2>2, <2>3
<1>10. ASSUME entry_ref_ # NoRef
       PROVE  EntryWorks'
  <2>1. EntryWorks
    BY <1>1, <1>10 DEF Working
  <2>2. Belongs(entry_ref_, SideOf(entry_dir_))' /\ Resting(open) \in Nat
    <3>1. PICK ref, side : ref = entry_ref_ /\ side = SideOf(entry_dir_)
      OBVIOUS
    <3>2. Belongs(ref, side)
      BY <2>1, <3>1 DEF EntryWorks
    <3>3. /\ open' # <<>> \/ fills' # <<>>
          /\ \A k \in DOMAIN open' : open'[k].ref = ref /\ open'[k].side = side
          /\ \A k \in DOMAIN fills' : fills'[k].ref = ref /\ fills'[k].side = side
          /\ Resting(open) \in Nat
      BY <1>8, <3>2
    <3>4. ref = entry_ref_' /\ side = SideOf(entry_dir_')
      BY <1>4, <3>1
    <3> QED
      BY <3>3, <3>4 DEF Belongs
  <2>3. PICK q \in Nat, a \in Nat, b \in Nat, c \in Nat :
          q = qty_ /\ a = Reported(fills') /\ b = Resting(open') /\ c = Resting(open)
    BY <1>1, <1>9, <2>2 DEF OmTypeOK
  <2>4. q + 0 + c <= MaxU32 /\ a + b = c
    BY <1>6, <1>7, <2>1, <2>3 DEF EntryWorks
  <2>5. q + a + b <= MaxU32
    BY <2>4, MaxU32Assumption
  <2> QED
    BY <1>4, <2>1, <2>2, <2>3, <2>5 DEF EntryWorks
<1>11. ASSUME exit_ref_ # NoRef
       PROVE  ExitWorks'
  <2>1. ExitWorks
    BY <1>1, <1>11 DEF Working
  <2>2. Belongs(exit_ref_, SideOf(-side_))' /\ Resting(open) \in Nat
    <3>1. PICK ref, side : ref = exit_ref_ /\ side = SideOf(-side_)
      OBVIOUS
    <3>2. Belongs(ref, side)
      BY <2>1, <3>1 DEF ExitWorks
    <3>3. /\ open' # <<>> \/ fills' # <<>>
          /\ \A k \in DOMAIN open' : open'[k].ref = ref /\ open'[k].side = side
          /\ \A k \in DOMAIN fills' : fills'[k].ref = ref /\ fills'[k].side = side
          /\ Resting(open) \in Nat
      BY <1>8, <3>2
    <3>4. ref = exit_ref_' /\ side = SideOf(-side_')
      BY <1>4, <3>1
    <3> QED
      BY <3>3, <3>4 DEF Belongs
  <2>3. Reported(fills') + Resting(open') = qty_'
    BY <1>4, <1>6, <1>7, <2>1, <2>2 DEF ExitWorks
  <2> QED
    BY <1>4, <2>1, <2>2, <2>3 DEF ExitWorks
<1>12. Working'
  <2>1. ASSUME Idle PROVE open' = <<>>
    <3>1. open = <<>>
      BY <1>1, <2>1 DEF Working
    <3>2. DOMAIN open' = {}
      BY <1>6, <3>1
    <3>3. open' \in Seq(OwnOrder)
      BY <1>3 DEF FillTypeOK
    <3> QED
      BY <3>2, <3>3
  <2> QED
    BY <1>1, <1>4, <1>6, <1>10, <1>11, <2>1 DEF Working, Idle
<1>13. Flow'
  <2>1. PICK x \in {<<>>, <<"print", "bars">>} : todo' = <<"poll">> \o x
    BY Zenon DEF OnMessage
  <2>2. x \in {<<>>} \cup AtPrint \cup AtSettle \cup AtBars \cup AtRepeg
    BY DEF AtPrint
  <2> QED
    BY <2>1, <2>2, PollFree, FreeFlow
<1> QED
  BY <1>3, <1>5, <1>12, <1>13 DEF OInv

\* What is taken off the fills, and what is left of them.
Polled ==
  /\ UNCHANGED vars /\ UNCHANGED <<max_market_ref, next_ref, increasing>>
  /\ fills # <<>> /\ fills' = Tail(fills) /\ todo' = todo /\ protective' = protective
  /\ ApplyFill(Head(fills))

\* Booking a fill leaves the calls as they are (poll_fills).
LEMMA PolledFlow ==
  ASSUME Flow, Starts(todo, "poll"), todo' = todo
  PROVE  Flow'
<1>1. /\ ~Starts(todo', "exit") /\ ~Starts(todo', "cancel entry") /\ ~Buys(todo')
      /\ ~Starts(todo', "cancel exit") /\ ~Starts(todo', "close") /\ ~Starts(todo', "end")
  BY DEF Starts, Buys
<1> QED
  BY <1>1 DEF Flow

\* The first fill, what it reports and what stays to be booked.
LEMMA FirstFill ==
  ASSUME SimOK, fills # <<>>, fills' = Tail(fills)
  PROVE  /\ Head(fills) = fills[1] /\ 1 \in DOMAIN fills /\ Head(fills) \in Fill
         /\ fills' \in Seq(Fill)
         /\ Head(fills).shares \in Nat /\ Head(fills).shares # 0 /\ Head(fills).ref # NoRef
         /\ Head(fills).ref \in Nat
         /\ \A k \in DOMAIN fills' : k + 1 \in DOMAIN fills /\ fills'[k] = fills[k + 1]
         /\ Reported(fills') \in Nat
         /\ Reported(fills) = Head(fills).shares + Reported(fills')
         /\ fills' # <<>> => Reported(fills') # 0
<1>1. fills \in Seq(Fill)
  BY TypeIs DEF SimOK
<1>2. /\ Head(fills) = fills[1] /\ Head(fills) \in Fill /\ fills' \in Seq(Fill)
      /\ \A k \in DOMAIN fills' : k + 1 \in DOMAIN fills /\ fills'[k] = fills[k + 1]
      /\ Reported(fills) = Head(fills).shares + Reported(fills')
  BY <1>1, ReportedHead
<1>3. 1 \in DOMAIN fills
  BY <1>1
<1>4. /\ Head(fills).shares \in Nat /\ Head(fills).shares # 0 /\ Head(fills).ref # NoRef
      /\ Head(fills).ref \in Nat
  BY <1>2, FillIs DEF NoRef
<1>5. Reported(fills') \in Nat
  BY <1>2, SharesType
<1>6. ASSUME fills' # <<>> PROVE Reported(fills') # 0
  <2>1. PICK fs \in Seq(Fill) : fs = fills'
    BY <1>2
  <2>2. Head(fs) \in Fill /\ Tail(fs) \in Seq(Fill)
        /\ Reported(fs) = Head(fs).shares + Reported(Tail(fs))
    BY <1>6, <2>1, ReportedHead
  <2>3. Head(fs).shares \in Nat /\ Head(fs).shares # 0 /\ Reported(Tail(fs)) \in Nat
    BY <2>2, FillIs, SharesType
  <2> QED
    BY <2>1, <2>2, <2>3
<1> QED
  BY <1>2, <1>3, <1>4, <1>5, <1>6

\* The simulation after a fill was taken off.
LEMMA PolledSim ==
  ASSUME SimOK, Polled, open' = open \/ open' = <<>>
  PROVE  SimOK'
<1>1. fills' \in Seq(Fill)
  BY FirstFill DEF Polled
<1>2. UNCHANGED vars /\ UNCHANGED <<max_market_ref, next_ref, increasing>>
  BY DEF Polled
<1>3. CASE open' = <<>>
  BY <1>1, <1>2, <1>3, SimEmptied
<1>4. CASE open' = open
  <2>1. IInv'
    BY <1>2, NextInv DEF SimOK
  <2>2. /\ open \in Seq(OwnOrder) /\ max_market_ref \in RefIds \cup {0}
        /\ next_ref \in Nat \ {0} /\ increasing \in BOOLEAN
    BY TypeIs DEF SimOK
  <2>3. FillTypeOK'
    BY <1>1, <1>2, <1>4, <2>2 DEF FillTypeOK, Fill
  <2>4. OwnSound'
    BY <1>2, <1>4 DEF SimOK, OwnSound
  <2> QED
    BY <2>1, <2>3, <2>4 DEF SimOK
<1> QED
  BY <1>3, <1>4

\* A round trip that closes leaves nothing behind.
Closing == side_ # 0 /\ side_' = 0 => open' = <<>> /\ entry_ref_' = NoRef

\* The fills that are left belong to the same order.
LEMMA StillBelongs ==
  ASSUME SimOK, Working, fills # <<>>, fills' = Tail(fills), NEW ref, NEW side,
         Belongs(ref, side)
  PROVE  /\ Head(fills).ref = ref /\ Head(fills).side = side
         /\ \A k \in DOMAIN fills' : fills'[k].ref = ref /\ fills'[k].side = side
         /\ \A i \in DOMAIN open : open[i].ref = ref /\ open[i].side = side
         /\ Find(ref) <=> open # <<>>
         /\ Resting(open) \in Nat /\ (open # <<>> => Resting(open) # 0)
<1>1. /\ Head(fills) = fills[1] /\ 1 \in DOMAIN fills
      /\ \A k \in DOMAIN fills' : k + 1 \in DOMAIN fills /\ fills'[k] = fills[k + 1]
  BY FirstFill
<1>2. /\ \A i \in DOMAIN open : open[i].ref = ref /\ open[i].side = side
      /\ \A k \in DOMAIN fills : fills[k].ref = ref /\ fills[k].side = side
  BY DEF Belongs
<1>3. FillTypeOK /\ Len(open) <= 1
  BY DEF SimOK, Working
<1>4. Find(ref) <=> open # <<>>
  <2>1. CASE open = <<>>
    BY <2>1 DEF Find, Places
  <2>2. CASE open # <<>>
    <3>1. 1 \in DOMAIN open
      BY <1>3, <2>2, OneIs
    <3> QED
      BY <1>2, <2>2, <3>1 DEF Find, Places
  <2> QED
    BY <2>1, <2>2
<1>5. Resting(open) \in Nat /\ (open # <<>> => Resting(open) # 0)
  BY <1>3, OneIs
<1> QED
  BY <1>1, <1>2, <1>4, <1>5

\* A fill of the entry (apply_fill).
LEMMA EntryFillInv ==
  ASSUME OInv, Polled, Starts(todo, "poll"), Head(fills).ref = entry_ref_,
         EntryFill(Head(fills)), logged' = logged + Signed(Head(fills))
  PROVE  /\ OInv' /\ side_' # 0
         /\ entry_dir_ \in {-1, 1} /\ side_ \in {0, entry_dir_} /\ side_' = entry_dir_
         /\ Head(fills).side = SideOf(entry_dir_) /\ qty_' = qty_ + Head(fills).shares
<1>1. Flow /\ SimOK /\ Working /\ OmTypeOK /\ Holding /\ fills # <<>> /\ fills' = Tail(fills)
  BY DEF OInv, Polled
<1>2. PICK sh \in Nat : sh = Head(fills).shares /\ sh # 0 /\ Head(fills).ref # NoRef
  BY <1>1, FirstFill
<1>3. PICK rep \in Nat : rep = Reported(fills') /\ Reported(fills) = sh + rep
  BY <1>1, <1>2, FirstFill
<1>4. EntryWorks /\ exit_ref_ = NoRef /\ entry_ref_ # NoRef
  BY <1>1, <1>2 DEF Working
<1>5. PICK ref, side : ref = entry_ref_ /\ side = SideOf(entry_dir_)
  OBVIOUS
<1>6. Belongs(ref, side)
  BY <1>4, <1>5 DEF EntryWorks
<1>7. /\ Head(fills).side = side
      /\ \A k \in DOMAIN fills' : fills'[k].ref = ref /\ fills'[k].side = side
      /\ \A i \in DOMAIN open : open[i].ref = ref /\ open[i].side = side
      /\ Find(ref) <=> open # <<>>
      /\ Resting(open) \in Nat
  BY <1>1, <1>6, StillBelongs
<1>8. /\ side_' = (IF side_ = 0 THEN entry_dir_ ELSE side_)
      /\ qty_' = qty_ + sh /\ entry_shares_' = entry_shares_ + sh
      /\ entry_ref_' = (IF Find(entry_ref_) THEN entry_ref_ ELSE NoRef)
      /\ exit_shares_' = exit_shares_ /\ entry_dir_' = entry_dir_ /\ exit_ref_' = exit_ref_
      /\ open' = open /\ todo' = todo /\ protective' = protective
  BY <1>2 DEF EntryFill, EntryRefAfter, Polled
<1>9. entry_dir_ \in {-1, 1} /\ side_ \in {0, entry_dir_} /\ side_' = entry_dir_
  BY <1>1, <1>4, <1>8 DEF EntryWorks, OmTypeOK
<1>10. SimOK'
  BY <1>1, <1>8, PolledSim
<1>11. qty_ \in Nat /\ qty_ + (sh + rep) + Resting(open) <= MaxU32
  BY <1>1, <1>3, <1>4 DEF OmTypeOK, EntryWorks
<1>12. qty_' + rep + Resting(open) <= MaxU32 /\ qty_' <= MaxU32
  BY <1>7, <1>8, <1>11, MaxU32Assumption
<1>13. OmTypeOK'
  <2>1. Signed(Head(fills)) \in Int
    BY <1>2 DEF Signed
  <2>2. logged + Signed(Head(fills)) \in Int
    BY <1>1, <2>1 DEF OmTypeOK
  <2>3. qty_ + sh \in Nat /\ entry_shares_ + sh \in Nat
    BY <1>1 DEF OmTypeOK
  <2> QED
    BY <1>1, <1>8, <1>9, <2>2, <2>3 DEF OmTypeOK, NoRef
<1>14. Holding'
  <2>1. qty_ = entry_shares_ - exit_shares_ /\ entry_shares_ \in Nat /\ exit_shares_ \in Nat
    BY <1>1 DEF OmTypeOK, Holding
  <2>2. qty_' = entry_shares_' - exit_shares_' /\ qty_' # 0
    BY <1>2, <1>8, <1>11, <2>1
  <2>3. side_' # 0
    BY <1>9
  <2> QED
    BY <1>12, <2>2, <2>3 DEF Holding
<1>15. Working'
  <2>1. Len(open') <= 1
    BY <1>1, <1>8 DEF Working
  <2>2. CASE open = <<>>
    <3>1. entry_ref_' = NoRef /\ exit_ref_' = NoRef /\ open' = <<>>
      BY <1>4, <1>5, <1>7, <1>8, <2>2
    <3> QED
      BY <2>1, <3>1 DEF Working
  <2>3. CASE open # <<>>
    <3>1. entry_ref_' = ref /\ exit_ref_' = NoRef /\ SideOf(entry_dir_') = side
      BY <1>4, <1>5, <1>7, <1>8, <2>3
    <3>2. Belongs(entry_ref_, SideOf(entry_dir_))'
      BY <1>7, <1>8, <2>3, <3>1 DEF Belongs
    <3>3. EntryWorks'
      BY <1>3, <1>8, <1>9, <1>12, <3>2 DEF EntryWorks
    <3> QED
      BY <1>4, <1>5, <2>1, <3>1, <3>3 DEF Working, Idle
  <2> QED
    BY <2>2, <2>3
<1>16. Flow'
  BY <1>1, <1>8, PolledFlow
<1> QED
  BY <1>2, <1>5, <1>7, <1>8, <1>9, <1>10, <1>13, <1>14, <1>15, <1>16 DEF OInv

\* A fill of the exit (apply_fill, close_round_trip).
LEMMA ExitFillInv ==
  ASSUME OInv, Polled, Starts(todo, "poll"), Head(fills).ref = exit_ref_,
         ExitFill(Head(fills)), logged' = logged + Signed(Head(fills))
  PROVE  /\ OInv' /\ Closing
         /\ side_ \in {-1, 1} /\ Head(fills).side = SideOf(-side_)
         /\ \/ side_' = 0 /\ qty_' = 0 /\ Head(fills).shares = qty_
            \/ side_' = side_ /\ qty_' = qty_ - Head(fills).shares
<1>1. Flow /\ SimOK /\ Working /\ OmTypeOK /\ Holding /\ fills # <<>> /\ fills' = Tail(fills)
  BY DEF OInv, Polled
<1>2. PICK sh \in Nat : sh = Head(fills).shares /\ sh # 0 /\ Head(fills).ref # NoRef
  BY <1>1, FirstFill
<1>3. PICK rep \in Nat : rep = Reported(fills') /\ Reported(fills) = sh + rep
  BY <1>1, <1>2, FirstFill
<1>4. ExitWorks /\ entry_ref_ = NoRef /\ exit_ref_ # NoRef
  BY <1>1, <1>2 DEF Working
<1>5. PICK ref, side : ref = exit_ref_ /\ side = SideOf(-side_)
  OBVIOUS
<1>6. Belongs(ref, side)
  BY <1>4, <1>5 DEF ExitWorks
<1>7. /\ Head(fills).side = side
      /\ \A k \in DOMAIN fills' : fills'[k].ref = ref /\ fills'[k].side = side
      /\ \A i \in DOMAIN open : open[i].ref = ref /\ open[i].side = side
      /\ Find(ref) <=> open # <<>>
      /\ Resting(open) \in Nat /\ (open # <<>> => Resting(open) # 0)
  BY <1>1, <1>6, StillBelongs
<1>8. qty_ \in Nat /\ sh + rep + Resting(open) = qty_ /\ side_ \in {-1, 1}
  BY <1>1, <1>3, <1>4 DEF OmTypeOK, ExitWorks
<1>9. Least(sh, qty_) = sh /\ sh <= qty_
  BY <1>7, <1>8 DEF Least
<1>10. entry_ref_' = NoRef /\ entry_dir_' = entry_dir_ /\ todo' = todo /\ protective' = protective
  BY <1>4 DEF ExitFill, Polled
<1>11. logged' \in Int
  <2>1. Signed(Head(fills)) \in Int
    BY <1>2 DEF Signed
  <2> QED
    BY <1>1, <2>1 DEF OmTypeOK
<1>12. Flow'
  BY <1>1, <1>10, PolledFlow
<1>13. CASE sh = qty_
  <2>1. open = <<>>
    BY <1>7, <1>8, <1>13
  <2>2. /\ side_' = 0 /\ qty_' = 0 /\ entry_shares_' = 0 /\ exit_shares_' = 0
        /\ exit_ref_' = NoRef /\ open' = <<>>
    BY <1>2, <1>5, <1>7, <1>9, <1>13, <2>1 DEF ExitFill, CloseRoundTrip
  <2>3. SimOK'
    BY <1>1, <2>2, PolledSim
  <2>4. OmTypeOK' /\ Holding'
    BY <1>1, <1>10, <1>11, <2>2, MaxU32Assumption DEF OmTypeOK, Holding, NoRef
  <2>5. Working'
    <3>1. Len(open') <= 1
      BY <2>2
    <3> QED
      BY <1>10, <2>2, <3>1 DEF Working
  <2>6. Closing
    BY <1>10, <2>2 DEF Closing
  <2> QED
    BY <1>2, <1>5, <1>7, <1>8, <1>12, <1>13, <2>2, <2>3, <2>4, <2>5, <2>6 DEF OInv
<1>14. CASE sh # qty_
  <2>1. /\ side_' = side_ /\ qty_' = qty_ - sh /\ exit_shares_' = exit_shares_ + sh
        /\ exit_ref_' = (IF Find(exit_ref_) THEN exit_ref_ ELSE NoRef)
        /\ entry_shares_' = entry_shares_ /\ open' = open
    BY <1>2, <1>9, <1>14 DEF ExitFill
  <2>2. SimOK'
    BY <1>1, <2>1, PolledSim
  <2>3. qty_' \in Nat /\ qty_' # 0 /\ qty_' <= MaxU32 /\ rep + Resting(open) = qty_'
    <3>1. qty_ <= MaxU32
      BY <1>1 DEF Holding
    <3> QED
      BY <1>7, <1>8, <1>9, <1>14, <2>1, <3>1, MaxU32Assumption
  <2>4. OmTypeOK'
    BY <1>1, <1>10, <1>11, <2>1, <2>3 DEF OmTypeOK, NoRef
  <2>5. Holding'
    <3>1. qty_ = entry_shares_ - exit_shares_ /\ entry_shares_ \in Nat /\ exit_shares_ \in Nat
      BY <1>1 DEF OmTypeOK, Holding
    <3>2. qty_' = entry_shares_' - exit_shares_'
      BY <1>8, <2>1, <3>1
    <3>3. side_' # 0
      BY <1>8, <2>1
    <3> QED
      BY <2>3, <3>2, <3>3 DEF Holding
  <2>6. Working'
    <3>1. Len(open') <= 1
      BY <1>1, <2>1 DEF Working
    <3>2. CASE open = <<>>
      <4>1. entry_ref_' = NoRef /\ exit_ref_' = NoRef /\ open' = <<>>
        BY <1>5, <1>7, <1>10, <2>1, <3>2
      <4> QED
        BY <3>1, <4>1 DEF Working
    <3>3. CASE open # <<>>
      <4>1. exit_ref_' = ref /\ entry_ref_' = NoRef /\ SideOf(-side_') = side
        BY <1>5, <1>7, <1>10, <2>1, <3>3
      <4>2. Belongs(exit_ref_, SideOf(-side_))'
        BY <1>7, <2>1, <3>3, <4>1 DEF Belongs
      <4>3. ExitWorks'
        BY <1>3, <1>8, <2>1, <2>3, <4>2 DEF ExitWorks
      <4> QED
        BY <1>4, <1>5, <3>1, <4>1, <4>3 DEF Working, Idle
    <3> QED
      BY <3>2, <3>3
  <2>7. Closing
    BY <1>8, <2>1 DEF Closing
  <2> QED
    BY <1>2, <1>5, <1>7, <1>8, <1>12, <2>1, <2>2, <2>4, <2>5, <2>6, <2>7 DEF OInv
<1> QED
  BY <1>13, <1>14

\* A fill of an order the manager no longer knows.
LEMMA OtherFillInv ==
  ASSUME OInv, Polled, Starts(todo, "poll"), Head(fills).ref # entry_ref_,
         Head(fills).ref # exit_ref_, logged' = logged + Signed(Head(fills)),
         UNCHANGED <<positionVars, workingVars, open>>
  PROVE  OInv' /\ Idle /\ side_' = side_
<1>1. Flow /\ SimOK /\ Working /\ OmTypeOK /\ Holding /\ fills # <<>> /\ fills' = Tail(fills)
  BY DEF OInv, Polled
<1>2. /\ open' = open /\ side_' = side_ /\ qty_' = qty_
      /\ entry_shares_' = entry_shares_ /\ exit_shares_' = exit_shares_
      /\ entry_ref_' = entry_ref_ /\ entry_dir_' = entry_dir_ /\ exit_ref_' = exit_ref_
      /\ todo' = todo /\ protective' = protective
  BY DEF positionVars, workingVars, Polled
<1>3. Head(fills) = fills[1] /\ 1 \in DOMAIN fills /\ Head(fills).shares \in Nat
  BY <1>1, FirstFill
<1>4. Idle
  BY <1>1, <1>3 DEF Working, EntryWorks, ExitWorks, Belongs, Idle
<1>5. open = <<>> /\ Len(open') <= 1
  BY <1>1, <1>2, <1>4 DEF Working
<1>6. SimOK'
  BY <1>1, <1>2, PolledSim
<1>7. OmTypeOK' /\ Holding'
  <2>1. logged' \in Int
    BY <1>1, <1>3 DEF Signed, OmTypeOK
  <2> QED
    BY <1>1, <1>2, <2>1 DEF OmTypeOK, Holding
<1>8. Working'
  BY <1>2, <1>4, <1>5 DEF Working, Idle
<1>9. Flow'
  BY <1>1, <1>2, PolledFlow
<1> QED
  BY <1>2, <1>4, <1>6, <1>7, <1>8, <1>9 DEF OInv

\* poll_fills, when there is nothing to book.
LEMMA PollDoneInv ==
  ASSUME OInv, PollFills, fills = <<>>
  PROVE  OInv' /\ Looks
<1>1. Starts(todo, "poll") /\ Flow
  BY DoingIs DEF PollFills, OInv
<1>2. Tail(todo) \in {<<>>} \cup AtPrint \cup AtSettle \cup AtBars \cup AtRepeg
      /\ todo' = Tail(todo)
  BY <1>1, DueHere DEF Due, PollFills, Rest
<1>3. Looks
  BY DEF PollFills, Looks, fillVars, ownVars, OInv, OmTypeOK
<1>4. SimOK' /\ OmTypeOK' /\ Working' /\ Holding' /\ fills' = <<>>
  BY <1>3, LooksOnly
<1> QED
  BY <1>2, <1>3, <1>4, PollFree, FreeFlow DEF OInv

\* The ways a fill is booked.
LEMMA PollCases ==
  ASSUME PollFills, fills # <<>>
  PROVE  /\ Polled /\ Starts(todo, "poll") /\ logged' = logged + Signed(Head(fills))
         /\ \/ Head(fills).ref = entry_ref_ /\ EntryFill(Head(fills))
            \/ Head(fills).ref = exit_ref_ /\ ExitFill(Head(fills))
            \/ /\ Head(fills).ref # entry_ref_ /\ Head(fills).ref # exit_ref_
               /\ UNCHANGED <<positionVars, workingVars, open>>
<1>1. Polled /\ Starts(todo, "poll") /\ ApplyFill(Head(fills))
  BY DoingIs DEF PollFills, Polled
<1> QED
  BY <1>1 DEF ApplyFill
-----------------------------------------------------------------------------
(* Every step, and what follows from the invariant. *)

\* The invariant holds at the start.
LEMMA OmInitInv == OmInit => OInv
<1> SUFFICES ASSUME OmInit PROVE OInv
  OBVIOUS
<1>1. FInv
  BY FillInitInv DEF OmInit
<1>2. SimOK
  BY <1>1 DEF FInv, SimOK
<1>3. open = <<>> /\ fills = <<>>
  BY DEF OmInit, FillInit
<1>4. OmTypeOK /\ Holding
  <2>1. /\ side_ = 0 /\ qty_ = 0 /\ entry_shares_ = 0 /\ exit_shares_ = 0
        /\ entry_ref_ = 0 /\ entry_dir_ = 0 /\ exit_ref_ = 0
        /\ protective = FALSE /\ logged = 0
    BY DEF OmInit, NoRef
  <2>2. OmTypeOK
    <3>1. protective \in BOOLEAN
      BY <2>1, Zenon
    <3>2. /\ side_ \in {-1, 0, 1} /\ entry_dir_ \in {-1, 0, 1}
          /\ qty_ \in Nat /\ entry_shares_ \in Nat /\ exit_shares_ \in Nat
          /\ entry_ref_ \in Nat /\ exit_ref_ \in Nat /\ logged \in Int
      BY <2>1
    <3> QED
      BY <3>1, <3>2, Zenon DEF OmTypeOK
  <2>3. Holding
    BY <2>1, MaxU32Assumption DEF Holding
  <2> QED
    BY <2>2, <2>3
<1>5. Working
  <2>1. Len(open) <= 1
    BY <1>3
  <2> QED
    BY <1>3, <2>1 DEF OmInit, Working
<1>6. Flow
  <2>1. todo = <<>> /\ todo \in Calls
    BY DEF OmInit, Calls
  <2> QED
    BY <1>3, <2>1 DEF Flow, Starts, Buys
<1> QED
  BY <1>2, <1>4, <1>5, <1>6 DEF OInv

\* Most steps leave what is held alone.
LEMMA StepCases ==
  ASSUME [OmNext]_omVars
  PROVE  \/ UNCHANGED <<positionVars, logged>>
         \/ PollFills
         \/ ForceClose
<1>1. CASE UNCHANGED omVars
  BY <1>1 DEF omVars
<1>2. CASE OmNext
  BY <1>2 DEF OmNext, OnMessage, OnTradePrint, CancelWorkingEntry, SubmitExit, SubmitEntry,
              SettleEntry, Repeg, OnBar, BarsDone, EndOfStream, CancelExit, Ended, omVars
<1> QED
  BY <1>1, <1>2

\* Booking a fill.
LEMMA PollInv ==
  ASSUME OInv, PollFills
  PROVE  OInv' /\ Closing
<1>1. CASE fills = <<>>
  <2>1. OInv' /\ Looks
    BY <1>1, PollDoneInv
  <2> QED
    BY <2>1 DEF Looks, positionVars, Closing
<1>2. CASE fills # <<>>
  <2>1. /\ Polled /\ Starts(todo, "poll") /\ logged' = logged + Signed(Head(fills))
        /\ \/ Head(fills).ref = entry_ref_ /\ EntryFill(Head(fills))
           \/ Head(fills).ref = exit_ref_ /\ ExitFill(Head(fills))
           \/ /\ Head(fills).ref # entry_ref_ /\ Head(fills).ref # exit_ref_
              /\ UNCHANGED <<positionVars, workingVars, open>>
    BY <1>2, PollCases
  <2>2. CASE Head(fills).ref = entry_ref_ /\ EntryFill(Head(fills))
    BY <2>1, <2>2, EntryFillInv DEF Closing
  <2>3. CASE Head(fills).ref = exit_ref_ /\ ExitFill(Head(fills))
    BY <2>1, <2>3, ExitFillInv
  <2>4. CASE /\ Head(fills).ref # entry_ref_ /\ Head(fills).ref # exit_ref_
             /\ UNCHANGED <<positionVars, workingVars, open>>
    BY <2>1, <2>4, OtherFillInv DEF Closing
  <2> QED
    BY <2>1, <2>2, <2>3, <2>4
<1> QED
  BY <1>1, <1>2

\* Every step keeps the invariant, and closes only what has no order left.
LEMMA OmNextInv ==
  ASSUME OInv, [OmNext]_omVars
  PROVE  OInv' /\ Closing
<1>1. OInv'
  <2>1. CASE UNCHANGED omVars
    BY <2>1, StutterInv
  <2>2. CASE OnMessage
    BY <2>2, OnMessageInv
  <2>3. CASE PollFills
    BY <2>3, PollInv
  <2>4. CASE \E fires \in BOOLEAN : OnTradePrint(fires)
    BY <2>4, TradePrintInv
  <2>5. CASE CancelWorkingEntry
    BY <2>5, CancelEntryInv
  <2>6. CASE SubmitExit
    BY <2>6, SubmitExitInv
  <2>7. CASE \E dir \in {-1, 1}, shares \in OwnQtys \cup {0} : SubmitEntry(dir, shares)
    BY <2>7, SubmitEntryInv
  <2>8. CASE SettleEntry
    BY <2>8, SettleInv
  <2>9. CASE Repeg
    BY <2>9, RepegInv
  <2>10. CASE \E el, es, xl, xs \in BOOLEAN : OnBar(el, es, xl, xs)
    BY <2>10, BarInv
  <2>11. CASE BarsDone
    BY <2>11, BarsDoneInv
  <2>12. CASE EndOfStream
    BY <2>12, EndOfStreamInv
  <2>13. CASE CancelExit
    BY <2>13, CancelExitInv
  <2>14. CASE ForceClose
    BY <2>14, ForceCloseInv
  <2>15. CASE Ended
    BY <2>15, StutterInv DEF Ended
  <2> QED
    BY <2>1, <2>2, <2>3, <2>4, <2>5, <2>6, <2>7, <2>8, <2>9, <2>10, <2>11, <2>12, <2>13,
       <2>14, <2>15 DEF OmNext
<1>2. Closing
  <2>1. CASE UNCHANGED <<positionVars, logged>>
    BY <2>1 DEF positionVars, Closing
  <2>2. CASE PollFills
    BY <2>2, PollInv
  <2>3. CASE ForceClose
    <3>1. Starts(todo, "close") /\ Flow /\ Working
      BY <2>3, DoingIs DEF ForceClose, OInv
    <3>2. Idle /\ open = <<>>
      BY <3>1 DEF Flow, Working
    <3>3. open' = open /\ entry_ref_' = entry_ref_
      BY <2>3 DEF ForceClose, fillVars, ownVars, workingVars
    <3> QED
      BY <3>2, <3>3 DEF Closing, Idle
  <2> QED
    BY <2>1, <2>2, <2>3, StepCases
<1> QED
  BY <1>1, <1>2

\* Between two messages, and at the end, the references are those of what is open.
LEMMA KnownOrders == OInv => WorkingOrdersKnown
<1> SUFFICES ASSUME OInv, Settled
             PROVE  /\ Len(open) <= 1
                    /\ {open[i].ref : i \in DOMAIN open} = {entry_ref_, exit_ref_} \ {NoRef}
  BY DEF WorkingOrdersKnown
<1>1. SimOK /\ Working /\ Flow /\ FillTypeOK /\ Len(open) <= 1
  BY DEF OInv, SimOK, Working
<1>2. fills = <<>>
  <2>1. todo = <<>> \/ todo = AtEnd
    BY DEF Settled, AtEnd
  <2>2. ~Starts(todo, "poll")
    BY <2>1, FixedShape DEF Starts
  <2> QED
    BY <1>1, <2>2 DEF Flow
<1>3. CASE open = <<>>
  <2>1. entry_ref_ = NoRef /\ exit_ref_ = NoRef
    BY <1>1, <1>2, <1>3, FindIs
  <2>2. DOMAIN open = {}
    BY <1>3
  <2> QED
    BY <1>1, <2>1, <2>2
<1>4. CASE open # <<>>
  <2>1. DOMAIN open = {1}
    BY <1>1, <1>4, OneIs
  <2>2. PICK ref : ref # NoRef /\ {entry_ref_, exit_ref_} \ {NoRef} = {ref}
                   /\ (ref = entry_ref_ \/ ref = exit_ref_)
    BY <1>1, <1>4 DEF Working, Idle
  <2>3. Places(ref) = {1}
    BY <1>1, <1>2, <2>2, FindIs
  <2>4. open[1].ref = ref
    BY <2>3 DEF Places
  <2> QED
    BY <1>1, <2>1, <2>2, <2>4
<1> QED
  BY <1>3, <1>4

\* The round trips balance wherever the invariant holds (close_round_trip, finish).
LEMMA BalancedTrips == OInv => RoundTripBalances
<1> SUFFICES ASSUME OInv PROVE RoundTripBalances
  OBVIOUS
<1>1. Holding /\ Flow /\ Working
  BY DEF OInv
<1>2. Doing("end") => side_ = 0 /\ open = <<>>
  BY <1>1, DoingIs DEF Flow, Working
<1> QED
  BY <1>1, <1>2 DEF RoundTripBalances, Holding

\* The state of the session stays as described: the position is of its type and
\* fits 32 bits, at most one order works, its fills are nobody else's, and each
\* call the session has still to make finds what it assumes.
THEOREM OmInductive == OmSpec => []OInv
BY OmInitInv, OmNextInv, PTL DEF OmSpec

\* At most one own order works at a time and the manager knows it: between two
\* messages entry_ref_ and exit_ref_ are the references of what FillEngine has
\* open, no more and no less.
THEOREM OneOrderWorks == OmSpec => []WorkingOrdersKnown
BY OmInductive, KnownOrders, PTL

\* A round trip ends when as many shares left as had entered (close_round_trip),
\* nothing is held while flat, and after finish nothing is held and nothing works.
THEOREM RoundTripsBalance == OmSpec => []RoundTripBalances
BY OmInductive, BalancedTrips, PTL

\* When a fill of the exit, or finish, closes a round trip nothing is left
\* working: no ghost entry buys or sells again after the exit.
THEOREM NoGhostAfterClose == OmSpec => CloseLeavesNothingWorking
<1>1. OInv /\ [OmNext]_omVars
        => [side_ # 0 /\ side_' = 0 => open' = <<>> /\ entry_ref_' = NoRef]_omVars
  BY OmNextInv DEF Closing
<1> QED
  BY <1>1, OmInductive, PTL DEF OmSpec, CloseLeavesNothingWorking

-----------------------------------------------------------------------------
(* The position and the fills that were logged. *)

\* What is held is what was bought less what was sold, and a fill that waits to
\* be booked (take_fills) is of an order the manager knows.
Ledger ==
  /\ side_ * qty_ = logged
  /\ fills # <<>> => ~Idle

\* No call reports fills of an order at two levels.
OneLevelFills == Len(fills) <= 1

\* The shares of a fill, signed by its side (apply_fill).
LEMMA SignedIs ==
  ASSUME NEW f, NEW d \in Int, f.side = SideOf(d), f.shares \in Nat
  PROVE  /\ Signed(f) \in Int
         /\ d > 0 => Signed(f) = f.shares
         /\ ~(d > 0) => Signed(f) + f.shares = 0
<1>1. PICK sh \in Nat : sh = f.shares
  OBVIOUS
<1>2. CASE d > 0
  <2>1. Signed(f) = sh
    BY <1>1, <1>2 DEF Signed, SideOf
  <2> QED
    BY <1>1, <1>2, <2>1
<1>3. CASE ~(d > 0)
  <2>1. f.side # BUY
    BY <1>3 DEF SideOf, BUY, SELL
  <2>2. Signed(f) = -sh
    BY <1>1, <2>1 DEF Signed
  <2>3. -sh \in Int /\ -sh + sh = 0
    OBVIOUS
  <2> QED
    BY <1>1, <1>3, <2>2, <2>3
<1> QED
  BY <1>2, <1>3

\* A fill of the entry moves the position by what is logged (apply_fill): s and d
\* are the direction before and after, q the shares before.
LEMMA EntryLedger ==
  ASSUME NEW s \in Int, NEW d \in Int, NEW q \in Nat, NEW sh \in Nat,
         NEW signed \in Int, NEW total \in Int, s = 0 \/ s = d, s = 0 => q = 0,
         s * q = total, (d = 1 /\ signed = sh) \/ (d + 1 = 0 /\ signed + sh = 0)
  PROVE  d * (q + sh) = total + signed
<1>1. CASE d = 1
  <2>1. total = q
    <3>1. 1 * q = q
      OBVIOUS
    <3> QED
      BY <1>1, <3>1
  <2>2. 1 * (q + sh) = q + sh
    OBVIOUS
  <2>3. signed = sh
    BY <1>1
  <2> QED
    BY <1>1, <2>1, <2>2, <2>3
<1>2. CASE d + 1 = 0
  <2>1. d = -1 /\ signed = 0 - sh
    BY <1>2
  <2>2. total = 0 - q
    <3>1. (-1) * q = 0 - q
      OBVIOUS
    <3>2. CASE s = 0
      BY <3>1, <3>2
    <3>3. CASE s = d
      BY <2>1, <3>1, <3>3
    <3> QED
      BY <3>2, <3>3
  <2>3. (-1) * (q + sh) = 0 - (q + sh)
    OBVIOUS
  <2> QED
    BY <2>1, <2>2, <2>3
<1> QED
  BY <1>1, <1>2

\* So does a fill of the exit, the last one included (apply_fill,
\* close_round_trip): s2 and q2 are the direction and the shares after it.
LEMMA ExitLedger ==
  ASSUME NEW s \in Int, NEW q \in Nat, NEW sh \in Nat, NEW signed \in Int,
         NEW total \in Int, NEW s2 \in Int, NEW q2 \in Int, s * q = total,
         (s = 1 /\ signed + sh = 0) \/ (s + 1 = 0 /\ signed = sh),
         (s2 = 0 /\ q2 = 0 /\ sh = q) \/ (s2 = s /\ q2 = q - sh)
  PROVE  s2 * q2 = total + signed
<1>1. total + signed = s * (q - sh)
  <2>1. PICK left \in Int : left = q - sh
    OBVIOUS
  <2>2. CASE s = 1
    <3>1. 1 * q = q /\ 1 * left = left
      OBVIOUS
    <3> QED
      BY <2>1, <2>2, <3>1
  <2>3. CASE s + 1 = 0
    <3>1. (-1) * q = 0 - q /\ (-1) * left = 0 - left
      OBVIOUS
    <3>2. s = -1
      BY <2>3
    <3> QED
      BY <2>1, <2>3, <3>1, <3>2
  <2> QED
    BY <2>2, <2>3
<1>2. CASE s2 = 0 /\ q2 = 0 /\ sh = q
  <2>1. q - sh = 0
    BY <1>2
  <2>2. s * 0 = 0 /\ 0 * 0 = 0
    OBVIOUS
  <2> QED
    BY <1>1, <1>2, <2>1, <2>2, Zenon
<1> QED
  BY <1>1, <1>2

\* Every step keeps what is held and what is logged together.
LEMMA LedgerHeld ==
  ASSUME OInv, Ledger, [OmNext]_omVars
  PROVE  side_' * qty_' = logged'
<1>1. OmTypeOK /\ Holding /\ Flow /\ SimOK /\ Working /\ side_ * qty_ = logged
  BY DEF OInv, Ledger
<1>2. side_ \in {-1, 0, 1} /\ qty_ \in Nat /\ (side_ = 0 => qty_ = 0) /\ logged \in Int
  BY <1>1 DEF OmTypeOK, Holding
<1>3. CASE UNCHANGED <<positionVars, logged>>
  BY <1>1, <1>3 DEF positionVars
<1>4. CASE PollFills /\ fills = <<>>
  BY <1>1, <1>4, PollDoneInv DEF Looks, positionVars
<1>5. CASE PollFills /\ fills # <<>>
  <2>1. /\ Polled /\ Starts(todo, "poll") /\ logged' = logged + Signed(Head(fills))
        /\ \/ Head(fills).ref = entry_ref_ /\ EntryFill(Head(fills))
           \/ Head(fills).ref = exit_ref_ /\ ExitFill(Head(fills))
           \/ /\ Head(fills).ref # entry_ref_ /\ Head(fills).ref # exit_ref_
              /\ UNCHANGED <<positionVars, workingVars, open>>
    BY <1>5, PollCases
  <2>2. PICK f : f = Head(fills)
    OBVIOUS
  <2>3. f.shares \in Nat
    BY <1>1, <1>5, <2>1, <2>2, FirstFill DEF Polled
  <2>4. CASE f.ref = entry_ref_ /\ EntryFill(f)
    <3>1. /\ entry_dir_ \in {-1, 1} /\ side_ \in {0, entry_dir_} /\ side_' = entry_dir_
          /\ f.side = SideOf(entry_dir_) /\ qty_' = qty_ + f.shares
      BY <2>1, <2>2, <2>4, EntryFillInv
    <3>2. PICK s, d, q, sh, signed, total :
            /\ s = side_ /\ d = entry_dir_ /\ q = qty_ /\ sh = f.shares
            /\ signed = Signed(f) /\ total = logged
      OBVIOUS
    <3>3. /\ s \in Int /\ d \in Int /\ q \in Nat /\ sh \in Nat /\ total \in Int
          /\ s = 0 \/ s = d
          /\ s = 0 => q = 0
          /\ s * q = total
          /\ d = 1 \/ d + 1 = 0
      BY <1>1, <1>2, <2>3, <3>1, <3>2
    <3>4. /\ signed \in Int
          /\ d > 0 => signed = sh
          /\ ~(d > 0) => signed + sh = 0
      BY <2>3, <3>1, <3>2, <3>3, SignedIs
    <3>5. (d = 1 /\ signed = sh) \/ (d + 1 = 0 /\ signed + sh = 0)
      BY <3>3, <3>4
    <3>6. d * (q + sh) = total + signed
      BY <3>3, <3>4, <3>5, EntryLedger
    <3>7. side_' = d /\ qty_' = q + sh /\ logged' = total + signed
      BY <2>1, <2>2, <3>1, <3>2
    <3> QED
      BY <3>6, <3>7
  <2>5. CASE f.ref = exit_ref_ /\ ExitFill(f)
    <3>1. /\ side_ \in {-1, 1} /\ f.side = SideOf(-side_)
          /\ \/ side_' = 0 /\ qty_' = 0 /\ f.shares = qty_
             \/ side_' = side_ /\ qty_' = qty_ - f.shares
      BY <2>1, <2>2, <2>5, ExitFillInv
    <3>2. PICK s, q, sh, signed, total, s2, q2, back :
            /\ s = side_ /\ q = qty_ /\ sh = f.shares /\ back = -side_
            /\ signed = Signed(f) /\ total = logged /\ s2 = side_' /\ q2 = qty_'
      OBVIOUS
    <3>3. /\ s \in Int /\ q \in Nat /\ sh \in Nat /\ total \in Int /\ back \in Int
          /\ s * q = total
          /\ s = 1 \/ s + 1 = 0
          /\ back + s = 0
      BY <1>1, <1>2, <2>3, <3>1, <3>2
    <3>4. /\ signed \in Int
          /\ back > 0 => signed = sh
          /\ ~(back > 0) => signed + sh = 0
      BY <2>3, <3>1, <3>2, <3>3, SignedIs
    <3>5. (s = 1 /\ signed + sh = 0) \/ (s + 1 = 0 /\ signed = sh)
      BY <3>3, <3>4
    <3>6. (s2 = 0 /\ q2 = 0 /\ sh = q) \/ (s2 = s /\ q2 = q - sh)
      BY <3>1, <3>2
    <3>7. s2 \in Int /\ q2 \in Int
      BY <3>3, <3>6
    <3>8. s2 * q2 = total + signed
      BY <3>3, <3>4, <3>5, <3>6, <3>7, ExitLedger
    <3> QED
      BY <2>1, <2>2, <3>2, <3>8
  <2>6. ~(/\ f.ref # entry_ref_ /\ f.ref # exit_ref_
          /\ UNCHANGED <<positionVars, workingVars, open>>)
    <3>1. ~Idle
      BY <1>5 DEF Ledger
    <3> QED
      BY <2>1, <2>2, <3>1, OtherFillInv
  <2> QED
    BY <2>1, <2>2, <2>4, <2>5, <2>6
<1>6. CASE ForceClose
  <2>1. CASE side_ # 0 /\ qty_ > 0
    <3>1. side_' = 0 /\ qty_' = 0 /\ logged' = logged - side_ * qty_
      BY <1>6, <2>1 DEF ForceClose, CloseRoundTrip
    <3>2. logged - logged = 0 /\ 0 * 0 = 0
      BY <1>2
    <3> QED
      BY <1>1, <3>1, <3>2
  <2>2. CASE ~(side_ # 0 /\ qty_ > 0)
    BY <1>1, <1>6, <2>2 DEF ForceClose, positionVars
  <2> QED
    BY <2>1, <2>2
<1> QED
  BY <1>3, <1>4, <1>5, <1>6, StepCases

\* What a step does to the fills that wait: most leave none or leave them alone.
LEMMA FillCases ==
  ASSUME [OmNext]_omVars
  PROVE  \/ UNCHANGED <<fills, workingVars>>
         \/ fills' = fills /\ todo # <<>> /\ ~Starts(todo, "poll")
         \/ fills' = <<>>
         \/ OnMessage
         \/ PollFills
         \/ SubmitExit
         \/ \E dir \in {-1, 1}, shares \in OwnQtys \cup {0} : SubmitEntry(dir, shares)
         \/ Repeg
<1>1. CASE UNCHANGED omVars
  BY <1>1 DEF omVars, fillVars, ownVars
<1>2. CASE CancelWorkingEntry
  <2>1. CASE Find(entry_ref_)
    BY <1>2, <2>1 DEF CancelWorkingEntry, Cancel
  <2>2. CASE ~Find(entry_ref_)
    <3>1. Starts(todo, "cancel entry") /\ fills' = fills
      BY <1>2, <2>2, DoingIs DEF CancelWorkingEntry, fillVars, ownVars
    <3> QED
      BY <3>1 DEF Starts
  <2> QED
    BY <2>1, <2>2
<1>3. CASE CancelExit
  <2>1. CASE Find(exit_ref_)
    BY <1>3, <2>1 DEF CancelExit, Cancel
  <2>2. CASE ~Find(exit_ref_)
    BY <1>3, <2>2 DEF CancelExit, fillVars, ownVars, workingVars
  <2> QED
    BY <2>1, <2>2
<1>4. CASE SettleEntry
  <2>1. Starts(todo, "settle") /\ fills' = fills
    BY <1>4, DoingIs DEF SettleEntry, fillVars, ownVars
  <2> QED
    BY <2>1 DEF Starts
<1>5. CASE \E fires \in BOOLEAN : OnTradePrint(fires)
  BY <1>5 DEF OnTradePrint, fillVars, ownVars
<1>6. CASE \E el, es, xl, xs \in BOOLEAN : OnBar(el, es, xl, xs)
  BY <1>6 DEF OnBar, fillVars, ownVars
<1>7. CASE BarsDone \/ EndOfStream \/ ForceClose \/ Ended
  BY <1>7 DEF BarsDone, EndOfStream, ForceClose, Ended, omVars, fillVars, ownVars
<1> QED
  BY <1>1, <1>2, <1>3, <1>4, <1>5, <1>6, <1>7 DEF OmNext

\* Who a call reports fills to: while each call reports at most one, its order is
\* still the entry or the exit when it is booked.
LEMMA LedgerWaits ==
  ASSUME OInv, Ledger, OneLevelFills, [OmNext]_omVars, fills' # <<>>
  PROVE  ~Idle'
<1>1. Flow /\ SimOK /\ Working /\ fills \in Seq(Fill)
  BY TypeIs DEF OInv, SimOK
<1>2. CASE UNCHANGED <<fills, workingVars>>
  BY <1>2 DEF Ledger, Idle, workingVars
<1>3. ~(fills' = fills /\ todo # <<>> /\ ~Starts(todo, "poll"))
  BY <1>1 DEF Flow
<1>4. CASE OnMessage
  <2>1. OneKept /\ FillTypeOK'
    <3>1. FeedMessage /\ IInv /\ FillTypeOK /\ OwnSound /\ Len(open) <= 1
      BY <1>1, <1>4 DEF OnMessage, SimOK, Working
    <3> QED
      BY <3>1, FeedOne DEF FeedResultOne
  <2>2. \E k \in DOMAIN fills' : TRUE
    <3>1. PICK fs \in Seq(Fill) : fs = fills'
      BY <2>1 DEF FillTypeOK, Fill
    <3>2. 1 \in DOMAIN fs
      BY <3>1
    <3> QED
      BY <3>1, <3>2
  <2>3. open # <<>>
    BY <2>1, <2>2 DEF OneKept
  <2>4. UNCHANGED workingVars
    BY <1>4 DEF OnMessage
  <2> QED
    BY <1>1, <2>3, <2>4 DEF Working, Idle, workingVars
<1>5. ~PollFills
  <2> SUFFICES ASSUME PollFills PROVE FALSE
    OBVIOUS
  <2>1. CASE fills = <<>>
    BY <2>1 DEF PollFills
  <2>2. CASE fills # <<>>
    <3>1. fills' = Tail(fills)
      BY <2>2 DEF PollFills
    <3>2. PICK fs \in Seq(Fill) : fs = fills
      BY <1>1
    <3>3. Len(fs) <= 1
      BY <3>2 DEF OneLevelFills
    <3>4. Tail(fs) \in Seq(Fill) /\ Len(Tail(fs)) = 0
      BY <2>2, <3>2, <3>3
    <3>5. Tail(fs) = <<>>
      <4>1. PICK ts \in Seq(Fill) : ts = Tail(fs)
        BY <3>4
      <4>2. Len(ts) = 0
        BY <3>4, <4>1
      <4>3. ts = <<>>
        BY <4>2
      <4> QED
        BY <4>1, <4>3
    <3> QED
      BY <3>1, <3>2, <3>5
  <2> QED
    BY <2>1, <2>2
<1>6. next_ref # NoRef
  BY <1>1, TypeIs DEF SimOK, NoRef
<1>7. CASE SubmitExit
  <2>1. Starts(todo, "exit")
    BY <1>7, DoingIs DEF SubmitExit
  <2>2. fills = <<>>
    BY <1>1, <2>1, NothingToBook
  <2>3. exit_ref_' = next_ref
    BY <1>7, <2>2 DEF SubmitExit, fillVars, ownVars
  <2> QED
    BY <1>6, <2>3 DEF Idle, NoRef
<1>8. ASSUME NEW dir \in {-1, 1}, NEW shares \in OwnQtys \cup {0}, SubmitEntry(dir, shares)
      PROVE  ~Idle'
  <2>1. Starts(todo, "buy") \/ Starts(todo, "sell")
    BY <1>8, DoingIs DEF SubmitEntry
  <2>2. fills = <<>>
    BY <1>1, <2>1, NothingToBook
  <2>3. entry_ref_' = next_ref
    BY <1>8, <2>2 DEF SubmitEntry, fillVars, ownVars
  <2> QED
    BY <1>6, <2>3 DEF Idle, NoRef
<1>9. CASE Repeg
  <2>1. Starts(todo, "repeg")
    BY <1>9, DoingIs DEF Repeg
  <2>2. fills = <<>>
    BY <1>1, <2>1, NothingToBook
  <2>3. entry_ref_' = next_ref
    BY <1>9, <2>2 DEF Repeg, fillVars, ownVars
  <2> QED
    BY <1>6, <2>3 DEF Idle, NoRef
<1> QED
  BY <1>2, <1>3, <1>4, <1>5, <1>7, <1>8, <1>9, FillCases

\* While no order fills at two levels at once, the position is what the logged
\* fills add up to: no fill that FillEngine reports is left out by apply_fill and
\* none is counted twice.  Without the condition this is false: see the run of
\* crossing orders that sweep.
THEOREM PositionsAreLogged == OmSpec /\ []OneLevelFills => []PositionIsLogged
<1>1. OmInit => Ledger
  <2> SUFFICES ASSUME OmInit PROVE Ledger
    OBVIOUS
  <2>1. side_ = 0 /\ qty_ = 0 /\ logged = 0 /\ fills = <<>>
    BY DEF OmInit, FillInit
  <2> QED
    BY <2>1 DEF Ledger
<1>2. OInv /\ Ledger /\ OneLevelFills /\ [OmNext]_omVars => Ledger'
  BY LedgerHeld, LedgerWaits DEF Ledger
<1>3. Ledger => PositionIsLogged
  BY DEF Ledger, PositionIsLogged
<1> QED
  BY <1>1, <1>2, <1>3, OmInductive, PTL DEF OmSpec

-----------------------------------------------------------------------------
(* Orders at the touch. *)

\* The displayed book is not crossed.
Uncrossed == BestOf(BUY) # 0 /\ BestOf(SELL) # 0 => BestOf(BUY) <= BestOf(SELL)

\* An order's limit reaches the best of the other side and no further.
AtTouch(side, price) ==
  BestOf(Opposite(side)) # 0 => ~Superior(side, price, BestOf(Opposite(side)))

\* Two places of a walk are two prices (submit_limit).
LEMMA WalkOnce ==
  ASSUME NEW side, NEW i \in Prices, NEW j \in Prices,
         WalkPrice(side, i) = WalkPrice(side, j)
  PROVE  i = j
<1>1. i \in Nat /\ j \in Nat /\ PriceLevels \in Nat
  <2>1. Prices = 1 .. MaxPrice /\ MaxPrice \in Nat
    BY PricesType
  <2>2. i \in Nat /\ j \in Nat
    BY <2>1
  <2> QED
    BY <2>2, PriceLevelsAssumption
<1> QED
  BY <1>1 DEF WalkPrice

\* An order at the touch meets one price of the other side (submit_limit).
LEMMA TouchMeetsOne ==
  ASSUME IInv, NEW side \in Sides, NEW price \in Nat, AtTouch(side, price),
         NEW i \in Prices, Marketable(side, price)[i] # 0
  PROVE  WalkPrice(side, i) = BestOf(Opposite(side))
<1>1. PICK best, p : best = BestOf(Opposite(side)) /\ p = WalkPrice(side, i)
  OBVIOUS
<1>2. best # 0 /\ ~Superior(Opposite(side), p, best) /\ ~Superior(side, p, price)
  BY <1>1 DEF Marketable, BestOf
<1>3. ~Superior(side, price, best)
  BY <1>1, <1>2 DEF AtTouch
<1>4. best \in Nat /\ p \in Nat
  <2>1. p \in Prices /\ Prices = 1 .. MaxPrice /\ MaxPrice \in Nat
    BY <1>1, WalkType, PricesType
  <2>2. BookOf(Locate) \in Book
    BY FillAssumption, BookOfType DEF IInv
  <2>3. Opposite(side) \in Sides
    BY DEF Opposite, Sides
  <2>4. best \in 0 .. MaxPrice
    BY <1>1, <2>2, <2>3 DEF BestOf, Book
  <2> QED
    BY <2>1, <2>4
<1>5. CASE side = BUY
  <2>1. Opposite(side) # BUY
    BY <1>5 DEF Opposite, BUY, SELL
  <2>2. ~(p < best) /\ ~(p > price) /\ ~(price > best)
    BY <1>2, <1>3, <1>5, <2>1 DEF Superior
  <2> QED
    BY <1>1, <1>4, <2>2
<1>6. CASE side # BUY
  <2>1. Opposite(side) = BUY
    BY <1>6 DEF Opposite
  <2>2. ~(p > best) /\ ~(p < price) /\ ~(price < best)
    BY <1>2, <1>3, <1>6, <2>1 DEF Superior
  <2> QED
    BY <1>1, <1>4, <2>2
<1> QED
  BY <1>5, <1>6

\* So it is filled at one level at most.
LEMMA TouchFillsOne ==
  ASSUME SimOK, NEW side \in Sides, NEW price \in U32, NEW shares \in U32,
         AtTouch(side, price), NEW os, SubmitTo(os, side, price, shares)
  PROVE  Len(fills') <= 1
<1>1. IInv /\ next_ref \in Nat \ {0} /\ price \in Nat
  BY TypeIs, MaxU32Assumption DEF SimOK, U32
<1>2. PICK taken, recs, I : /\ taken = SweepFills(side, price, shares)
                            /\ recs = SweepRecords(side, price, shares)
                            /\ I = Taken(side, price, shares)
  OBVIOUS
<1>3. PICK pos : taken \in Seq(Fill) /\ I \in SUBSET (1 .. MaxPrice) /\ Names(taken, recs, I, pos)
  BY <1>1, <1>2, SweepNames
<1>4. I \subseteq Prices
  BY <1>2 DEF Taken
<1>5. ASSUME NEW i \in I
      PROVE  WalkPrice(side, i) = BestOf(Opposite(side))
  <2>1. i \in Prices /\ recs[i].shares # 0
    BY <1>2, <1>4 DEF Taken
  <2>2. PICK got \in Nat, ask \in Nat :
          got = InTurn(shares, Marketable(side, price), i) /\ ask = Marketable(side, price)[i]
    <3>1. Marketable(side, price)[i] \in Nat
      BY <1>1, <2>1, MarketableType, PricesType
    <3> QED
      BY <1>1, <2>1, <3>1, SweepRecordsType
  <2>3. got # 0 /\ got <= ask
    <3>1. i \in Prices
      BY <2>1
    <3>2. InTurn(shares, Marketable(side, price), i) <= Marketable(side, price)[i]
      BY <1>1, <3>1, SweepRecordsType
    <3>3. SweepRecords(side, price, shares)[i].shares
            = InTurn(shares, Marketable(side, price), i)
      BY <1>1, <3>1, SweepRecordsType
    <3>4. SweepRecords(side, price, shares)[i].shares # 0
      BY <1>2, <2>1
    <3> QED
      BY <2>2, <3>2, <3>3, <3>4, Zenon
  <2>4. Marketable(side, price)[i] # 0
    BY <2>2, <2>3
  <2> QED
    BY <1>1, <2>1, <2>4, TouchMeetsOne
<1>6. ASSUME Len(taken) >= 2 PROVE FALSE
  <2>1. 1 \in DOMAIN taken /\ 2 \in DOMAIN taken
    BY <1>3, <1>6
  <2>2. pos[1] \in I /\ pos[2] \in I
    BY <1>3, <2>1 DEF Names
  <2>3. PICK i \in Prices, j \in Prices : i = pos[1] /\ j = pos[2]
    BY <1>4, <2>2
  <2>4. WalkPrice(side, i) = WalkPrice(side, j)
    BY <1>5, <2>2, <2>3
  <2>5. i = j
    BY <2>4, WalkOnce
  <2>6. pos[1] # pos[2]
    <3>1. \A j1, k1 \in DOMAIN taken : pos[j1] = pos[k1] => j1 = k1
      BY <1>3 DEF Names
    <3> QED
      BY <2>1, <3>1
  <2> QED
    BY <2>3, <2>5, <2>6
<1>7. Len(taken) \in Nat
  BY <1>3
<1>8. fills' = taken
  BY <1>2 DEF SubmitTo
<1>9. Len(taken) <= 1
  BY <1>6, <1>7
<1> QED
  BY <1>8, <1>9

\* Without a crossing margin every order of the manager is at the touch
\* (entry_price, exit_price).
LEMMA PricesAtTouch ==
  ASSUME SimOK, OmTypeOK, CrossTicks = 0, EntryCross \/ Uncrossed, NEW dir
  PROVE  /\ EntryPrice(dir) # 0 => AtTouch(SideOf(dir), EntryPrice(dir))
         /\ side_ # 0 => AtTouch(SideOf(-side_), ExitPrice)
<1>1. /\ CrossTicks = 0
      /\ BestOf(BUY) \in Nat /\ BestOf(SELL) \in Nat
  <2>1. BookOf(Locate) \in Book /\ BUY \in Sides /\ SELL \in Sides /\ MaxPrice \in Nat
    BY FillAssumption, BookOfType, PricesType DEF IInv, SimOK, Sides
  <2>2. BestOf(BUY) \in 0 .. MaxPrice /\ BestOf(SELL) \in 0 .. MaxPrice
    BY <2>1 DEF BestOf, Book
  <2> QED
    BY <2>1, <2>2
<1>2. PICK bid \in Nat, ask \in Nat : bid = BestOf(BUY) /\ ask = BestOf(SELL)
  BY <1>1
<1>3. Below(bid) = bid /\ Above(ask) = ask
  BY <1>1 DEF Below, Above
<1>4. Opposite(BUY) = SELL /\ Opposite(SELL) = BUY /\ SELL # BUY
  BY DEF Opposite, BUY, SELL
<1>5. /\ AtTouch(BUY, ask) /\ AtTouch(SELL, bid)
      /\ Uncrossed /\ bid # 0 => AtTouch(BUY, bid)
      /\ Uncrossed /\ ask # 0 => AtTouch(SELL, ask)
  BY <1>2, <1>4 DEF AtTouch, Superior, Uncrossed
<1>6. ASSUME dir > 0
      PROVE  EntryPrice(dir) # 0 => AtTouch(SideOf(dir), EntryPrice(dir))
  <2>0. PICK side, price : side = SideOf(dir) /\ price = EntryPrice(dir)
    OBVIOUS
  <2>1. /\ side = BUY
        /\ EntryCross => price = ask
        /\ ~EntryCross => price = bid
    BY <1>2, <1>3, <1>6, <2>0 DEF SideOf, EntryPrice
  <2>2. CASE EntryCross
    <3>1. AtTouch(side, price)
      BY <1>5, <2>1, <2>2
    <3> QED
      BY <2>0, <3>1
  <2>3. CASE ~EntryCross
    <3>1. Uncrossed
      BY <2>3
    <3>2. price # 0 => AtTouch(side, price)
      BY <1>5, <2>1, <2>3, <3>1
    <3> QED
      BY <2>0, <3>2
  <2> QED
    BY <2>2, <2>3
<1>7. ASSUME ~(dir > 0)
      PROVE  EntryPrice(dir) # 0 => AtTouch(SideOf(dir), EntryPrice(dir))
  <2>0. PICK side, price : side = SideOf(dir) /\ price = EntryPrice(dir)
    OBVIOUS
  <2>1. /\ side = SELL
        /\ EntryCross => price = bid
        /\ ~EntryCross => price = ask
    BY <1>2, <1>3, <1>7, <2>0 DEF SideOf, EntryPrice
  <2>2. CASE EntryCross
    <3>1. AtTouch(side, price)
      BY <1>5, <2>1, <2>2
    <3> QED
      BY <2>0, <3>1
  <2>3. CASE ~EntryCross
    <3>1. Uncrossed
      BY <2>3
    <3>2. price # 0 => AtTouch(side, price)
      BY <1>5, <2>1, <2>3, <3>1
    <3> QED
      BY <2>0, <3>2
  <2> QED
    BY <2>2, <2>3
<1>8. EntryPrice(dir) # 0 => AtTouch(SideOf(dir), EntryPrice(dir))
  BY <1>6, <1>7
<1>9. ASSUME side_ # 0
      PROVE  AtTouch(SideOf(-side_), ExitPrice)
  <2>1. PICK s \in {-1, 1} : s = side_
    BY <1>9 DEF OmTypeOK
  <2>2. CASE s = 1
    <3>1. SideOf(-s) = SELL
      BY <2>2 DEF SideOf
    <3>2. ExitPrice = bid
      BY <1>2, <1>3, <2>1, <2>2 DEF ExitPrice
    <3> QED
      BY <1>5, <2>1, <3>1, <3>2
  <2>3. CASE s # 1
    <3>1. s < 0 /\ -s > 0 /\ ~(s > 0)
      BY <2>3
    <3>2. SideOf(-s) = BUY
      BY <3>1 DEF SideOf
    <3>3. ExitPrice = ask
      BY <1>2, <1>3, <2>1, <3>1 DEF ExitPrice
    <3> QED
      BY <1>5, <2>1, <3>2, <3>3
  <2> QED
    BY <2>2, <2>3
<1> QED
  BY <1>8, <1>9

\* Then no call reports fills at two levels.
LEMMA OneLevelStep ==
  ASSUME OInv, OneLevelFills, CrossTicks = 0, EntryCross \/ Uncrossed, [OmNext]_omVars
  PROVE  OneLevelFills'
<1>1. Flow /\ SimOK /\ Working /\ OmTypeOK /\ Holding /\ fills \in Seq(Fill)
  BY TypeIs DEF OInv, SimOK
<1>2. CASE fills' = fills
  BY <1>2 DEF OneLevelFills
<1>3. CASE fills' = <<>>
  <2>1. Len(fills') = 0
    BY <1>3
  <2> QED
    BY <2>1 DEF OneLevelFills
<1>4. CASE OnMessage
  <2>1. FeedMessage /\ IInv /\ FillTypeOK /\ OwnSound /\ Len(open) <= 1
    BY <1>1, <1>4 DEF OnMessage, SimOK, Working
  <2>2. OneKept
    BY <2>1, FeedOne DEF FeedResultOne
  <2> QED
    BY <2>2 DEF OneKept, OneLevelFills
<1>5. CASE PollFills
  <2>1. CASE fills = <<>>
    BY <1>2, <1>5, <2>1 DEF PollFills
  <2>2. CASE fills # <<>>
    <3>1. fills' = Tail(fills)
      BY <1>5, <2>2 DEF PollFills
    <3>2. Len(Tail(fills)) = Len(fills) - 1 /\ Len(fills) \in Nat
      BY <1>1, <2>2
    <3> QED
      BY <3>1, <3>2 DEF OneLevelFills
  <2> QED
    BY <2>1, <2>2
<1>6. CASE SubmitExit
  <2>1. CASE side_ = 0 \/ qty_ = 0 \/ ExitPrice = 0
    <3>1. fills' = fills
      BY <1>6, <2>1 DEF SubmitExit, fillVars, ownVars
    <3> QED
      BY <1>2, <3>1
  <2>2. CASE ~(side_ = 0 \/ qty_ = 0 \/ ExitPrice = 0)
    <3>1. PICK side, price, shares, os :
            side = SideOf(-side_) /\ price = ExitPrice /\ shares = qty_ /\ os = open
      OBVIOUS
    <3>2. SubmitTo(os, side, price, shares)
      BY <1>6, <2>2, <3>1 DEF SubmitExit, SubmitLimit
    <3>3. side \in Sides /\ price \in U32
      BY <1>1, <3>1, SideOfType, PricesFit DEF SimOK
    <3>4. shares \in U32
      BY <1>1, <3>1, MaxU32Assumption DEF OmTypeOK, Holding, U32
    <3>5. AtTouch(side, price)
      BY <1>1, <2>2, <3>1, PricesAtTouch
    <3> QED
      BY <1>1, <3>2, <3>3, <3>4, <3>5, TouchFillsOne DEF OneLevelFills
  <2> QED
    BY <2>1, <2>2
<1>7. ASSUME NEW dir \in {-1, 1}, NEW shares \in OwnQtys \cup {0}, SubmitEntry(dir, shares)
      PROVE  OneLevelFills'
  <2>1. CASE entry_ref_ # NoRef \/ EntryPrice(dir) = 0 \/ shares = 0
    <3>1. fills' = fills
      BY <1>7, <2>1 DEF SubmitEntry, fillVars, ownVars
    <3> QED
      BY <1>2, <3>1
  <2>2. CASE ~(entry_ref_ # NoRef \/ EntryPrice(dir) = 0 \/ shares = 0)
    <3>1. PICK side, price, os : side = SideOf(dir) /\ price = EntryPrice(dir) /\ os = open
      OBVIOUS
    <3>2. SubmitTo(os, side, price, shares)
      BY <1>7, <2>2, <3>1 DEF SubmitEntry, SubmitLimit
    <3>3. side \in Sides /\ price \in U32 /\ shares \in U32
      BY <1>1, <2>2, <3>1, SideOfType, PricesFit, FillAssumption DEF SimOK
    <3>4. AtTouch(side, price)
      BY <1>1, <2>2, <3>1, PricesAtTouch
    <3> QED
      BY <1>1, <3>2, <3>3, <3>4, TouchFillsOne DEF OneLevelFills
  <2> QED
    BY <2>1, <2>2
<1>8. CASE Repeg
  <2> DEFINE best == EntryPrice(entry_dir_)
             moved == {i \in Places(entry_ref_) : best # 0 /\ best # open[i].price}
  <2>1. \/ fills' = fills
        \/ \E i \in moved :
             SubmitTo(Without(i), SideOf(entry_dir_), best, open[i].remaining)
    BY <1>8 DEF Repeg, fillVars, ownVars
  <2>2. ASSUME NEW i \in moved,
               SubmitTo(Without(i), SideOf(entry_dir_), best, open[i].remaining)
        PROVE  OneLevelFills'
    <3>1. PICK side, price, shares, os :
            /\ side = SideOf(entry_dir_) /\ price = best
            /\ shares = open[i].remaining /\ os = Without(i)
      OBVIOUS
    <3>2. SubmitTo(os, side, price, shares) /\ price # 0
      BY <2>2, <3>1
    <3>3. side \in Sides /\ price \in U32
      BY <1>1, <3>1, SideOfType, PricesFit DEF SimOK
    <3>4. shares \in U32
      <4>1. i \in DOMAIN open
        BY DEF Places
      <4> QED
        BY <1>1, <3>1, <4>1, OwnType DEF SimOK
    <3>5. AtTouch(side, price)
      BY <1>1, <3>1, <3>2, PricesAtTouch
    <3> QED
      BY <1>1, <3>2, <3>3, <3>4, <3>5, TouchFillsOne DEF OneLevelFills
  <2> QED
    BY <1>2, <2>1, <2>2
<1> QED
  BY <1>2, <1>3, <1>4, <1>5, <1>6, <1>7, <1>8, FillCases

\* Without a crossing margin (cfg_.cross_ticks), and with entries that cross or a
\* displayed book that is not crossed, every order meets one level at most: the
\* position is what the logged fills add up to, whatever the feed.
THEOREM TouchOrdersAreLogged ==
  ASSUME CrossTicks = 0
  PROVE  OmSpec /\ [](EntryCross \/ Uncrossed) => []PositionIsLogged
<1>1. OmInit => OneLevelFills
  <2>1. OmInit => fills = <<>>
    BY DEF OmInit, FillInit
  <2>2. Len(<<>>) = 0
    OBVIOUS
  <2> QED
    BY <2>1, <2>2 DEF OneLevelFills
<1>2. OInv /\ OneLevelFills /\ (EntryCross \/ Uncrossed) /\ [OmNext]_omVars => OneLevelFills'
  BY OneLevelStep
<1>3. OmSpec /\ [](EntryCross \/ Uncrossed) => []OneLevelFills
  BY <1>1, <1>2, OmInductive, PTL DEF OmSpec
<1> QED
  BY <1>3, PositionsAreLogged, PTL
=============================================================================
