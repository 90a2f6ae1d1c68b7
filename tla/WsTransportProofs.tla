------------------------- MODULE WsTransportProofs --------------------------
(***************************************************************************)
(* Proofs about WsTransport, for every server, number of addresses and     *)
(* limit.                                                                  *)
(***************************************************************************)
EXTENDS WsTransport, FiniteSetTheorems, WellFoundedInduction, TLAPS

-----------------------------------------------------------------------------
(***************************************************************************)
(* Where the items of a script end: a recursive function, and sums of its  *)
(* items' cells.                                                           *)
(***************************************************************************)
\* A set that holds 0, and with a number below L the next one, holds 0..L.
LEMMA SetInduction ==
    ASSUME NEW L \in Nat, NEW S, 0 \in S, \A i \in 0..L : i < L /\ i \in S => i + 1 \in S
    PROVE  0..L \subseteq S
<1> SUFFICES ASSUME NEW m \in 0..L, m \notin S  PROVE FALSE
  OBVIOUS
<1> DEFINE T == {i \in Nat : i \in 0..L /\ i \notin S}
<1>1. T \subseteq Nat /\ T # {}
  OBVIOUS
<1>2. PICK x \in T : \A y \in T : ~(<<y, x>> \in OpToRel(<, Nat))
  BY <1>1, NatLessThanWellFounded, WFMin
<1>3. \A y \in T : ~(y < x)
  BY <1>1, <1>2 DEF OpToRel
<1>4. x \in Nat /\ x \in 0..L /\ x # 0
  OBVIOUS
<1>5. x - 1 \in Nat /\ x - 1 \in 0..L /\ x - 1 < x /\ x - 1 < L /\ (x - 1) + 1 = x
  BY <1>4
<1>6. x - 1 \in S
  BY <1>3, <1>5
<1> QED
  BY <1>5, <1>6

\* A function that is what its recursive definition says.
IsEnds(s, g) ==
    g = [i \in 0..Len(s) |-> IF i = 0 THEN 0 ELSE g[i - 1] + Cells(s[i])]
EndsOf(s) == CHOOSE g : IsEnds(s, g)

\* An item has some cells; a frame has one at least.
LEMMA CellsNat ==
    ASSUME NEW f \in Items
    PROVE  Cells(f) \in Nat /\ HeadCells(f.len) \in 1..2 /\ (f.op # "http" => Cells(f) >= 1)
<1>1. f.len \in Nat
  BY DEF Items
<1>2. HeadCells(f.len) \in 1..2
  BY WsAssumption, <1>1 DEF HeadCells
<1> QED
  BY <1>1, <1>2 DEF Cells

\* There is such a function.
LEMMA EndsExist ==
    ASSUME NEW s \in Seq(Items)
    PROVE  \E g : IsEnds(s, g)
<1> DEFINE L == Len(s)
           Upto(n, g) == g = [i \in 0..n |-> IF i = 0 THEN 0 ELSE g[i - 1] + Cells(s[i])]
           S == {n \in 0..L : \E g : Upto(n, g)}
<1>1. L \in Nat
  OBVIOUS
<1>2. 0 \in S
  <2> DEFINE g == [i \in 0..0 |-> 0]
  <2>1. Upto(0, g)
    OBVIOUS
  <2> HIDE DEF Upto, g
  <2>2. \E f : Upto(0, f)
    BY <2>1
  <2> QED
    BY <1>1, <2>2
<1>3. ASSUME NEW n \in 0..L, n < L, n \in S  PROVE n + 1 \in S
  <2>1. PICK g : Upto(n, g)
    BY <1>3
  <2> DEFINE h == [i \in 0..n + 1 |-> IF i = n + 1 THEN g[n] + Cells(s[n + 1]) ELSE g[i]]
  <2>2. \A i \in 0..n : h[i] = g[i]
    OBVIOUS
  <2>3. h[n + 1] = h[n] + Cells(s[n + 1])
    OBVIOUS
  <2>4. \A i \in 0..n : g[i] = IF i = 0 THEN 0 ELSE g[i - 1] + Cells(s[i])
    BY <2>1
  <2>5. DOMAIN h = 0..n + 1 /\ h = [i \in 0..n + 1 |-> h[i]]
    OBVIOUS
  <2> HIDE DEF h
  <2>6. ASSUME NEW i \in 0..n + 1  PROVE h[i] = IF i = 0 THEN 0 ELSE h[i - 1] + Cells(s[i])
    <3>1. CASE i = n + 1
      <4>1. i # 0 /\ i - 1 = n
        BY <1>1, <3>1
      <4> QED
        BY <2>3, <3>1, <4>1
    <3>2. CASE i # n + 1
      <4>1. i \in 0..n /\ (i # 0 => i - 1 \in 0..n)
        BY <1>1, <3>2
      <4> QED
        BY <2>2, <2>4, <4>1
    <3> QED
      BY <3>1, <3>2
  <2>7. Upto(n + 1, h)
    BY <2>5, <2>6
  <2>8. n + 1 \in 0..L
    BY <1>1, <1>3
  <2> QED
    BY <2>7, <2>8
<1> HIDE DEF S
<1>4. 0..L \subseteq S
  BY <1>1, <1>2, <1>3, SetInduction
<1>5. L \in S
  BY <1>1, <1>4
<1> QED
  BY <1>5 DEF S, IsEnds

\* What it says: sums, which grow.
LEMMA EndsAre ==
    ASSUME NEW s \in Seq(Items)
    PROVE  /\ EndsOf(s)[0] = 0
           /\ \A i \in 0..Len(s) : EndsOf(s)[i] \in Nat
           /\ \A i \in 1..Len(s) : EndsOf(s)[i] = EndsOf(s)[i - 1] + Cells(s[i])
           /\ \A i, j \in 0..Len(s) : i <= j => EndsOf(s)[i] <= EndsOf(s)[j]
<1> DEFINE g == EndsOf(s)
           L == Len(s)
<1>1. L \in Nat
  OBVIOUS
<1>2. IsEnds(s, g)
  BY EndsExist DEF EndsOf
<1> HIDE DEF g
<1>3. g[0] = 0 /\ \A i \in 1..L : g[i] = g[i - 1] + Cells(s[i])
  BY <1>1, <1>2 DEF IsEnds
<1>4. \A i \in 1..L : Cells(s[i]) \in Nat
  BY CellsNat
<1>5. 0..L \subseteq {i \in 0..L : g[i] \in Nat}
  <2> DEFINE S == {i \in 0..L : g[i] \in Nat}
  <2>1. 0 \in S
    BY <1>1, <1>3
  <2>2. ASSUME NEW i \in 0..L, i < L, i \in S  PROVE i + 1 \in S
    <3>1. i + 1 \in 1..L /\ (i + 1) - 1 = i /\ i + 1 \in 0..L
      BY <1>1, <2>2
    <3> QED
      BY <1>3, <1>4, <2>2, <3>1
  <2> HIDE DEF S
  <2>3. 0..L \subseteq S
    BY <1>1, <2>1, <2>2, SetInduction
  <2> QED
    BY <2>3 DEF S
<1>6. \A i \in 0..L : g[i] \in Nat
  BY <1>5
<1>7. ASSUME NEW i \in 0..L  PROVE \A j \in 0..L : i <= j => g[i] <= g[j]
  <2> DEFINE S == {j \in 0..L : i <= j => g[i] <= g[j]}
  <2>1. 0 \in S
    BY <1>1, <1>6
  <2>2. ASSUME NEW j \in 0..L, j < L, j \in S  PROVE j + 1 \in S
    <3>1. j + 1 \in 1..L /\ (j + 1) - 1 = j /\ j + 1 \in 0..L
      BY <1>1, <2>2
    <3>2. g[j + 1] = g[j] + Cells(s[j + 1]) /\ Cells(s[j + 1]) \in Nat
      BY <1>3, <1>4, <3>1
    <3>3. g[i] \in Nat /\ g[j] \in Nat
      BY <1>6
    <3>4. CASE i <= j
      BY <2>2, <3>1, <3>2, <3>3, <3>4
    <3>5. CASE ~(i <= j)
      <4>1. i <= j + 1 => i = j + 1
        BY <1>1, <3>5
      <4> QED
        BY <1>6, <3>1, <4>1
    <3> QED
      BY <3>4, <3>5
  <2> HIDE DEF S
  <2>3. 0..L \subseteq S
    BY <1>1, <2>1, <2>2, SetInduction
  <2> QED
    BY <2>3 DEF S
<1> QED
  BY <1>3, <1>6, <1>7 DEF g

\* EndOf is that function.
LEMMA EndOfIs == EndOf = EndsOf(script)
BY DEF EndOf, EndsOf, IsEnds

-----------------------------------------------------------------------------
(***************************************************************************)
(* Types, and where the reader and the connection can be together.         *)
(***************************************************************************)
RxType == [pc : {"idle", "decode", "fill", "ssl"}, timed : BOOLEAN, late : BOOLEAN,
           acc : Seq(Nat), size : Nat]

StateInv ==
    /\ TypeOK /\ rx \in RxType /\ script \in Scripts
    /\ conn \in {"tcp", "tls", "request", "head"} => pos = 1
    /\ conn = "open" => pos >= 2
    /\ rx.pc = "idle" \/ conn # "open" => rx.acc = <<>>

\* What every script is.
LEMMA ScriptFacts ==
    ASSUME NEW s \in Scripts
    PROVE  /\ s \in Seq(Items) /\ Len(s) \in Nat /\ Len(s) >= 1 /\ s[1].op = "http"
           /\ Numbered(s) /\ \A i \in 1..Len(s) : s[i] \in Items
<1>1. s \in Seq(Items) /\ s # <<>> /\ s[1].op = "http" /\ Numbered(s)
  BY ScriptAssumption
<1> QED
  BY <1>1

\* Where its items end.
LEMMA Ends ==
    ASSUME script \in Scripts
    PROVE  /\ EndOf[0] = 0
           /\ \A i \in 0..Len(script) : EndOf[i] \in Nat
           /\ \A i \in 1..Len(script) : EndOf[i] = EndOf[i - 1] + Cells(script[i])
           /\ \A i, j \in 0..Len(script) : i <= j => EndOf[i] <= EndOf[j]
<1>1. script \in Seq(Items)
  BY ScriptFacts
<1> QED
  BY <1>1, EndsAre, EndOfIs

\* A call starts, or ends, with nothing assembled.
LEMMA RxStart ==
    /\ NotReading \in RxType /\ NotReading.pc = "idle" /\ NotReading.acc = <<>>
    /\ \A timed \in BOOLEAN : /\ Reading(timed) \in RxType /\ Reading(timed).pc = "decode"
                              /\ Reading(timed).acc = <<>>
<1>1. <<>> \in Seq(Nat)
  OBVIOUS
<1>2. NotReading \in RxType
  BY <1>1 DEF NotReading, RxType
<1> QED
  BY <1>2 DEF NotReading, Reading, RxType

\* No socket, or one.
LEMMA Sockets ==
    /\ Cardinality({}) = 0 /\ {} \subseteq 1..Addresses
    /\ \A a \in 1..Addresses : Cardinality({a}) = 1 /\ {a} \subseteq 1..Addresses
BY FS_EmptySet, FS_Singleton

\* The first state.
LEMMA StateInit == Init => StateInv
<1> SUFFICES ASSUME Init  PROVE StateInv
  OBVIOUS
<1>1. script \in Scripts /\ Len(script) \in Nat /\ 1 \in 1..Len(script) + 1
  BY ScriptFacts DEF Init
<1>2. EndOf[0] = 0 /\ EndOf[Len(script)] \in Nat
  BY <1>1, Ends
<1>3. addr \in 1..Addresses + 1
  BY WsAssumption DEF Init
<1>4. written \in 0..EndOf[Len(script)] /\ taken \in 0..written /\ EndOf[pos - 1] <= taken
  BY <1>2 DEF Init
<1>5. TypeOK
  BY <1>1, <1>3, <1>4, Sockets, RxStart DEF Init, TypeOK
<1> QED
  BY <1>1, <1>5, RxStart DEF Init, StateInv

\* The server's steps.
LEMMA ServerStep ==
    ASSUME StateInv, Arrive \/ PartArrives \/ ServerCloses \/ ServerStalls
    PROVE  StateInv'
<1>1. TypeOK /\ script \in Scripts /\ EndOf' = EndOf /\ script' = script
  BY DEF StateInv, Arrive, PartArrives, ServerCloses, ServerStalls, EndOf
<1>2. Len(script) \in Nat /\ \A i \in 0..Len(script) : EndOf[i] \in Nat
  BY <1>1, ScriptFacts, Ends
<1>3. written \in Nat /\ taken \in Nat /\ taken <= written /\ written <= EndOf[Len(script)]
  BY <1>1, <1>2 DEF TypeOK
<1>4. written' \in 0..EndOf[Len(script)] /\ written <= written'
  <2>1. CASE Arrive
    <3>1. PICK i \in 1..Len(script) : written' \in written + 1 .. EndOf[i]
      BY <2>1 DEF Arrive
    <3>2. EndOf[i] <= EndOf[Len(script)] /\ EndOf[i] \in Nat
      BY <1>1, <1>2, Ends
    <3> QED
      BY <1>2, <1>3, <3>1, <3>2
  <2>2. CASE PartArrives \/ ServerCloses \/ ServerStalls
    BY <1>2, <1>3, <2>2 DEF PartArrives, ServerCloses, ServerStalls
  <2> QED
    BY <2>1, <2>2
<1>5. taken \in 0..written'
  BY <1>2, <1>3, <1>4
<1>6. /\ UNCHANGED <<conn, addr, fds, taken, pending, pos, rx>>
      /\ part' \in BOOLEAN /\ stalled' \in BOOLEAN
  BY <1>1 DEF Arrive, PartArrives, ServerCloses, ServerStalls, TypeOK
<1>7. TypeOK'
  BY <1>1, <1>4, <1>5, <1>6 DEF TypeOK
<1> QED
  BY <1>1, <1>6, <1>7 DEF StateInv

\* connect(), as far as the answer, and close().
LEMMA ConnectStep ==
    ASSUME StateInv, \/ TryAddress \/ NoAddress \/ TlsHandshake \/ SendHandshake \/ Close
                     \/ ConnectFails("tls") \/ ConnectFails("request")
    PROVE  StateInv'
<1>1. /\ TypeOK /\ script \in Scripts /\ EndOf' = EndOf /\ script' = script
      /\ UNCHANGED <<written, taken, pos, pending, part, stalled>>
  BY DEF StateInv, TryAddress, NoAddress, TlsHandshake, SendHandshake, Close, ConnectFails, EndOf,
     server
<1>2. CASE NoAddress \/ ConnectFails("tls") \/ ConnectFails("request") \/ Close
  <2>1. /\ conn' \in {"failed", "closed"} /\ fds' = {} /\ rx' = NotReading /\ addr' = addr
    BY <1>2 DEF NoAddress, ConnectFails, Close, teardown
  <2>2. TypeOK'
    BY <1>1, <2>1, Sockets, RxStart DEF TypeOK
  <2> QED
    BY <1>1, <2>1, <2>2, RxStart DEF StateInv
<1>3. CASE TryAddress
  <2>1. addr' \in 1..Addresses + 1 /\ addr \in 1..Addresses
    BY <1>1, <1>3, WsAssumption DEF TryAddress, TypeOK
  <2>2. /\ \/ conn' = conn /\ fds' = fds
           \/ conn' \in {"tls", "request"} /\ fds' = {addr}
        /\ conn = "tcp" /\ rx' = rx /\ rx.pc = "idle"
    BY <1>1, <1>3 DEF TryAddress, TypeOK
  <2>3. TypeOK'
    BY <1>1, <2>1, <2>2, Sockets DEF TypeOK
  <2> QED
    BY <1>1, <2>2, <2>3 DEF StateInv
<1>4. CASE TlsHandshake
  <2>1. conn = "tls" /\ conn' = "request" /\ UNCHANGED <<addr, fds, rx>>
    BY <1>4 DEF TlsHandshake
  <2>2. TypeOK'
    BY <1>1, <2>1 DEF TypeOK
  <2> QED
    BY <1>1, <2>1, <2>2 DEF StateInv
<1>5. CASE SendHandshake
  <2>1. conn = "request" /\ conn' = "head" /\ UNCHANGED <<addr, fds>> /\ rx' = Reading(TRUE)
    BY <1>5 DEF SendHandshake
  <2>2. TypeOK'
    BY <1>1, <2>1, RxStart DEF TypeOK
  <2> QED
    BY <1>1, <2>1, <2>2, RxStart DEF StateInv
<1> QED
  BY <1>2, <1>3, <1>4, <1>5

\* A step that only moves the read along, starts it or ends it.
LEMMA RxChange ==
    ASSUME StateInv,
           UNCHANGED <<script, written, part, stalled, conn, addr, fds, taken, pending, pos>>,
           rx' \in RxType, rx'.pc # "idle" => conn \in {"head", "open"},
           rx'.pc = "idle" \/ conn # "open" => rx'.acc = <<>>
    PROVE  StateInv'
<1>1. TypeOK /\ EndOf' = EndOf
  BY DEF StateInv, EndOf
<1>2. rx'.pc \in {"idle", "decode", "fill", "ssl"}
  BY DEF RxType
<1>3. TypeOK'
  BY <1>1, <1>2 DEF TypeOK
<1> QED
  BY <1>3 DEF StateInv

\* teardown in the middle of connect().
LEMMA TeardownStep ==
    ASSUME StateInv, UNCHANGED <<script, written, part, stalled, addr, taken, pending>>,
           teardown("failed"),
           pos' = pos \/ (pos' = pos + 1 /\ pos <= Len(script) /\ EndOf[pos] <= taken)
    PROVE  StateInv'
<1>1. TypeOK /\ EndOf' = EndOf /\ script \in Scripts
  BY DEF StateInv, EndOf
<1>2. conn' = "failed" /\ fds' = {} /\ rx' = NotReading
  BY DEF teardown
<1>3. pos' \in 1..Len(script) + 1 /\ EndOf[pos' - 1] <= taken
  <2>1. pos \in 1..Len(script) + 1 /\ Len(script) \in Nat /\ EndOf[pos - 1] <= taken
    BY <1>1, ScriptFacts DEF TypeOK
  <2>2. CASE pos' = pos
    BY <2>1, <2>2
  <2>3. CASE pos' = pos + 1 /\ pos <= Len(script) /\ EndOf[pos] <= taken
    <3>1. pos' - 1 = pos
      BY <2>1, <2>3
    <3> QED
      BY <2>1, <2>3, <3>1
  <2> QED
    BY <2>2, <2>3
<1>4. TypeOK'
  BY <1>1, <1>2, <1>3, Sockets, RxStart DEF TypeOK
<1> QED
  BY <1>1, <1>2, <1>4, RxStart DEF StateInv

\* The cells in read_buf that belong to the item at the front.
LEMMA BufferedNat ==
    ASSUME StateInv
    PROVE  /\ pos - 1 \in 0..Len(script) /\ Len(script) \in Nat /\ pos \in Nat
           /\ EndOf[pos - 1] \in Nat /\ taken \in Nat /\ Buffered \in Nat
           /\ pos <= Len(script) =>
                 /\ pos \in 1..Len(script) /\ Front \in Items
                 /\ EndOf[pos] = EndOf[pos - 1] + Cells(Front) /\ EndOf[pos] \in Nat
                 /\ Cells(Front) \in Nat /\ HeadCells(Front.len) \in 1..2
                 /\ Buffered >= Cells(Front) => EndOf[pos] <= taken
<1>1. script \in Scripts /\ Len(script) \in Nat /\ pos \in 1..Len(script) + 1
  BY ScriptFacts DEF StateInv, TypeOK
<1>2. pos - 1 \in 0..Len(script) /\ pos \in Nat
  BY <1>1
<1>3. EndOf[pos - 1] \in Nat /\ EndOf[Len(script)] \in Nat
  BY <1>1, <1>2, Ends
<1>4. taken \in Nat /\ EndOf[pos - 1] <= taken
  <2>1. written \in 0..EndOf[Len(script)] /\ taken \in 0..written /\ EndOf[pos - 1] <= taken
    BY DEF StateInv, TypeOK
  <2> QED
    BY <1>3, <2>1
<1>5. Buffered \in Nat
  BY <1>3, <1>4 DEF Buffered
<1>6. ASSUME pos <= Len(script)
      PROVE  /\ pos \in 1..Len(script) /\ Front \in Items
             /\ EndOf[pos] = EndOf[pos - 1] + Cells(Front) /\ EndOf[pos] \in Nat
             /\ Cells(Front) \in Nat /\ HeadCells(Front.len) \in 1..2
             /\ Buffered >= Cells(Front) => EndOf[pos] <= taken
  <2>1. pos \in 1..Len(script) /\ pos \in 0..Len(script)
    BY <1>1, <1>6
  <2>2. Front \in Items
    BY <1>1, <2>1, ScriptFacts DEF Front
  <2>3. EndOf[pos] = EndOf[pos - 1] + Cells(Front) /\ EndOf[pos] \in Nat
    BY <1>1, <2>1, Ends DEF Front
  <2>4. Cells(Front) \in Nat /\ HeadCells(Front.len) \in 1..2
    BY <2>2, CellsNat
  <2>5. Buffered >= Cells(Front) => EndOf[pos] <= taken
    BY <1>3, <1>4, <2>3, <2>4 DEF Buffered
  <2> QED
    BY <2>1, <2>2, <2>3, <2>4, <2>5
<1> QED
  BY <1>1, <1>2, <1>3, <1>4, <1>5, <1>6

\* The answer to the handshake.
LEMMA HeadStep ==
    ASSUME StateInv, ReadHead
    PROVE  StateInv'
<1>1. /\ conn = "head" /\ pos = 1
      /\ UNCHANGED <<script, written, part, stalled, addr, taken, pending>>
      /\ rx \in RxType /\ rx.acc = <<>> /\ TypeOK /\ script \in Scripts /\ EndOf' = EndOf
      /\ rx.pc = "decode"
  BY DEF StateInv, ReadHead, server, EndOf
<1>2. Len(script) \in Nat /\ 1 <= Len(script)
  BY <1>1, ScriptFacts
<1>3. Front = script[1] /\ (Buffered >= Cells(script[1]) => EndOf[1] <= taken)
  BY <1>1, <1>2, BufferedNat DEF Front
<1>4. CASE script[1].fin /\ Buffered >= Cells(script[1]) /\ pos' = 2
  <2>1. CASE teardown("failed")
    <3>1. pos' = pos + 1 /\ pos <= Len(script) /\ EndOf[pos] <= taken
      BY <1>1, <1>2, <1>3, <1>4
    <3> QED
      BY <1>1, <2>1, <3>1, TeardownStep
  <2>2. CASE conn' = "open" /\ rx' = NotReading /\ fds' = fds
    <3>1. pos' \in 1..Len(script) + 1 /\ EndOf[pos' - 1] <= taken /\ pos' >= 2
      <4>1. pos' - 1 = 1
        BY <1>4
      <4> QED
        BY <1>2, <1>3, <1>4, <4>1
    <3>2. TypeOK'
      BY <1>1, <2>2, <3>1, RxStart DEF TypeOK
    <3> QED
      BY <1>1, <2>2, <3>1, <3>2, RxStart DEF StateInv
  <2> QED
    BY <1>4, <2>1, <2>2 DEF ReadHead
<1>5. CASE pos' = pos /\ teardown("failed")
  BY <1>1, <1>5, TeardownStep
<1>6. CASE pos' = pos /\ rx' = [rx EXCEPT !.pc = "fill", !.late = FALSE] /\ UNCHANGED <<conn, fds>>
  <2>1. rx' \in RxType /\ rx'.acc = <<>>
    BY <1>1, <1>6 DEF RxType
  <2> QED
    BY <1>1, <1>6, <2>1, RxChange
<1> QED
  BY <1>4, <1>5, <1>6 DEF ReadHead

\* Reading into read_buf.
LEMMA FillStep ==
    ASSUME StateInv, Fill
    PROVE  StateInv'
<1>1. /\ TypeOK /\ rx \in RxType /\ script \in Scripts /\ EndOf' = EndOf
      /\ UNCHANGED <<script, written, part, stalled, conn, addr, fds, pos>>
  BY DEF StateInv, Fill, server, EndOf
<1>2. written \in Nat /\ taken \in Nat /\ taken <= written /\ EndOf[pos - 1] \in Nat
  <2>1. EndOf[Len(script)] \in Nat
    BY <1>1, ScriptFacts, Ends
  <2> QED
    BY <1>1, <2>1, BufferedNat DEF TypeOK
<1>3. taken' \in 0..written /\ EndOf[pos - 1] <= taken'
  <2>1. taken' = taken + Least(Chunk, Available) /\ Available = written - taken /\ Available > 0
    BY DEF Fill, Available
  <2>2. Least(Chunk, Available) \in Nat /\ Least(Chunk, Available) <= written - taken
    BY <1>2, <2>1, WsAssumption DEF Least
  <2>3. EndOf[pos - 1] <= taken
    BY <1>1 DEF TypeOK
  <2> QED
    BY <1>2, <2>1, <2>2, <2>3
<1>4. pending' \in BOOLEAN
  <2>1. pending' = FALSE \/ pending' = (tls /\ taken' < written)
    BY DEF Fill
  <2> QED
    BY <2>1, Zenon
<1>5. /\ rx' \in RxType /\ rx'.pc = "decode" /\ rx'.acc = rx.acc /\ rx.pc # "idle"
  BY <1>1 DEF Fill, RxType
<1>6. TypeOK'
  BY <1>1, <1>3, <1>4, <1>5 DEF TypeOK
<1> QED
  BY <1>1, <1>5, <1>6 DEF StateInv

\* The other steps of a receive that leave pos alone.
LEMMA ReceiveStep ==
    ASSUME StateInv, \/ DeadlinePasses \/ SslBlocks \/ FillTimesOut \/ FillFails \/ DecodeThrows
                     \/ NeedsMore \/ SendBinary \/ \E timed \in BOOLEAN : Receive(timed)
    PROVE  StateInv'
<1>1. /\ UNCHANGED <<script, written, part, stalled, addr, taken, pending, pos>> /\ rx \in RxType
      /\ rx.pc # "idle" => conn \in {"head", "open"}
      /\ rx.pc = "idle" \/ conn # "open" => rx.acc = <<>>
  BY DEF StateInv, DeadlinePasses, SslBlocks, FillTimesOut, FillFails, DecodeThrows, NeedsMore,
     SendBinary, Receive, server, TypeOK
<1>2. CASE UNCHANGED <<conn, fds>> /\ rx' = NotReading
  BY <1>1, <1>2, RxStart, RxChange
<1>3. CASE teardown("failed")
  BY <1>1, <1>3, TeardownStep
<1>4. CASE DeadlinePasses \/ SslBlocks
  <2>1. rx' \in RxType /\ rx'.acc = rx.acc /\ rx'.pc # "idle" /\ rx.pc # "idle"
    BY <1>1, <1>4 DEF DeadlinePasses, SslBlocks, RxType
  <2> QED
    BY <1>1, <1>4, <2>1, RxChange DEF DeadlinePasses, SslBlocks
<1>5. CASE NeedsMore
  <2>1. CASE rx' = [rx EXCEPT !.pc = "fill"]
    <3>1. rx' \in RxType /\ rx'.acc = rx.acc /\ rx'.pc # "idle" /\ conn = "open"
      BY <1>1, <1>5, <2>1 DEF NeedsMore, RxType
    <3> QED
      BY <1>1, <1>5, <3>1, RxChange DEF NeedsMore
  <2> QED
    BY <1>2, <1>5, <2>1 DEF NeedsMore, Throw
<1>6. CASE SendBinary
  BY <1>1, <1>6, RxChange DEF SendBinary
<1>7. CASE \E timed \in BOOLEAN : Receive(timed)
  <2>1. PICK timed \in BOOLEAN : Receive(timed)
    BY <1>7
  <2> QED
    BY <1>1, <2>1, RxStart, RxChange DEF Receive
<1> QED
  BY <1>2, <1>3, <1>4, <1>5, <1>6, <1>7 DEF FillTimesOut, FillFails, DecodeThrows, ReadFails, Throw

\* A frame is taken off read_buf and dispatched.
LEMMA DispatchStep ==
    ASSUME StateInv, Dispatch
    PROVE  StateInv'
<1>1. /\ TypeOK /\ rx \in RxType /\ script \in Scripts /\ EndOf' = EndOf /\ conn = "open"
      /\ UNCHANGED <<script, written, part, stalled, conn, addr, fds, taken, pending>>
      /\ pos' = pos + 1 /\ Whole /\ pos >= 2
  BY DEF StateInv, Dispatch, server, EndOf
<1>2. pos <= Len(script) /\ Buffered >= Cells(Front)
  BY <1>1 DEF Whole, HeaderSeen
<1>3. pos' \in 1..Len(script) + 1 /\ EndOf[pos' - 1] <= taken /\ pos' >= 2 /\ pos \in Nat
  <2>1. pos \in Nat /\ Len(script) \in Nat /\ EndOf[pos] <= taken
    BY <1>2, BufferedNat
  <2>2. pos' - 1 = pos
    BY <1>1, <2>1
  <2> QED
    BY <1>1, <1>2, <2>1, <2>2
<1>4. rx.acc \in Seq(Nat) /\ Append(rx.acc, pos) \in Seq(Nat) /\ <<pos>> \in Seq(Nat)
  BY <1>1, <1>3 DEF RxType
<1>5. Front.len \in Nat /\ rx.size \in Nat /\ rx.size + Front.len \in Nat
  BY <1>1, <1>2, BufferedNat DEF Items, RxType
<1>6. ASSUME NEW acc \in Seq(Nat), NEW size \in Nat, Continue(acc, size)
      PROVE  rx' \in RxType /\ rx'.pc = "decode"
  BY <1>1, <1>6 DEF Continue, RxType
<1>7. rx' \in RxType /\ (rx'.pc = "idle" => rx'.acc = <<>>)
  <2>1. CASE rx' = NotReading
    BY <2>1, RxStart
  <2>2. CASE \E acc \in Seq(Nat) : \E size \in Nat : Continue(acc, size)
    BY <1>6, <2>2
  <2>3. CASE OnBinary
    BY <1>4, <1>5, <2>1, <2>2, <2>3 DEF OnBinary, Throw, Return
  <2>4. CASE OnCont
    BY <1>4, <1>5, <2>1, <2>2, <2>4 DEF OnCont, Throw, Return
  <2>5. CASE OnPing
    BY <1>4, <1>5, <2>1, <2>2, <2>5 DEF OnPing, Throw
  <2>6. CASE Continue(rx.acc, rx.size)
    BY <1>4, <1>5, <2>2, <2>6
  <2> QED
    BY <2>1, <2>3, <2>4, <2>5, <2>6 DEF Dispatch, Throw
<1>8. rx'.pc \in {"idle", "decode", "fill", "ssl"}
  BY <1>7 DEF RxType
<1>9. TypeOK'
  BY <1>1, <1>3, <1>8 DEF TypeOK
<1> QED
  BY <1>1, <1>3, <1>7, <1>9 DEF StateInv

\* The inductive invariant behind the type invariant.
LEMMA StateStep ==
    ASSUME StateInv, [Next]_vars
    PROVE  StateInv'
<1>1. CASE UNCHANGED vars
  <2>1. UNCHANGED <<script, written, part, stalled, conn, addr, fds, taken, pending, pos, rx>>
    BY <1>1 DEF vars, server
  <2> QED
    BY <2>1 DEF StateInv, TypeOK, EndOf
<1>2. CASE Next
  BY <1>2, ServerStep, ConnectStep, HeadStep, FillStep, ReceiveStep, DispatchStep DEF Next, Reader
<1> QED
  BY <1>1, <1>2

-----------------------------------------------------------------------------
(***************************************************************************)
(* Messages, in a script and in a call that assembles one.                 *)
(***************************************************************************)
\* The positions acc are the data frames of s from the start of a message up to p, and
\* the message goes on;
Increasing(acc) == \A x, y \in 1..Len(acc) : x < y => acc[x] < acc[y]
Positions(acc)  == {acc[x] : x \in 1..Len(acc)}
Assembled(s, acc, p) ==
    acc # <<>> =>
        /\ acc[1] \in Data(s) /\ s[acc[1]].op = "binary" /\ acc[1] < p
        /\ Positions(acc) = {k \in Data(s) : acc[1] <= k /\ k < p} /\ Increasing(acc)
        /\ \A k \in Data(s) : /\ acc[1] < k /\ k < p => s[k].op = "cont"
                              /\ acc[1] <= k /\ k < p => ~s[k].fin
\* or it ends at p.
Joined(s, acc, p) ==
    /\ acc # <<>> /\ Complete(s, acc[1], p)
    /\ Positions(acc) = {k \in Data(s) : acc[1] <= k /\ k <= p} /\ Increasing(acc)

\* The data frames are positions.
LEMMA DataNat ==
    ASSUME NEW s \in Scripts
    PROVE  /\ Len(s) \in Nat /\ Data(s) \subseteq 1..Len(s) /\ Data(s) \subseteq Nat
           /\ 1 \notin Data(s)
<1>1. Len(s) \in Nat /\ s[1].op = "http"
  BY ScriptFacts
<1> QED
  BY <1>1 DEF Data

\* A frame that is no data frame changes nothing.
LEMMA AssembledSkip ==
    ASSUME NEW s \in Scripts, NEW p \in Nat, p \notin Data(s), NEW acc, Assembled(s, acc, p)
    PROVE  Assembled(s, acc, p + 1)
<1>1. \A k \in Data(s) : k \in Nat /\ k # p
  BY DataNat
<1>2. \A k \in Data(s) : k < p + 1 <=> k < p
  BY <1>1
<1>3. CASE acc # <<>>
  <2>1. /\ acc[1] \in Data(s) /\ s[acc[1]].op = "binary" /\ acc[1] < p
        /\ Positions(acc) = {k \in Data(s) : acc[1] <= k /\ k < p} /\ Increasing(acc)
        /\ \A k \in Data(s) : /\ acc[1] < k /\ k < p => s[k].op = "cont"
                              /\ acc[1] <= k /\ k < p => ~s[k].fin
    BY <1>3 DEF Assembled
  <2>2. {k \in Data(s) : acc[1] <= k /\ k < p} = {k \in Data(s) : acc[1] <= k /\ k < p + 1}
    BY <1>2
  <2>3. acc[1] < p + 1
    BY <1>2, <2>1
  <2> QED
    BY <1>2, <2>1, <2>2, <2>3 DEF Assembled
<1> QED
  BY <1>3 DEF Assembled

\* One more position at the end.
LEMMA PositionsAppend ==
    ASSUME NEW acc \in Seq(Nat), NEW p \in Nat, acc # <<>>, Increasing(acc),
           \A x \in Positions(acc) : x < p
    PROVE  /\ Append(acc, p) # <<>> /\ Append(acc, p)[1] = acc[1]
           /\ Positions(Append(acc, p)) = Positions(acc) \cup {p} /\ Increasing(Append(acc, p))
<1> DEFINE t == Append(acc, p)
           n == Len(acc)
<1>1. /\ n \in Nat /\ n >= 1 /\ Len(t) = n + 1 /\ t[n + 1] = p
      /\ \A x \in 1..n : t[x] = acc[x] /\ acc[x] \in Nat
  OBVIOUS
<1>2. t # <<>> /\ t[1] = acc[1]
  BY <1>1
<1> HIDE DEF t, n
<1>3. \A x \in 1..n + 1 : x = n + 1 \/ x \in 1..n
  BY <1>1
<1>4. \A x \in 1..n : acc[x] \in Positions(acc) /\ x \in 1..n + 1 /\ x < n + 1
  BY <1>1 DEF Positions, n
<1>5. Positions(t) = Positions(acc) \cup {p}
  <2>1. \A y : y \in Positions(t) => y \in Positions(acc) \cup {p}
    BY <1>1, <1>3, <1>4 DEF Positions
  <2>2. \A y \in Positions(acc) : y \in Positions(t)
    BY <1>1, <1>4 DEF Positions, n
  <2>3. p \in Positions(t)
    BY <1>1 DEF Positions
  <2> QED
    BY <2>1, <2>2, <2>3
<1>6. Increasing(t)
  <2> SUFFICES ASSUME NEW x \in 1..n + 1, NEW y \in 1..n + 1, x < y  PROVE t[x] < t[y]
    BY <1>1 DEF Increasing
  <2>1. x \in 1..n
    BY <1>1
  <2>2. CASE y = n + 1
    BY <1>1, <1>4, <2>1, <2>2
  <2>3. CASE y \in 1..n
    BY <1>1, <2>1, <2>3 DEF Increasing, n
  <2> QED
    BY <1>3, <2>2, <2>3
<1> QED
  BY <1>2, <1>5, <1>6 DEF t

\* A continuation of the message.
LEMMA AssembledAppend ==
    ASSUME NEW s \in Scripts, NEW p \in Data(s), s[p].op = "cont", NEW acc \in Seq(Nat),
           acc # <<>>, Assembled(s, acc, p)
    PROVE  /\ Append(acc, p)[1] = acc[1]
           /\ ~s[p].fin => Assembled(s, Append(acc, p), p + 1)
           /\ s[p].fin => Joined(s, Append(acc, p), p)
<1> DEFINE b == acc[1]
           t == Append(acc, p)
<1>1. p \in Nat /\ p \in 1..Len(s) /\ \A k \in Data(s) : k \in Nat
  BY DataNat
<1>2. /\ b \in Data(s) /\ s[b].op = "binary" /\ b < p
      /\ Positions(acc) = {k \in Data(s) : b <= k /\ k < p} /\ Increasing(acc)
      /\ \A k \in Data(s) : /\ b < k /\ k < p => s[k].op = "cont"
                            /\ b <= k /\ k < p => ~s[k].fin
  BY DEF Assembled
<1>3. \A x \in Positions(acc) : x < p
  BY <1>2
<1>4. t # <<>> /\ t[1] = b /\ Positions(t) = Positions(acc) \cup {p} /\ Increasing(t)
  BY <1>1, <1>2, <1>3, PositionsAppend
<1> HIDE DEF b, t
<1>5. \A k \in Data(s) : k < p + 1 <=> (k < p \/ k = p)
  BY <1>1
<1>6. \A k \in Data(s) : k <= p <=> (k < p \/ k = p)
  BY <1>1
<1>7. b <= p /\ b < p + 1
  <2>1. b \in Nat
    BY <1>1, <1>2
  <2>2. b < p
    BY <1>2
  <2> QED
    BY <1>1, <2>1, <2>2
<1>8. /\ Positions(t) = {k \in Data(s) : b <= k /\ k < p + 1}
      /\ Positions(t) = {k \in Data(s) : b <= k /\ k <= p}
  BY <1>2, <1>4, <1>5, <1>6, <1>7
<1>9. ASSUME ~s[p].fin  PROVE Assembled(s, t, p + 1)
  BY <1>2, <1>4, <1>5, <1>7, <1>8, <1>9 DEF Assembled
<1>10. ASSUME s[p].fin  PROVE Joined(s, t, p)
  <2>1. Complete(s, b, p)
    BY <1>1, <1>2, <1>6, <1>7, <1>10 DEF Complete
  <2> QED
    BY <1>4, <1>8, <2>1 DEF Joined
<1> QED
  BY <1>4, <1>9, <1>10 DEF b, t

\* The first frame of a message.
LEMMA AssembledStart ==
    ASSUME NEW s \in Scripts, NEW p \in Data(s), s[p].op = "binary"
    PROVE  /\ ~s[p].fin => Assembled(s, <<p>>, p + 1)
           /\ s[p].fin => Joined(s, <<p>>, p)
<1>1. p \in Nat /\ \A k \in Data(s) : k \in Nat
  BY DataNat
<1>2. <<p>> # <<>> /\ <<p>>[1] = p /\ Positions(<<p>>) = {p} /\ Increasing(<<p>>)
  BY DEF Positions, Increasing
<1>3. \A k \in Data(s) : (p <= k /\ k < p + 1 <=> k = p) /\ (p <= k /\ k <= p <=> k = p)
  BY <1>1
<1>4. \A k \in Data(s) : ~(p < k /\ k < p + 1) /\ ~(p < k /\ k <= p) /\ ~(p <= k /\ k < p)
  BY <1>1
<1>5. /\ {p} = {k \in Data(s) : p <= k /\ k < p + 1}
      /\ {p} = {k \in Data(s) : p <= k /\ k <= p}
  BY <1>3
<1>6. p < p + 1 /\ p <= p
  BY <1>1
<1> DEFINE t == <<p>>
<1> HIDE DEF t
<1>7. t # <<>> /\ t[1] = p /\ Positions(t) = {p} /\ Increasing(t)
  BY <1>2 DEF t
<1>8. ASSUME ~s[p].fin  PROVE Assembled(s, t, p + 1)
  BY <1>3, <1>4, <1>5, <1>6, <1>7, <1>8 DEF Assembled
<1>9. ASSUME s[p].fin  PROVE Joined(s, t, p)
  <2>1. Complete(s, p, p)
    BY <1>4, <1>6, <1>9 DEF Complete
  <2> QED
    BY <1>5, <1>7, <2>1 DEF Joined
<1> QED
  BY <1>8, <1>9 DEF t

\* The frames of a complete message are those that carry its number,
LEMMA MessageFrames ==
    ASSUME NEW s \in Scripts, NEW i, NEW j, Complete(s, i, j)
    PROVE  /\ i \in 1..Len(s) /\ j \in 1..Len(s) /\ i \in Data(s) /\ j \in Data(s) /\ i <= j
           /\ s[i].msg # 0 /\ s[j].msg = s[i].msg /\ s[i].msg \in Nat
           /\ {k \in 1..Len(s) : s[k].msg = s[i].msg} = {k \in Data(s) : i <= k /\ k <= j}
<1>1. i \in Data(s) /\ j \in Data(s) /\ i <= j
  BY DEF Complete
<1>2. i \in 1..Len(s) /\ j \in 1..Len(s) /\ i \in Nat /\ j \in Nat
  BY <1>1, DataNat
<1>3. /\ s[i].msg # 0
      /\ {k \in 1..Len(s) : s[k].msg = s[i].msg} = {k \in Data(s) : i <= k /\ k <= j}
  BY <1>2, ScriptFacts DEF Numbered
<1>4. j \in {k \in Data(s) : i <= k /\ k <= j}
  BY <1>1, <1>2
<1>5. s[j].msg = s[i].msg
  BY <1>3, <1>4
<1>6. s[i].msg \in Nat
  BY <1>2, ScriptFacts DEF Items
<1> QED
  BY <1>1, <1>2, <1>3, <1>5, <1>6

\* every numbered frame is one of a complete message,
LEMMA NumberedFrame ==
    ASSUME NEW s \in Scripts, NEW k \in 1..Len(s), s[k].msg # 0
    PROVE  /\ s[k].msg \in Nat /\ k \in Data(s)
           /\ \E i, j : Complete(s, i, j) /\ i <= k /\ k <= j /\ s[i].msg = s[k].msg
           /\ \A n \in 1..s[k].msg - 1 : \E i \in 1..Len(s) : s[i].msg = n
<1>1. s[k].msg \in Nat
  BY ScriptFacts DEF Items
<1>2. /\ \E i, j \in 1..Len(s) : Complete(s, i, j) /\ i <= k /\ k <= j /\ k \in Data(s)
      /\ \A n \in 1..s[k].msg - 1 : \E i \in 1..Len(s) : s[i].msg = n
  BY ScriptFacts DEF Numbered
<1>3. PICK i \in 1..Len(s), j \in 1..Len(s) : Complete(s, i, j) /\ i <= k /\ k <= j /\ k \in Data(s)
  BY <1>2
<1>4. s[i].msg = s[k].msg
  BY <1>3, MessageFrames
<1> QED
  BY <1>1, <1>2, <1>3, <1>4

\* and the numbers grow.
LEMMA NumbersGrow ==
    ASSUME NEW s \in Scripts, NEW k \in 1..Len(s), NEW l \in 1..Len(s), k <= l,
           s[k].msg # 0, s[l].msg # 0
    PROVE  s[k].msg <= s[l].msg
<1>1. l \in k..Len(s)
  BY DataNat
<1> QED
  BY <1>1, ScriptFacts DEF Numbered

\* What a call returns is the message with the number of its first frame.
LEMMA JoinedWhole ==
    ASSUME NEW s \in Scripts, NEW acc, NEW p, Joined(s, acc, p)
    PROVE  /\ Positions(acc) = {k \in 1..Len(s) : s[k].msg = s[acc[1]].msg}
           /\ Increasing(acc) /\ s[acc[1]].msg # 0 /\ s[acc[1]].msg \in Nat
           /\ s[p].msg = s[acc[1]].msg /\ p \in Data(s)
<1>1. Complete(s, acc[1], p)
  BY DEF Joined
<1> QED
  BY <1>1, MessageFrames DEF Joined

-----------------------------------------------------------------------------
(***************************************************************************)
(* The invariant of the messages.                                          *)
(***************************************************************************)
\* A message that was begun and is not at its end is being assembled, or is lost.
Started ==
    conn = "open" =>
        \A i, j \in 1..Len(script) :
            Complete(script, i, j) /\ i < pos /\ pos <= j =>
                script[i].msg \in lost \/ (rx.acc # <<>> /\ rx.acc[1] = i)

\* What is still to come is after the last message returned; what went by after that one
\* without being returned made a call throw.
NothingPassed ==
    /\ last \in Nat /\ warned \in BOOLEAN
    /\ \A k \in 1..Len(script) : pos <= k /\ script[k].msg # 0 => last < script[k].msg
    /\ \A i, j \in 1..Len(script) :
         Complete(script, i, j) /\ j < pos /\ last < script[i].msg => warned

MsgInv ==
    /\ Assembled(script, rx.acc, pos) /\ Started /\ NothingPassed
    /\ MessageWhole /\ OrphanExplained

\* The first state.
LEMMA MsgInit == Init => MsgInv
<1> SUFFICES ASSUME Init  PROVE MsgInv
  OBVIOUS
<1>1. script \in Scripts /\ rx.acc = <<>> /\ pos = 1 /\ last = 0 /\ warned = FALSE /\ conn = "tcp"
  BY RxStart DEF Init
<1>2. out.what = "none"
  BY DEF Init
<1>3. Started /\ Assembled(script, rx.acc, pos) /\ MessageWhole /\ OrphanExplained
  BY <1>1, <1>2 DEF Started, Assembled, MessageWhole, OrphanExplained
<1>4. ASSUME NEW k \in 1..Len(script), script[k].msg # 0  PROVE 0 < script[k].msg
  BY <1>1, <1>4, NumberedFrame
<1>5. ASSUME NEW j \in 1..Len(script), j < 1  PROVE FALSE
  BY <1>1, <1>5, DataNat
<1>6. NothingPassed
  BY <1>1, <1>4, <1>5 DEF NothingPassed
<1> QED
  BY <1>3, <1>6 DEF MsgInv

\* A step that returns nothing, throws nothing and looks at no frame.
LEMMA QuietStep ==
    ASSUME StateInv, MsgInv, UNCHANGED <<script, pos, out, lost, last, warned>>,
           \/ rx'.acc = rx.acc /\ (conn' = "open" => conn = "open")
           \/ rx'.acc = <<>> /\ conn' # "open"
    PROVE  MsgInv'
<1>1. Assembled(script, rx'.acc, pos)
  BY DEF MsgInv, Assembled
<1>2. Started'
  BY DEF MsgInv, Started
<1>3. NothingPassed' /\ MessageWhole' /\ OrphanExplained'
  BY DEF MsgInv, NothingPassed, MessageWhole, OrphanExplained, Message, FramesOf
<1> QED
  BY <1>1, <1>2, <1>3 DEF MsgInv

\* The handshake is answered: the first frame is at the front.
LEMMA OpenStep ==
    ASSUME StateInv, MsgInv, UNCHANGED <<script, out, lost, last, warned>>, pos = 1, pos' = 2,
           rx'.acc = <<>>
    PROVE  MsgInv'
<1>1. script \in Scripts
  BY DEF StateInv
<1>2. \A i, j \in 1..Len(script) : Complete(script, i, j) => 2 <= i /\ 2 <= j
  <2> SUFFICES ASSUME NEW i, NEW j, Complete(script, i, j)  PROVE 2 <= i /\ 2 <= j
    OBVIOUS
  <2>1. i \in Data(script) /\ j \in Data(script)
    BY DEF Complete
  <2>2. i \in Nat /\ j \in Nat /\ i # 1 /\ j # 1 /\ i >= 1 /\ j >= 1
    BY <1>1, <2>1, DataNat
  <2> QED
    BY <2>2
<1>3. \A k \in 1..Len(script) : 2 <= k => 1 <= k
  BY <1>1, DataNat
<1>4. \A k \in 1..Len(script) : k \in Nat
  BY <1>1, DataNat
<1>5. Started'
  BY <1>2, <1>4 DEF Started
<1>6. NothingPassed'
  BY <1>2, <1>3, <1>4 DEF MsgInv, NothingPassed
<1>7. MessageWhole' /\ OrphanExplained' /\ Assembled(script, rx'.acc, pos')
  BY DEF MsgInv, MessageWhole, OrphanExplained, Message, FramesOf, Assembled
<1> QED
  BY <1>5, <1>6, <1>7 DEF MsgInv

\* A call throws before it takes a frame off.
LEMMA ThrowStep ==
    ASSUME StateInv, MsgInv, UNCHANGED <<script, conn, pos>>, NEW what,
           what \notin {"message", "orphan"}, Throw(what, rx.acc)
    PROVE  MsgInv'
<1>1. /\ rx'.acc = <<>> /\ out'.what = what /\ lost' = lost \cup Dropped(rx.acc) /\ last' = last
      /\ warned' = (warned \/ what # "timeout") /\ rx.acc \in Seq(Nat)
  BY RxStart DEF Throw, StateInv, RxType
<1>2. rx.acc # <<>> => script[rx.acc[1]].msg \in Dropped(rx.acc)
  <2>1. rx.acc # <<>> => 1 \in 1..Len(rx.acc)
    BY <1>1
  <2> QED
    BY <2>1 DEF Dropped
<1>3. Started'
  BY <1>1, <1>2 DEF MsgInv, Started
<1>4. NothingPassed'
  <2>1. warned' \in BOOLEAN
    BY <1>1
  <2>2. warned => warned'
    BY <1>1
  <2> QED
    BY <1>1, <2>1, <2>2 DEF MsgInv, NothingPassed
<1>5. MessageWhole' /\ OrphanExplained' /\ Assembled(script, rx'.acc, pos)
  BY <1>1 DEF MessageWhole, OrphanExplained, Assembled
<1> QED
  BY <1>3, <1>4, <1>5 DEF MsgInv

-----------------------------------------------------------------------------
(***************************************************************************)
(* A frame is dispatched.                                                  *)
(***************************************************************************)
\* What is known of it, and of the messages it is part of.
LEMMA FrameTaken ==
    ASSUME StateInv, Dispatch
    PROVE  /\ UNCHANGED <<script, conn>> /\ conn = "open" /\ pos' = pos + 1 /\ script \in Scripts
           /\ pos \in 1..Len(script) /\ pos \in Nat /\ Front = script[pos] /\ rx.acc \in Seq(Nat)
           /\ pos \in Data(script) <=> Front.op \in {"binary", "cont"}
           /\ \A k \in 1..Len(script) : /\ k < pos' <=> (k < pos \/ k = pos)
                                        /\ pos' <= k => pos <= k /\ pos < k
<1>1. /\ UNCHANGED <<script, conn>> /\ conn = "open" /\ pos' = pos + 1 /\ script \in Scripts
      /\ rx.acc \in Seq(Nat)
  BY DEF Dispatch, server, StateInv, RxType
<1>2. pos <= Len(script)
  BY DEF Dispatch, Whole, HeaderSeen
<1>3. pos \in 1..Len(script) /\ pos \in Nat /\ Len(script) \in Nat
  BY <1>2, BufferedNat
<1>4. Front = script[pos] /\ (pos \in Data(script) <=> Front.op \in {"binary", "cont"})
  BY <1>3 DEF Front, Data
<1>5. \A k \in 1..Len(script) : /\ k < pos' <=> (k < pos \/ k = pos)
                                /\ pos' <= k => pos <= k /\ pos < k
  BY <1>1, <1>3
<1> QED
  BY <1>1, <1>3, <1>4, <1>5

\* The receive goes on: with the same frames, after a frame that is no data frame, or
\* with one more.
LEMMA ContinueStep ==
    ASSUME StateInv, MsgInv, Dispatch, NEW acc \in Seq(Nat), NEW size, Continue(acc, size),
           \/ pos \notin Data(script) /\ acc = rx.acc
           \/ /\ pos \in Data(script) /\ ~Front.fin /\ Front.op = "binary" /\ rx.acc = <<>>
              /\ acc = <<pos>>
           \/ /\ pos \in Data(script) /\ ~Front.fin /\ Front.op = "cont" /\ rx.acc # <<>>
              /\ acc = Append(rx.acc, pos)
    PROVE  MsgInv'
<1>1. rx'.acc = acc /\ UNCHANGED <<out, lost, last, warned>>
  BY DEF Continue, StateInv, RxType, outcome
<1>2. /\ UNCHANGED <<script, conn>> /\ conn = "open" /\ pos' = pos + 1 /\ script \in Scripts
      /\ pos \in 1..Len(script) /\ pos \in Nat /\ Front = script[pos] /\ rx.acc \in Seq(Nat)
      /\ \A k \in 1..Len(script) : /\ k < pos' <=> (k < pos \/ k = pos)
                                   /\ pos' <= k => pos <= k /\ pos < k
  BY FrameTaken
<1>3. Assembled(script, rx.acc, pos)
  BY DEF MsgInv
<1>4. Assembled(script, acc, pos + 1) /\ (rx.acc # <<>> => acc # <<>> /\ acc[1] = rx.acc[1])
  <2>1. CASE pos \notin Data(script) /\ acc = rx.acc
    BY <1>2, <1>3, <2>1, AssembledSkip
  <2>2. CASE /\ pos \in Data(script) /\ ~Front.fin /\ Front.op = "binary" /\ rx.acc = <<>>
             /\ acc = <<pos>>
    BY <1>2, <2>2, AssembledStart
  <2>3. CASE /\ pos \in Data(script) /\ ~Front.fin /\ Front.op = "cont" /\ rx.acc # <<>>
             /\ acc = Append(rx.acc, pos)
    <3>1. Assembled(script, acc, pos + 1) /\ acc[1] = rx.acc[1]
      BY <1>2, <1>3, <2>3, AssembledAppend
    <3>2. acc # <<>>
      BY <1>2, <2>3
    <3> QED
      BY <3>1, <3>2
  <2> QED
    BY <2>1, <2>2, <2>3
<1>5. Started'
  <2> SUFFICES ASSUME NEW i \in 1..Len(script), NEW j \in 1..Len(script),
                      Complete(script, i, j), i < pos', pos' <= j
               PROVE  script[i].msg \in lost \/ (acc # <<>> /\ acc[1] = i)
    BY <1>1, <1>2 DEF Started
  <2>1. pos <= j
    BY <1>2
  <2>2. CASE i < pos
    <3>1. script[i].msg \in lost \/ (rx.acc # <<>> /\ rx.acc[1] = i)
      BY <1>2, <2>1, <2>2 DEF MsgInv, Started
    <3> QED
      BY <1>4, <3>1
  <2>3. CASE i = pos
    <3>1. pos \in Data(script) /\ Front.op = "binary"
      BY <1>2, <2>3 DEF Complete
    <3>2. acc = <<pos>>
      BY <3>1
    <3> QED
      BY <2>3, <3>2
  <2> QED
    BY <1>2, <2>2, <2>3
<1>6. NothingPassed'
  <2>1. ASSUME NEW i \in 1..Len(script), NEW j \in 1..Len(script), Complete(script, i, j), j < pos',
               last < script[i].msg
        PROVE  warned
    <3>1. j # pos
      <4>1. j \in Data(script) /\ script[j].fin
        BY <2>1 DEF Complete
      <4> QED
        BY <1>2, <4>1
    <3> QED
      BY <1>2, <2>1, <3>1 DEF MsgInv, NothingPassed
  <2> QED
    BY <1>1, <1>2, <2>1 DEF MsgInv, NothingPassed
<1>7. MessageWhole' /\ OrphanExplained'
  BY <1>1, <1>2 DEF MsgInv, MessageWhole, OrphanExplained, Message, FramesOf
<1> QED
  BY <1>1, <1>2, <1>4, <1>5, <1>6, <1>7 DEF MsgInv

\* The receive throws, and drops what it has assembled with the frame, if that is a start.
LEMMA DropStep ==
    ASSUME StateInv, MsgInv, Dispatch, NEW what, what \notin {"message", "timeout"}, NEW acc,
           Throw(what, acc),
           \/ pos \notin Data(script) /\ acc = rx.acc /\ what # "orphan"
           \/ /\ pos \in Data(script) /\ rx.acc # <<>> /\ acc = Append(rx.acc, pos)
              /\ what # "orphan"
           \/ pos \in Data(script) /\ Front.op = "cont" /\ rx.acc = <<>> /\ acc = <<>>
    PROVE  MsgInv'
<1>1. /\ rx'.acc = <<>> /\ out'.what = what /\ out'.at = pos /\ lost' = lost \cup Dropped(acc)
      /\ last' = last /\ warned' = (warned \/ what # "timeout")
  BY RxStart DEF Throw
<1>2. /\ UNCHANGED <<script, conn>> /\ conn = "open" /\ pos' = pos + 1 /\ script \in Scripts
      /\ pos \in 1..Len(script) /\ pos \in Nat /\ Front = script[pos] /\ rx.acc \in Seq(Nat)
      /\ \A k \in 1..Len(script) : /\ k < pos' <=> (k < pos \/ k = pos)
                                   /\ pos' <= k => pos <= k /\ pos < k
  BY FrameTaken
<1>3. ASSUME rx.acc # <<>>  PROVE script[rx.acc[1]].msg \in Dropped(acc)
  <2>1. Len(rx.acc) \in Nat /\ Len(rx.acc) >= 1
    BY <1>2, <1>3
  <2>2. 1 \in 1..Len(acc) /\ acc[1] = rx.acc[1]
    BY <1>2, <1>3, <2>1
  <2> QED
    BY <2>2 DEF Dropped
<1>4. ASSUME pos \in Data(script), rx.acc # <<>>  PROVE script[pos].msg \in Dropped(acc)
  <2>1. acc = Append(rx.acc, pos)
    BY <1>4
  <2>2. Len(acc) \in 1..Len(acc) /\ acc[Len(acc)] = pos
    BY <1>2, <2>1
  <2> QED
    BY <2>2 DEF Dropped
<1>5. ASSUME NEW i \in 1..Len(script), NEW j \in 1..Len(script), Complete(script, i, j), i < pos',
             pos <= j
      PROVE  script[i].msg \in lost'
  <2>2. CASE i < pos
    <3>1. script[i].msg \in lost \/ (rx.acc # <<>> /\ rx.acc[1] = i)
      BY <1>2, <1>5, <2>2 DEF MsgInv, Started
    <3> QED
      BY <1>1, <1>3, <3>1
  <2>3. CASE i = pos
    <3>1. pos \in Data(script) /\ Front.op = "binary"
      BY <1>2, <1>5, <2>3 DEF Complete
    <3>2. rx.acc # <<>>
      BY <3>1
    <3> QED
      BY <1>1, <1>4, <2>3, <3>1, <3>2
  <2> QED
    BY <1>2, <1>5, <2>2, <2>3
<1>6. Started'
  <2>1. \A j \in 1..Len(script) : pos' <= j => pos <= j
    BY <1>2
  <2> QED
    BY <1>2, <1>5, <2>1 DEF Started
<1>7. NothingPassed'
  <2>1. warned' = TRUE
    BY <1>1
  <2> QED
    BY <1>1, <1>2, <2>1 DEF MsgInv, NothingPassed
<1>8. OrphanExplained'
  <2> SUFFICES ASSUME what = "orphan", script[pos].msg # 0  PROVE script[pos].msg \in lost'
    BY <1>1, <1>2 DEF OrphanExplained
  <2>1. PICK i, j :
          Complete(script, i, j) /\ i <= pos /\ pos <= j /\ script[i].msg = script[pos].msg
    BY <1>2, NumberedFrame
  <2>2. i \in 1..Len(script) /\ j \in 1..Len(script)
    BY <1>2, <2>1, MessageFrames
  <2>3. i < pos'
    BY <1>2, <2>1, <2>2
  <2> QED
    BY <1>5, <2>1, <2>2, <2>3
<1>9. MessageWhole' /\ Assembled(script, rx'.acc, pos')
  BY <1>1 DEF MessageWhole, Assembled
<1> QED
  BY <1>2, <1>6, <1>7, <1>8, <1>9 DEF MsgInv

\* The receive returns a message, which ends here.
LEMMA ReturnStep ==
    ASSUME StateInv, MsgInv, Dispatch, NEW acc, Joined(script, acc, pos), Return(acc)
    PROVE  MsgInv'
<1>1. /\ rx'.acc = <<>> /\ out'.what = "message" /\ out'.acc = acc /\ lost' = lost
      /\ last' = script[acc[1]].msg /\ warned' = FALSE
  BY RxStart DEF Return, Message
<1>2. /\ UNCHANGED <<script, conn>> /\ conn = "open" /\ pos' = pos + 1 /\ script \in Scripts
      /\ pos \in 1..Len(script) /\ pos \in Nat
      /\ \A k \in 1..Len(script) : /\ k < pos' <=> (k < pos \/ k = pos)
                                   /\ pos' <= k => pos <= k /\ pos < k
  BY FrameTaken
<1>3. PICK m : m = script[acc[1]].msg
  OBVIOUS
<1>4. /\ Positions(acc) = {k \in 1..Len(script) : script[k].msg = m} /\ Increasing(acc)
      /\ m # 0 /\ m \in Nat /\ script[pos].msg = m /\ pos \in Data(script)
  BY <1>2, <1>3, JoinedWhole
<1>5. MessageWhole'
  <2>1. Message(out.acc)' = m /\ FramesOf(m)' = {k \in 1..Len(script) : script[k].msg = m}
    BY <1>1, <1>2, <1>3 DEF Message, FramesOf
  <2>2. {out'.acc[i] : i \in 1..Len(out'.acc)} = {k \in 1..Len(script) : script[k].msg = m}
    BY <1>1, <1>4 DEF Positions
  <2>3. \A i, j \in 1..Len(out'.acc) : i < j => out'.acc[i] < out'.acc[j]
    BY <1>1, <1>4 DEF Increasing
  <2> QED
    BY <2>1, <2>2, <2>3 DEF MessageWhole
<1>6. script[pos].fin /\ Positions(acc) = {k \in Data(script) : acc[1] <= k /\ k <= pos}
  BY DEF Joined, Complete
<1>7. Started'
  <2> SUFFICES ASSUME NEW i \in 1..Len(script), NEW j \in 1..Len(script),
                      Complete(script, i, j), i < pos', pos' <= j
               PROVE  FALSE
    BY <1>2 DEF Started
  <2>1. i <= pos /\ pos < j
    BY <1>2
  <2>2. ~script[pos].fin
    BY <1>4, <2>1 DEF Complete
  <2> QED
    BY <1>6, <2>2
<1>8. ASSUME NEW k \in 1..Len(script), pos' <= k, script[k].msg # 0  PROVE m < script[k].msg
  <2>1. pos <= k /\ pos < k /\ k \in Nat
    BY <1>2, <1>8
  <2>2. m <= script[k].msg
    BY <1>2, <1>4, <1>8, <2>1, NumbersGrow
  <2>3. m # script[k].msg
    <3> SUFFICES ASSUME script[k].msg = m  PROVE FALSE
      OBVIOUS
    <3>1. k \in Positions(acc)
      BY <1>4
    <3>2. k <= pos
      BY <1>6, <3>1
    <3> QED
      BY <1>2, <2>1, <3>2
  <2>4. script[k].msg \in Nat
    BY <1>2, <1>8, NumberedFrame
  <2> QED
    BY <1>4, <2>2, <2>3, <2>4
<1>9. ASSUME NEW i \in 1..Len(script), NEW j \in 1..Len(script), Complete(script, i, j), j < pos',
             m < script[i].msg
      PROVE  FALSE
  <2>1. i <= j /\ script[i].msg # 0 /\ script[i].msg \in Nat
    BY <1>2, <1>9, MessageFrames
  <2>2. i <= pos
    <3>1. j <= pos
      BY <1>2, <1>9
    <3> QED
      BY <1>2, <2>1, <3>1
  <2>3. script[i].msg <= m
    BY <1>2, <1>4, <2>1, <2>2, NumbersGrow
  <2> QED
    BY <1>4, <1>9, <2>1, <2>3
<1>10. NothingPassed'
  BY <1>1, <1>2, <1>3, <1>4, <1>8, <1>9 DEF NothingPassed
<1>11. OrphanExplained' /\ Assembled(script, rx'.acc, pos')
  BY <1>1 DEF OrphanExplained, Assembled
<1> QED
  BY <1>2, <1>5, <1>7, <1>10, <1>11 DEF MsgInv

-----------------------------------------------------------------------------
(***************************************************************************)
(* The messages and the channel.                                           *)
(***************************************************************************)
ChannelStep == [Channel!Next]_<<Cardinality(Begun), last, warned>>

\* What was begun depends on the server only.
LEMMA BegunSame ==
    ASSUME UNCHANGED <<script, written>>
    PROVE  Begun' = Begun
<1>1. EndOf' = EndOf
  BY DEF EndOf
<1> QED
  BY <1>1 DEF Begun

\* A call that throws fails, or stutters when it only timed out.
LEMMA FailStep ==
    ASSUME warned \in BOOLEAN, NEW what, NEW acc, Throw(what, acc), UNCHANGED <<script, written>>
    PROVE  ChannelStep
<1>1. Begun' = Begun /\ last' = last /\ warned' = (warned \/ what # "timeout")
  BY BegunSame DEF Throw
<1>2. CASE what = "timeout"
  <2>1. warned' = warned
    BY <1>1, <1>2
  <2> QED
    BY <1>1, <2>1 DEF ChannelStep
<1>3. CASE what # "timeout"
  <2>1. warned' = TRUE
    BY <1>1, <1>3
  <2> QED
    BY <1>1, <2>1 DEF ChannelStep, Channel!Next, Channel!Fail
<1> QED
  BY <1>2, <1>3

\* The begun messages are finitely many, and with a number they have the ones below.
LEMMA BegunInitial ==
    ASSUME StateInv
    PROVE  /\ IsFiniteSet(Begun) /\ Cardinality(Begun) \in Nat
           /\ \A m \in Begun : m \in Nat /\ m <= Cardinality(Begun)
<1>1. script \in Scripts /\ Len(script) \in Nat
  BY ScriptFacts DEF StateInv
<1> DEFINE I == {j \in 1..Len(script) : EndOf[j - 1] < written}
           M == {script[i].msg : i \in I}
<1>2. IsFiniteSet(I)
  <2>1. IsFiniteSet(1..Len(script))
    BY <1>1, FS_Interval
  <2>2. I \subseteq 1..Len(script)
    OBVIOUS
  <2> QED
    BY <2>1, <2>2, FS_Subset
<1>3. IsFiniteSet(M)
  <2> DEFINE f == [i \in I |-> script[i].msg]
  <2>1. f \in Surjection(I, M)
    <3>1. f \in [I -> M]
      OBVIOUS
    <3>2. \A y \in M : \E x \in I : f[x] = y
      OBVIOUS
    <3> QED
      BY <3>1, <3>2 DEF Surjection
  <2> QED
    BY <1>2, <2>1, FS_Surjection
<1>4. Begun = M \ {0}
  BY DEF Begun
<1>5. IsFiniteSet(Begun) /\ Cardinality(Begun) \in Nat
  <2>1. Begun \subseteq M
    BY <1>4
  <2>2. IsFiniteSet(Begun)
    BY <1>3, <2>1, FS_Subset
  <2> QED
    BY <2>2, FS_CardinalityType
<1>6. ASSUME NEW m \in Begun  PROVE m \in Nat /\ m <= Cardinality(Begun)
  <2>1. PICK i \in 1..Len(script) : EndOf[i - 1] < written /\ script[i].msg = m /\ m # 0
    BY DEF Begun
  <2>2. m \in Nat /\ \A n \in 1..m - 1 : \E l \in 1..Len(script) : script[l].msg = n
    BY <1>1, <2>1, NumberedFrame
  <2>3. ASSUME NEW n \in 1..m  PROVE n \in Begun
    <3>1. CASE n = m
      BY <3>1
    <3>2. CASE n # m
      <4>1. n \in 1..m - 1 /\ n \in Nat /\ n # 0 /\ n < m
        BY <2>2, <3>2
      <4>2. PICK l \in 1..Len(script) : script[l].msg = n
        BY <2>2, <4>1
      <4>3. ~(i <= l)
        <5> SUFFICES ASSUME i <= l  PROVE FALSE
          OBVIOUS
        <5>1. m <= n
          BY <1>1, <2>1, <4>1, <4>2, NumbersGrow
        <5> QED
          BY <2>2, <4>1, <5>1
      <4>4. l - 1 \in 0..Len(script) /\ i - 1 \in 0..Len(script) /\ l - 1 <= i - 1
        BY <1>1, <4>3
      <4>5. EndOf[l - 1] <= EndOf[i - 1] /\ EndOf[l - 1] \in Nat /\ EndOf[i - 1] \in Nat
        BY <1>1, <4>4, Ends
      <4>6. EndOf[l - 1] < written
        <5>1. written \in Nat
          <6>1. EndOf[Len(script)] \in Nat
            BY <1>1, Ends
          <6> QED
            BY <6>1 DEF StateInv, TypeOK
        <5> QED
          BY <2>1, <4>5, <5>1
      <4> QED
        BY <4>1, <4>2, <4>6 DEF Begun
    <3> QED
      BY <3>1, <3>2
  <2>4. 1..m \subseteq Begun
    BY <2>3
  <2>5. Cardinality(1..m) = m
    BY <2>2, FS_Interval
  <2>6. Cardinality(1..m) <= Cardinality(Begun)
    BY <1>5, <2>4, FS_Subset
  <2> QED
    BY <2>2, <2>5, <2>6
<1> QED
  BY <1>5, <1>6

\* A message is delivered: one after the last, and none was passed over without notice.
LEMMA DeliverStep ==
    ASSUME StateInv, MsgInv, Dispatch, NEW acc, Joined(script, acc, pos), Return(acc)
    PROVE  ChannelStep
<1>1. /\ UNCHANGED <<script, written>> /\ script \in Scripts /\ pos \in 1..Len(script)
      /\ pos \in Nat /\ Whole
  BY FrameTaken DEF Dispatch, server
<1>2. PICK m : m = script[acc[1]].msg
  OBVIOUS
<1>3. last' = m /\ warned' = FALSE
  BY <1>2 DEF Return, Message
<1>4. m # 0 /\ m \in Nat /\ script[pos].msg = m /\ pos \in Data(script)
  BY <1>1, <1>2, JoinedWhole
<1>5. last < m /\ last \in Nat
  BY <1>1, <1>4 DEF MsgInv, NothingPassed
<1>6. m \in Begun
  <2>1. pos <= Len(script) /\ Buffered >= Cells(Front)
    BY <1>1 DEF Whole, HeaderSeen
  <2>2. /\ EndOf[pos] = EndOf[pos - 1] + Cells(Front) /\ EndOf[pos] <= taken /\ Front \in Items
        /\ EndOf[pos - 1] \in Nat /\ taken \in Nat
    BY <2>1, BufferedNat
  <2>3. Front.op # "http"
    BY <1>4 DEF Front, Data
  <2>4. Cells(Front) >= 1 /\ Cells(Front) \in Nat
    BY <2>2, <2>3, CellsNat
  <2>5. taken <= written /\ written \in Nat
    <3>1. EndOf[Len(script)] \in Nat
      BY <1>1, ScriptFacts, Ends
    <3> QED
      BY <2>2, <3>1 DEF StateInv, TypeOK
  <2>6. EndOf[pos - 1] < written
    BY <2>2, <2>4, <2>5
  <2> QED
    BY <1>1, <1>4, <2>6 DEF Begun
<1>7. m \in last + 1 .. Cardinality(Begun)
  BY <1>5, <1>6, BegunInitial
<1>8. m = last + 1 \/ warned
  <2> SUFFICES ASSUME m # last + 1  PROVE warned
    OBVIOUS
  <2>1. last + 1 \in 1..m - 1 /\ last + 1 # 0 /\ last < last + 1 /\ ~(m <= last + 1)
    BY <1>4, <1>5
  <2>2. PICK k \in 1..Len(script) : script[k].msg = last + 1
    BY <1>1, <1>4, <2>1, NumberedFrame
  <2>3. PICK i, j : Complete(script, i, j) /\ script[i].msg = last + 1
    BY <1>1, <2>1, <2>2, NumberedFrame
  <2>4. i \in 1..Len(script) /\ j \in 1..Len(script) /\ script[j].msg = last + 1 /\ j \in Nat
    BY <1>1, <2>3, MessageFrames, DataNat
  <2>5. j < pos
    <3> SUFFICES ASSUME pos <= j  PROVE FALSE
      BY <1>1, <2>4
    <3>1. m <= last + 1
      BY <1>1, <1>4, <2>1, <2>4, NumbersGrow
    <3> QED
      BY <2>1, <3>1
  <2> QED
    BY <2>1, <2>3, <2>4, <2>5 DEF MsgInv, NothingPassed
<1>9. Begun' = Begun
  BY <1>1, BegunSame
<1> QED
  BY <1>3, <1>7, <1>8, <1>9 DEF ChannelStep, Channel!Next, Channel!Deliver

\* More of the script arrives: at most one message is begun.
LEMMA ArriveStep ==
    ASSUME StateInv, Arrive
    PROVE  ChannelStep
<1>1. /\ script \in Scripts /\ script' = script /\ EndOf' = EndOf /\ Len(script) \in Nat
      /\ UNCHANGED <<last, warned>>
  BY ScriptFacts DEF StateInv, Arrive, EndOf, outcome
<1>2. PICK i \in 1..Len(script) :
        EndOf[i - 1] <= written /\ written < EndOf[i] /\ written' \in written + 1 .. EndOf[i]
  BY DEF Arrive
<1>3. /\ \A k \in 0..Len(script) : EndOf[k] \in Nat
      /\ \A k, l \in 0..Len(script) : k <= l => EndOf[k] <= EndOf[l]
  BY <1>1, Ends
<1>4. written \in Nat /\ EndOf[i] \in Nat /\ EndOf[i - 1] \in Nat
  <2>1. EndOf[Len(script)] \in Nat /\ i - 1 \in 0..Len(script) /\ i \in 0..Len(script)
    BY <1>1, <1>3
  <2> QED
    BY <1>3, <2>1 DEF StateInv, TypeOK
<1>5. written' \in Nat /\ written < written' /\ written' <= EndOf[i] /\ EndOf[i - 1] < written'
  BY <1>2, <1>4
<1>6. ASSUME NEW k \in 1..Len(script), EndOf[k - 1] < written', script[k].msg # 0
      PROVE  EndOf[k - 1] < written \/ k = i
  <2>1. k - 1 \in 0..Len(script) /\ k \in 0..Len(script) /\ i - 1 \in 0..Len(script)
        /\ i \in 0..Len(script)
    BY <1>1
  <2>2. EndOf[k - 1] \in Nat /\ EndOf[k] \in Nat
    BY <1>3, <2>1
  <2>3. ~(i <= k - 1)
    BY <1>3, <1>4, <1>5, <1>6, <2>1, <2>2
  <2>4. k <= i
    BY <1>1, <2>1, <2>3
  <2>5. CASE k < i
    <3>1. k <= i - 1
      BY <1>1, <2>5
    <3>2. EndOf[k] <= EndOf[i - 1] /\ EndOf[k] = EndOf[k - 1] + Cells(script[k])
      BY <1>1, <1>3, <2>1, <3>1, Ends
    <3>3. script[k] \in Items /\ script[k].op # "http"
      <4>1. k \in Data(script)
        BY <1>1, <1>6, NumberedFrame
      <4> QED
        BY <1>1, <4>1, ScriptFacts DEF Data
    <3>4. Cells(script[k]) \in Nat /\ Cells(script[k]) >= 1
      BY <3>3, CellsNat
    <3> QED
      BY <1>2, <1>4, <2>2, <3>2, <3>4
  <2> QED
    BY <1>1, <2>4, <2>5
<1>7. \A k \in 1..Len(script) : EndOf[k - 1] < written => EndOf[k - 1] < written'
  <2> SUFFICES ASSUME NEW k \in 1..Len(script), EndOf[k - 1] < written
               PROVE  EndOf[k - 1] < written'
    OBVIOUS
  <2>1. k - 1 \in 0..Len(script)
    BY <1>1
  <2>2. EndOf[k - 1] \in Nat
    BY <1>3, <2>1
  <2> QED
    BY <1>4, <1>5, <2>2
<1> DEFINE x == script[i].msg
<1>8. \A m : m \in Begun <=> \E k \in 1..Len(script) :
                EndOf[k - 1] < written /\ script[k].msg = m /\ m # 0
  BY DEF Begun
<1>9. \A m : m \in Begun' <=> \E k \in 1..Len(script) :
                EndOf[k - 1] < written' /\ script[k].msg = m /\ m # 0
  BY <1>1 DEF Begun
<1>10. IsFiniteSet(Begun) /\ Cardinality(Begun) \in Nat
  BY BegunInitial
<1>11. CASE x = 0 \/ x \in Begun
  <2>1. \A m : m \in Begun' <=> m \in Begun
    BY <1>6, <1>7, <1>8, <1>9, <1>11
  <2>2. Begun' = Begun
    BY <2>1
  <2> QED
    BY <1>1, <2>2 DEF ChannelStep
<1>12. CASE x # 0 /\ x \notin Begun
  <2>1. x \in Begun'
    BY <1>5, <1>9, <1>12
  <2>2. \A m : m \in Begun' <=> m \in Begun \/ m = x
    BY <1>6, <1>7, <1>8, <1>9, <2>1
  <2>3. Begun' = Begun \cup {x}
    BY <2>2
  <2>4. Cardinality(Begun \cup {x}) = Cardinality(Begun) + 1
    BY <1>10, <1>12, FS_AddElement
  <2> QED
    BY <1>1, <2>3, <2>4 DEF ChannelStep, Channel!Next, Channel!Send
<1> QED
  BY <1>11, <1>12

\* A dispatched frame keeps the invariant and is a step of the channel.
LEMMA DispatchKeeps ==
    ASSUME StateInv, MsgInv, Dispatch
    PROVE  MsgInv' /\ ChannelStep
<1>1. /\ script \in Scripts /\ rx.acc \in Seq(Nat) /\ pos \in Nat /\ Front = script[pos]
      /\ pos \in Data(script) <=> Front.op \in {"binary", "cont"}
      /\ UNCHANGED <<script, written>>
  BY FrameTaken DEF Dispatch, server
<1>2. Append(rx.acc, pos) \in Seq(Nat) /\ <<pos>> \in Seq(Nat)
  BY <1>1
<1>3. ASSUME NEW acc, NEW size, Continue(acc, size)  PROVE ChannelStep
  <2>1. Begun' = Begun /\ UNCHANGED <<last, warned>>
    BY <1>1, <1>3, BegunSame DEF Continue, outcome
  <2> QED
    BY <2>1 DEF ChannelStep
<1>4. ASSUME NEW acc, NEW what, Throw(what, acc)  PROVE ChannelStep
  BY <1>1, <1>4, FailStep DEF MsgInv, NothingPassed
<1>5. CASE Front.op = "binary" /\ OnBinary
  <2>1. CASE rx.acc # <<>> /\ Throw("unexpected", Append(rx.acc, pos))
    BY <1>1, <1>4, <1>5, <2>1, DropStep
  <2>2. CASE rx.acc = <<>> /\ ~Front.fin /\ Continue(<<pos>>, Front.len)
    BY <1>1, <1>2, <1>3, <1>5, <2>2, ContinueStep
  <2>3. CASE rx.acc = <<>> /\ Front.fin /\ Return(<<pos>>)
    <3>1. Joined(script, <<pos>>, pos)
      BY <1>1, <1>5, <2>3, AssembledStart
    <3> QED
      BY <2>3, <3>1, ReturnStep, DeliverStep
  <2> QED
    BY <1>5, <2>1, <2>2, <2>3 DEF OnBinary
<1>6. CASE Front.op = "cont" /\ OnCont
  <2>1. CASE rx.acc = <<>> /\ Throw("orphan", <<>>)
    BY <1>1, <1>4, <1>6, <2>1, DropStep
  <2>2. CASE rx.acc # <<>> /\ Throw("large", Append(rx.acc, pos))
    BY <1>1, <1>4, <1>6, <2>2, DropStep
  <2>3. CASE rx.acc # <<>> /\ ~Front.fin /\ Continue(Append(rx.acc, pos), rx.size + Front.len)
    BY <1>1, <1>2, <1>3, <1>6, <2>3, ContinueStep
  <2>4. CASE rx.acc # <<>> /\ Front.fin /\ Return(Append(rx.acc, pos))
    <3>1. Joined(script, Append(rx.acc, pos), pos)
      BY <1>1, <1>6, <2>4, AssembledAppend DEF MsgInv
    <3> QED
      BY <2>4, <3>1, ReturnStep, DeliverStep
  <2> QED
    BY <1>6, <2>1, <2>2, <2>3, <2>4 DEF OnCont
<1>7. ASSUME Front.op \notin {"binary", "cont"}, Continue(rx.acc, rx.size)
      PROVE  MsgInv' /\ ChannelStep
  BY <1>1, <1>3, <1>7, ContinueStep
<1>8. ASSUME Front.op \notin {"binary", "cont"}, NEW what \in {"io", "odd"}, Throw(what, rx.acc)
      PROVE  MsgInv' /\ ChannelStep
  BY <1>1, <1>4, <1>8, DropStep
<1>9. CASE Front.op = "ping" /\ OnPing
  BY <1>7, <1>8, <1>9 DEF OnPing
<1> QED
  BY <1>5, <1>6, <1>7, <1>8, <1>9 DEF Dispatch

\* So does every other step.
LEMMA MsgStep ==
    ASSUME StateInv, MsgInv, [Next]_vars
    PROVE  MsgInv' /\ ChannelStep
<1>1. rx \in RxType /\ warned \in BOOLEAN /\ (conn # "open" => rx.acc = <<>>)
  BY DEF StateInv, MsgInv, NothingPassed
<1>2. ASSUME UNCHANGED <<script, written, last, warned>>  PROVE ChannelStep
  BY <1>2, BegunSame DEF ChannelStep
<1>3. CASE Arrive
  BY <1>3, ArriveStep, QuietStep DEF Arrive, outcome
<1>4. CASE PartArrives \/ ServerCloses \/ ServerStalls \/ SendBinary \/ UNCHANGED vars
  BY <1>2, <1>4, QuietStep DEF PartArrives, ServerCloses, ServerStalls, SendBinary, server,
     outcome, vars
<1>5. CASE DeadlinePasses \/ SslBlocks \/ Fill
  <2>1. \/ rx' = [rx EXCEPT !.late = TRUE] \/ rx' = [rx EXCEPT !.pc = "ssl"]
        \/ rx' = [rx EXCEPT !.pc = "decode"]
    BY <1>5 DEF DeadlinePasses, SslBlocks, Fill
  <2>2. rx'.acc = rx.acc
    BY <1>1, <2>1 DEF RxType
  <2> QED
    BY <1>2, <1>5, <2>2, QuietStep DEF DeadlinePasses, SslBlocks, Fill, server, outcome
<1>6. CASE TryAddress \/ TlsHandshake \/ SendHandshake
  <2>1. rx'.acc = rx.acc /\ conn' # "open"
    BY <1>1, <1>6, RxStart DEF TryAddress, TlsHandshake, SendHandshake
  <2> QED
    BY <1>2, <1>6, <2>1, QuietStep DEF TryAddress, TlsHandshake, SendHandshake, server, outcome
<1>7. CASE NoAddress \/ ConnectFails("tls") \/ ConnectFails("request") \/ Close
  <2>1. /\ rx'.acc = <<>> /\ conn' # "open"
        /\ UNCHANGED <<script, written, pos, out, lost, last, warned>>
    BY <1>7, RxStart DEF NoAddress, ConnectFails, Close, teardown, server, outcome
  <2> QED
    BY <1>2, <2>1, QuietStep
<1>8. CASE \E timed \in BOOLEAN : Receive(timed)
  <2>1. PICK timed \in BOOLEAN : Receive(timed)
    BY <1>8
  <2>2. rx.acc = <<>> /\ rx'.acc = <<>>
    BY <2>1, RxStart DEF Receive, StateInv
  <2> QED
    BY <1>2, <2>1, <2>2, QuietStep DEF Receive, server, outcome
<1>9. CASE ReadHead
  <2>1. /\ pos = 1 /\ conn = "head" /\ rx.acc = <<>>
        /\ UNCHANGED <<script, written, out, lost, last, warned>>
    BY <1>9 DEF ReadHead, StateInv, server, outcome
  <2>2. rx'.acc = <<>>
    BY <1>1, <1>9, <2>1, RxStart DEF ReadHead, teardown, RxType
  <2>3. CASE pos' = 2
    BY <1>2, <2>1, <2>2, <2>3, OpenStep
  <2>4. CASE pos' = pos /\ conn' # "open"
    BY <1>2, <2>1, <2>2, <2>4, QuietStep
  <2> QED
    BY <1>9, <2>1, <2>3, <2>4 DEF ReadHead, teardown
<1>10. ASSUME NEW what \in {"timeout", "io", "undecodable", "large"}, Throw(what, rx.acc),
              UNCHANGED <<script, written, conn, pos>>
       PROVE  MsgInv' /\ ChannelStep
  BY <1>1, <1>10, ThrowStep, FailStep
<1>11. CASE FillTimesOut \/ FillFails
  <2>1. CASE teardown("failed") /\ UNCHANGED outcome
    <3>1. /\ rx'.acc = <<>> /\ conn' # "open"
          /\ UNCHANGED <<script, written, pos, out, lost, last, warned>>
      BY <1>11, <2>1, RxStart DEF FillTimesOut, FillFails, teardown, server, outcome
    <3> QED
      BY <1>2, <3>1, QuietStep
  <2>2. CASE /\ Throw("timeout", rx.acc) \/ Throw("io", rx.acc)
             /\ UNCHANGED <<conn, fds>>
    BY <1>10, <1>11, <2>2 DEF FillTimesOut, FillFails, server
  <2> QED
    BY <1>11, <2>1, <2>2 DEF FillTimesOut, FillFails, ReadFails
<1>12. CASE DecodeThrows
  BY <1>10, <1>12 DEF DecodeThrows, server
<1>13. CASE NeedsMore
  <2>1. CASE Throw("large", rx.acc)
    BY <1>10, <1>13, <2>1 DEF NeedsMore, server
  <2>2. CASE rx' = [rx EXCEPT !.pc = "fill"] /\ UNCHANGED outcome
    <3>1. rx'.acc = rx.acc
      BY <1>1, <2>2 DEF RxType
    <3> QED
      BY <1>2, <1>13, <2>2, <3>1, QuietStep DEF NeedsMore, server, outcome
  <2> QED
    BY <1>13, <2>1, <2>2 DEF NeedsMore
<1>14. CASE Dispatch
  BY <1>14, DispatchKeeps
<1> QED
  BY <1>3, <1>4, <1>5, <1>6, <1>7, <1>8, <1>9, <1>11, <1>12, <1>13, <1>14 DEF Next, Reader

-----------------------------------------------------------------------------
(***************************************************************************)
(* Theorems.                                                               *)
(***************************************************************************)
\* Types, sockets and the messages in every reachable state: the inductive invariant.
THEOREM Invariance == Spec => [](StateInv /\ MsgInv)
<1>1. Init => StateInv /\ MsgInv
  BY StateInit, MsgInit
<1>2. StateInv /\ MsgInv /\ [Next]_vars => (StateInv /\ MsgInv)'
  BY StateStep, MsgStep
<1> QED
  BY <1>1, <1>2, PTL DEF Spec

\* Every variable keeps its type; at most one socket is open, none once connect() threw or
\* close() returned, whichever address, handshake step or read failed.
THEOREM TypeCorrect == Spec => []TypeOK
<1>1. StateInv => TypeOK
  BY DEF StateInv
<1> QED
  BY <1>1, Invariance, PTL

\* receive_binary_deadline returns whole messages only (ws.cpp:482-543): all the frames of
\* one message, in order, whatever was lost before it and whatever came between them.
THEOREM WholeMessages == Spec => []MessageWhole
<1>1. MsgInv => MessageWhole
  BY DEF MsgInv
<1> QED
  BY <1>1, Invariance, PTL

\* "continuation without a started message" (ws.cpp:509) is thrown for a frame of a binary
\* message only when an earlier call dropped the start of that message when it threw.
THEOREM OrphansExplained == Spec => []OrphanExplained
<1>1. MsgInv => OrphanExplained
  BY DEF MsgInv
<1> QED
  BY <1>1, Invariance, PTL

\* The transport implements the channel: messages are delivered in order, none twice, and
\* none is passed over unless a call has thrown something other than VynkorTimeout.
THEOREM Refinement == Spec => ImplementsChannel
<1>1. Init => Channel!Init
  <2> SUFFICES ASSUME Init  PROVE Channel!Init
    OBVIOUS
  <2>1. StateInv /\ written = 0 /\ last = 0 /\ warned = FALSE
    BY StateInit DEF Init
  <2>2. script \in Scripts /\ Len(script) \in Nat
    BY <2>1, ScriptFacts DEF StateInv
  <2>3. \A j \in 1..Len(script) : ~(EndOf[j - 1] < 0)
    <3>1. \A j \in 1..Len(script) : j - 1 \in 0..Len(script)
      BY <2>2
    <3> QED
      BY <2>2, <3>1, Ends
  <2>4. Begun = {}
    BY <2>1, <2>3 DEF Begun
  <2> QED
    BY <2>1, <2>4, FS_EmptySet DEF Channel!Init
<1>2. StateInv /\ MsgInv /\ [Next]_vars => [Channel!Next]_<<Cardinality(Begun), last, warned>>
  BY MsgStep DEF ChannelStep
<1> QED
  BY <1>1, <1>2, Invariance, PTL DEF Spec, ImplementsChannel, Channel!Spec
=============================================================================
