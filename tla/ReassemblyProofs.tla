-------------------------- MODULE ReassemblyProofs --------------------------
(***************************************************************************)
(* Proofs about Reassembly, for every set of messages and every limit.     *)
(***************************************************************************)
EXTENDS Reassembly, FiniteSetTheorems, TLAPS

Origins == Messages \cup {Stray}
Ids     == StreamIds \cup StrayIds
Calls   == [st : {"idle", "sending", "sent", "failed"}, id : Nat, next : Nat, total : Nat,
            size : Nat, chunk : Nat]
Frames  == [stream : Ids, seq : 0..MaxTotal, total : 0..MaxTotal, len : Nat, from : Origins]
Chunks  == [from : Origins, stream : Ids, total : Nat, seq : Nat, len : Nat, at : Nat]

Started(m) == sending[m].st # "idle"

\* A call of send_fragmented that was accepted.
CallInv(s) ==
    s.st # "idle" =>
        /\ s.id \in StreamIds /\ s.chunk > 0
        /\ s.total = IF s.size = 0 THEN 1 ELSE CeilDiv(s.size, s.chunk)
        /\ s.total \in 1..MaxTotal /\ s.next \in 0..s.total
        /\ s.st = "sending" => s.next < s.total
        /\ s.st = "sent" => s.next = s.total

\* The running sums of the chunks of a buffer.
Sums(b, sums) ==
    /\ sums \in [0..b.total -> Nat] /\ sums[0] = 0 /\ sums[b.total] = b.buffered
    /\ \A q \in 0..b.total - 1 : sums[q + 1] = sums[q] + SizeAt(b, q)
    /\ \A i, j \in 0..b.total : i <= j => sums[i] <= sums[j]

\* A chunk at its place in a set: it has the set's total and came before the set timed out.
InSet(b, q, c) ==
    /\ c \in Chunks /\ c.seq = q /\ c.total = b.total
    /\ b.first_seen <= c.at /\ c.at < b.first_seen + Timeout

\* A set of fragments, complete or not.
FragmentSet(b) ==
    /\ b = [total |-> b.total, first_seen |-> b.first_seen, buffered |-> b.buffered,
            fragments |-> b.fragments]
    /\ b.total \in 1..MaxTotal /\ b.first_seen \in Nat /\ b.buffered \in Nat
    /\ DOMAIN b.fragments \subseteq 0..b.total - 1
    /\ \A q \in DOMAIN b.fragments : InSet(b, q, b.fragments[q])
    /\ \E sums : Sums(b, sums)

\* A set that is held.
BufferInv(b) ==
    /\ FragmentSet(b) /\ b.buffered <= MaxPayload /\ DOMAIN b.fragments # {}
    /\ Cardinality(DOMAIN b.fragments) # b.total

TypeInv ==
    /\ now \in 0..MaxTime /\ epoch \in 0..MaxConnects /\ nextId \in StreamIds
    /\ sending \in [Messages -> Calls] /\ \A m \in Messages : CallInv(sending[m])
    /\ link \in Seq(Frames)
    /\ refused \subseteq Origins

Held ==
    /\ DOMAIN reassembly \subseteq Ids
    /\ IsFiniteSet(DOMAIN reassembly) /\ Cardinality(DOMAIN reassembly) <= MaxStreams
    /\ \A id \in DOMAIN reassembly :
         BufferInv(reassembly[id]) /\ reassembly[id].first_seen <= now

\* A fragment of a message carries the message's id and total, a stray one an alien id.
Belongs(from, id, total) ==
    IF from = Stray THEN id \in alien
    ELSE Started(from) /\ id = sending[from].id /\ total = sending[from].total

LinkOrigin   == \A i \in 1..Len(link) : Belongs(link[i].from, link[i].stream, link[i].total)
BufferOrigin ==
    \A id \in DOMAIN reassembly : \A q \in DOMAIN reassembly[id].fragments :
        /\ Belongs(reassembly[id].fragments[q].from, id, reassembly[id].total)
        /\ reassembly[id].fragments[q].stream = id

\* A payload is a sequence of chunks; their messages were started.
DeliveredInv ==
    \A d \in delivered :
        /\ d \in Seq(Chunks) /\ Len(d) > 0
        /\ \A i \in 1..Len(d) : d[i].from # Stray => Started(d[i].from)

\* Every fragment that was written is in the socket or in the message's buffer, until the
\* message is delivered or a fragment of it refused.
InLink(m, q)   == \E i \in 1..Len(link) : link[i].from = m /\ link[i].seq = q
InBuffer(id, q) == id \in DOMAIN reassembly /\ q \in DOMAIN reassembly[id].fragments
Undisturbed(m) == Started(m) /\ m \notin refused /\ Alone(m) /\ now < Timeout /\ epoch = 0
Progress ==
    \A m \in Messages :
        Undisturbed(m) =>
            \/ \E d \in delivered : d[1].from = m
            \/ \A q \in 0..sending[m].next - 1 : InLink(m, q) \/ InBuffer(sending[m].id, q)

IndInv ==
    /\ TypeInv /\ Held
    /\ LinkOrigin /\ BufferOrigin
    /\ DeliveredInv /\ Integrity /\ Progress

-----------------------------------------------------------------------------
(***************************************************************************)
(* The arithmetic of the headers.                                          *)
(***************************************************************************)
\* The number of chunks: none of them begins past the end of the payload.
LEMMA CeilDivFacts ==
    ASSUME NEW n \in Nat, NEW d \in Nat, d > 0
    PROVE  /\ CeilDiv(n, d) \in Nat
           /\ n > 0 => CeilDiv(n, d) > 0
           /\ \A k \in Nat : k < CeilDiv(n, d) => k * d <= n
<1> DEFINE c == CeilDiv(n, d)
<1>1. c \in Nat /\ c * d <= n + d - 1 /\ n + d - 1 < c * d + d
  BY DEF CeilDiv
<1>2. n > 0 => c > 0
  BY <1>1
<1>3. ASSUME NEW k \in Nat, k < c  PROVE k * d <= n
  <2>1. (k + 1) * d <= c * d
    BY <1>1, <1>3
  <2> QED
    BY <1>1, <2>1
<1> QED
  BY <1>1, <1>2, <1>3

\* A number that fits a field is packed as it is.
LEMMA Fits ==
    ASSUME NEW a \in Nat, NEW n \in Nat, a < n
    PROVE  a % n = a
OBVIOUS

\* The next stream id is one of the stream ids, the one after this one in their cycle.
LEMMA NextStreamIdFacts ==
    ASSUME NEW id \in StreamIds
    PROVE  /\ NextStreamId(id) \in StreamIds
           /\ NextStreamId(id) = IF id = IdSpace - 1 THEN 1 ELSE id + 1
<1>1. IdSpace \in Nat /\ IdSpace > 1 /\ id \in Nat /\ id > 0 /\ id < IdSpace
  BY IdAssumption DEF StreamIds
<1>2. CASE id = IdSpace - 1
  <2>1. (id + 1) % IdSpace = 0
    BY <1>1, <1>2
  <2> QED
    BY <1>1, <1>2, <2>1 DEF NextStreamId, StreamIds
<1>3. CASE id # IdSpace - 1
  <2>1. (id + 1) % IdSpace = id + 1
    BY <1>1, <1>3, Fits
  <2> QED
    BY <1>1, <1>3, <2>1 DEF NextStreamId, StreamIds
<1> QED
  BY <1>2, <1>3

\* The frame a turn of the loop writes: the header's fields are those of the call.
LEMMA FragmentFacts ==
    ASSUME TypeInv, NEW m \in Messages, sending[m].st = "sending"
    PROVE  /\ Fragment(m) \in Frames
           /\ Fragment(m).stream = sending[m].id /\ Fragment(m).total = sending[m].total
           /\ Fragment(m).seq = sending[m].next /\ Fragment(m).from = m
<1> DEFINE s == sending[m]
<1>1. /\ s \in Calls /\ Started(m)
      /\ s.id \in StreamIds /\ s.chunk > 0 /\ s.total \in 1..MaxTotal
      /\ s.total = (IF s.size = 0 THEN 1 ELSE CeilDiv(s.size, s.chunk))
      /\ s.next \in 0..s.total /\ s.next < s.total
  BY DEF TypeInv, CallInv, Started
<1>2. s.next \in Nat /\ s.total \in Nat /\ s.size \in Nat /\ s.chunk \in Nat
  BY <1>1 DEF Calls
<1>3. s.id % IdSpace = s.id
  BY <1>1, Fits, IdAssumption DEF StreamIds
<1>4. s.next % (MaxTotal + 1) = s.next /\ s.total % (MaxTotal + 1) = s.total
  <2>1. MaxTotal + 1 \in Nat /\ s.next < MaxTotal + 1 /\ s.total < MaxTotal + 1
    BY <1>1, <1>2, BoundAssumption
  <2> HIDE DEF s
  <2>2. s.next % (MaxTotal + 1) = s.next
    BY <1>2, <2>1, Fits
  <2>3. s.total % (MaxTotal + 1) = s.total
    BY <1>2, <2>1, Fits
  <2> QED
    BY <2>2, <2>3
<1>5. s.next * s.chunk <= s.size /\ s.next * s.chunk \in Nat
  <2>1. CASE s.size = 0
    BY <1>1, <1>2, <2>1
  <2>2. CASE s.size # 0
    <3>1. s.next < CeilDiv(s.size, s.chunk)
      BY <1>1, <2>2
    <3>2. s.next * s.chunk <= s.size
      BY <1>1, <1>2, <3>1, CeilDivFacts
    <3>3. s.next * s.chunk \in Nat
      BY <1>2
    <3> QED
      BY <3>2, <3>3
  <2> QED
    BY <2>1, <2>2
<1>6. MinOf(s.chunk, s.size - s.next * s.chunk) \in Nat
  BY <1>2, <1>5 DEF MinOf
<1> DEFINE len == MinOf(s.chunk, s.size - s.next * s.chunk)
<1>7. Fragment(m) = [stream |-> s.id, seq |-> s.next, total |-> s.total, len |-> len, from |-> m]
  BY <1>3, <1>4 DEF Fragment
<1>8. s.id \in Ids /\ s.next \in 0..MaxTotal /\ s.total \in 0..MaxTotal /\ m \in Origins
  BY <1>1, <1>2, BoundAssumption DEF Ids, Origins
<1> HIDE DEF s, len
<1>9. len \in Nat
  BY <1>6 DEF len, s
<1> QED
  BY <1>7, <1>8, <1>9 DEF Frames, s

-----------------------------------------------------------------------------
(***************************************************************************)
(* What absorb_fragment does to the buffer of a fragment.                  *)
(***************************************************************************)
\* The buffers that are not pruned.
LEMMA KeptFacts ==
    ASSUME TypeInv, Held
    PROVE  /\ Kept \subseteq DOMAIN reassembly /\ IsFiniteSet(Kept)
           /\ Cardinality(Kept) \in Nat /\ Cardinality(Kept) <= MaxStreams
           /\ now < Timeout => Kept = DOMAIN reassembly
<1>1. Kept \subseteq DOMAIN reassembly
  BY DEF Kept
<1>2. /\ IsFiniteSet(Kept) /\ Cardinality(Kept) \in Nat
      /\ Cardinality(Kept) <= Cardinality(DOMAIN reassembly)
      /\ Cardinality(DOMAIN reassembly) \in Nat
  BY <1>1, FS_Subset, FS_CardinalityType DEF Held
<1>3. ASSUME now < Timeout, NEW id \in DOMAIN reassembly  PROVE id \in Kept
  <2>1. reassembly[id].first_seen \in Nat /\ now \in Nat /\ Timeout \in Nat
    BY BoundAssumption DEF Held, BufferInv, FragmentSet, TypeInv
  <2> QED
    BY <1>3, <2>1 DEF Kept
<1> QED
  BY <1>1, <1>2, <1>3, BoundAssumption DEF Held

\* The buffer a fragment with a good header finds or opens is a set that fits its total.
LEMMA BufferOfFacts ==
    ASSUME TypeInv, Held, NEW f \in Frames, ~BadHeader(f), ~Mismatch(f)
    PROVE  /\ FragmentSet(BufferOf(f)) /\ BufferOf(f).total = f.total
           /\ BufferOf(f).first_seen <= now /\ now < BufferOf(f).first_seen + Timeout
<1>1. CASE f.stream \in Kept
  BY <1>1 DEF Kept, Held, BufferInv, BufferOf, Mismatch
<1>2. CASE f.stream \notin Kept
  <2> DEFINE b == [total |-> f.total, first_seen |-> now, buffered |-> 0, fragments |-> <<>>]
             sums == [i \in 0..f.total |-> 0]
  <2>1. BufferOf(f) = b
    BY <1>2 DEF BufferOf
  <2>2. b.total \in 1..MaxTotal /\ b.first_seen \in Nat /\ b.first_seen <= now
        /\ now < b.first_seen + Timeout
    BY BoundAssumption DEF BadHeader, TypeInv, Frames
  <2>3. DOMAIN b.fragments = {}
    OBVIOUS
  <2>4. \A q : SizeAt(b, q) = 0
    BY <2>3 DEF SizeAt
  <2>5. b.total \in Nat /\ b.buffered = 0 /\ b.total = f.total
    BY <2>2
  <2>6. Sums(b, sums)
    <3> HIDE DEF b
    <3> QED
      BY <2>4, <2>5 DEF Sums
  <2>7. b = [total |-> b.total, first_seen |-> b.first_seen, buffered |-> b.buffered,
            fragments |-> b.fragments]
    OBVIOUS
  <2> HIDE DEF b
  <2> QED
    BY <2>1, <2>2, <2>3, <2>5, <2>6, <2>7 DEF FragmentSet
<1> QED
  BY <1>1, <1>2

\* The stored buffer, field by field.
LEMMA StoredFacts ==
    ASSUME TypeInv, Held, NEW f \in Frames, ~BadHeader(f), ~Mismatch(f)
    PROVE  LET old == BufferOf(f)  new == Stored(f)
           IN  /\ new = [total |-> old.total, first_seen |-> old.first_seen,
                         buffered |-> NewTotal(f), fragments |-> new.fragments]
               /\ DOMAIN new.fragments = DOMAIN old.fragments \cup {f.seq}
               /\ \A q \in DOMAIN new.fragments :
                    new.fragments[q] = IF q = f.seq THEN ChunkOf(f) ELSE old.fragments[q]
<1> DEFINE old == BufferOf(f)
           frs == [q \in DOMAIN old.fragments \cup {f.seq} |->
                     IF q = f.seq THEN ChunkOf(f) ELSE old.fragments[q]]
<1>1. old = [total |-> old.total, first_seen |-> old.first_seen, buffered |-> old.buffered,
             fragments |-> old.fragments]
  BY BufferOfFacts DEF FragmentSet
<1>2. Stored(f) = [old EXCEPT !.buffered = NewTotal(f), !.fragments = frs]
  BY DEF Stored
<1> HIDE DEF old, frs
<1>3. Stored(f) = [total |-> old.total, first_seen |-> old.first_seen,
                   buffered |-> NewTotal(f), fragments |-> frs]
  BY <1>1, <1>2, Zenon
<1>4. Stored(f).fragments = frs
  BY <1>3
<1>5. /\ DOMAIN frs = DOMAIN old.fragments \cup {f.seq}
      /\ \A q \in DOMAIN frs : frs[q] = IF q = f.seq THEN ChunkOf(f) ELSE old.fragments[q]
  BY DEF frs
<1> QED
  BY <1>3, <1>4, <1>5 DEF old

\* Storing a chunk shifts the running sums after it by the difference of the lengths: the
\* bytes accounted for are again those of the chunks held.
LEMMA StoredSums ==
    ASSUME TypeInv, Held, NEW f \in Frames, ~BadHeader(f), ~Mismatch(f)
    PROVE  NewTotal(f) \in Nat /\ \E sums : Sums(Stored(f), sums)
<1> DEFINE old == BufferOf(f)
           new == Stored(f)
           q0  == f.seq
           gone == SizeAt(old, q0)
           n   == f.total
<1>1. FragmentSet(old) /\ old.total = n /\ n \in Nat /\ q0 \in 0..n - 1 /\ f.len \in Nat
  BY BufferOfFacts DEF BadHeader, Frames
<1>2. PICK sums : Sums(old, sums)
  BY <1>1 DEF FragmentSet
<1>3. /\ sums \in [0..n -> Nat] /\ sums[0] = 0 /\ sums[n] = old.buffered
      /\ \A q \in 0..n - 1 : sums[q + 1] = sums[q] + SizeAt(old, q)
      /\ \A i, j \in 0..n : i <= j => sums[i] <= sums[j]
  BY <1>1, <1>2 DEF Sums
<1>4. gone \in Nat
  <2>1. CASE q0 \in DOMAIN old.fragments
    <3>1. old.fragments[q0] \in Chunks
      BY <1>1, <2>1 DEF FragmentSet, InSet
    <3>2. old.fragments[q0].len \in Nat
      BY <3>1 DEF Chunks
    <3> QED
      BY <2>1, <3>2 DEF SizeAt
  <2>2. CASE q0 \notin DOMAIN old.fragments
    BY <2>2 DEF SizeAt
  <2> QED
    BY <2>1, <2>2
<1>5. NewTotal(f) = old.buffered + f.len - gone
  BY DEF NewTotal, SizeAt
<1>6. new.total = n /\ new.buffered = NewTotal(f)
  BY <1>1, StoredFacts
<1>7. SizeAt(new, q0) = f.len
  <2>1. q0 \in DOMAIN new.fragments /\ new.fragments[q0] = ChunkOf(f)
    BY StoredFacts
  <2>2. ChunkOf(f).len = f.len
    BY DEF ChunkOf
  <2> QED
    BY <2>1, <2>2 DEF SizeAt
<1>8. \A q \in 0..n - 1 : q # q0 => SizeAt(new, q) = SizeAt(old, q)
  BY StoredFacts DEF SizeAt
<1> HIDE DEF old, new, q0, gone, n
<1>9. sums[q0 + 1] = sums[q0] + gone
  BY <1>1, <1>3 DEF gone
<1> DEFINE shifted == [i \in 0..n |-> IF i <= q0 THEN sums[i] ELSE sums[i] - gone + f.len]
<1>10. \A i \in 0..n : shifted[i] \in Nat
  <2> SUFFICES ASSUME NEW i \in 0..n  PROVE shifted[i] \in Nat
    OBVIOUS
  <2>1. CASE i <= q0
    BY <1>3, <2>1
  <2>2. CASE i > q0
    <3>1. sums[q0 + 1] <= sums[i] /\ sums[i] \in Nat /\ sums[q0] \in Nat
      BY <1>1, <1>3, <2>2
    <3> QED
      BY <1>1, <1>4, <1>9, <2>2, <3>1
  <2> QED
    BY <1>1, <2>1, <2>2
<1>11. \A i, j \in 0..n : i <= j => shifted[i] <= shifted[j]
  <2> SUFFICES ASSUME NEW i \in 0..n, NEW j \in 0..n, i <= j  PROVE shifted[i] <= shifted[j]
    OBVIOUS
  <2>1. sums[i] \in Nat /\ sums[j] \in Nat /\ sums[i] <= sums[j] /\ sums[q0] \in Nat
    BY <1>1, <1>3
  <2>2. CASE i <= q0 /\ j > q0
    <3>1. sums[i] <= sums[q0] /\ sums[q0 + 1] <= sums[j]
      BY <1>1, <1>3, <2>2
    <3> QED
      BY <1>1, <1>4, <1>9, <2>1, <2>2, <3>1
  <2>3. CASE ~(i <= q0 /\ j > q0)
    BY <1>1, <1>4, <2>1, <2>3
  <2> QED
    BY <2>2, <2>3
<1>12. \A q \in 0..n - 1 : shifted[q + 1] = shifted[q] + SizeAt(new, q)
  <2> SUFFICES ASSUME NEW q \in 0..n - 1
               PROVE  shifted[q + 1] = shifted[q] + SizeAt(new, q)
    OBVIOUS
  <2>1. /\ sums[q + 1] = sums[q] + SizeAt(old, q) /\ sums[q] \in Nat /\ sums[q + 1] \in Nat
        /\ q \in 0..n /\ q + 1 \in 0..n
    BY <1>1, <1>3
  <2>2. CASE q = q0
    BY <1>1, <1>4, <1>7, <1>9, <2>1, <2>2
  <2>3. CASE q < q0
    <3>1. shifted[q + 1] = sums[q + 1] /\ shifted[q] = sums[q]
      BY <1>1, <2>1, <2>3
    <3> QED
      BY <1>8, <2>1, <2>3, <3>1
  <2>4. CASE q > q0
    <3>1. /\ shifted[q + 1] = sums[q + 1] - gone + f.len
          /\ shifted[q] = sums[q] - gone + f.len
      BY <1>1, <2>1, <2>4
    <3>2. SizeAt(new, q) = sums[q + 1] - sums[q]
      <4>1. SizeAt(new, q) = SizeAt(old, q)
        BY <1>8, <2>4
      <4>2. SizeAt(old, q) \in Nat
        <5>1. CASE q \in DOMAIN old.fragments
          <6>1. old.fragments[q] \in Chunks
            BY <1>1, <5>1 DEF FragmentSet, InSet
          <6> QED
            BY <5>1, <6>1 DEF SizeAt, Chunks
        <5>2. CASE q \notin DOMAIN old.fragments
          BY <5>2 DEF SizeAt
        <5> QED
          BY <5>1, <5>2
      <4> QED
        BY <2>1, <4>1, <4>2
    <3> QED
      BY <1>1, <1>4, <2>1, <3>1, <3>2
  <2> QED
    BY <1>1, <2>2, <2>3, <2>4
<1>13. shifted[0] = 0 /\ shifted[n] = NewTotal(f) /\ shifted \in [0..n -> Nat]
  BY <1>1, <1>3, <1>4, <1>5, <1>10 DEF old
<1> HIDE DEF shifted
<1>14. NewTotal(f) \in Nat
  BY <1>1, <1>10, <1>13
<1>15. Sums(new, shifted)
  BY <1>6, <1>11, <1>12, <1>13 DEF Sums
<1> QED
  BY <1>14, <1>15 DEF new

\* The buffer with the chunk stored is a set of fragments, with the fragment in it.
LEMMA StoredIsSet ==
    ASSUME TypeInv, Held, NEW f \in Frames, ~BadHeader(f), ~Mismatch(f)
    PROVE  /\ FragmentSet(Stored(f)) /\ Stored(f).total = f.total
           /\ Stored(f).buffered = NewTotal(f) /\ Stored(f).first_seen <= now
           /\ f.seq \in DOMAIN Stored(f).fragments
<1> DEFINE old == BufferOf(f)
           new == Stored(f)
<1>1. /\ FragmentSet(old) /\ old.total = f.total /\ f.total \in Nat /\ f.seq \in 0..f.total - 1
      /\ old.first_seen <= now /\ now < old.first_seen + Timeout
  BY BufferOfFacts DEF BadHeader, Frames
<1>2. /\ new = [total |-> old.total, first_seen |-> old.first_seen,
                buffered |-> NewTotal(f), fragments |-> new.fragments]
      /\ DOMAIN new.fragments = DOMAIN old.fragments \cup {f.seq}
      /\ \A q \in DOMAIN new.fragments :
            new.fragments[q] = IF q = f.seq THEN ChunkOf(f) ELSE old.fragments[q]
  BY StoredFacts
<1>3. NewTotal(f) \in Nat /\ \E sums : Sums(new, sums)
  BY StoredSums
<1>4. /\ ChunkOf(f) \in Chunks /\ ChunkOf(f).seq = f.seq /\ ChunkOf(f).total = f.total
      /\ ChunkOf(f).at = now
  <2>1. now \in Nat /\ f.total \in Nat /\ f.seq \in Nat
    BY BoundAssumption DEF TypeInv, Frames
  <2> QED
    BY <2>1 DEF ChunkOf, Chunks, Frames
<1> HIDE DEF old, new
<1>5. /\ new.total = old.total /\ new.first_seen = old.first_seen /\ new.buffered = NewTotal(f)
  BY <1>2
<1>6. new = [total |-> new.total, first_seen |-> new.first_seen, buffered |-> new.buffered,
             fragments |-> new.fragments]
  BY <1>2, <1>5
<1>7. \A q \in DOMAIN new.fragments : InSet(new, q, new.fragments[q])
  <2> SUFFICES ASSUME NEW q \in DOMAIN new.fragments  PROVE InSet(new, q, new.fragments[q])
    OBVIOUS
  <2>1. CASE q = f.seq
    BY <1>1, <1>2, <1>4, <1>5, <2>1 DEF InSet
  <2>2. CASE q # f.seq
    <3>1. InSet(old, q, old.fragments[q]) /\ new.fragments[q] = old.fragments[q]
      BY <1>1, <1>2, <2>2 DEF FragmentSet
    <3> QED
      BY <1>5, <3>1 DEF InSet
  <2> QED
    BY <2>1, <2>2
<1>8. DOMAIN new.fragments \subseteq 0..new.total - 1
  BY <1>1, <1>2, <1>5 DEF FragmentSet
<1>9. FragmentSet(new)
  BY <1>1, <1>3, <1>5, <1>6, <1>7, <1>8 DEF FragmentSet
<1> QED
  BY <1>1, <1>2, <1>5, <1>9 DEF new

\* A set that has all its sequences, or lacks one.
LEMMA CompleteFacts ==
    ASSUME NEW b, FragmentSet(b)
    PROVE  /\ IsFiniteSet(DOMAIN b.fragments) /\ Cardinality(DOMAIN b.fragments) \in 0..b.total
           /\ IsComplete(b) <=> DOMAIN b.fragments = 0..b.total - 1
           /\ DOMAIN b.fragments # {} => Cardinality(DOMAIN b.fragments) > 0
<1> DEFINE D == DOMAIN b.fragments
<1>1. b.total \in Nat /\ b.total > 0 /\ D \subseteq 0..b.total - 1
  BY BoundAssumption DEF FragmentSet
<1>2. IsFiniteSet(0..b.total - 1) /\ Cardinality(0..b.total - 1) = b.total
  <2>1. 0 \in Int /\ b.total - 1 \in Int /\ ~(0 > b.total - 1)
        /\ (b.total - 1) - 0 + 1 = b.total
    BY <1>1
  <2> QED
    BY <2>1, FS_Interval
<1>3. /\ IsFiniteSet(D) /\ Cardinality(D) <= b.total /\ Cardinality(D) \in Nat
      /\ Cardinality(D) = b.total => D = 0..b.total - 1
  BY <1>1, <1>2, FS_Subset, FS_CardinalityType
<1>4. D # {} => Cardinality(D) > 0
  BY <1>3, FS_EmptySet
<1> QED
  BY <1>1, <1>2, <1>3, <1>4 DEF IsComplete

\* absorb_fragment keeps the buffers within their limits and their bytes accounted for.
LEMMA AbsorbHeld ==
    ASSUME TypeInv, Held, NEW f \in Frames, Absorb(f), now' = now
    PROVE  Held' /\ refused' \subseteq Origins
<1>1. /\ Kept \subseteq DOMAIN reassembly /\ IsFiniteSet(Kept)
      /\ Cardinality(Kept) \in Nat /\ Cardinality(Kept) <= MaxStreams
  BY KeptFacts
<1>2. \A id \in Kept : BufferInv(reassembly[id]) /\ reassembly[id].first_seen <= now
  BY <1>1 DEF Held
<1>3. Kept \subseteq Ids /\ f.stream \in Ids /\ f.from \in Origins
  BY <1>1 DEF Held, Frames
<1>4. refused' \subseteq Origins
  BY <1>3 DEF Absorb, Throws, TypeInv
<1>5. ASSUME NEW S \in SUBSET Kept, reassembly' = [i \in S |-> reassembly[i]]  PROVE Held'
  <2>1. DOMAIN reassembly' = S /\ \A id \in S : reassembly'[id] = reassembly[id]
    BY <1>5
  <2>2. IsFiniteSet(S) /\ Cardinality(S) \in Nat /\ Cardinality(S) <= Cardinality(Kept)
    BY <1>1, <1>5, FS_Subset, FS_CardinalityType
  <2>3. Cardinality(S) <= MaxStreams
    BY <1>1, <2>2, BoundAssumption
  <2>4. \A id \in S : BufferInv(reassembly'[id]) /\ reassembly'[id].first_seen <= now'
    BY <1>2, <2>1
  <2> QED
    BY <1>3, <2>1, <2>2, <2>3, <2>4 DEF Held
<1>6. CASE reassembly' = [i \in Kept |-> reassembly[i]] \/ reassembly' = Without(f.stream)
  <2>1. Kept \in SUBSET Kept /\ Kept \ {f.stream} \in SUBSET Kept
    OBVIOUS
  <2>2. Held'
    BY <1>5, <1>6, <2>1 DEF Without
  <2> QED
    BY <1>4, <2>2
<1>7. CASE /\ ~BadHeader(f) /\ ~Mismatch(f) /\ ~TooMany(f)
           /\ NewTotal(f) <= MaxPayload /\ ~IsComplete(Stored(f))
           /\ reassembly' = With(f.stream, Stored(f))
  <2> DEFINE T == Kept \cup {f.stream}
             new == Stored(f)
  <2>1. /\ DOMAIN reassembly' = T
        /\ \A id \in T : reassembly'[id] = IF id = f.stream THEN new ELSE reassembly[id]
    BY <1>7 DEF With
  <2>2. BufferInv(new) /\ new.first_seen <= now
    BY <1>7, StoredIsSet DEF BufferInv, IsComplete
  <2>3. IsFiniteSet(T) /\ Cardinality(T) <= MaxStreams
    <3>1. /\ IsFiniteSet(T)
          /\ Cardinality(T) = IF f.stream \in Kept THEN Cardinality(Kept) ELSE Cardinality(Kept) + 1
      BY <1>1, FS_AddElement
    <3> QED
      BY <1>1, <1>7, <3>1, BoundAssumption DEF TooMany
  <2>4. T \subseteq Ids
    BY <1>3
  <2> HIDE DEF T, new
  <2>5. \A id \in T : BufferInv(reassembly'[id]) /\ reassembly'[id].first_seen <= now'
    <3> SUFFICES ASSUME NEW id \in T
                 PROVE  BufferInv(reassembly'[id]) /\ reassembly'[id].first_seen <= now'
      OBVIOUS
    <3>1. CASE id = f.stream
      BY <2>1, <2>2, <3>1
    <3>2. CASE id # f.stream
      BY <1>2, <2>1, <3>2 DEF T
    <3> QED
      BY <3>1, <3>2
  <2> QED
    BY <1>4, <2>1, <2>3, <2>4, <2>5 DEF Held
<1> QED
  BY <1>4, <1>6, <1>7 DEF Absorb, Throws

-----------------------------------------------------------------------------
(***************************************************************************)
(* The calls of send_fragmented.                                           *)
(***************************************************************************)
\* What a step may do to a call: a call that was started keeps its id and its total, and
\* takes back no fragment.
Grows(s, t) ==
    s.st # "idle" =>
        t.st # "idle" /\ t.id = s.id /\ t.total = s.total /\ s.next <= t.next

\* A message is accepted.
LEMMA StartFacts ==
    ASSUME TypeInv, NEW m \in Messages, StartSending(m)
    PROVE  /\ sending' \in [Messages -> Calls]
           /\ \A n \in Messages \ {m} : sending'[n] = sending[n]
           /\ ~Started(m) /\ CallInv(sending'[m])
           /\ sending'[m].st = "sending" /\ sending'[m].id = nextId /\ sending'[m].next = 0
           /\ nextId' = NextStreamId(nextId)
<1>1. PICK size \in 0..MaxPayload, chunk \in 1..MaxPayload :
        /\ Acceptable(size, chunk)
        /\ sending' = [sending EXCEPT ![m] =
              [st |-> "sending", id |-> nextId, next |-> 0,
               total |-> IF size = 0 THEN 1 ELSE CeilDiv(size, chunk),
               size |-> size, chunk |-> chunk]]
  BY DEF StartSending
<1> DEFINE total == IF size = 0 THEN 1 ELSE CeilDiv(size, chunk)
           s == [st |-> "sending", id |-> nextId, next |-> 0, total |-> total,
                 size |-> size, chunk |-> chunk]
<1>2. size \in Nat /\ chunk \in Nat /\ chunk > 0 /\ nextId \in StreamIds /\ nextId \in Nat
  BY BoundAssumption DEF TypeInv, StreamIds
<1>3. total \in 1..MaxTotal
  <2>1. CASE size = 0
    BY <2>1, BoundAssumption
  <2>2. CASE size # 0
    <3>1. CeilDiv(size, chunk) \in Nat /\ CeilDiv(size, chunk) > 0
      BY <1>2, <2>2, CeilDivFacts
    <3> QED
      BY <1>1, <2>2, <3>1, BoundAssumption DEF Acceptable
  <2> QED
    BY <2>1, <2>2
<1>4. /\ s.st = "sending" /\ s.id = nextId /\ s.next = 0 /\ s.total = total
      /\ s.size = size /\ s.chunk = chunk
  OBVIOUS
<1>5. total \in Nat /\ total > 0 /\ total = IF size = 0 THEN 1 ELSE CeilDiv(size, chunk)
  BY <1>3, BoundAssumption
<1> HIDE DEF total
<1>6. s \in Calls
  BY <1>2, <1>5 DEF Calls
<1>7. sending' = [sending EXCEPT ![m] = s]
  BY <1>1 DEF total
<1> HIDE DEF s
<1>8. CallInv(s)
  BY <1>2, <1>3, <1>4, <1>5 DEF CallInv
<1>9. sending \in [Messages -> Calls]
  BY DEF TypeInv
<1>10. /\ sending' \in [Messages -> Calls] /\ sending'[m] = s
       /\ \A n \in Messages \ {m} : sending'[n] = sending[n]
  BY <1>6, <1>7, <1>9
<1>11. ~Started(m) /\ nextId' = NextStreamId(nextId)
  BY DEF StartSending, Started
<1> QED
  BY <1>4, <1>8, <1>10, <1>11

\* One fragment of it is written.
LEMMA SendFacts ==
    ASSUME TypeInv, NEW m \in Messages, SendFragment(m)
    PROVE  /\ sending' \in [Messages -> Calls]
           /\ \A n \in Messages \ {m} : sending'[n] = sending[n]
           /\ CallInv(sending'[m]) /\ Grows(sending[m], sending'[m])
           /\ sending[m].st = "sending" /\ sending'[m].next = sending[m].next + 1
<1> DEFINE s == sending[m]
           st == IF s.next + 1 = s.total THEN "sent" ELSE "sending"
           t == [s EXCEPT !.next = s.next + 1, !.st = st]
<1>1. s \in Calls /\ s.st = "sending" /\ CallInv(s)
  BY DEF TypeInv, SendFragment
<1>2. sending \in [Messages -> Calls]
  BY DEF TypeInv
<1>3. sending' = [sending EXCEPT ![m] = t]
  BY <1>1, <1>2 DEF SendFragment, Calls
<1>4. s.next \in Nat /\ s.total \in Nat /\ s.next < s.total
  BY <1>1 DEF Calls, CallInv
<1>5. /\ t \in Calls /\ t.id = s.id /\ t.total = s.total /\ t.size = s.size /\ t.chunk = s.chunk
      /\ t.next = s.next + 1 /\ t.st = st
  <2>1. s.next + 1 \in Nat /\ st \in {"sending", "sent"}
    BY <1>4
  <2> HIDE DEF s, st
  <2> QED
    BY <1>1, <2>1 DEF Calls
<1> HIDE DEF t, s
<1>6. CallInv(t) /\ Grows(s, t)
  BY <1>1, <1>4, <1>5 DEF CallInv, Grows
<1>7. /\ sending' \in [Messages -> Calls] /\ sending'[m] = t
      /\ \A n \in Messages \ {m} : sending'[n] = sending[n]
  BY <1>2, <1>3, <1>5
<1> QED
  BY <1>1, <1>5, <1>6, <1>7 DEF s

\* A call fails.
LEMMA FailFacts ==
    ASSUME NEW s \in Calls, CallInv(s), s.st = "sending"
    PROVE  /\ [s EXCEPT !.st = "failed"] \in Calls
           /\ CallInv([s EXCEPT !.st = "failed"]) /\ Grows(s, [s EXCEPT !.st = "failed"])
           /\ [s EXCEPT !.st = "failed"].next = s.next
<1> DEFINE t == [s EXCEPT !.st = "failed"]
<1>1. /\ t \in Calls /\ t.st = "failed" /\ t.id = s.id /\ t.total = s.total /\ t.size = s.size
      /\ t.chunk = s.chunk /\ t.next = s.next
  BY DEF Calls
<1>2. s.next \in Nat
  BY DEF Calls
<1> HIDE DEF t
<1>3. CallInv(t) /\ Grows(s, t)
  BY <1>1, <1>2 DEF CallInv, Grows
<1> QED
  BY <1>1, <1>3 DEF t

\* Nothing happens to a call.
LEMMA GrowsReflexive ==
    ASSUME NEW s \in Calls
    PROVE  Grows(s, s)
BY DEF Grows, Calls

\* Every step but the acceptance of a message lets the calls grow.
LEMMA CallsStep ==
    ASSUME TypeInv, [Next]_vars
    PROVE  /\ sending' \in [Messages -> Calls] /\ \A m \in Messages : CallInv(sending'[m])
           /\ \A m \in Messages : Grows(sending[m], sending'[m])
           /\ nextId' \in StreamIds
<1>1. /\ sending \in [Messages -> Calls] /\ \A m \in Messages : CallInv(sending[m])
      /\ nextId \in StreamIds
  BY DEF TypeInv
<1>2. ASSUME NEW m \in Messages, StartSending(m)
      PROVE  /\ sending' \in [Messages -> Calls] /\ \A n \in Messages : CallInv(sending'[n])
             /\ \A n \in Messages : Grows(sending[n], sending'[n])
             /\ nextId' \in StreamIds
  <2>1. Grows(sending[m], sending'[m])
    BY <1>2, StartFacts DEF Started, Grows
  <2> QED
    BY <1>1, <1>2, <2>1, StartFacts, GrowsReflexive, NextStreamIdFacts
<1>3. ASSUME NEW m \in Messages, SendFragment(m)
      PROVE  /\ sending' \in [Messages -> Calls] /\ \A n \in Messages : CallInv(sending'[n])
             /\ \A n \in Messages : Grows(sending[n], sending'[n])
             /\ nextId' \in StreamIds
  <2>1. nextId' = nextId
    BY <1>3 DEF SendFragment
  <2> QED
    BY <1>1, <1>3, <2>1, SendFacts, GrowsReflexive
<1>4. ASSUME NEW m \in Messages, SendFails(m)
      PROVE  /\ sending' \in [Messages -> Calls] /\ \A n \in Messages : CallInv(sending'[n])
             /\ \A n \in Messages : Grows(sending[n], sending'[n])
             /\ nextId' \in StreamIds
  <2> DEFINE t == [sending[m] EXCEPT !.st = "failed"]
  <2>1. nextId' = nextId /\ sending' = [sending EXCEPT ![m] = t] /\ sending[m].st = "sending"
    BY <1>4 DEF SendFails
  <2>2. t \in Calls /\ CallInv(t) /\ Grows(sending[m], t)
    BY <1>1, <2>1, FailFacts
  <2> HIDE DEF t
  <2> QED
    BY <1>1, <2>1, <2>2, GrowsReflexive
<1>5. CASE Reconnect
  <2>1. nextId' \in StreamIds
    <3>1. 1 \in StreamIds
      BY IdAssumption DEF StreamIds
    <3>2. nextId' = nextId \/ nextId' = 1
      BY <1>5 DEF Reconnect
    <3> QED
      BY <1>1, <3>1, <3>2
  <2>2. \A m \in Messages :
           sending'[m] = IF sending[m].st = "sending"
                         THEN [sending[m] EXCEPT !.st = "failed"] ELSE sending[m]
    BY <1>5 DEF Reconnect
  <2>3. \A m \in Messages :
           sending'[m] \in Calls /\ CallInv(sending'[m]) /\ Grows(sending[m], sending'[m])
    <3> SUFFICES ASSUME NEW m \in Messages
                 PROVE  /\ sending'[m] \in Calls /\ CallInv(sending'[m])
                        /\ Grows(sending[m], sending'[m])
      OBVIOUS
    <3> DEFINE t == [sending[m] EXCEPT !.st = "failed"]
    <3>1. CASE sending[m].st = "sending"
      <4>1. t \in Calls /\ CallInv(t) /\ Grows(sending[m], t)
        BY <1>1, <3>1, FailFacts
      <4>2. sending'[m] = t
        BY <2>2, <3>1
      <4> HIDE DEF t
      <4> QED
        BY <4>1, <4>2
    <3>2. CASE sending[m].st # "sending"
      <4>1. sending'[m] = sending[m]
        BY <2>2, <3>2
      <4> QED
        BY <1>1, <4>1, GrowsReflexive
    <3> QED
      BY <3>1, <3>2
  <2>4. sending' = [m \in Messages |-> sending'[m]]
    BY <1>5 DEF Reconnect
  <2>5. sending' \in [Messages -> Calls]
    BY <2>3, <2>4
  <2> QED
    BY <2>1, <2>3, <2>5
<1>6. CASE SendStray \/ RecvFragment \/ Tick \/ UNCHANGED vars
  <2>1. sending' = sending /\ nextId' = nextId
    BY <1>6 DEF SendStray, RecvFragment, Tick, vars
  <2> QED
    BY <1>1, <2>1, GrowsReflexive
<1> QED
  BY <1>2, <1>3, <1>4, <1>5, <1>6 DEF Next

\* Every variable keeps its type.
LEMMA TypeStep ==
    ASSUME TypeInv, Held, [Next]_vars
    PROVE  TypeInv' /\ Held'
<1>1. /\ sending' \in [Messages -> Calls] /\ \A m \in Messages : CallInv(sending'[m])
      /\ nextId' \in StreamIds
  BY CallsStep
<1>2. now' \in 0..MaxTime /\ epoch' \in 0..MaxConnects /\ now <= now'
  <2>1. now \in 0..MaxTime /\ epoch \in 0..MaxConnects
    BY DEF TypeInv
  <2>2. CASE Tick
    BY <2>1, <2>2, BoundAssumption DEF Tick
  <2>3. CASE Reconnect
    BY <2>1, <2>3, BoundAssumption DEF Reconnect
  <2>4. CASE ~Tick /\ ~Reconnect
    <3>1. now' = now /\ epoch' = epoch
      BY <2>4 DEF Next, StartSending, SendFragment, SendFails, SendStray, RecvFragment, vars
    <3> QED
      BY <2>1, <3>1, BoundAssumption
  <2> QED
    BY <2>2, <2>3, <2>4
<1>3. link' \in Seq(Frames)
  <2>1. link \in Seq(Frames)
    BY DEF TypeInv
  <2>2. ASSUME NEW m \in Messages, SendFragment(m)  PROVE link' \in Seq(Frames)
    <3>1. Fragment(m) \in Frames /\ link' = Append(link, Fragment(m))
      BY <2>2, FragmentFacts DEF SendFragment
    <3> QED
      BY <2>1, <3>1
  <2>3. CASE SendStray
    <3>1. PICK id \in StrayIds, h \in StrayHeaders :
            link' = Append(link, [stream |-> id, seq |-> h.seq, total |-> h.total,
                                  len |-> h.len, from |-> Stray])
      BY <2>3 DEF SendStray
    <3>2. h.seq \in 0..MaxTotal /\ h.total \in 0..MaxTotal /\ h.len \in Nat
      BY StrayAssumption
    <3>3. [stream |-> id, seq |-> h.seq, total |-> h.total, len |-> h.len, from |-> Stray]
            \in Frames
      BY <3>2 DEF Frames, Ids, Origins
    <3> QED
      BY <2>1, <3>1, <3>3
  <2>4. CASE Reconnect
    BY <2>4 DEF Reconnect
  <2>5. CASE RecvFragment
    BY <2>1, <2>5 DEF RecvFragment
  <2>6. CASE \/ \E m \in Messages : StartSending(m) \/ SendFails(m)
             \/ Tick \/ UNCHANGED vars
    BY <2>1, <2>6 DEF StartSending, SendFails, Tick, vars
  <2> QED
    BY <2>2, <2>3, <2>4, <2>5, <2>6 DEF Next
<1>4. Held' /\ refused' \subseteq Origins
  <2>1. CASE RecvFragment
    <3>1. Head(link) \in Frames /\ Absorb(Head(link)) /\ now' = now
      BY <2>1 DEF RecvFragment, TypeInv
    <3> QED
      BY <3>1, AbsorbHeld
  <2>2. CASE ~RecvFragment
    <3>1. reassembly' = reassembly /\ refused' = refused
      BY <2>2 DEF Next, StartSending, SendFragment, SendFails, SendStray, Reconnect, Tick, vars
    <3>2. refused' \subseteq Origins
      BY <3>1 DEF TypeInv
    <3>3. \A id \in DOMAIN reassembly : reassembly[id].first_seen <= now'
      <4> SUFFICES ASSUME NEW id \in DOMAIN reassembly
                   PROVE  reassembly[id].first_seen <= now'
        OBVIOUS
      <4>1. reassembly[id].first_seen \in Nat /\ reassembly[id].first_seen <= now
        BY DEF Held, BufferInv, FragmentSet
      <4>2. now \in Nat /\ now' \in Nat
        BY <1>2, BoundAssumption DEF TypeInv
      <4> QED
        BY <1>2, <4>1, <4>2
    <3> QED
      BY <3>1, <3>2, <3>3 DEF Held
  <2> QED
    BY <2>1, <2>2
<1> QED
  BY <1>1, <1>2, <1>3, <1>4 DEF TypeInv

\* Nothing is sent, held or refused at the start.
LEMMA TypeInit ==
    ASSUME Init
    PROVE  TypeInv /\ Held
<1>1. sending \in [Messages -> Calls] /\ \A m \in Messages : sending[m].st = "idle"
  BY DEF Init, Calls
<1>2. \A m \in Messages : CallInv(sending[m])
  BY <1>1 DEF CallInv
<1>3. DOMAIN reassembly = {}
  BY DEF Init
<1>4. Held
  BY <1>3, FS_EmptySet, BoundAssumption DEF Held
<1> QED
  BY <1>1, <1>2, <1>4, BoundAssumption DEF Init, TypeInv

-----------------------------------------------------------------------------
(***************************************************************************)
(* Where fragments come from.                                              *)
(***************************************************************************)
\* An id that was ever alien is.
LEMMA AlienGrows ==
    ASSUME [Next]_vars
    PROVE  alien \subseteq alien'
<1>1. CASE SendStray
  BY <1>1 DEF SendStray
<1>2. CASE ~SendStray
  BY <1>2 DEF Next, StartSending, SendFragment, SendFails, Reconnect, RecvFragment, Tick, vars
<1> QED
  BY <1>1, <1>2

\* An id that is a message's alone has been so since the message was started.
LEMMA AloneBefore ==
    ASSUME TypeInv, [Next]_vars, NEW m \in Messages, Started(m), Alone(m)'
    PROVE  Alone(m)
<1>1. \A n \in Messages : Started(n) => Started(n)' /\ sending'[n].id = sending[n].id
  BY CallsStep DEF Grows, Started
<1>2. sending[m].id \notin alien
  BY <1>1, AlienGrows DEF Alone
<1>3. ASSUME NEW n \in Messages \ {m}, Started(n)
      PROVE  sending[n].id # sending[m].id
  BY <1>1, <1>3 DEF Alone, Started
<1> QED
  BY <1>2, <1>3 DEF Alone, Started

\* A fragment belongs to its message for good.
LEMMA BelongsStable ==
    ASSUME TypeInv, [Next]_vars, NEW from \in Origins, NEW id, NEW total,
           Belongs(from, id, total)
    PROVE  Belongs(from, id, total)'
<1>1. CASE from = Stray
  BY <1>1, AlienGrows DEF Belongs
<1>2. CASE from # Stray
  <2>1. from \in Messages /\ Started(from) /\ id = sending[from].id /\ total = sending[from].total
    BY <1>2 DEF Belongs, Origins
  <2>2. Started(from)' /\ sending'[from].id = id /\ sending'[from].total = total
    BY <2>1, CallsStep DEF Grows, Started
  <2> QED
    BY <1>2, <2>2 DEF Belongs
<1> QED
  BY <1>1, <1>2

\* The chunks of a buffer whose id is a message's alone are all of that message.
LEMMA SameOrigin ==
    ASSUME NEW id, NEW t1, NEW t2, NEW m \in Messages, Alone(m), Belongs(m, id, t1),
           NEW from \in Origins, Belongs(from, id, t2)
    PROVE  from = m /\ t1 = t2
<1>1. m # Stray
  BY StrayAssumption DEF Stray
<1>2. Started(m) /\ id = sending[m].id /\ t1 = sending[m].total /\ id \notin alien
  BY <1>1 DEF Belongs, Alone
<1>3. from # Stray /\ from \in Messages
  BY <1>2 DEF Belongs, Origins
<1>4. Started(from) /\ id = sending[from].id /\ t2 = sending[from].total
  BY <1>3 DEF Belongs
<1>5. from = m
  BY <1>2, <1>3, <1>4 DEF Alone, Started
<1> QED
  BY <1>2, <1>4, <1>5

\* The chunks of the buffer with a fragment stored in it belong to the fragment's stream.
LEMMA StoredOrigin ==
    ASSUME TypeInv, Held, BufferOrigin, NEW f \in Frames, ~BadHeader(f), ~Mismatch(f),
           Belongs(f.from, f.stream, f.total)
    PROVE  \A q \in DOMAIN Stored(f).fragments :
              /\ Belongs(Stored(f).fragments[q].from, f.stream, f.total)
              /\ Stored(f).fragments[q].stream = f.stream
<1> SUFFICES ASSUME NEW q \in DOMAIN Stored(f).fragments
             PROVE  /\ Belongs(Stored(f).fragments[q].from, f.stream, f.total)
                    /\ Stored(f).fragments[q].stream = f.stream
  OBVIOUS
<1>1. /\ DOMAIN Stored(f).fragments = DOMAIN BufferOf(f).fragments \cup {f.seq}
      /\ Stored(f).fragments[q] = IF q = f.seq THEN ChunkOf(f) ELSE BufferOf(f).fragments[q]
  BY StoredFacts
<1>2. CASE q = f.seq
  BY <1>1, <1>2 DEF ChunkOf
<1>3. CASE q # f.seq
  <2>1. q \in DOMAIN BufferOf(f).fragments
    BY <1>1, <1>3
  <2>2. CASE f.stream \in Kept
    <3>1. /\ BufferOf(f) = reassembly[f.stream] /\ f.stream \in DOMAIN reassembly
          /\ reassembly[f.stream].total = f.total
      BY <2>2 DEF BufferOf, Kept, Mismatch
    <3> QED
      BY <1>1, <1>3, <2>1, <3>1 DEF BufferOrigin
  <2>3. CASE f.stream \notin Kept
    <3>1. DOMAIN BufferOf(f).fragments = {}
      BY <2>3 DEF BufferOf
    <3> QED
      BY <2>1, <3>1
  <2> QED
    BY <2>2, <2>3
<1> QED
  BY <1>2, <1>3

\* The frames of the socket belong to their message.
LEMMA LinkStep ==
    ASSUME TypeInv, LinkOrigin, [Next]_vars
    PROVE  LinkOrigin'
<1>1. link \in Seq(Frames)
  BY DEF TypeInv
<1>3. ASSUME NEW f \in Frames, Belongs(f.from, f.stream, f.total)
      PROVE  Belongs(f.from, f.stream, f.total)'
  BY <1>3, BelongsStable DEF Frames
<1>4. \A i \in 1..Len(link) :
         link[i] \in Frames /\ Belongs(link[i].from, link[i].stream, link[i].total)
  BY <1>1 DEF LinkOrigin
<1>5. ASSUME NEW f \in Frames, link' = Append(link, f), Belongs(f.from, f.stream, f.total)'
      PROVE  LinkOrigin'
  <2> SUFFICES ASSUME NEW i \in 1..Len(link')
               PROVE  Belongs(link[i].from, link[i].stream, link[i].total)'
    BY DEF LinkOrigin
  <2>1. PICK g \in Frames : g = link'[i] /\ (g = f \/ Belongs(g.from, g.stream, g.total))
    BY <1>1, <1>4, <1>5
  <2>2. Belongs(g.from, g.stream, g.total)'
    BY <1>3, <1>5, <2>1
  <2> QED
    BY <2>1, <2>2 DEF Belongs
<1>6. ASSUME NEW m \in Messages, SendFragment(m)  PROVE LinkOrigin'
  <2>1. /\ Fragment(m) \in Frames /\ link' = Append(link, Fragment(m))
        /\ Fragment(m).stream = sending[m].id /\ Fragment(m).total = sending[m].total
        /\ Fragment(m).from = m /\ Started(m)
    BY <1>6, FragmentFacts DEF SendFragment, Started
  <2>2. Belongs(m, sending[m].id, sending[m].total)
    BY <2>1, StrayAssumption DEF Belongs, Stray
  <2>3. PICK f \in Frames : f = Fragment(m)
    BY <2>1
  <2>4. Belongs(f.from, f.stream, f.total) /\ link' = Append(link, f)
    BY <2>1, <2>2, <2>3
  <2> QED
    BY <1>3, <1>5, <2>4
<1>7. CASE SendStray
  <2>1. PICK id \in StrayIds, h \in StrayHeaders :
          /\ alien' = alien \cup {id}
          /\ link' = Append(link, [stream |-> id, seq |-> h.seq, total |-> h.total,
                                len |-> h.len, from |-> Stray])
    BY <1>7 DEF SendStray
  <2> DEFINE f == [stream |-> id, seq |-> h.seq, total |-> h.total, len |-> h.len, from |-> Stray]
  <2>2. h.seq \in 0..MaxTotal /\ h.total \in 0..MaxTotal /\ h.len \in Nat
    BY StrayAssumption
  <2>3. f \in Frames /\ f.from = Stray /\ f.stream = id
    BY <2>2 DEF Frames, Ids, Origins
  <2>4. link' = Append(link, f)
    BY <2>1
  <2> HIDE DEF f
  <2>5. Belongs(f.from, f.stream, f.total)'
    BY <2>1, <2>3 DEF Belongs
  <2> QED
    BY <1>5, <2>3, <2>4, <2>5
<1>8. CASE Reconnect
  BY <1>8 DEF Reconnect, LinkOrigin
<1>9. ASSUME \A i \in 1..Len(link') : \E j \in 1..Len(link) : link'[i] = link[j]
      PROVE  LinkOrigin'
  <2> SUFFICES ASSUME NEW i \in 1..Len(link')
               PROVE  Belongs(link[i].from, link[i].stream, link[i].total)'
    BY DEF LinkOrigin
  <2>1. PICK g \in Frames : g = link'[i] /\ Belongs(g.from, g.stream, g.total)
    BY <1>4, <1>9
  <2>2. Belongs(g.from, g.stream, g.total)'
    BY <1>3, <2>1
  <2> QED
    BY <2>1, <2>2 DEF Belongs
<1>10. CASE RecvFragment
  <2>1. link # <<>> /\ link' = Tail(link)
    BY <1>10 DEF RecvFragment
  <2>2. \A i \in 1..Len(link') : i + 1 \in 1..Len(link) /\ link'[i] = link[i + 1]
    BY <1>1, <2>1
  <2> QED
    BY <1>9, <2>2
<1>11. CASE \/ \E m \in Messages : StartSending(m) \/ SendFails(m)
            \/ Tick \/ UNCHANGED vars
  <2>1. link' = link
    BY <1>11 DEF StartSending, SendFails, Tick, vars
  <2> QED
    BY <1>9, <2>1
<1> QED
  BY <1>6, <1>7, <1>8, <1>10, <1>11 DEF Next

\* The chunks of the buffers belong to their stream.
LEMMA BufferStep ==
    ASSUME TypeInv, Held, LinkOrigin, BufferOrigin, [Next]_vars
    PROVE  BufferOrigin'
<1>1. \A id \in DOMAIN reassembly : \A q \in DOMAIN reassembly[id].fragments :
         /\ reassembly[id].fragments[q].from \in Origins
         /\ Belongs(reassembly[id].fragments[q].from, id, reassembly[id].total)
         /\ reassembly[id].fragments[q].stream = id
  BY DEF Held, BufferInv, FragmentSet, InSet, Chunks, BufferOrigin
<1>2. ASSUME NEW from \in Origins, NEW id, NEW total, Belongs(from, id, total)
      PROVE  Belongs(from, id, total)'
  BY <1>2, BelongsStable
<1>3. ASSUME NEW id \in DOMAIN reassembly', id \in DOMAIN reassembly,
             reassembly'[id] = reassembly[id]
      PROVE  \A q \in DOMAIN reassembly'[id].fragments :
                /\ Belongs(reassembly[id].fragments[q].from, id, reassembly[id].total)'
                /\ reassembly'[id].fragments[q].stream = id
  <2> SUFFICES ASSUME NEW q \in DOMAIN reassembly'[id].fragments
               PROVE  Belongs(reassembly[id].fragments[q].from, id, reassembly[id].total)'
    BY <1>1, <1>3
  <2>1. PICK from \in Origins, total \in {reassembly'[id].total} :
          /\ from = reassembly'[id].fragments[q].from
          /\ Belongs(from, id, total)
    BY <1>1, <1>3
  <2>2. Belongs(from, id, total)'
    BY <1>2, <2>1
  <2> QED
    BY <2>1, <2>2 DEF Belongs
<1>4. CASE \A id \in DOMAIN reassembly' :
              id \in DOMAIN reassembly /\ reassembly'[id] = reassembly[id]
  BY <1>3, <1>4 DEF BufferOrigin
<1>5. CASE RecvFragment
  <2>1. PICK f \in Frames : Absorb(f) /\ Belongs(f.from, f.stream, f.total)
    BY <1>5 DEF RecvFragment, TypeInv, LinkOrigin
  <2>2. Kept \subseteq DOMAIN reassembly
    BY DEF Kept
  <2>3. CASE reassembly' = [i \in Kept |-> reassembly[i]] \/ reassembly' = Without(f.stream)
    BY <1>4, <2>2, <2>3 DEF Without
  <2>4. CASE /\ ~BadHeader(f) /\ ~Mismatch(f) /\ reassembly' = With(f.stream, Stored(f))
    <3>1. /\ DOMAIN reassembly' = Kept \cup {f.stream}
          /\ reassembly'[f.stream] = Stored(f)
          /\ \A id \in Kept : id # f.stream => reassembly'[id] = reassembly[id]
      BY <2>4 DEF With
    <3>2. \A q \in DOMAIN Stored(f).fragments :
             /\ Stored(f).fragments[q].from \in Origins
             /\ Belongs(Stored(f).fragments[q].from, f.stream, f.total)
             /\ Stored(f).fragments[q].stream = f.stream
      BY <2>1, <2>4, StoredOrigin, StoredIsSet DEF FragmentSet, InSet, Chunks
    <3>3. Stored(f).total = f.total
      BY <2>1, <2>4, StoredIsSet
    <3>4. ASSUME NEW q \in DOMAIN Stored(f).fragments
          PROVE  Belongs(reassembly[f.stream].fragments[q].from, f.stream,
                         reassembly[f.stream].total)'
      <4>1. PICK from \in Origins, total \in {f.total}, id \in {f.stream} :
              /\ from = Stored(f).fragments[q].from
              /\ Belongs(from, id, total)
        BY <3>2
      <4>2. Belongs(from, id, total)'
        BY <1>2, <4>1
      <4>3. from = reassembly'[f.stream].fragments[q].from /\ total = reassembly'[f.stream].total
        BY <3>1, <3>3, <4>1
      <4> QED
        BY <4>1, <4>2, <4>3 DEF Belongs
    <3> QED
      BY <1>3, <2>2, <3>1, <3>2, <3>4 DEF BufferOrigin
  <2> QED
    BY <2>1, <2>3, <2>4 DEF Absorb, Throws
<1>6. CASE ~RecvFragment
  <2>1. reassembly' = reassembly
    BY <1>6 DEF Next, StartSending, SendFragment, SendFails, SendStray, Reconnect, Tick, vars
  <2> QED
    BY <1>4, <2>1
<1> QED
  BY <1>5, <1>6

-----------------------------------------------------------------------------
(***************************************************************************)
(* What is delivered.                                                      *)
(***************************************************************************)
\* A complete set, put together.
LEMMA ReassembleFacts ==
    ASSUME NEW b, FragmentSet(b), IsComplete(b)
    PROVE  /\ Reassemble(b) \in Seq(Chunks) /\ Len(Reassemble(b)) = b.total /\ b.total > 0
           /\ \A i \in 1..b.total :
                /\ i - 1 \in DOMAIN b.fragments /\ Reassemble(b)[i] = b.fragments[i - 1]
                /\ InSet(b, i - 1, Reassemble(b)[i])
<1>1. DOMAIN b.fragments = 0..b.total - 1
  BY CompleteFacts
<1>2. b.total \in Nat /\ b.total > 0
  BY BoundAssumption DEF FragmentSet
<1>3. \A i \in 1..b.total :
         /\ i - 1 \in DOMAIN b.fragments
         /\ InSet(b, i - 1, b.fragments[i - 1])
  BY <1>1, <1>2 DEF FragmentSet
<1>4. Reassemble(b) = [i \in 1..b.total |-> b.fragments[i - 1]]
  BY DEF Reassemble
<1>5. Reassemble(b) \in Seq(Chunks) /\ Len(Reassemble(b)) = b.total
  <2>1. \A i \in 1..b.total : b.fragments[i - 1] \in Chunks
    BY <1>3 DEF InSet
  <2> QED
    BY <1>2, <1>4, <2>1
<1> QED
  BY <1>2, <1>3, <1>4, <1>5

\* A step that delivers a payload delivers the set the fragment at the head completes.
LEMMA DeliveryFacts ==
    ASSUME IndInv, [Next]_vars, NEW d \in delivered', d \notin delivered
    PROVE  \E f \in Frames :
              /\ RecvFragment /\ f = Head(link) /\ ~BadHeader(f) /\ ~Mismatch(f)
              /\ IsComplete(Stored(f)) /\ d = Reassemble(Stored(f))
              /\ Belongs(f.from, f.stream, f.total)
<1>1. RecvFragment
  BY DEF Next, StartSending, SendFragment, SendFails, SendStray, Reconnect, Tick, vars
<1>2. Head(link) \in Frames /\ Absorb(Head(link))
  BY <1>1 DEF RecvFragment, IndInv, TypeInv
<1>3. Belongs(Head(link).from, Head(link).stream, Head(link).total)
  BY <1>1 DEF RecvFragment, IndInv, TypeInv, LinkOrigin
<1>4. /\ ~BadHeader(Head(link)) /\ ~Mismatch(Head(link)) /\ IsComplete(Stored(Head(link)))
      /\ d = Reassemble(Stored(Head(link)))
  BY <1>2 DEF Absorb, Throws
<1> QED
  BY <1>1, <1>2, <1>3, <1>4

\* The chunks of a payload are those of the buffer, which belong to its stream.
LEMMA PayloadFacts ==
    ASSUME IndInv, NEW f \in Frames, ~BadHeader(f), ~Mismatch(f), IsComplete(Stored(f)),
           Belongs(f.from, f.stream, f.total), NEW d, d = Reassemble(Stored(f))
    PROVE  /\ d \in Seq(Chunks) /\ Len(d) = f.total /\ Len(d) > 0
           /\ \A i \in 1..Len(d) :
                /\ d[i].from \in Origins /\ d[i].stream = f.stream
                /\ InSet(Stored(f), i - 1, d[i]) /\ Belongs(d[i].from, f.stream, f.total)
<1>1. FragmentSet(Stored(f)) /\ Stored(f).total = f.total
  BY StoredIsSet DEF IndInv
<1>2. /\ d \in Seq(Chunks) /\ Len(d) = f.total /\ f.total > 0
      /\ \A i \in 1..Len(d) :
           /\ i - 1 \in DOMAIN Stored(f).fragments /\ d[i] = Stored(f).fragments[i - 1]
           /\ InSet(Stored(f), i - 1, d[i])
  BY <1>1, ReassembleFacts
<1>3. \A i \in 1..Len(d) : d[i].from \in Origins
  <2>1. \A i \in 1..Len(d) : d[i] \in Chunks
    BY <1>2
  <2> QED
    BY <2>1 DEF Chunks
<1>4. \A q \in DOMAIN Stored(f).fragments :
         /\ Belongs(Stored(f).fragments[q].from, f.stream, f.total)
         /\ Stored(f).fragments[q].stream = f.stream
  BY StoredOrigin DEF IndInv
<1> QED
  BY <1>2, <1>3, <1>4

\* A payload is a sequence of chunks; their messages were started.
LEMMA DeliveredStep ==
    ASSUME IndInv, [Next]_vars
    PROVE  DeliveredInv'
<1>1. \A m \in Messages : Started(m) => Started(m)'
  BY CallsStep DEF IndInv, Grows, Started
<1> SUFFICES ASSUME NEW d \in delivered'
             PROVE  /\ d \in Seq(Chunks) /\ Len(d) > 0
                    /\ \A i \in 1..Len(d) : d[i].from # Stray => Started(d[i].from)'
  BY DEF DeliveredInv, Started
<1>2. /\ d \in Seq(Chunks) /\ Len(d) > 0
      /\ \A i \in 1..Len(d) : d[i].from # Stray => Started(d[i].from)
  <2>1. CASE d \in delivered
    BY <2>1 DEF IndInv, DeliveredInv
  <2>2. CASE d \notin delivered
    <3>1. PICK f \in Frames :
            /\ ~BadHeader(f) /\ ~Mismatch(f) /\ IsComplete(Stored(f))
            /\ d = Reassemble(Stored(f)) /\ Belongs(f.from, f.stream, f.total)
      BY <2>2, DeliveryFacts
    <3>2. /\ d \in Seq(Chunks) /\ Len(d) > 0
          /\ \A i \in 1..Len(d) : Belongs(d[i].from, f.stream, f.total)
      BY <3>1, PayloadFacts
    <3> QED
      BY <3>2 DEF Belongs
  <2> QED
    BY <2>1, <2>2
<1>3. ASSUME NEW i \in 1..Len(d), d[i].from # Stray
      PROVE  Started(d[i].from)'
  <2>1. d[i] \in Chunks
    BY <1>2
  <2>2. d[i].from \in Messages
    BY <1>3, <2>1 DEF Chunks, Origins
  <2> QED
    BY <1>1, <1>2, <1>3, <2>2 DEF Started
<1> QED
  BY <1>2, <1>3

\* A payload is a complete set, and the whole message when its id is the message's alone.
LEMMA IntegrityStep ==
    ASSUME IndInv, [Next]_vars
    PROVE  Integrity'
<1> SUFFICES ASSUME NEW d \in delivered', NEW i \in 1..Len(d), NEW j \in 1..Len(d)
             PROVE  /\ d[i].seq = i - 1 /\ d[i].total = Len(d) /\ d[i].stream = d[j].stream
                    /\ d[i].at < d[j].at + Timeout
                    /\ d[i].from # Stray /\ Alone(d[i].from)' =>
                         d[j].from = d[i].from /\ Len(d) = sending'[d[i].from].total
  BY DEF Integrity, Alone
<1>1. /\ d[i].seq = i - 1 /\ d[i].total = Len(d) /\ d[i].stream = d[j].stream
      /\ d[i].at < d[j].at + Timeout /\ d[i].from \in Origins
      /\ d[i].from # Stray => Started(d[i].from)
      /\ d[i].from # Stray /\ Alone(d[i].from) =>
           d[j].from = d[i].from /\ Len(d) = sending[d[i].from].total
  <2>1. CASE d \in delivered
    <3>1. d[i] \in Chunks
      BY <2>1 DEF IndInv, DeliveredInv
    <3>2. d[i].from \in Origins
      BY <3>1 DEF Chunks
    <3> QED
      BY <2>1, <3>2 DEF IndInv, DeliveredInv, Integrity
  <2>2. CASE d \notin delivered
    <3>1. PICK f \in Frames :
            /\ ~BadHeader(f) /\ ~Mismatch(f) /\ IsComplete(Stored(f))
            /\ d = Reassemble(Stored(f)) /\ Belongs(f.from, f.stream, f.total)
      BY <2>2, DeliveryFacts
    <3>2. /\ d \in Seq(Chunks) /\ Len(d) = f.total
          /\ \A k \in 1..Len(d) :
               /\ d[k].from \in Origins /\ d[k].stream = f.stream
               /\ InSet(Stored(f), k - 1, d[k]) /\ Belongs(d[k].from, f.stream, f.total)
      BY <3>1, PayloadFacts
    <3>3. Stored(f).total = f.total /\ Stored(f).first_seen \in Nat
      BY <3>1, StoredIsSet DEF IndInv, FragmentSet
    <3>4. d[i] \in Chunks /\ d[j] \in Chunks
      BY <3>2 DEF InSet
    <3>5. d[i].at \in Nat /\ d[j].at \in Nat /\ Timeout \in Nat
      BY <3>4, BoundAssumption DEF Chunks
    <3>6. d[i].seq = i - 1 /\ d[i].total = Len(d) /\ d[i].at < d[j].at + Timeout
      <4>1. InSet(Stored(f), i - 1, d[i]) /\ InSet(Stored(f), j - 1, d[j])
        BY <3>2
      <4>2. PICK first \in Nat : first = Stored(f).first_seen
        BY <3>3
      <4>3. /\ d[i].seq = i - 1 /\ d[i].total = f.total
            /\ d[i].at < first + Timeout /\ first <= d[j].at
        BY <3>3, <4>1, <4>2, Zenon DEF InSet
      <4> QED
        BY <3>2, <3>5, <4>3
    <3>7. ASSUME d[i].from # Stray
          PROVE  /\ Started(d[i].from)
                 /\ Alone(d[i].from) =>
                      d[j].from = d[i].from /\ Len(d) = sending[d[i].from].total
      <4>1. d[i].from \in Messages
        BY <3>2, <3>7 DEF Origins
      <4>2. Started(d[i].from) /\ f.total = sending[d[i].from].total
        BY <3>2, <3>7 DEF Belongs
      <4>3. Alone(d[i].from) => d[j].from = d[i].from
        BY <3>2, <4>1, SameOrigin
      <4> QED
        BY <3>2, <4>2, <4>3
    <3> QED
      BY <3>2, <3>6, <3>7
  <2> QED
    BY <2>1, <2>2
<1>2. ASSUME d[i].from # Stray, Alone(d[i].from)'
      PROVE  d[j].from = d[i].from /\ Len(d) = sending'[d[i].from].total
  <2>1. d[i].from \in Messages /\ Started(d[i].from)
    BY <1>1, <1>2 DEF Origins
  <2>2. PICK m \in Messages : m = d[i].from
    BY <2>1
  <2>3. Alone(m)'
    BY <1>2, <2>2 DEF Alone
  <2>4. Alone(m)
    BY <2>1, <2>2, <2>3, AloneBefore DEF IndInv
  <2>5. sending'[m].total = sending[m].total
    BY <2>1, <2>2, CallsStep DEF IndInv, Grows, Started
  <2> QED
    BY <1>1, <1>2, <2>2, <2>4, <2>5
<1> QED
  BY <1>1, <1>2

-----------------------------------------------------------------------------
(***************************************************************************)
(* What arrived.                                                           *)
(***************************************************************************)
\* absorb_fragment takes the fragment at the head: it is refused, completes its message,
\* or is stored; the buffer of another message is left alone.
LEMMA RecvProgress ==
    ASSUME IndInv, RecvFragment, NEW m \in Messages, Undisturbed(m), Undisturbed(m)',
           ~ \E d \in delivered' : d[1].from = m,
           NEW q, InLink(m, q) \/ InBuffer(sending[m].id, q)
    PROVE  InLink(m, q)' \/ InBuffer(sending[m].id, q)'
<1> DEFINE f == Head(link)
           id == sending[m].id
<1>1. /\ link \in Seq(Frames) /\ link # <<>> /\ link' = Tail(link) /\ sending' = sending
      /\ f \in Frames /\ Absorb(f)
  BY DEF RecvFragment, IndInv, TypeInv
<1>2. Belongs(f.from, f.stream, f.total) /\ f.from \in Origins
  <2>1. 1 \in 1..Len(link) /\ f = link[1]
    BY <1>1
  <2>2. Belongs(f.from, f.stream, f.total)
    BY <2>1 DEF IndInv, LinkOrigin
  <2>3. f.from \in Origins
    BY <1>1 DEF Frames
  <2> QED
    BY <2>2, <2>3
<1>3. Started(m) /\ m # Stray /\ Alone(m) /\ TypeInv /\ Held
  BY StrayAssumption DEF Undisturbed, Stray, IndInv
<1>4. Belongs(m, id, sending[m].total)
  BY <1>3 DEF Belongs
<1>5. Kept = DOMAIN reassembly
  BY <1>3, KeptFacts DEF Undisturbed
<1>6. CASE f.from = m
  <2>1. f.stream = id /\ f.total = sending[m].total
    BY <1>2, <1>3, <1>6 DEF Belongs
  <2>2. m \notin refused'
    BY DEF Undisturbed
  <2>3. /\ ~BadHeader(f) /\ ~Mismatch(f) /\ ~TooMany(f)
        /\ \/ IsComplete(Stored(f)) /\ delivered' = delivered \cup {Reassemble(Stored(f))}
           \/ ~IsComplete(Stored(f)) /\ reassembly' = With(f.stream, Stored(f))
    BY <1>1, <1>6, <2>2 DEF Absorb, Throws
  <2>4. ~IsComplete(Stored(f))
    <3> SUFFICES ASSUME IsComplete(Stored(f))  PROVE FALSE
      OBVIOUS
    <3>1. PICK d : d = Reassemble(Stored(f))
      OBVIOUS
    <3>2. d \in delivered'
      BY <2>3, <3>1
    <3>3. Len(d) > 0 /\ Len(d) \in Nat
          /\ \A i \in 1..Len(d) :
               d[i].from \in Origins /\ Belongs(d[i].from, f.stream, f.total)
      BY <1>1, <1>2, <2>3, <3>1, PayloadFacts
    <3>4. d[1].from \in Origins /\ Belongs(d[1].from, f.stream, f.total)
      BY <3>3
    <3>5. d[1].from = m
      BY <1>3, <1>4, <2>1, <3>4, SameOrigin
    <3> QED
      BY <3>2, <3>5
  <2>5. reassembly' = With(id, Stored(f))
    BY <2>1, <2>3, <2>4
  <2>6. id \in DOMAIN reassembly' /\ reassembly'[id] = Stored(f)
    BY <2>5 DEF With
  <2>7. /\ DOMAIN Stored(f).fragments = DOMAIN BufferOf(f).fragments \cup {f.seq}
    BY <1>1, <1>3, <2>3, StoredFacts
  <2>8. CASE InBuffer(id, q)
    <3>1. BufferOf(f) = reassembly[id] /\ q \in DOMAIN reassembly[id].fragments
      BY <1>5, <2>1, <2>8 DEF BufferOf, InBuffer
    <3> QED
      BY <1>1, <2>6, <2>7, <3>1 DEF InBuffer
  <2>9. CASE InLink(m, q)
    <3>1. PICK i \in 1..Len(link) : link[i].from = m /\ link[i].seq = q
      BY <2>9 DEF InLink
    <3>2. CASE i = 1
      <4>1. q = f.seq
        BY <1>1, <3>1, <3>2
      <4> QED
        BY <1>1, <2>6, <2>7, <4>1 DEF InBuffer
    <3>3. CASE i # 1
      <4>1. i - 1 \in 1..Len(link') /\ link'[i - 1] = link[i]
        BY <1>1, <3>3
      <4> QED
        BY <3>1, <4>1 DEF InLink
    <3> QED
      BY <3>2, <3>3
  <2> QED
    BY <2>8, <2>9
<1>7. CASE f.from # m
  <2>1. f.stream # id
    BY <1>2, <1>3, <1>4, <1>7, SameOrigin
  <2>2. id \in DOMAIN reassembly => id \in DOMAIN reassembly' /\ reassembly'[id] = reassembly[id]
    BY <1>1, <1>5, <2>1 DEF Absorb, Throws, With, Without
  <2>3. CASE InBuffer(id, q)
    BY <1>1, <2>2, <2>3 DEF InBuffer
  <2>4. CASE InLink(m, q)
    <3>1. PICK i \in 1..Len(link) : link[i].from = m /\ link[i].seq = q
      BY <2>4 DEF InLink
    <3>2. i # 1
      BY <1>1, <1>7, <3>1
    <3>3. i - 1 \in 1..Len(link') /\ link'[i - 1] = link[i]
      BY <1>1, <3>2
    <3> QED
      BY <3>1, <3>3 DEF InLink
  <2> QED
    BY <2>3, <2>4
<1> QED
  BY <1>6, <1>7

\* What was in the socket before a frame is appended is in it after.
LEMMA LinkGrows ==
    ASSUME TypeInv, NEW f, link' = Append(link, f), NEW m, NEW q, InLink(m, q)
    PROVE  InLink(m, q)'
<1>1. link \in Seq(Frames)
  BY DEF TypeInv
<1>2. PICK i \in 1..Len(link) : link[i].from = m /\ link[i].seq = q
  BY DEF InLink
<1>3. i \in 1..Len(link') /\ link'[i] = link[i]
  BY <1>1, <1>2
<1> QED
  BY <1>2, <1>3 DEF InLink

\* A fragment that was written stays in the socket or in its buffer.
LEMMA ProgressStep ==
    ASSUME IndInv, [Next]_vars
    PROVE  Progress'
<1> SUFFICES ASSUME NEW m \in Messages, Undisturbed(m)', ~ \E d \in delivered' : d[1].from = m,
                    NEW q \in 0..sending'[m].next - 1
             PROVE  InLink(m, q)' \/ InBuffer(sending[m].id, q)'
  BY DEF Progress
<1>1. TypeInv /\ Held /\ sending \in [Messages -> Calls] /\ link \in Seq(Frames)
  BY DEF IndInv, TypeInv
<1>2. ~Reconnect
  <2>1. epoch \in Nat /\ epoch' = 0
    BY BoundAssumption DEF Undisturbed, IndInv, TypeInv
  <2> QED
    BY <2>1 DEF Reconnect
<1>3. epoch = 0 /\ now < Timeout /\ m \notin refused /\ delivered \subseteq delivered'
  <2>1. epoch' = 0 /\ now' < Timeout /\ m \notin refused'
    BY DEF Undisturbed
  <2>2. epoch' = epoch
    BY <1>2 DEF Next, StartSending, SendFragment, SendFails, SendStray, RecvFragment, Tick, vars
  <2>3. now' = now \/ now' = now + 1
    BY <1>2 DEF Next, StartSending, SendFragment, SendFails, SendStray, RecvFragment, Tick, vars
  <2>4. now \in Nat /\ Timeout \in Nat
    BY <1>1, BoundAssumption DEF TypeInv
  <2>5. refused \subseteq refused' /\ delivered \subseteq delivered'
    BY <1>2 DEF Next, StartSending, SendFragment, SendFails, SendStray, RecvFragment, Tick, vars,
       Absorb, Throws
  <2> QED
    BY <2>1, <2>2, <2>3, <2>4, <2>5
<1>4. Started(m)'
  BY DEF Undisturbed
<1>5. ASSUME Started(m), q \in 0..sending[m].next - 1
      PROVE  Undisturbed(m) /\ (InLink(m, q) \/ InBuffer(sending[m].id, q))
  <2>1. Alone(m)'
    BY DEF Undisturbed
  <2>2. Alone(m)
    BY <1>1, <1>5, <2>1, AloneBefore
  <2> QED
    BY <1>3, <1>5, <2>2 DEF IndInv, Progress, Undisturbed
<1>6. CASE \E n \in Messages : StartSending(n)
  <2>1. PICK n \in Messages : StartSending(n)
    BY <1>6
  <2>2. CASE n = m
    <3>1. sending'[m].next = 0
      BY <1>1, <2>1, <2>2, StartFacts
    <3> QED
      BY <3>1
  <2>3. CASE n # m
    <3>1. sending'[m] = sending[m] /\ link' = link /\ reassembly' = reassembly
      BY <1>1, <2>1, <2>3, StartFacts DEF StartSending
    <3>2. InLink(m, q) \/ InBuffer(sending[m].id, q)
      BY <1>4, <1>5, <3>1 DEF Started
    <3> QED
      BY <3>1, <3>2 DEF InLink, InBuffer
  <2> QED
    BY <2>2, <2>3
<1>7. CASE \E n \in Messages : SendFragment(n)
  <2>1. PICK n \in Messages : SendFragment(n)
    BY <1>7
  <2>2. /\ link' = Append(link, Fragment(n)) /\ reassembly' = reassembly
        /\ sending[n].st = "sending"
    BY <2>1 DEF SendFragment
  <2>3. /\ \A k \in Messages \ {n} : sending'[k] = sending[k]
        /\ Grows(sending[n], sending'[n]) /\ sending'[n].next = sending[n].next + 1
    BY <1>1, <2>1, SendFacts
  <2>4. Started(m) /\ sending'[m].id = sending[m].id
    BY <1>4, <2>2, <2>3 DEF Started, Grows
  <2>5. CASE q \in 0..sending[m].next - 1
    <3>1. CASE InLink(m, q)
      BY <1>1, <2>2, <3>1, LinkGrows
    <3>2. CASE InBuffer(sending[m].id, q)
      BY <2>2, <2>4, <3>2 DEF InBuffer
    <3> QED
      BY <1>5, <2>4, <2>5, <3>1, <3>2
  <2>6. CASE q \notin 0..sending[m].next - 1
    <3>1. sending[m].next \in Nat
      BY <1>1 DEF Calls
    <3>2. m = n /\ q = sending[m].next
      BY <2>3, <2>6, <3>1
    <3>3. Fragment(n).from = m /\ Fragment(n).seq = q
      BY <1>1, <2>2, <3>2, FragmentFacts
    <3>4. Len(link') = Len(link) + 1 /\ link'[Len(link) + 1] = Fragment(n) /\ Len(link) \in Nat
      BY <1>1, <2>2
    <3>5. Len(link') \in 1..Len(link') /\ link'[Len(link')].from = m /\ link'[Len(link')].seq = q
      BY <3>3, <3>4
    <3> QED
      BY <3>5 DEF InLink
  <2> QED
    BY <2>5, <2>6
<1>8. CASE RecvFragment
  <2>1. sending' = sending
    BY <1>8 DEF RecvFragment
  <2>2. Undisturbed(m) /\ (InLink(m, q) \/ InBuffer(sending[m].id, q))
    BY <1>4, <1>5, <2>1 DEF Started
  <2> QED
    BY <1>8, <2>2, RecvProgress
<1>9. CASE \/ \E n \in Messages : SendFails(n)
           \/ SendStray \/ Tick \/ UNCHANGED vars
  <2>1. /\ reassembly' = reassembly /\ sending'[m].id = sending[m].id
        /\ sending'[m].next = sending[m].next /\ (Started(m)' => Started(m))
    <3>1. ASSUME NEW n \in Messages, SendFails(n)
          PROVE  /\ sending'[m].id = sending[m].id /\ sending'[m].next = sending[m].next
                 /\ Started(m)' => Started(m)
      <4>1. CASE n = m
        BY <1>1, <3>1, <4>1 DEF SendFails, Calls, Started
      <4>2. CASE n # m
        BY <1>1, <3>1, <4>2 DEF SendFails, Started
      <4> QED
        BY <4>1, <4>2
    <3>2. CASE SendStray \/ Tick \/ UNCHANGED vars
      BY <3>2 DEF SendStray, Tick, vars, Started
    <3>3. reassembly' = reassembly
      BY <1>9 DEF SendFails, SendStray, Tick, vars
    <3> QED
      BY <1>9, <3>1, <3>2, <3>3
  <2>2. InLink(m, q) \/ InBuffer(sending[m].id, q)
    BY <1>4, <1>5, <2>1
  <2>3. link' = link \/ \E f : link' = Append(link, f)
    BY <1>9 DEF SendFails, SendStray, Tick, vars
  <2>4. InLink(m, q) => InLink(m, q)'
    <3>1. CASE link' = link
      BY <3>1 DEF InLink
    <3>2. CASE \E f : link' = Append(link, f)
      BY <1>1, <3>2, LinkGrows
    <3> QED
      BY <2>3, <3>1, <3>2
  <2>5. InBuffer(sending[m].id, q) => InBuffer(sending[m].id, q)'
    BY <2>1 DEF InBuffer
  <2> QED
    BY <2>2, <2>4, <2>5
<1> QED
  BY <1>2, <1>6, <1>7, <1>8, <1>9 DEF Next

-----------------------------------------------------------------------------
(***************************************************************************)
(* The theorems.                                                           *)
(***************************************************************************)
\* The invariant is inductive: every step of the sender, of the socket and of recv_frame
\* preserves it.
THEOREM Invariance == Spec => []IndInv
<1>1. Init => IndInv
  <2> SUFFICES ASSUME Init  PROVE IndInv
    OBVIOUS
  <2>1. TypeInv /\ Held
    BY TypeInit
  <2>2. \A m \in Messages : ~Started(m)
    BY DEF Init, Started
  <2>3. link = <<>> /\ DOMAIN reassembly = {} /\ delivered = {}
    BY DEF Init
  <2>4. Progress
    BY <2>2 DEF Progress, Undisturbed
  <2>5. LinkOrigin /\ BufferOrigin /\ DeliveredInv /\ Integrity
    BY <2>3 DEF LinkOrigin, BufferOrigin, DeliveredInv, Integrity
  <2> QED
    BY <2>1, <2>4, <2>5 DEF IndInv
<1>2. IndInv /\ [Next]_vars => IndInv'
  <2> SUFFICES ASSUME IndInv, [Next]_vars  PROVE IndInv'
    OBVIOUS
  <2>1. TypeInv' /\ Held'
    BY TypeStep DEF IndInv
  <2>2. LinkOrigin' /\ BufferOrigin'
    BY LinkStep, BufferStep DEF IndInv
  <2>3. DeliveredInv' /\ Integrity' /\ Progress'
    BY DeliveredStep, IntegrityStep, ProgressStep
  <2> QED
    BY <2>1, <2>2, <2>3 DEF IndInv
<1> QED
  BY <1>1, <1>2, PTL DEF Spec

\* Every variable keeps its type, and a buffer that is held has a fragment and lacks one.
THEOREM TypeCorrect == Spec => []TypeOK
<1>1. IndInv => TypeOK
  <2> SUFFICES ASSUME TypeInv, Held  PROVE TypeOK
    BY DEF IndInv
  <2>1. ASSUME NEW id \in DOMAIN reassembly  PROVE Buffer(reassembly[id])
    <3> DEFINE b == reassembly[id]
    <3>1. BufferInv(b) /\ b.first_seen <= now
      BY DEF Held
    <3> HIDE DEF b
    <3>2. FragmentSet(b) /\ b.buffered <= MaxPayload /\ DOMAIN b.fragments # {}
          /\ Cardinality(DOMAIN b.fragments) # b.total
      BY <3>1 DEF BufferInv
    <3>3. /\ b.total \in 1..MaxTotal /\ b.first_seen \in Nat /\ b.buffered \in Nat
          /\ DOMAIN b.fragments \subseteq 0..b.total - 1
      BY <3>2 DEF FragmentSet
    <3>4. now \in Nat
      BY BoundAssumption DEF TypeInv
    <3>5. b.first_seen \in 0..now /\ b.buffered \in 0..MaxPayload
      BY <3>1, <3>2, <3>3, <3>4, BoundAssumption
    <3>6. Cardinality(DOMAIN b.fragments) \in 1..b.total - 1
      BY <3>2, <3>3, CompleteFacts, BoundAssumption
    <3>7. Buffer(b)
      BY <3>3, <3>5, <3>6 DEF Buffer
    <3> QED
      BY <3>7 DEF b
  <2>2. \A i \in 1..Len(link) : link[i].stream \in StreamIds \cup StrayIds
    <3>1. \A i \in 1..Len(link) : link[i] \in Frames
      BY DEF TypeInv
    <3> QED
      BY <3>1 DEF Frames, Ids
  <2> QED
    BY <2>1, <2>2 DEF TypeOK, TypeInv, Held, Ids, Origins
<1> QED
  BY <1>1, Invariance, PTL

\* The reassembly memory is bounded and its bytes are accounted for, whatever fragments
\* arrive and in whatever order.
THEOREM MemoryBounded == Spec => []Bounded
<1>1. IndInv => Bounded
  <2> SUFFICES ASSUME TypeInv, Held  PROVE Bounded
    BY DEF IndInv
  <2>1. ASSUME NEW b, BufferInv(b)  PROVE Accounted(b)
    <3>1. FragmentSet(b) /\ b.buffered <= MaxPayload
      BY <2>1 DEF BufferInv
    <3>2. PICK sums : Sums(b, sums)
      BY <3>1 DEF FragmentSet
    <3>3. b.total \in Nat /\ b.buffered \in Nat
      BY <3>1 DEF FragmentSet
    <3>4. \A i \in 0..b.total : sums[i] \in Nat /\ sums[i] <= b.buffered
      BY <3>2, <3>3 DEF Sums
    <3>5. sums \in [0..b.total -> 0..MaxPayload]
      BY <3>1, <3>2, <3>3, <3>4, BoundAssumption DEF Sums
    <3> QED
      BY <3>2, <3>5 DEF Sums, Accounted
  <2>2. \A id \in DOMAIN reassembly :
           reassembly[id].buffered <= MaxPayload /\ Accounted(reassembly[id])
    BY <2>1 DEF Held, BufferInv
  <2> QED
    BY <2>2 DEF Bounded, Held
<1> QED
  BY <1>1, Invariance, PTL

\* Every payload delivered is a complete set of one stream id and total, received within
\* one timeout, and so one whole message when the id is that message's alone: across any
\* reconnections, restarted or foreign senders, failed sends and wrap-arounds of the ids.
THEOREM NeverMixed == Spec => []Integrity
<1>1. IndInv => Integrity
  BY DEF IndInv
<1> QED
  BY <1>1, Invariance, PTL

\* A message whose fragments all arrived was delivered, unless one was refused.
THEOREM Arrival == Spec => []ArrivedIsDelivered
<1>1. IndInv => ArrivedIsDelivered
  <2> SUFFICES ASSUME IndInv, NEW m \in Messages,
                      sending[m].st = "sent", m \notin refused, Alone(m), now < Timeout, epoch = 0,
                      \A i \in 1..Len(link) : link[i].from # m
               PROVE  \E d \in delivered : d[1].from = m
    BY DEF ArrivedIsDelivered
  <2> DEFINE id == sending[m].id
             n == sending[m].total
             b == reassembly[id]
  <2>1. Started(m) /\ TypeInv /\ Held /\ BufferOrigin
    BY DEF Started, IndInv
  <2>2. n \in Nat /\ n > 0 /\ sending[m].next = n
    BY <2>1, BoundAssumption DEF TypeInv, CallInv, Started
  <2>3. Belongs(m, id, n)
    BY <2>1, StrayAssumption DEF Belongs, Stray
  <2> SUFFICES ASSUME ~ \E d \in delivered : d[1].from = m  PROVE FALSE
    OBVIOUS
  <2>4. \A q \in 0..n - 1 : InBuffer(id, q)
    BY <2>1, <2>2 DEF IndInv, Progress, Undisturbed, InLink
  <2>5. /\ id \in DOMAIN reassembly
        /\ 0..n - 1 \subseteq DOMAIN b.fragments /\ 0 \in DOMAIN b.fragments
    BY <2>2, <2>4 DEF InBuffer
  <2>6. BufferInv(b)
    BY <2>1, <2>5 DEF Held
  <2>7. b.fragments[0].from \in Origins /\ Belongs(b.fragments[0].from, id, b.total)
    BY <2>1, <2>5, <2>6 DEF BufferOrigin, BufferInv, FragmentSet, InSet, Chunks
  <2>8. b.total = n
    BY <2>1, <2>3, <2>7, SameOrigin
  <2> HIDE DEF b, n, id
  <2>9. FragmentSet(b) /\ ~IsComplete(b)
    BY <2>6 DEF BufferInv, IsComplete
  <2>10. DOMAIN b.fragments \subseteq 0..b.total - 1
    BY <2>9 DEF FragmentSet
  <2>11. DOMAIN b.fragments = 0..b.total - 1
    BY <2>5, <2>8, <2>10
  <2> QED
    BY <2>9, <2>11, CompleteFacts
<1> QED
  BY <1>1, Invariance, PTL
=============================================================================
