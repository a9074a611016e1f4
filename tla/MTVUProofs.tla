----------------------------- MODULE MTVUProofs -----------------------------
(***************************************************************************)
(* Proofs about MTVU, for every size of the buffer, of the packets and of  *)
(* the safety net, as long as the EE never gets a whole lap ahead.         *)
(*                                                                         *)
(* Lap says where the pending packets lie, between the reader r and the    *)
(* writer w, in terms of positions alone; the first part shows how a       *)
(* packet joins it and leaves it.  IInv adds what each thread has under    *)
(* way; the second part shows that every step keeps it.                    *)
(***************************************************************************)
EXTENDS MTVU, SequenceTheorems, TLAPS

Placed == [packet : Packets, at : 0 .. BufferSize - 1]

IsNull(p) == p.packet = NullPacket
End(p) == p.at + p.packet.size

\* Two packets share no word of the buffer.
Apart(p, q) == End(p) <= q.at \/ End(q) <= p.at

\* A packet lies behind the reader or before the writer, and between them when
\* the writer has not gone back to the start.
InLap(p, r, w) ==
  /\ p.at >= r \/ End(p) <= w
  /\ r <= w => p.at >= r /\ End(p) <= w

Linked(q, r, w) ==
  /\ \A k \in 1 .. Len(q) : q[k].at = IF k = 1 THEN r ELSE After(q[k - 1])
  /\ w = IF q = <<>> THEN r ELSE After(q[Len(q)])

AllApart(q) == \A j, k \in 1 .. Len(q) : j # k => Apart(q[j], q[k])

AllInLap(q, r, w) == \A k \in 1 .. Len(q) : InLap(q[k], r, w)

\* The writer is in front of the reader exactly if a null packet is pending,
\* which lies behind all the other packets.
NullLeads(q, r, w, n) ==
  /\ r <= w => n = w - r
  /\ w < r => \E k \in 1 .. Len(q) : IsNull(q[k])
  /\ \A j \in 1 .. Len(q) : IsNull(q[j]) =>
       /\ w < r
       /\ n = q[j].at + 1 - r + w
       /\ \A k \in 1 .. Len(q) : k # j => End(q[k]) <= q[j].at

\* The packets q, of n words, lie between the reader at r and the writer at w.
Lap(q, r, w, n) ==
  /\ Linked(q, r, w)
  /\ AllApart(q)
  /\ AllInLap(q, r, w)
  /\ NullLeads(q, r, w, n)

\* A packet is in a buffer.
Holds(b, p) ==
  /\ b[p.at] = p.packet
  /\ \A i \in p.at + 1 .. p.at + p.packet.size - 1 : b[i] = Data

-----------------------------------------------------------------------------
(* The inductive invariant *)

BufferKeeps == \A k \in 1 .. Len(pending) : Holds(buffer, pending[k])

Placement == Lap(pending, m_ato_read_pos, m_ato_write_pos, ahead)

\* What the EE has written and not yet published.
Written ==
  m_write_pos = CASE epc = "commit" -> m_ato_write_pos + size
                  [] epc = "commitNull" -> 0
                  [] OTHER -> m_ato_write_pos

WrittenHolds ==
  /\ epc = "commit" => Holds(buffer, [packet |-> Packet(size), at |-> m_ato_write_pos])
  /\ epc = "commitNull" => Holds(buffer, [packet |-> NullPacket, at |-> m_ato_write_pos])

\* The packet fits before the end of the buffer, or else before a whole lap.
Fits ==
  /\ epc \in {"waitSize", "write", "commit"} => m_ato_write_pos + size <= BufferSize - 1
  /\ epc \in {"waitNull", "writeNull", "commitNull"} =>
       m_ato_write_pos + size >= BufferSize /\ ahead + size <= MaxAhead

Room ==
  epc \in {"write", "commit"} =>
    \/ m_ato_read_pos <= m_ato_write_pos
    \/ m_ato_read_pos > m_ato_write_pos + size

\* How far the VU thread has come with the packet it reads.
Reading ==
  /\ vpc \in {"wait", "loop"} => m_read_pos = m_ato_read_pos
  /\ vpc = "execute" => pending # <<>> /\ m_read_pos = m_ato_read_pos + 1
  /\ vpc = "commit" => pending # <<>> /\ m_read_pos = After(pending[1])

\* The VU thread does not sleep on a packet, unless the EE is about to kick it.
Awake ==
  /\ phase # "dead"
  /\ vpc # "wait" => phase = "running"
  /\ pending # <<>> /\ vpc = "wait" =>
       notified \/ epc \in {"waitSize", "write", "commit", "kick"}

\* Nobody notifies the VU thread between its going idle and WaitVU's return.
Quiet ==
  /\ waiter # "none" => epc = "waiting"
  /\ waiter = "released" \/ epc = "done" => phase = "idle" /\ ~notified

IInv ==
  /\ TypeOK
  /\ BufferKeeps
  /\ Placement
  /\ Written
  /\ WrittenHolds
  /\ Fits
  /\ Room
  /\ Reading
  /\ Awake
  /\ Quiet

-----------------------------------------------------------------------------
(* Packets *)

LEMMA PacketFacts ==
  /\ \A n \in Sizes : n \in 1 .. BufferSize - 1
  /\ \A n \in Sizes : Packet(n) \in Packets /\ Packet(n) # NullPacket /\ Packet(n).size = n
  /\ NullPacket \in Packets /\ NullPacket.size = 1
  /\ \A p \in Packets : p.size \in 1 .. BufferSize - 1 /\ (p = NullPacket => p.size = 1)
<1>1. /\ \A n \in Sizes : n \in 1 .. BufferSize - 1
      /\ BufferSize \in Nat /\ BufferSize > 1
  <2>1. PICK n : n \in Sizes
      BY MTVUAssumption DEF MTVUAssumption
  <2>2. BufferSize \in Nat /\ Sizes \subseteq 1 .. BufferSize - 1
      BY MTVUAssumption DEF MTVUAssumption
  <2>3. n \in 1 .. BufferSize - 1
      BY <2>1, <2>2
  <2> QED
      BY <2>2, <2>3
<1>2. \A n \in Sizes : Packet(n) \in Packets /\ Packet(n) # NullPacket /\ Packet(n).size = n
    BY DEF Packet, Packets, NullPacket
<1>3. NullPacket \in Packets /\ NullPacket.size = 1
    BY DEF Packets, NullPacket
<1>4. \A p \in Packets : p.size \in 1 .. BufferSize - 1 /\ (p = NullPacket => p.size = 1)
    BY <1>1, <1>2, <1>3 DEF Packets
<1> QED
    BY <1>1, <1>2, <1>3, <1>4

LEMMA PlacedFacts ==
  ASSUME NEW p \in Placed
  PROVE  /\ p.packet \in Packets
         /\ p.at \in Nat /\ p.at <= BufferSize - 1
         /\ End(p) \in Nat /\ End(p) > p.at /\ End(p) = p.at + p.packet.size
         /\ IsNull(p) => End(p) = p.at + 1 /\ After(p) = 0
         /\ ~IsNull(p) => After(p) = End(p)
         /\ p.packet.size \in Nat
<1>1. p.packet \in Packets /\ p.at \in 0 .. BufferSize - 1
    BY DEF Placed
<1>2. p.packet.size \in 1 .. BufferSize - 1 /\ (IsNull(p) => p.packet.size = 1)
    BY <1>1, PacketFacts DEF IsNull
<1>3. BufferSize \in Nat
    BY MTVUAssumption DEF MTVUAssumption
<1> QED
    BY <1>1, <1>2, <1>3 DEF End, IsNull, After

LEMMA SeqFacts ==
  ASSUME NEW q \in Seq(Placed)
  PROVE  /\ Len(q) \in Nat /\ DOMAIN q = 1 .. Len(q)
         /\ \A k \in 1 .. Len(q) : q[k] \in Placed
         /\ q # <<>> <=> Len(q) >= 1
  BY EmptySeq, LenProperties, ElementOfSeq

-----------------------------------------------------------------------------
(* The lap *)

\* A reader that has caught up with the writer has no packet before it.
LEMMA LapEmpty ==
  ASSUME NEW q \in Seq(Placed), NEW r \in Nat, NEW n \in Nat, Lap(q, r, r, n)
  PROVE  q = <<>>
<1> SUFFICES ASSUME q # <<>> PROVE FALSE
    OBVIOUS
<1>1. 1 \in 1 .. Len(q) /\ q[1] \in Placed
    BY SeqFacts
<1>2. q[1].at >= r /\ End(q[1]) <= r
    BY <1>1 DEF Lap, AllInLap, InLap
<1> QED
    BY <1>1, <1>2, PlacedFacts

\* When the writer comes to the end of the buffer less than a lap ahead, the
\* reader is behind it, and not at the start.
LEMMA LapBeforeTurn ==
  ASSUME NEW q \in Seq(Placed), NEW r \in Nat, NEW w \in Nat, NEW n \in Nat,
         Lap(q, r, w, n), NEW s \in Nat,
         w + s >= BufferSize, n + s <= MaxAhead, MaxAhead < BufferSize
  PROVE  1 <= r /\ r <= w
<1>1. CASE w < r
  <2>1. PICK j \in 1 .. Len(q) : IsNull(q[j])
      BY <1>1 DEF Lap, NullLeads
  <2>2. n = q[j].at + 1 - r + w /\ q[j] \in Placed
      BY <2>1, SeqFacts DEF Lap, NullLeads
  <2>3. q[j].at >= r
      \* A null packet before the writer would be before the reader's lap too.
    <3>1. InLap(q[j], r, w)
        BY DEF Lap, AllInLap
    <3>2. 1 \in 1 .. Len(q) /\ q[1] \in Placed /\ q[1].at = r
        BY SeqFacts DEF Lap, Linked
    <3>3. j # 1 => End(q[1]) <= q[j].at
        BY <2>1, <3>2 DEF Lap, NullLeads
    <3> QED
        BY SMTT(30), <2>2, <3>2, <3>3, PlacedFacts
  <2> QED
      BY SMTT(30), <1>1, <2>2, <2>3, PlacedFacts, MTVUAssumption DEF MTVUAssumption
<1>2. CASE r <= w
  <2>1. n = w - r
      BY <1>2 DEF Lap, NullLeads
  <2> QED
      BY <1>2, <2>1, MTVUAssumption DEF MTVUAssumption
<1> QED
    BY <1>1, <1>2

LEMMA AppendFacts ==
  ASSUME NEW q \in Seq(Placed), NEW p \in Placed
  PROVE  /\ Append(q, p) \in Seq(Placed) /\ Append(q, p) # <<>>
         /\ Len(Append(q, p)) = Len(q) + 1
         /\ \A k \in 1 .. Len(q) : Append(q, p)[k] = q[k]
         /\ Append(q, p)[Len(q) + 1] = p
  BY SeqFacts

\* A packet at w, where none lies, is linked to the ones before.
LEMMA AppendLinked ==
  ASSUME NEW q \in Seq(Placed), NEW p \in Placed, NEW r, NEW w, Linked(q, r, w), p.at = w
  PROVE  Linked(Append(q, p), r, After(p))
<1> DEFINE l == Append(q, p)
<1>1. /\ Len(l) = Len(q) + 1 /\ Len(q) \in Nat /\ l # <<>>
      /\ \A k \in 1 .. Len(q) : l[k] = q[k]
      /\ l[Len(q) + 1] = p
    BY AppendFacts, SeqFacts
<1> HIDE DEF l
<1>2. ASSUME NEW k \in 1 .. Len(l)
      PROVE  l[k].at = IF k = 1 THEN r ELSE After(l[k - 1])
  <2>1. CASE k \in 1 .. Len(q)
    <3>1. q[k].at = IF k = 1 THEN r ELSE After(q[k - 1])
        BY <2>1 DEF Linked
    <3>2. k # 1 => l[k - 1] = q[k - 1]
        BY <2>1, <1>1
    <3> QED
        BY <2>1, <3>1, <3>2, <1>1
  <2>2. CASE k = Len(q) + 1
    <3>1. w = IF q = <<>> THEN r ELSE After(q[Len(q)])
        BY DEF Linked
    <3>2. q = <<>> <=> k = 1
        BY <2>2, SeqFacts
    <3>3. k # 1 => l[k - 1] = q[Len(q)]
        BY <2>2, <1>1
    <3> QED
        BY <2>2, <3>1, <3>2, <3>3, <1>1
  <2> QED
      BY <2>1, <2>2, <1>1
<1>3. After(p) = IF l = <<>> THEN r ELSE After(l[Len(l)])
    BY <1>1
<1> QED
    BY <1>2, <1>3 DEF Linked, l

\* A packet joins the lap: room for it was left in front of the reader.
LEMMA FreeOfOthers ==
  ASSUME NEW q \in Seq(Placed), NEW r \in Nat, NEW w \in Nat, AllInLap(q, r, w),
         NEW p \in Placed, p.at = w, r <= w \/ r > End(p)
  PROVE  \A k \in 1 .. Len(q) : Apart(q[k], p)
<1> SUFFICES ASSUME NEW k \in 1 .. Len(q) PROVE Apart(q[k], p)
    OBVIOUS
<1>1. InLap(q[k], r, w) /\ q[k] \in Placed
    BY SeqFacts DEF AllInLap
<1>2. q[k].at \in Nat /\ End(q[k]) \in Nat /\ End(p) \in Nat
    BY <1>1, PlacedFacts
<1> QED
    BY <1>1, <1>2 DEF InLap, Apart

LEMMA AppendApart ==
  ASSUME NEW q \in Seq(Placed), AllApart(q), NEW p \in Placed,
         \A k \in 1 .. Len(q) : Apart(q[k], p)
  PROVE  AllApart(Append(q, p))
<1> DEFINE l == Append(q, p)
<1>1. /\ Len(l) = Len(q) + 1 /\ Len(q) \in Nat
      /\ \A k \in 1 .. Len(q) : l[k] = q[k]
      /\ l[Len(q) + 1] = p
    BY AppendFacts, SeqFacts
<1> HIDE DEF l
<1>2. \A k \in 1 .. Len(q) : Apart(l[k], p) /\ Apart(p, l[k])
    BY <1>1 DEF Apart
<1>3. \A j, k \in 1 .. Len(q) : j # k => Apart(l[j], l[k])
    BY <1>1 DEF AllApart
<1>4. \A k \in 1 .. Len(l) : k \in 1 .. Len(q) \/ k = Len(q) + 1
    BY <1>1
<1> QED
    BY <1>1, <1>2, <1>3, <1>4 DEF AllApart, l

LEMMA LapAppendPacket ==
  ASSUME NEW q \in Seq(Placed), NEW r \in Nat, NEW w \in Nat, NEW n \in Nat, Lap(q, r, w, n),
         NEW p \in Placed, ~IsNull(p), p.at = w, r <= w \/ r > End(p)
  PROVE  Lap(Append(q, p), r, End(p), n + p.packet.size)
<1> DEFINE l == Append(q, p)
           e == End(p)
           m == n + p.packet.size
<1>1. /\ Len(l) = Len(q) + 1 /\ Len(q) \in Nat
      /\ \A k \in 1 .. Len(q) : l[k] = q[k] /\ q[k] \in Placed
      /\ l[Len(q) + 1] = p
    BY AppendFacts, SeqFacts
<1>2. e \in Nat /\ e > w /\ m = n + (e - w) /\ m \in Nat
    BY PlacedFacts
<1>3. Linked(l, r, e)
    BY AppendLinked, PlacedFacts DEF Lap
<1>4. AllApart(l)
    BY FreeOfOthers, AppendApart DEF Lap
<1>7. e = End(p)
    OBVIOUS
<1> HIDE DEF l, e, m
<1>5. AllInLap(l, r, e)
  <2>1. ASSUME NEW k \in 1 .. Len(q)
        PROVE  InLap(q[k], r, e)
    <3>1. InLap(q[k], r, w)
        BY DEF Lap, AllInLap
    <3>2. q[k].at \in Nat /\ End(q[k]) \in Nat
        BY <1>1, PlacedFacts
    <3>3. r <= e => r <= w
        BY <1>2, <1>7
    <3> QED
        BY <3>1, <3>2, <3>3, <1>2 DEF InLap
  <2>2. InLap(p, r, e)
      BY <1>2, <1>7 DEF InLap
  <2>3. \A k \in 1 .. Len(l) : k \in 1 .. Len(q) \/ k = Len(q) + 1
      BY <1>1
  <2> QED
      BY <1>1, <2>1, <2>2, <2>3 DEF AllInLap
<1>6. NullLeads(l, r, e, m)
  <2>1. r <= e <=> r <= w
      BY <1>2, <1>7
  <2>2. r <= e => m = e - r
      BY <2>1, <1>2 DEF Lap, NullLeads
  <2>3. ASSUME e < r
        PROVE  \E k \in 1 .. Len(l) : IsNull(l[k])
    <3>1. PICK k \in 1 .. Len(q) : IsNull(q[k])
        BY <2>3, <1>2 DEF Lap, NullLeads
    <3> QED
        BY <3>1, <1>1
  <2>4. ASSUME NEW j \in 1 .. Len(l), IsNull(l[j])
        PROVE  /\ e < r
               /\ m = l[j].at + 1 - r + e
               /\ \A k \in 1 .. Len(l) : k # j => End(l[k]) <= l[j].at
    <3>1. j \in 1 .. Len(q) /\ l[j] = q[j] /\ IsNull(q[j])
        BY <2>4, <1>1
    <3>2. /\ w < r /\ n = q[j].at + 1 - r + w
          /\ \A k \in 1 .. Len(q) : k # j => End(q[k]) <= q[j].at
        BY <3>1 DEF Lap, NullLeads
    <3>3. q[j].at \in Nat /\ q[j] \in Placed /\ End(q[j]) \in Nat
        BY <3>1, <1>1, PlacedFacts
    <3>4. e < r
        BY <3>2, <2>1, <1>2
    <3>5. m = l[j].at + 1 - r + e
      <4>1. l[j].at = q[j].at
          BY <3>1
      <4>2. n = q[j].at + 1 - r + w
          BY <3>2
      <4>3. \A a \in Nat : n = a + 1 - r + w => m = a + 1 - r + e
          BY <1>2
      <4> QED
          BY <4>1, <4>2, <4>3, <3>3
    <3>6. e <= q[j].at
      <4>1. 1 \in 1 .. Len(q) /\ q[1] \in Placed /\ q[1].at = r
          BY <3>1, <1>1 DEF Lap, Linked
      <4>2. j # 1 => End(q[1]) <= q[j].at
          BY <4>1, <3>2
      <4> QED
          BY <4>1, <4>2, <3>3, <3>4, <1>2, PlacedFacts
    <3>7. \A k \in 1 .. Len(l) : k # j => End(l[k]) <= l[j].at
        BY <3>1, <3>2, <3>6, <1>1, <1>7
    <3> QED
        BY <3>4, <3>5, <3>7
  <2> QED
      BY <2>2, <2>3, <2>4 DEF NullLeads
<1> QED
    BY <1>3, <1>4, <1>5, <1>6 DEF Lap, l, e, m

\* A null packet joins the lap and sends the writer to the start.
LEMMA LapAppendNull ==
  ASSUME NEW q \in Seq(Placed), NEW r \in Nat, NEW w \in Nat, NEW n \in Nat, Lap(q, r, w, n),
         NEW p \in Placed, IsNull(p), p.at = w, 1 <= r, r <= w
  PROVE  Lap(Append(q, p), r, 0, n + 1)
<1> DEFINE l == Append(q, p)
<1>1. /\ Len(l) = Len(q) + 1 /\ Len(q) \in Nat
      /\ \A k \in 1 .. Len(q) : l[k] = q[k] /\ q[k] \in Placed
      /\ l[Len(q) + 1] = p
    BY AppendFacts, SeqFacts
<1>2. n = w - r
    BY DEF Lap, NullLeads
<1>3. Linked(l, r, 0)
    BY AppendLinked, PlacedFacts DEF Lap
<1>4. AllApart(l)
    BY FreeOfOthers, AppendApart DEF Lap
<1> HIDE DEF l
<1>5. \A k \in 1 .. Len(q) : q[k].at >= r /\ End(q[k]) <= w
    BY DEF Lap, AllInLap, InLap
<1>6. \A k \in 1 .. Len(l) : k \in 1 .. Len(q) \/ k = Len(q) + 1
    BY <1>1
<1>7. \A k \in 1 .. Len(l) : l[k].at >= r
    BY <1>1, <1>5, <1>6
<1>8. AllInLap(l, r, 0)
    BY <1>7 DEF AllInLap, InLap
<1>9. \A k \in 1 .. Len(q) : ~IsNull(q[k])
    BY DEF Lap, NullLeads
<1>10. NullLeads(l, r, 0, n + 1)
  <2>1. Len(q) + 1 \in 1 .. Len(l) /\ IsNull(l[Len(q) + 1])
      BY <1>1
  <2>2. ASSUME NEW j \in 1 .. Len(l), IsNull(l[j])
        PROVE  /\ n + 1 = l[j].at + 1 - r + 0
               /\ \A k \in 1 .. Len(l) : k # j => End(l[k]) <= l[j].at
    <3>1. j = Len(q) + 1 /\ l[j].at = w
        BY <2>2, <1>1, <1>6, <1>9
    <3>2. n + 1 = w + 1 - r + 0
        BY <1>2
    <3>3. \A k \in 1 .. Len(l) : k # j => k \in 1 .. Len(q) /\ l[k] = q[k]
        BY <3>1, <1>1, <1>6
    <3> QED
        BY <3>1, <3>2, <3>3, <1>5
  <2> QED
      BY <2>1, <2>2 DEF NullLeads
<1> QED
    BY <1>3, <1>4, <1>8, <1>10 DEF Lap, l

\* The reader passes the first packet.
LEMMA LapTail ==
  ASSUME NEW q \in Seq(Placed), NEW r \in Nat, NEW w \in Nat, NEW n \in Nat, Lap(q, r, w, n),
         q # <<>>
  PROVE  Lap(Tail(q), After(q[1]), w, n - q[1].packet.size)
<1> DEFINE l == Tail(q)
           p == q[1]
           a == After(p)
           m == n - p.packet.size
<1>1. /\ Len(l) = Len(q) - 1 /\ Len(q) \in Nat /\ Len(q) >= 1
      /\ \A k \in 1 .. Len(l) : l[k] = q[k + 1] /\ l[k] \in Placed
      /\ \A k \in 1 .. Len(l) : k + 1 \in 1 .. Len(q)
      /\ l = <<>> <=> Len(q) = 1
  <2>1. /\ l \in Seq(Placed) /\ Len(l) = Len(q) - 1
        /\ \A k \in 1 .. Len(l) : l[k] = q[k + 1]
      BY HeadTailProperties
  <2>2. Len(q) \in Nat /\ Len(q) >= 1
      BY SeqFacts
  <2> HIDE DEF l
  <2>3. (\A k \in 1 .. Len(l) : l[k] \in Placed) /\ (l # <<>> <=> Len(l) >= 1)
      BY <2>1, SeqFacts
  <2> QED
      BY <2>1, <2>2, <2>3
<1>2. 1 \in 1 .. Len(q) /\ p \in Placed /\ p.at = r
    BY SeqFacts DEF Lap, Linked
<1>3. /\ a \in Nat /\ a = IF IsNull(p) THEN 0 ELSE End(p)
      /\ End(p) \in Nat /\ End(p) > r /\ m = n - (End(p) - r)
      /\ IsNull(p) => End(p) = r + 1
    BY <1>2, PlacedFacts
<1> HIDE DEF l, p, a, m
<1>4. Linked(l, a, w)
  <2>1. \A k \in 1 .. Len(q) : q[k].at = IF k = 1 THEN r ELSE After(q[k - 1])
      BY DEF Lap, Linked
  <2>2. w = After(q[Len(q)])
      BY DEF Lap, Linked
  <2>3. ASSUME NEW k \in 1 .. Len(l)
        PROVE  l[k].at = IF k = 1 THEN a ELSE After(l[k - 1])
    <3>1. q[k + 1].at = After(q[(k + 1) - 1])
        BY <2>1, <1>1
    <3>2. (k + 1) - 1 = k /\ l[k].at = q[k + 1].at
        BY <1>1
    <3>3. k # 1 => l[k - 1] = q[(k - 1) + 1] /\ (k - 1) + 1 = k
        BY <1>1
    <3> QED
        BY <3>1, <3>2, <3>3 DEF a, p
  <2>4. w = IF l = <<>> THEN a ELSE After(l[Len(l)])
    <3>1. CASE l = <<>>
        BY <3>1, <2>2, <1>1 DEF a, p
    <3>2. CASE l # <<>>
      <4>1. Len(l) \in 1 .. Len(l) /\ Len(l) + 1 = Len(q)
          BY <3>2, <1>1
      <4> QED
          BY <3>2, <4>1, <2>2, <1>1
    <3> QED
        BY <3>1, <3>2
  <2> QED
      BY <2>3, <2>4 DEF Linked
<1>5. AllApart(l)
  <2>1. \A j, k \in 1 .. Len(l) : j # k => Apart(q[j + 1], q[k + 1])
      BY <1>1 DEF Lap, AllApart
  <2> QED
      BY <2>1, <1>1 DEF AllApart
\* What follows the first packet lies behind it, or before the writer.
<1>6. ASSUME NEW k \in 1 .. Len(l)
      PROVE  /\ InLap(l[k], r, w) /\ Apart(p, l[k])
             /\ l[k].at \in Nat /\ End(l[k]) \in Nat /\ End(l[k]) > l[k].at
             /\ k + 1 \in 1 .. Len(q) /\ l[k] = q[k + 1]
  <2>1. k + 1 \in 1 .. Len(q) /\ k + 1 # 1 /\ l[k] = q[k + 1]
      BY <1>1
  <2>2. InLap(l[k], r, w) /\ Apart(p, l[k])
      BY <2>1, <1>2 DEF Lap, AllInLap, AllApart, p
  <2> QED
      BY <2>1, <2>2, <1>1, PlacedFacts
<1>7. IsNull(p) => /\ w < r /\ n = r + 1 - r + w
                   /\ \A k \in 1 .. Len(l) : End(l[k]) <= r
  <2>1. IsNull(p) => /\ w < r /\ n = r + 1 - r + w
                     /\ \A k \in 1 .. Len(q) : k # 1 => End(q[k]) <= r
      BY <1>2 DEF Lap, NullLeads, p
  <2>2. \A k \in 1 .. Len(l) : k + 1 \in 1 .. Len(q) /\ k + 1 # 1 /\ l[k] = q[k + 1]
      BY <1>1
  <2> QED
      BY <2>1, <2>2
<1>8. AllInLap(l, a, w)
  <2> SUFFICES ASSUME NEW k \in 1 .. Len(l)
               PROVE  InLap(l[k], a, w)
      BY DEF AllInLap
  <2>1. CASE IsNull(p)
    <3>1. End(l[k]) <= r /\ a = 0 /\ w < r
        BY <2>1, <1>3, <1>7
    <3>2. End(l[k]) <= w
        BY SMTT(30), <3>1, <1>6 DEF InLap
    <3> QED
        BY <3>1, <3>2, <1>6 DEF InLap
  <2>2. CASE ~IsNull(p)
    <3>1. a = End(p) /\ a > r
        BY <2>2, <1>3
    <3>2. l[k].at >= a \/ l[k].at < r
        BY <3>1, <1>2, <1>6 DEF Apart
    <3>3. a <= w => r <= w
        BY <3>1, <1>3
    <3> QED
        BY <3>1, <3>2, <3>3, <1>3, <1>6 DEF InLap
  <2> QED
      BY <2>1, <2>2
<1>9. NullLeads(l, a, w, m)
  <2>1. CASE IsNull(p)
    <3>1. a = 0 /\ m = w /\ End(p) = r + 1 /\ w < r
        BY <2>1, <1>3, <1>7
    <3>2. ASSUME NEW j \in 1 .. Len(l)
          PROVE  ~IsNull(l[j])
      <4>1. CASE IsNull(l[j])
        <5>1. \A k \in 1 .. Len(q) : k # j + 1 => End(q[k]) <= l[j].at
            BY <4>1, <1>6 DEF Lap, NullLeads
        <5>2. 1 # j + 1
            OBVIOUS
        <5>3. End(p) <= l[j].at
            BY <5>1, <5>2, <1>2 DEF p
        <5> QED
            BY <5>3, <3>1, <2>1, <1>6, <1>7
      <4> QED
          BY <4>1
    <3> QED
        BY <3>1, <3>2 DEF NullLeads
  <2>2. CASE ~IsNull(p)
    <3>1. a = End(p) /\ a > r /\ m = n - (a - r)
        BY <2>2, <1>3
    <3>2. ASSUME NEW j \in 1 .. Len(l), IsNull(l[j])
          PROVE  /\ w < a
                 /\ m = l[j].at + 1 - a + w
                 /\ \A k \in 1 .. Len(l) : k # j => End(l[k]) <= l[j].at
      <4>1. /\ w < r /\ n = l[j].at + 1 - r + w
            /\ \A k \in 1 .. Len(q) : k # j + 1 => End(q[k]) <= l[j].at
          BY <3>2, <1>6 DEF Lap, NullLeads
      <4>2. \A at \in Nat : n = at + 1 - r + w => m = at + 1 - a + w
          BY <3>1, <1>3
      <4>3. ASSUME NEW k \in 1 .. Len(l), k # j
            PROVE  End(l[k]) <= l[j].at
        <5>1. k + 1 # j + 1 /\ k + 1 \in 1 .. Len(q) /\ l[k] = q[k + 1]
            BY <4>3, <1>6
        <5> QED
            BY <5>1, <4>1
      <4> QED
          BY SMTT(30), <3>1, <4>1, <4>2, <4>3, <1>3, <1>6
    <3>3. ASSUME w < a
          PROVE  \E k \in 1 .. Len(l) : IsNull(l[k])
      <4>1. w < r
          \* Otherwise the first packet would reach beyond the writer.
        <5>1. InLap(p, r, w)
            BY <1>2 DEF Lap, AllInLap, p
        <5> QED
            BY <5>1, <3>1, <3>3, <1>3 DEF InLap
      <4>2. PICK k \in 1 .. Len(q) : IsNull(q[k])
          BY <4>1 DEF Lap, NullLeads
      <4>3. k # 1
          BY <4>2, <2>2 DEF p
      <4>4. k - 1 \in 1 .. Len(l) /\ (k - 1) + 1 = k
          BY <4>3, <1>1
      <4>5. l[k - 1] = q[k]
          BY <4>4, <1>1
      <4> QED
          BY <4>2, <4>4, <4>5
    <3>4. ASSUME a <= w
          PROVE  m = w - a
      <4>1. r <= w
          BY <3>1, <3>4, <1>3
      <4>2. n = w - r
          BY <4>1 DEF Lap, NullLeads
      <4> QED
          BY <4>2, <3>1, <1>3
    <3> QED
        BY <3>2, <3>3, <3>4 DEF NullLeads
  <2> QED
      BY <2>1, <2>2
<1> QED
    BY <1>4, <1>5, <1>8, <1>9 DEF Lap, l, a, m, p

LEMMA LapInBuffer ==
  ASSUME NEW q \in Seq(Placed), NEW r \in Nat, NEW w \in 0 .. BufferSize - 1, Linked(q, r, w)
  PROVE  \A k \in 1 .. Len(q) : End(q[k]) <= BufferSize /\ After(q[k]) \in 0 .. BufferSize - 1
<1> SUFFICES ASSUME NEW k \in 1 .. Len(q)
             PROVE  End(q[k]) <= BufferSize /\ After(q[k]) \in 0 .. BufferSize - 1
    OBVIOUS
<1>1. q[k] \in Placed /\ BufferSize \in Nat
    BY SeqFacts, MTVUAssumption DEF MTVUAssumption
<1>2. After(q[k]) \in 0 .. BufferSize - 1
  <2>1. CASE k = Len(q)
      BY <2>1, SeqFacts DEF Linked
  <2>2. CASE k # Len(q)
    <3>1. k + 1 \in 1 .. Len(q) /\ k + 1 # 1 /\ (k + 1) - 1 = k
        BY <2>2, SeqFacts
    <3>2. q[k + 1].at = After(q[k]) /\ q[k + 1] \in Placed
        BY <3>1, SeqFacts DEF Linked
    <3> QED
        BY <3>2, <1>1, PlacedFacts
  <2> QED
      BY <2>1, <2>2
<1> QED
    BY <1>1, <1>2, PlacedFacts

LEMMA LapFirst ==
  ASSUME NEW q \in Seq(Placed), NEW r \in Nat, NEW w \in 0 .. BufferSize - 1,
         NEW n \in Nat, Lap(q, r, w, n), q # <<>>
  PROVE  /\ q[1] \in Placed /\ q[1].at = r /\ Head(q) = q[1]
         /\ After(q[1]) \in 0 .. BufferSize - 1
         /\ n - q[1].packet.size \in Nat
<1>1. 1 \in 1 .. Len(q) /\ q[1] \in Placed /\ q[1].at = r /\ Head(q) = q[1]
    BY SeqFacts DEF Lap, Linked
<1>2. After(q[1]) \in 0 .. BufferSize - 1
    BY <1>1, LapInBuffer DEF Lap
<1>3. InLap(q[1], r, w) /\ End(q[1]) \in Nat /\ End(q[1]) = r + q[1].packet.size
      /\ q[1].packet.size \in Nat /\ w \in Nat
    BY <1>1, PlacedFacts, MTVUAssumption DEF Lap, AllInLap, MTVUAssumption
<1>4. CASE r <= w
  <2>1. n = w - r /\ End(q[1]) <= w
      BY <1>4, <1>3 DEF Lap, NullLeads, InLap
  <2> QED
      BY <2>1, <1>1, <1>2, <1>3
<1>5. CASE w < r
  <2>1. PICK j \in 1 .. Len(q) : IsNull(q[j])
      BY <1>5 DEF Lap, NullLeads
  <2>2. /\ n = q[j].at + 1 - r + w
        /\ \A k \in 1 .. Len(q) : k # j => End(q[k]) <= q[j].at
      BY <2>1 DEF Lap, NullLeads
  <2>3. q[j].at \in Nat
      BY SeqFacts, PlacedFacts
  <2>4. q[j].at + 1 >= End(q[1])
    <3>1. CASE j = 1
        BY <3>1, <2>1, <1>1, PlacedFacts
    <3>2. CASE j # 1
        BY SMTT(30), <3>2, <2>2, <2>3, <1>1, <1>3
    <3> QED
        BY <3>1, <3>2
  <2>5. \A at \in Nat : n = at + 1 - r + w /\ at + 1 >= End(q[1]) => n - q[1].packet.size \in Nat
    <3> DEFINE s == q[1].packet.size
               e == End(q[1])
    <3>1. s \in Nat /\ e = r + s /\ w \in Nat
        BY <1>3
    <3> HIDE DEF s, e
    <3>2. \A at \in Nat : n = at + 1 - r + w /\ at + 1 >= e => n - s \in Nat
        BY <3>1
    <3> QED
        BY <3>2 DEF s, e
  <2> QED
      BY <2>2, <2>3, <2>4, <2>5, <1>1, <1>2
<1> QED
    BY <1>3, <1>4, <1>5

-----------------------------------------------------------------------------
(* The buffer *)

LEMMA WriteFacts ==
  ASSUME TypeOK, NEW p \in Placed, End(p) <= BufferSize, WriteAt(p.at, p.packet)
  PROVE  /\ buffer' \in [0 .. BufferSize - 1 -> Packets \cup {Data}]
         /\ Holds(buffer', p)
         /\ \A q \in Placed : Holds(buffer, q) /\ Apart(q, p) /\ End(q) <= BufferSize
                                => Holds(buffer', q)
<1> DEFINE at == p.at
           n == p.packet.size
<1>1. /\ buffer \in [0 .. BufferSize - 1 -> Packets \cup {Data}] /\ BufferSize \in Nat
      /\ p.packet \in Packets
      /\ at \in Nat /\ n \in Nat /\ n >= 1 /\ at + n <= BufferSize
    BY PlacedFacts, PacketFacts, MTVUAssumption DEF TypeOK, MTVUAssumption
<1>2. buffer' = [i \in 0 .. BufferSize - 1 |->
                   IF i = at THEN p.packet
                   ELSE IF i \in at + 1 .. at + n - 1 THEN Data
                   ELSE buffer[i]]
    BY DEF WriteAt
<1> HIDE DEF at, n
<1>3. buffer' \in [0 .. BufferSize - 1 -> Packets \cup {Data}]
    BY <1>1, <1>2
<1>4. Holds(buffer', p)
  <2>1. buffer'[at] = p.packet
      BY <1>1, <1>2
  <2>2. \A i \in at + 1 .. at + n - 1 : buffer'[i] = Data
      BY <1>1, <1>2
  <2> QED
      BY <2>1, <2>2 DEF Holds, at, n
<1>5. ASSUME NEW q \in Placed, Holds(buffer, q), Apart(q, p), End(q) <= BufferSize
      PROVE  Holds(buffer', q)
  <2> DEFINE a == q.at
             m == q.packet.size
  <2>1. /\ a \in Nat /\ m \in Nat /\ m >= 1 /\ a + m <= BufferSize
        /\ a + m <= at \/ at + n <= a
      BY <1>5, PlacedFacts, PacketFacts DEF Apart, End, at, n
  <2>2. buffer[a] = q.packet /\ \A i \in a + 1 .. a + m - 1 : buffer[i] = Data
      BY <1>5 DEF Holds
  <2> HIDE DEF a, m
  <2>3. \A i \in a .. a + m - 1 : buffer'[i] = buffer[i]
      BY <2>1, <1>1, <1>2
  <2>4. buffer'[a] = q.packet
      BY <2>1, <2>2, <2>3
  <2>5. \A i \in a + 1 .. a + m - 1 : buffer'[i] = Data
      BY <2>1, <2>2, <2>3
  <2> QED
      BY <2>4, <2>5 DEF Holds, a, m
<1> QED
    BY <1>3, <1>4, <1>5

-----------------------------------------------------------------------------
(* The steps *)

LEMMA Types ==
  ASSUME TypeOK
  PROVE  /\ pending \in Seq(Placed) /\ ahead \in Nat
         /\ m_ato_read_pos \in 0 .. BufferSize - 1 /\ m_ato_read_pos \in Nat
         /\ m_ato_write_pos \in 0 .. BufferSize - 1 /\ m_ato_write_pos \in Nat
         /\ m_read_pos \in 0 .. BufferSize
         /\ m_write_pos \in 0 .. BufferSize - 1
         /\ size \in Sizes /\ size \in 1 .. BufferSize - 1 /\ size \in Nat
         /\ BufferSize \in Nat /\ MaxAhead \in Nat
  BY PacketFacts, MTVUAssumption DEF TypeOK, Placed, MTVUAssumption

\* The packet the EE is writing, and the null packet, at the writer's place.
ThePacket == [packet |-> Packet(size), at |-> m_ato_write_pos]
TheNull == [packet |-> NullPacket, at |-> m_ato_write_pos]

LEMMA NewPackets ==
  ASSUME TypeOK
  PROVE  /\ ThePacket \in Placed /\ ~IsNull(ThePacket)
         /\ ThePacket.at = m_ato_write_pos /\ ThePacket.packet = Packet(size)
         /\ ThePacket.packet.size = size /\ End(ThePacket) = m_ato_write_pos + size
         /\ TheNull \in Placed /\ IsNull(TheNull)
         /\ TheNull.at = m_ato_write_pos /\ TheNull.packet = NullPacket
         /\ TheNull.packet.size = 1 /\ End(TheNull) = m_ato_write_pos + 1
<1>1. Packet(size) \in Packets /\ Packet(size) # NullPacket /\ Packet(size).size = size
      /\ NullPacket \in Packets /\ NullPacket.size = 1
      /\ m_ato_write_pos \in 0 .. BufferSize - 1
    BY PacketFacts, Types
<1> QED
    BY <1>1 DEF ThePacket, TheNull, Placed, IsNull, End

\* Where a writer that comes to the end of the buffer finds the reader.
LEMMA BeforeTurn ==
  ASSUME IInv, MaxAhead < BufferSize, epc \in {"waitNull", "writeNull", "commitNull"}
  PROVE  1 <= m_ato_read_pos /\ m_ato_read_pos <= m_ato_write_pos
<1>1. m_ato_write_pos + size >= BufferSize /\ ahead + size <= MaxAhead
    BY DEF IInv, Fits
<1> QED
    BY <1>1, Types, LapBeforeTurn DEF IInv, Placement

\* What CommitWritePos makes of the history.
LEMMA Committed ==
  ASSUME IInv, CommitWritePos
  PROVE  /\ UNCHANGED <<m_ato_read_pos, m_read_pos, vpc, m_write_pos, buffer, event, size>>
         /\ \/ /\ epc = "commit" /\ epc' = "kick"
               /\ pending' = Append(pending, ThePacket)
               /\ ahead' = ahead + size
               /\ m_ato_write_pos' = m_ato_write_pos + size
            \/ /\ epc = "commitNull" /\ epc' = "waitSize"
               /\ pending' = Append(pending, TheNull)
               /\ ahead' = ahead + 1
               /\ m_ato_write_pos' = 0
<1>1. CASE epc = "commit"
  <2>1. pending' = Append(pending, ThePacket) /\ ahead' = ahead + Packet(size).size
      BY <1>1 DEF CommitWritePos, EEMoves, ThePacket
  <2>2. Packet(size).size = size
      BY PacketFacts, Types DEF IInv
  <2> QED
      BY <1>1, <2>1, <2>2 DEF CommitWritePos, EEMoves, readVars, IInv, Written
<1>2. CASE epc = "commitNull"
  <2>1. pending' = Append(pending, TheNull) /\ ahead' = ahead + NullPacket.size
      BY <1>2 DEF CommitWritePos, EEMoves, TheNull
  <2> QED
      BY <1>2, <2>1, PacketFacts DEF CommitWritePos, EEMoves, readVars, IInv, Written
<1> QED
    BY <1>1, <1>2 DEF CommitWritePos, EEMoves

\* What CommitReadPos makes of it.
LEMMA Passed ==
  ASSUME IInv, CommitReadPos
  PROVE  /\ pending # <<>> /\ pending' = Tail(pending)
         /\ m_ato_read_pos' = After(pending[1]) /\ m_read_pos = After(pending[1])
         /\ ahead' = ahead - pending[1].packet.size /\ ahead' \in Nat
         /\ m_ato_read_pos' \in 0 .. BufferSize - 1
         /\ vpc = "commit" /\ vpc' = "loop"
         /\ UNCHANGED <<m_read_pos, m_ato_write_pos, m_write_pos, buffer, event, epc, size>>
<1>1. pending # <<>> /\ m_read_pos = After(pending[1])
    BY DEF CommitReadPos, VUMoves, IInv, Reading
<1>2. /\ Head(pending) = pending[1] /\ After(pending[1]) \in 0 .. BufferSize - 1
      /\ ahead - pending[1].packet.size \in Nat
    BY <1>1, Types, LapFirst DEF IInv, Placement
<1> QED
    BY <1>1, <1>2 DEF CommitReadPos, VUMoves

\* What Execute reads.
LEMMA Executed ==
  ASSUME IInv, Execute
  PROVE  /\ pending # <<>> /\ m_read_pos' = After(pending[1])
         /\ After(pending[1]) \in 0 .. BufferSize - 1
<1>1. pending # <<>> /\ m_read_pos = m_ato_read_pos + 1
    BY DEF Execute, VUMoves, IInv, Reading
<1>2. /\ pending[1] \in Placed /\ pending[1].at = m_ato_read_pos
      /\ After(pending[1]) \in 0 .. BufferSize - 1
    BY <1>1, Types, LapFirst DEF IInv, Placement
<1>3. m_read_pos - 1 = pending[1].at
    BY <1>1, <1>2, Types DEF IInv
<1>4. buffer[m_read_pos - 1] = pending[1].packet
  <2>1. Holds(buffer, pending[1])
      BY <1>1, SeqFacts, Types DEF IInv, BufferKeeps
  <2> QED
      BY <2>1, <1>3 DEF Holds
<1> DEFINE p == pending[1].packet
<1>5. /\ p \in Packets /\ p.size \in Nat
      /\ After(pending[1]) = IF p = NullPacket THEN 0 ELSE m_ato_read_pos + p.size
    BY <1>2, PlacedFacts, PacketFacts DEF After
<1>6. p.tag = "NULL_PACKET" <=> p = NullPacket
    BY <1>5 DEF Packets, Packet, NullPacket
<1>7. m_read_pos' = IF p.tag = "NULL_PACKET" THEN 0 ELSE m_read_pos + p.size - 1
    BY <1>4 DEF Execute
<1> HIDE DEF p
<1>8. m_read_pos + p.size - 1 = m_ato_read_pos + p.size
  <2>1. \A r, n \in Nat : r + 1 + n - 1 = r + n
      OBVIOUS
  <2> QED
      BY <2>1, <1>1, <1>5, Types DEF IInv
<1> QED
    BY <1>1, <1>2, <1>5, <1>6, <1>7, <1>8

LEMMA InitIInv == Init => IInv
<1> SUFFICES ASSUME Init PROVE IInv
    OBVIOUS
<1> USE DEF Init
<1>1. BufferSize \in Nat /\ BufferSize > 1
    BY PacketFacts, MTVUAssumption DEF MTVUAssumption
<1>2. TypeOK
  <2>1. SemaEvent!TypeOK
      BY DEF SemaEvent!Init, SemaEvent!TypeOK
  <2>2. pending \in Seq([packet : Packets, at : 0 .. BufferSize - 1])
      OBVIOUS
  <2> QED
      BY <1>1, <2>1, <2>2 DEF TypeOK
<1>3. Lap(<<>>, 0, 0, 0)
    BY DEF Lap, Linked, AllApart, AllInLap, NullLeads
<1> QED
    BY <1>1, <1>2, <1>3 DEF IInv, BufferKeeps, Placement, Written, WrittenHolds, Fits, Room,
       Reading, Awake, Quiet, SemaEvent!Init

\* Every step is one of the operations.
LEMMA Steps ==
  ASSUME Next
  PROVE  \/ WaitOnSizeNull \/ WriteNull \/ WaitOnSizePacket \/ WritePacket
         \/ CommitWritePos \/ KickVU \/ WaitVUReturns \/ Resume
         \/ ReserveSpace \/ WaitVU \/ Reset
         \/ WaitForWork \/ ReadTag \/ NothingLeft \/ Execute \/ CommitReadPos
  BY DEF Next, EEContinues, EEBegins, VUThread

\* The history and the published positions change in three operations.
LEMMA LapKept ==
  ASSUME Next, ~CommitWritePos, ~CommitReadPos, ~Reset
  PROVE  UNCHANGED <<m_ato_read_pos, m_ato_write_pos, pending, ahead>>
  BY Steps DEF WaitOnSizeNull, WaitOnSizePacket, WaitOnSize, WriteNull, WritePacket, KickVU,
     WaitVUReturns, Resume, ReserveSpace, WaitVU, WaitForWork, ReadTag, NothingLeft, Execute,
     readVars, history

\* The buffer changes in two.
LEMMA BufferKept ==
  ASSUME Next, ~WriteNull, ~WritePacket
  PROVE  UNCHANGED buffer
  BY Steps DEF WaitOnSizeNull, WaitOnSizePacket, WaitOnSize, CommitWritePos, KickVU,
     WaitVUReturns, Resume, ReserveSpace, WaitVU, Reset, WaitForWork, ReadTag, NothingLeft,
     Execute, CommitReadPos

\* An EE step leaves the VU thread's place alone, and the other way round.
LEMMA OwnSteps ==
  ASSUME Next
  PROVE  \/ UNCHANGED vpc
         \/ UNCHANGED <<epc, size, m_write_pos, m_ato_write_pos, buffer>>
  BY Steps DEF WaitOnSizeNull, WaitOnSizePacket, WaitOnSize, WriteNull, WritePacket,
     CommitWritePos, KickVU, WaitVUReturns, Resume, ReserveSpace, WaitVU, Reset, WaitForWork,
     ReadTag, NothingLeft, Execute, CommitReadPos, readVars

\* When the EE resets the ring, the VU thread sleeps and has nothing left.
LEMMA Drained ==
  ASSUME IInv, epc = "done"
  PROVE  /\ pending = <<>> /\ vpc = "wait" /\ m_ato_read_pos = m_ato_write_pos
         /\ m_read_pos = m_ato_read_pos
<1>1. phase = "idle" /\ ~notified
    BY DEF IInv, Quiet
<1>2. vpc = "wait"
    BY <1>1 DEF IInv, Awake
<1>3. pending = <<>>
    BY <1>1, <1>2 DEF IInv, Awake
<1>4. m_ato_write_pos = m_ato_read_pos
    BY <1>3 DEF IInv, Placement, Lap, Linked
<1> QED
    BY <1>2, <1>3, <1>4 DEF IInv, Reading

LEMMA PlacementStep ==
  ASSUME IInv, Next, MaxAhead < BufferSize
  PROVE  Placement'
<1>1. CASE CommitWritePos
  <2>1. CASE epc = "commit"
    <3>1. /\ pending' = Append(pending, ThePacket) /\ ahead' = ahead + size
          /\ m_ato_write_pos' = m_ato_write_pos + size /\ m_ato_read_pos' = m_ato_read_pos
        BY <1>1, <2>1, Committed
    <3>2. \/ m_ato_read_pos <= m_ato_write_pos
          \/ m_ato_read_pos > m_ato_write_pos + size
        BY <2>1 DEF IInv, Room
    <3>3. Lap(Append(pending, ThePacket), m_ato_read_pos, m_ato_write_pos + size, ahead + size)
        BY <3>2, Types, NewPackets, LapAppendPacket DEF IInv, Placement
    <3> QED
        BY <3>1, <3>3 DEF Placement
  <2>2. CASE epc = "commitNull"
    <3>1. /\ pending' = Append(pending, TheNull) /\ ahead' = ahead + 1
          /\ m_ato_write_pos' = 0 /\ m_ato_read_pos' = m_ato_read_pos
        BY <1>1, <2>2, Committed
    <3>2. 1 <= m_ato_read_pos /\ m_ato_read_pos <= m_ato_write_pos
        BY <2>2, BeforeTurn
    <3>3. Lap(Append(pending, TheNull), m_ato_read_pos, 0, ahead + 1)
        BY <3>2, Types, NewPackets, LapAppendNull DEF IInv, Placement
    <3> QED
        BY <3>1, <3>3 DEF Placement
  <2> QED
      BY <1>1, <2>1, <2>2, Committed
<1>2. CASE CommitReadPos
  <2>1. Lap(Tail(pending), After(pending[1]), m_ato_write_pos,
            ahead - pending[1].packet.size)
      BY <1>2, Passed, Types, LapTail DEF IInv, Placement
  <2> QED
      BY <1>2, <2>1, Passed DEF Placement
<1>3. CASE Reset
  <2>1. Lap(<<>>, 0, 0, 0)
      BY DEF Lap, Linked, AllApart, AllInLap, NullLeads
  <2> QED
      BY <1>3, <2>1 DEF Reset, Placement
<1>4. CASE ~CommitWritePos /\ ~CommitReadPos /\ ~Reset
    BY <1>4, LapKept DEF IInv, Placement
<1> QED
    BY <1>1, <1>2, <1>3, <1>4

\* What is written leaves alone what lies in the lap.
LEMMA KeptByWrite ==
  ASSUME IInv, NEW p \in Placed, p.at = m_ato_write_pos, End(p) <= BufferSize,
         WriteAt(p.at, p.packet),
         m_ato_read_pos <= m_ato_write_pos \/ m_ato_read_pos > End(p)
  PROVE  \A k \in 1 .. Len(pending) : Holds(buffer', pending[k])
<1> SUFFICES ASSUME NEW k \in 1 .. Len(pending)
             PROVE  Holds(buffer', pending[k])
    OBVIOUS
<1>1. pending[k] \in Placed /\ Holds(buffer, pending[k])
    BY Types, SeqFacts DEF IInv, BufferKeeps
<1>2. Apart(pending[k], p)
    BY Types, FreeOfOthers DEF IInv, Placement, Lap
<1>3. End(pending[k]) <= BufferSize
    BY Types, LapInBuffer DEF IInv, Placement, Lap
<1> QED
    BY <1>1, <1>2, <1>3, WriteFacts DEF IInv

LEMMA WriteNullFacts ==
  ASSUME IInv, WriteNull, MaxAhead < BufferSize
  PROVE  /\ epc = "writeNull" /\ epc' = "commitNull" /\ m_write_pos' = 0
         /\ buffer' \in [0 .. BufferSize - 1 -> Packets \cup {Data}]
         /\ Holds(buffer', TheNull)
         /\ \A k \in 1 .. Len(pending) : Holds(buffer', pending[k])
         /\ UNCHANGED <<readVars, m_ato_write_pos, event, size, history>>
<1>1. /\ epc = "writeNull" /\ epc' = "commitNull" /\ m_write_pos' = 0
      /\ WriteAt(m_write_pos, NullPacket)
      /\ UNCHANGED <<readVars, m_ato_write_pos, event, size, history>>
    BY DEF WriteNull, EEMoves
<1>2. m_write_pos = m_ato_write_pos
    BY <1>1 DEF IInv, Written
<1>3. /\ TheNull \in Placed /\ TheNull.at = m_ato_write_pos /\ TheNull.packet = NullPacket
      /\ End(TheNull) <= BufferSize
    BY NewPackets, Types DEF IInv
<1>4. WriteAt(TheNull.at, TheNull.packet)
    BY <1>1, <1>2, <1>3
<1>5. m_ato_read_pos <= m_ato_write_pos
    BY <1>1, BeforeTurn
<1>6. \A k \in 1 .. Len(pending) : Holds(buffer', pending[k])
    BY <1>3, <1>4, <1>5, KeptByWrite
<1>7. Holds(buffer', TheNull) /\ buffer' \in [0 .. BufferSize - 1 -> Packets \cup {Data}]
    BY <1>3, <1>4, WriteFacts DEF IInv
<1> QED
    BY <1>1, <1>6, <1>7

LEMMA WritePacketFacts ==
  ASSUME IInv, WritePacket
  PROVE  /\ epc = "write" /\ epc' = "commit" /\ m_write_pos' = m_ato_write_pos + size
         /\ buffer' \in [0 .. BufferSize - 1 -> Packets \cup {Data}]
         /\ Holds(buffer', ThePacket)
         /\ \A k \in 1 .. Len(pending) : Holds(buffer', pending[k])
         /\ UNCHANGED <<readVars, m_ato_write_pos, event, size, history>>
<1>1. /\ epc = "write" /\ epc' = "commit" /\ m_write_pos' = m_write_pos + size
      /\ WriteAt(m_write_pos, Packet(size))
      /\ UNCHANGED <<readVars, m_ato_write_pos, event, size, history>>
    BY DEF WritePacket, EEMoves
<1>2. m_write_pos = m_ato_write_pos
    BY <1>1 DEF IInv, Written
<1>3. m_ato_write_pos + size <= BufferSize - 1
    BY <1>1 DEF IInv, Fits
<1>4. /\ ThePacket \in Placed /\ ThePacket.at = m_ato_write_pos
      /\ ThePacket.packet = Packet(size)
      /\ End(ThePacket) = m_ato_write_pos + size /\ End(ThePacket) <= BufferSize
    BY <1>3, NewPackets, Types DEF IInv
<1>5. WriteAt(ThePacket.at, ThePacket.packet)
    BY <1>1, <1>2, <1>4
<1>6. m_ato_read_pos <= m_ato_write_pos \/ m_ato_read_pos > End(ThePacket)
    BY <1>1, <1>4 DEF IInv, Room
<1>7. \A k \in 1 .. Len(pending) : Holds(buffer', pending[k])
    BY <1>4, <1>5, <1>6, KeptByWrite
<1>8. Holds(buffer', ThePacket) /\ buffer' \in [0 .. BufferSize - 1 -> Packets \cup {Data}]
    BY <1>4, <1>5, WriteFacts DEF IInv
<1> QED
    BY <1>1, <1>2, <1>7, <1>8

LEMMA BufferKeepsStep ==
  ASSUME IInv, Next, MaxAhead < BufferSize
  PROVE  BufferKeeps'
<1>1. CASE WriteNull
    BY <1>1, WriteNullFacts DEF BufferKeeps, history
<1>2. CASE WritePacket
    BY <1>2, WritePacketFacts DEF BufferKeeps, history
<1>3. CASE CommitWritePos
  <2> SUFFICES ASSUME NEW k \in 1 .. Len(pending')
               PROVE  Holds(buffer', pending'[k])
      BY DEF BufferKeeps
  <2>1. buffer' = buffer
      BY <1>3, Committed
  <2>2. PICK p \in Placed : Holds(buffer, p) /\ pending' = Append(pending, p)
      BY <1>3, Committed, NewPackets DEF IInv, WrittenHolds, ThePacket, TheNull
  <2>3. /\ \A i \in 1 .. Len(pending) : pending'[i] = pending[i]
        /\ pending'[Len(pending) + 1] = p
        /\ k \in 1 .. Len(pending) \/ k = Len(pending) + 1
      BY <2>2, AppendFacts, SeqFacts, Types DEF IInv
  <2> QED
      BY <2>1, <2>2, <2>3 DEF IInv, BufferKeeps
<1>4. CASE CommitReadPos
  <2> SUFFICES ASSUME NEW k \in 1 .. Len(pending')
               PROVE  Holds(buffer', pending'[k])
      BY DEF BufferKeeps
  <2>1. pending # <<>> /\ pending' = Tail(pending) /\ buffer' = buffer
      BY <1>4, Passed
  <2>2. Len(pending') = Len(pending) - 1 /\ pending'[k] = pending[k + 1]
      BY <2>1, HeadTailProperties, Types DEF IInv
  <2>3. k + 1 \in 1 .. Len(pending)
      BY <2>2, SeqFacts, Types DEF IInv
  <2> QED
      BY <2>1, <2>2, <2>3 DEF IInv, BufferKeeps
<1>5. CASE Reset
    BY <1>5 DEF Reset, BufferKeeps
<1>6. CASE /\ ~WriteNull /\ ~WritePacket
           /\ ~CommitWritePos /\ ~CommitReadPos /\ ~Reset
    BY <1>6, LapKept, BufferKept DEF IInv, BufferKeeps
<1> QED
    BY <1>1, <1>2, <1>3, <1>4, <1>5, <1>6

\* What the EE has under way: its own operations, and the reader's.
LEMMA WritingStep ==
  ASSUME IInv, Next, MaxAhead < BufferSize
  PROVE  Written' /\ WrittenHolds'
<1>1. CASE WriteNull
  <2>1. TheNull' = TheNull
      BY <1>1, WriteNullFacts DEF TheNull
  <2> QED
      BY <1>1, <2>1, WriteNullFacts DEF Written, WrittenHolds, TheNull
<1>2. CASE WritePacket
  <2>1. ThePacket' = ThePacket
      BY <1>2, WritePacketFacts DEF ThePacket
  <2> QED
      BY <1>2, <2>1, WritePacketFacts DEF Written, WrittenHolds, ThePacket
<1>3. CASE CommitWritePos
    BY <1>3, Committed DEF IInv, Written, WrittenHolds
<1>4. CASE WaitOnSizeNull \/ WaitOnSizePacket \/ KickVU \/ WaitVUReturns \/ Resume
           \/ ReserveSpace \/ WaitVU \/ Reset
  <2>1. epc' \notin {"commit", "commitNull"} /\ epc \notin {"commit", "commitNull"}
      BY <1>4 DEF WaitOnSizeNull, WaitOnSizePacket, WaitOnSize, KickVU, WaitVUReturns,
         Resume, ReserveSpace, WaitVU, Reset, EEMoves
  <2>2. m_write_pos = m_ato_write_pos
      BY <2>1 DEF IInv, Written
  <2>3. m_write_pos' = m_ato_write_pos'
      BY <1>4, <2>2 DEF WaitOnSizeNull, WaitOnSizePacket, WaitOnSize, KickVU, WaitVUReturns,
         Resume, ReserveSpace, WaitVU, Reset
  <2> QED
      BY <2>1, <2>3 DEF Written, WrittenHolds
<1>5. CASE VUThread
  <2>1. UNCHANGED <<epc, size, m_write_pos, m_ato_write_pos, buffer>>
      BY <1>5 DEF VUThread, WaitForWork, ReadTag, NothingLeft, Execute, CommitReadPos
  <2> QED
      BY <2>1 DEF IInv, Written, WrittenHolds
<1> QED
    BY <1>1, <1>2, <1>3, <1>4, <1>5 DEF Next, EEContinues, EEBegins

LEMMA FitsStep ==
  ASSUME IInv, Next, MaxAhead < BufferSize
  PROVE  Fits'
<1>1. /\ m_ato_write_pos \in Nat /\ size \in Nat /\ size \in 1 .. BufferSize - 1
      /\ ahead \in Nat /\ BufferSize \in Nat /\ MaxAhead \in Nat
    BY Types DEF IInv
<1>2. CASE ReserveSpace
  <2>1. m_write_pos = m_ato_write_pos
      BY <1>2 DEF ReserveSpace, IInv, Written
  <2>2. size' \in 1 .. BufferSize - 1
      BY <1>2, PacketFacts DEF ReserveSpace
  <2>3. /\ UNCHANGED <<m_ato_write_pos, ahead>> /\ ahead + size' <= MaxAhead
        /\ epc' = IF m_ato_write_pos + size' > BufferSize - 1 THEN "waitNull" ELSE "waitSize"
      BY <1>2, <2>1 DEF ReserveSpace, history
  <2>4. \/ epc' = "waitNull" /\ m_ato_write_pos + size' >= BufferSize
        \/ epc' = "waitSize" /\ m_ato_write_pos + size' <= BufferSize - 1
    <3>1. \A w, s \in Nat : (w + s > BufferSize - 1 => w + s >= BufferSize)
                            /\ (~(w + s > BufferSize - 1) => w + s <= BufferSize - 1)
        BY <1>1
    <3>2. size' \in Nat
        BY <1>1, <2>2
    <3> QED
        BY <1>1, <2>3, <3>1, <3>2
  <2> QED
      BY <2>3, <2>4 DEF Fits
<1>3. CASE CommitWritePos
    BY <1>1, <1>3, Committed DEF Fits
<1>4. CASE CommitReadPos
  <2>1. /\ ahead' = ahead - pending[1].packet.size
        /\ UNCHANGED <<epc, size, m_ato_write_pos>> /\ pending # <<>> /\ ahead' \in Nat
      BY <1>4, Passed
  <2>2. pending[1].packet.size \in Nat
      BY <2>1, LapFirst, PlacedFacts, Types DEF IInv, Placement
  <2>3. ahead' <= ahead
      BY <1>1, <2>1, <2>2
  <2> QED
      BY <1>1, <2>1, <2>3 DEF IInv, Fits
<1>5. CASE Reset
    BY <1>5 DEF Reset, EEMoves, Fits
<1>6. CASE ~ReserveSpace /\ ~CommitWritePos /\ ~CommitReadPos /\ ~Reset
  <2>1. UNCHANGED <<m_ato_write_pos, ahead>>
      BY <1>6, LapKept
  <2>2. size' = size
      BY <1>6, Steps DEF WaitOnSizeNull, WaitOnSizePacket, WaitOnSize, WriteNull, WritePacket,
         KickVU, WaitVUReturns, Resume, WaitVU, WaitForWork, ReadTag, NothingLeft, Execute
  <2>3. \/ epc' = epc
        \/ epc = "waitNull" /\ epc' = "writeNull"
        \/ epc = "writeNull" /\ epc' = "commitNull"
        \/ epc = "waitSize" /\ epc' = "write"
        \/ epc = "write" /\ epc' = "commit"
        \/ epc' \in {"idle", "waiting", "done"}
    <3>1. CASE VUThread
        BY <3>1 DEF VUThread, WaitForWork, ReadTag, NothingLeft, Execute, CommitReadPos
    <3>2. CASE WaitOnSizeNull \/ WaitOnSizePacket
      <4>1. CASE WaitOnSizeNull
          BY <4>1 DEF WaitOnSizeNull, WaitOnSize
      <4>2. CASE WaitOnSizePacket
          BY <4>2 DEF WaitOnSizePacket, WaitOnSize
      <4> QED
          BY <3>2, <4>1, <4>2
    <3>3. CASE WriteNull \/ WritePacket \/ KickVU \/ WaitVUReturns \/ Resume \/ WaitVU
        BY <3>3 DEF WriteNull, WritePacket, KickVU, WaitVUReturns, Resume, WaitVU, EEMoves
    <3> QED
        BY <1>6, <3>1, <3>2, <3>3 DEF Next, EEContinues, EEBegins
  <2> QED
      BY <2>1, <2>2, <2>3 DEF IInv, Fits
<1> QED
    BY <1>2, <1>3, <1>4, <1>5, <1>6

LEMMA RoomStep ==
  ASSUME IInv, Next
  PROVE  Room'
<1>1. /\ m_ato_write_pos \in Nat /\ size \in Nat /\ m_ato_read_pos \in Nat
      /\ SafetyNet \in Nat
    BY Types, MTVUAssumption DEF IInv, MTVUAssumption
<1>2. CASE WaitOnSizePacket
  <2>1. epc = "waitSize" /\ UNCHANGED <<m_ato_read_pos, m_ato_write_pos, size>>
      BY <1>2 DEF WaitOnSizePacket, WaitOnSize, readVars
  <2>2. m_write_pos = m_ato_write_pos
      BY <2>1 DEF IInv, Written
  <2> QED
      BY <1>1, <1>2, <2>1, <2>2 DEF WaitOnSizePacket, WaitOnSize, HasRoom, Room
\* The reader only gains on the writer.
<1>3. CASE CommitReadPos
  <2>1. /\ m_ato_read_pos' = After(pending[1]) /\ pending # <<>>
        /\ UNCHANGED <<epc, size, m_ato_write_pos>>
      BY <1>3, Passed
  <2>2. pending[1] \in Placed /\ pending[1].at = m_ato_read_pos
      BY <2>1, LapFirst, Types DEF IInv, Placement
  <2>3. /\ End(pending[1]) \in Nat /\ End(pending[1]) > m_ato_read_pos
        /\ After(pending[1]) = 0 \/ After(pending[1]) = End(pending[1])
      BY <2>2, PlacedFacts
  <2>4. m_ato_read_pos <= m_ato_write_pos => End(pending[1]) <= m_ato_write_pos
      BY <2>1, SeqFacts, Types DEF IInv, Placement, Lap, AllInLap, InLap
  <2>5. epc \in {"write", "commit"} =>
          \/ m_ato_read_pos <= m_ato_write_pos
          \/ m_ato_read_pos > m_ato_write_pos + size
      BY DEF IInv, Room
  <2> QED
      BY <1>1, <2>1, <2>3, <2>4, <2>5 DEF Room
<1>4. CASE CommitWritePos
    BY <1>4, Committed DEF Room
<1>5. CASE Reset
    BY <1>5 DEF Reset, EEMoves, Room
<1>6. CASE ~WaitOnSizePacket /\ ~CommitReadPos /\ ~CommitWritePos /\ ~Reset
  <2>1. UNCHANGED <<m_ato_read_pos, m_ato_write_pos>>
      BY <1>6, LapKept
  <2>2. epc' \in {"write", "commit"} => epc \in {"write", "commit"} /\ size' = size
      BY <1>6, Steps DEF WaitOnSizeNull, WaitOnSize, WriteNull, WritePacket, KickVU,
         WaitVUReturns, Resume, ReserveSpace, WaitVU, WaitForWork, ReadTag, NothingLeft,
         Execute, EEMoves
  <2> QED
      BY <2>1, <2>2 DEF IInv, Room
<1> QED
    BY <1>2, <1>3, <1>4, <1>5, <1>6

LEMMA ReadingStep ==
  ASSUME IInv, Next
  PROVE  Reading'
<1>1. CASE ReadTag
  <2>1. pending # <<>>
      BY <1>1 DEF ReadTag, IInv, Placement, Lap, Linked
  <2> QED
      BY <1>1, <2>1 DEF ReadTag, VUMoves, IInv, Reading, history
<1>2. CASE Execute
    BY <1>2, Executed DEF Execute, VUMoves, Reading, history
<1>3. CASE CommitReadPos
    BY <1>3, Passed DEF Reading
<1>4. CASE WaitForWork \/ NothingLeft
    BY <1>4 DEF WaitForWork, NothingLeft, VUMoves, IInv, Reading, history
<1>5. CASE Reset
  <2>1. vpc = "wait"
      BY <1>5, Drained DEF Reset, EEMoves
  <2> QED
      BY <1>5, <2>1 DEF Reset, Reading
\* The EE adds to what is pending, at the other end.
<1>6. CASE CommitWritePos
  <2>1. UNCHANGED <<m_ato_read_pos, m_read_pos, vpc>>
      BY <1>6, Committed
  <2>2. PICK p \in Placed : pending' = Append(pending, p)
      BY <1>6, Committed, NewPackets DEF IInv
  <2>3. pending' # <<>> /\ (pending # <<>> => pending'[1] = pending[1])
      BY <2>2, AppendFacts, SeqFacts, Types DEF IInv
  <2> QED
      BY <2>1, <2>3 DEF IInv, Reading
<1>7. CASE WaitOnSizeNull \/ WriteNull \/ WaitOnSizePacket \/ WritePacket \/ KickVU
           \/ WaitVUReturns \/ Resume \/ ReserveSpace \/ WaitVU
    BY <1>7 DEF WaitOnSizeNull, WaitOnSizePacket, WaitOnSize, WriteNull, WritePacket, KickVU,
       WaitVUReturns, Resume, ReserveSpace, WaitVU, readVars, history, IInv, Reading
<1> QED
    BY <1>1, <1>2, <1>3, <1>4, <1>5, <1>6, <1>7, Steps

LEMMA TypeStep ==
  ASSUME IInv, Next, MaxAhead < BufferSize
  PROVE  TypeOK'
<1> USE DEF IInv
<1>1. TypeOK
    OBVIOUS
<1>2. SemaEvent!TypeOK'
  <2>1. SemaEvent!TypeOK
      BY DEF TypeOK
  <2> QED
      BY <2>1, Steps DEF SemaEvent!TypeOK, SemaEvent!Notify, SemaEvent!GoOn, SemaEvent!WakeUp,
         SemaEvent!GoIdle, SemaEvent!Release, SemaEvent!EmptyAtOnce, SemaEvent!EmptyWait,
         SemaEvent!EmptyReturn, SemaEvent!vars, WaitOnSizeNull, WaitOnSizePacket, WaitOnSize,
         KickStart, WriteNull, WritePacket, CommitWritePos, KickVU, WaitVUReturns, Resume,
         ReserveSpace, WaitVU, Reset, WaitForWork, ReadTag, NothingLeft, Execute,
         CommitReadPos, event
<1>3. /\ epc' \in {"idle", "waitNull", "writeNull", "commitNull", "waitSize", "write",
                   "commit", "kick", "waiting", "done"}
      /\ size' \in Sizes
      /\ vpc' \in {"wait", "loop", "execute", "commit"}
  <2>1. CASE VUThread
      BY <2>1, <1>1 DEF TypeOK, VUThread, WaitForWork, ReadTag, NothingLeft, Execute,
         CommitReadPos, VUMoves
  <2>2. CASE WaitOnSizeNull \/ WaitOnSizePacket
      BY <2>2, <1>1 DEF TypeOK, WaitOnSizeNull, WaitOnSizePacket, WaitOnSize, readVars
  <2>3. CASE WriteNull \/ WritePacket \/ CommitWritePos \/ KickVU \/ WaitVUReturns \/ Resume
      BY <2>3, <1>1 DEF TypeOK, WriteNull, WritePacket, CommitWritePos, KickVU,
         WaitVUReturns, Resume, EEMoves, readVars
  <2>4. CASE ReserveSpace \/ WaitVU \/ Reset
      BY <2>4, <1>1 DEF TypeOK, ReserveSpace, WaitVU, Reset, EEMoves, readVars
  <2> QED
      BY <2>1, <2>2, <2>3, <2>4 DEF Next, EEContinues, EEBegins
<1>4. buffer' \in [0 .. BufferSize - 1 -> Packets \cup {Data}]
  <2>1. CASE WriteNull
      BY <2>1, WriteNullFacts
  <2>2. CASE WritePacket
      BY <2>2, WritePacketFacts
  <2> QED
      BY <2>1, <2>2, BufferKept, <1>1 DEF TypeOK
<1>5. /\ m_ato_read_pos' \in 0 .. BufferSize - 1
      /\ m_ato_write_pos' \in 0 .. BufferSize - 1
      /\ pending' \in Seq(Placed)
      /\ ahead' \in Nat
  <2>1. CASE CommitWritePos
    <3>1. PICK p \in Placed : pending' = Append(pending, p)
        BY <2>1, Committed, NewPackets
    <3>2. pending' \in Seq(Placed)
        BY <3>1, AppendFacts, Types
    <3>3. m_ato_write_pos' \in 0 .. BufferSize - 1 /\ ahead' \in Nat
        BY SMTT(30), <2>1, Committed, Types DEF Fits
    <3>4. m_ato_read_pos' \in 0 .. BufferSize - 1
        BY <2>1, Committed, Types
    <3> QED
        BY <3>2, <3>3, <3>4
  <2>2. CASE CommitReadPos
    <3>1. pending' \in Seq(Placed)
        BY <2>2, Passed, HeadTailProperties, Types
    <3> QED
        BY <2>2, <3>1, Passed, Types
  <2>3. CASE Reset
      BY <2>3, Types DEF Reset
  <2> QED
      BY <2>1, <2>2, <2>3, LapKept, Types
<1>6. m_write_pos' \in 0 .. BufferSize - 1
  <2>1. CASE WriteNull
      BY <2>1, WriteNullFacts, Types
  <2>2. CASE WritePacket
      BY <2>2, WritePacketFacts, Types DEF Fits
  <2>3. CASE Reset
      BY <2>3, Types DEF Reset
  <2>4. CASE ~WriteNull /\ ~WritePacket /\ ~Reset
    <3>1. m_write_pos' = m_write_pos
        BY <2>4, Steps DEF WaitOnSizeNull, WaitOnSizePacket, WaitOnSize, CommitWritePos, KickVU,
           WaitVUReturns, Resume, ReserveSpace, WaitVU, WaitForWork, ReadTag, NothingLeft,
           Execute, CommitReadPos
    <3> QED
        BY <3>1, Types
  <2> QED
      BY <2>1, <2>2, <2>3, <2>4
<1>7. m_read_pos' \in 0 .. BufferSize
  <2>1. CASE ReadTag
    <3>1. m_read_pos = m_ato_read_pos /\ m_read_pos' = m_read_pos + 1
        BY <2>1 DEF ReadTag, VUMoves, Reading
    <3> QED
        BY <3>1, Types
  <2>2. CASE Execute
      BY <2>2, Executed, Types
  <2>3. CASE Reset
      BY <2>3, Types DEF Reset
  <2>4. CASE ~ReadTag /\ ~Execute /\ ~Reset
    <3>1. m_read_pos' = m_read_pos
        BY <2>4, Steps DEF WaitOnSizeNull, WaitOnSizePacket, WaitOnSize, WriteNull, WritePacket,
           CommitWritePos, KickVU, WaitVUReturns, Resume, ReserveSpace, WaitVU, WaitForWork,
           NothingLeft, CommitReadPos, readVars
    <3> QED
        BY <3>1, Types
  <2> QED
      BY <2>1, <2>2, <2>3, <2>4
<1> QED
    BY <1>2, <1>3, <1>4, <1>5, <1>6, <1>7 DEF TypeOK, Placed

LEMMA EventStep ==
  ASSUME IInv, Next
  PROVE  Awake' /\ Quiet'
<1> USE DEF IInv
<1>1. /\ phase \in {"running", "idle"} /\ notified \in BOOLEAN
      /\ waiter \in {"none", "waiting", "released"}
    BY DEF TypeOK, Awake, SemaEvent!TypeOK
<1> USE DEF Awake, Quiet
<1>2. CASE CommitWritePos
    BY <1>2, <1>1, Committed DEF event
<1>3. CASE CommitReadPos
    BY <1>3, <1>1, Passed DEF event
<1>4. CASE Reset
    BY <1>4, <1>1, Drained DEF Reset, EEMoves, event
<1>5. CASE KickVU
    BY <1>5, <1>1 DEF KickVU, KickStart, EEMoves, SemaEvent!Notify, readVars, history
<1>6. CASE WaitOnSizeNull
    BY <1>6, <1>1 DEF WaitOnSizeNull, WaitOnSize, KickStart, SemaEvent!Notify, event, readVars,
       history
<1>7. CASE WaitOnSizePacket
    BY <1>7, <1>1 DEF WaitOnSizePacket, WaitOnSize, KickStart, SemaEvent!Notify, event, readVars,
       history
<1>8. CASE WriteNull \/ WritePacket
    BY <1>8, <1>1 DEF WriteNull, WritePacket, EEMoves, event, readVars, history
<1>9. CASE ReserveSpace
    BY <1>9, <1>1 DEF ReserveSpace, event, readVars, history
<1>10. CASE WaitVU
    BY <1>10, <1>1 DEF WaitVU, SemaEvent!EmptyAtOnce, SemaEvent!EmptyWait, SemaEvent!vars,
       event, readVars, history
<1>11. CASE WaitVUReturns
    BY <1>11, <1>1 DEF WaitVUReturns, SemaEvent!EmptyReturn, EEMoves, event, readVars, history
<1>12. CASE Resume
    BY <1>12, <1>1 DEF Resume, EEMoves, event, readVars, history
<1>13. CASE WaitForWork
    BY <1>13, <1>1 DEF WaitForWork, SemaEvent!GoOn, SemaEvent!WakeUp, SemaEvent!GoIdle,
       SemaEvent!Release, event, history
<1>14. CASE ReadTag \/ Execute
    BY <1>14, <1>1 DEF ReadTag, Execute, VUMoves, event, history
<1>15. CASE NothingLeft
  <2>1. pending = <<>>
    <3>1. m_ato_read_pos = m_ato_write_pos
        BY <1>15 DEF NothingLeft
    <3> QED
        BY <3>1, LapEmpty, Types DEF Placement
  <2> QED
      BY <1>15, <1>1, <2>1 DEF NothingLeft, VUMoves, event, history
<1> QED
    BY <1>2, <1>3, <1>4, <1>5, <1>6, <1>7, <1>8, <1>9, <1>10, <1>11, <1>12, <1>13, <1>14, <1>15,
       Steps

LEMMA StepIInv ==
  ASSUME MaxAhead < BufferSize, IInv, [Next]_vars
  PROVE  IInv'
<1>1. CASE Next
    BY <1>1, TypeStep, BufferKeepsStep, PlacementStep, WritingStep, FitsStep, RoomStep,
       ReadingStep, EventStep DEF IInv
<1>2. CASE UNCHANGED vars
  <2>1. /\ UNCHANGED <<m_ato_read_pos, m_ato_write_pos, m_read_pos, m_write_pos, buffer>>
        /\ UNCHANGED <<notified, phase, waiter, epc, size, vpc, pending, ahead>>
      BY <1>2 DEF vars, readVars, event, history
  <2> QED
      BY <2>1 DEF IInv, TypeOK, SemaEvent!TypeOK, BufferKeeps, Placement, Written,
         WrittenHolds, Fits, Room, Reading, Awake, Quiet
<1> QED
    BY <1>1, <1>2

THEOREM Invariance ==
  ASSUME MaxAhead < BufferSize
  PROVE  Spec => []IInv
<1>1. Init => IInv
    BY InitIInv
<1>2. IInv /\ [Next]_vars => IInv'
    BY StepIInv
<1> QED
    BY <1>1, <1>2, PTL DEF Spec

-----------------------------------------------------------------------------
(* The results *)

\* Every position stays in the buffer: no packet is written or read across its end.
THEOREM TypeCorrect ==
  ASSUME MaxAhead < BufferSize
  PROVE  Spec => []TypeOK
<1>1. IInv => TypeOK
    BY DEF IInv
<1> QED
    BY <1>1, Invariance, PTL

\* "ring-buffer has no complete pending packets when read_pos==write_pos" (MTVU.h), if
\* the EE never gets a whole lap ahead.
THEOREM EmptyIsEmpty ==
  ASSUME MaxAhead < BufferSize
  PROVE  Spec => []EmptyLooksEmpty
<1>1. IInv => EmptyLooksEmpty
  <2> SUFFICES ASSUME IInv, m_ato_read_pos = m_ato_write_pos PROVE pending = <<>>
      BY DEF EmptyLooksEmpty
  <2> QED
      BY LapEmpty, Types DEF IInv, Placement
<1> QED
    BY <1>1, Invariance, PTL

\* No packet is overwritten before the VU thread has passed it, with or without the
\* safety net of WaitOnSize (MTVU.cpp), and the VU thread finds each where it lies.
THEOREM PacketsAreKept ==
  ASSUME MaxAhead < BufferSize
  PROVE  Spec => []RingHoldsPending
<1>1. IInv => RingHoldsPending
  <2> SUFFICES ASSUME IInv PROVE RingHoldsPending
      OBVIOUS
  <2>1. DOMAIN pending = 1 .. Len(pending)
      BY SeqFacts, Types DEF IInv
  <2> QED
      BY <2>1 DEF IInv, BufferKeeps, Holds, Placement, Lap, Linked, RingHoldsPending
<1> QED
    BY <1>1, Invariance, PTL

\* WaitVU returns only when every packet was executed and the VU thread sleeps.
THEOREM WaitVUIsDone ==
  ASSUME MaxAhead < BufferSize
  PROVE  Spec => []WaitVUDrains
<1>1. IInv => WaitVUDrains
    BY Drained DEF WaitVUDrains
<1> QED
    BY <1>1, Invariance, PTL

-----------------------------------------------------------------------------
(* The ring is a queue *)

\* The packets alone, without their places.
LEMMA PacketsOfFacts ==
  ASSUME NEW q \in Seq(Placed)
  PROVE  /\ PacketsOf(q) \in Seq(Packets) /\ Len(PacketsOf(q)) = Len(q)
         /\ \A k \in 1 .. Len(q) : PacketsOf(q)[k] = q[k].packet
         /\ PacketsOf(q) = <<>> <=> q = <<>>
<1>1. /\ DOMAIN q = 1 .. Len(q) /\ Len(q) \in Nat
      /\ \A k \in 1 .. Len(q) : q[k].packet \in Packets
    BY SeqFacts, PlacedFacts
<1>2. /\ PacketsOf(q) \in [1 .. Len(q) -> Packets]
      /\ \A k \in 1 .. Len(q) : PacketsOf(q)[k] = q[k].packet
    BY <1>1 DEF PacketsOf
<1>3. PacketsOf(q) \in Seq(Packets) /\ Len(PacketsOf(q)) = Len(q)
    BY <1>1, <1>2
<1> QED
    BY <1>1, <1>2, <1>3, EmptySeq, SeqFacts

LEMMA PacketsOfAppend ==
  ASSUME NEW q \in Seq(Placed), NEW p \in Placed
  PROVE  PacketsOf(Append(q, p)) = Append(PacketsOf(q), p.packet)
<1>1. /\ Append(q, p) \in Seq(Placed) /\ Len(Append(q, p)) = Len(q) + 1 /\ Len(q) \in Nat
      /\ \A k \in 1 .. Len(q) : Append(q, p)[k] = q[k]
      /\ Append(q, p)[Len(q) + 1] = p
    BY AppendFacts, SeqFacts
<1>2. /\ PacketsOf(Append(q, p)) \in Seq(Packets) /\ Len(PacketsOf(Append(q, p))) = Len(q) + 1
      /\ \A k \in 1 .. Len(q) + 1 : PacketsOf(Append(q, p))[k] = Append(q, p)[k].packet
    BY <1>1, PacketsOfFacts
<1>3. /\ PacketsOf(q) \in Seq(Packets) /\ Len(PacketsOf(q)) = Len(q) /\ p.packet \in Packets
      /\ \A k \in 1 .. Len(q) : PacketsOf(q)[k] = q[k].packet
    BY PacketsOfFacts, PlacedFacts
<1> DEFINE l == PacketsOf(q)
           m == PacketsOf(Append(q, p))
           last == p.packet
<1> HIDE DEF l, m, last
<1>4. /\ Append(l, last) \in Seq(Packets)
      /\ Len(Append(l, last)) = Len(q) + 1
      /\ \A k \in 1 .. Len(q) : Append(l, last)[k] = q[k].packet
      /\ Append(l, last)[Len(q) + 1] = last
  <2>1. /\ l \in Seq(Packets) /\ Len(l) = Len(q) /\ last \in Packets /\ Len(q) \in Nat
        /\ \A k \in 1 .. Len(q) : l[k] = q[k].packet
      BY <1>1, <1>3 DEF l, last
  <2> QED
      BY <2>1, AppendProperties
<1>5. \A k \in 1 .. Len(q) + 1 : m[k] = Append(l, last)[k]
  <2> TAKE k \in 1 .. Len(q) + 1
  <2>1. m[k] = Append(q, p)[k].packet
      BY <1>2 DEF m
  <2>2. k = Len(q) + 1 \/ k \in 1 .. Len(q)
    <3>1. Len(q) \in Nat
        BY <1>1
    <3> QED
        BY <3>1
  <2>3. CASE k = Len(q) + 1
      BY <2>1, <2>3, <1>1, <1>4 DEF last
  <2>4. CASE k \in 1 .. Len(q)
      BY <2>1, <2>4, <1>1, <1>4
  <2> QED
      BY <2>2, <2>3, <2>4
<1>6. m = Append(l, last)
  <2>1. m \in Seq(Packets) /\ Len(m) = Len(q) + 1
      BY <1>2 DEF m
  <2> QED
      BY <2>1, <1>4, <1>5, SeqEqual
<1> QED
    BY <1>6 DEF l, m, last

LEMMA PacketsOfTail ==
  ASSUME NEW q \in Seq(Placed), q # <<>>
  PROVE  PacketsOf(Tail(q)) = Tail(PacketsOf(q)) /\ Head(PacketsOf(q)) = q[1].packet
<1>1. /\ Tail(q) \in Seq(Placed) /\ Len(Tail(q)) = Len(q) - 1 /\ Len(q) >= 1 /\ Len(q) \in Nat
      /\ \A k \in 1 .. Len(Tail(q)) : Tail(q)[k] = q[k + 1]
    BY SeqFacts, HeadTailProperties
<1>2. /\ PacketsOf(Tail(q)) \in Seq(Packets) /\ Len(PacketsOf(Tail(q))) = Len(q) - 1
      /\ \A k \in 1 .. Len(q) - 1 : PacketsOf(Tail(q))[k] = q[k + 1].packet
  <2> DEFINE t == Tail(q)
  <2>1. /\ t \in Seq(Placed) /\ Len(t) = Len(q) - 1
        /\ \A k \in 1 .. Len(t) : t[k] = q[k + 1]
      BY <1>1
  <2> HIDE DEF t
  <2>2. /\ PacketsOf(t) \in Seq(Packets) /\ Len(PacketsOf(t)) = Len(t)
        /\ \A k \in 1 .. Len(t) : PacketsOf(t)[k] = t[k].packet
      BY <2>1, PacketsOfFacts
  <2> QED
      BY <2>1, <2>2, Zenon DEF t
<1>3. /\ PacketsOf(q) \in Seq(Packets) /\ Len(PacketsOf(q)) = Len(q) /\ PacketsOf(q) # <<>>
      /\ \A k \in 1 .. Len(q) : PacketsOf(q)[k] = q[k].packet
    BY PacketsOfFacts
<1>4. /\ Tail(PacketsOf(q)) \in Seq(Packets) /\ Len(Tail(PacketsOf(q))) = Len(q) - 1
      /\ \A k \in 1 .. Len(q) - 1 : Tail(PacketsOf(q))[k] = q[k + 1].packet
    BY <1>1, <1>3, HeadTailProperties
<1>5. Head(PacketsOf(q)) = q[1].packet
    BY <1>1, <1>3
<1> QED
    BY <1>2, <1>4, <1>5, SeqEqual

\* While the VU thread has a packet in hand, the buffer has it unchanged at its place;
\* and when WaitVU has returned, it has none, and nothing is left.
TakenIsFirst ==
  /\ vpc \in {"execute", "commit"} =>
       pending # <<>> /\ Taken = <<pending[1].packet>> /\ Taken # <<>>
  /\ vpc \notin {"execute", "commit"} => Taken = <<>>
  /\ epc = "done" => pending = <<>> /\ vpc = "wait"

LEMMA Mapping == IInv => TakenIsFirst
<1> SUFFICES ASSUME IInv PROVE TakenIsFirst
    OBVIOUS
<1>1. epc = "done" => pending = <<>> /\ vpc = "wait"
    BY Drained
<1>2. CASE vpc \in {"execute", "commit"}
  <2>1. pending # <<>>
      BY <1>2 DEF IInv, Reading
  <2>2. 1 \in 1 .. Len(pending) /\ pending[1].at = m_ato_read_pos
      BY <2>1, SeqFacts, Types, LapFirst DEF IInv, Placement
  <2>3. buffer[m_ato_read_pos] = pending[1].packet
      BY <2>2 DEF IInv, BufferKeeps, Holds
  <2> QED
      BY <1>1, <1>2, <2>1, <2>3 DEF Taken, TakenIsFirst
<1>3. CASE vpc \notin {"execute", "commit"}
    BY <1>1, <1>3 DEF Taken, TakenIsFirst
<1> QED
    BY <1>2, <1>3

LEMMA QueueInit ==
  ASSUME Init
  PROVE  Queue!Init
<1>1. Sent = <<>>
    BY DEF Init, Sent, PacketsOf
<1> QED
    BY <1>1 DEF Init, Queue!Init, Taken, Worker, Client

\* Every step sends a packet, takes one, is done with one, puts the VU thread to sleep or
\* wakes it, returns from WaitVU or goes on after it; or the queue does not see it.
LEMMA QueueStep ==
  ASSUME MaxAhead < BufferSize, IInv, [Next]_vars
  PROVE  [Queue!Next]_(Queue!vars)
<1>1. IInv'
    BY StepIInv
<1>2. TakenIsFirst
    BY Mapping
<1>3. TakenIsFirst'
    BY <1>1, Mapping, PTL
<1> USE DEF TakenIsFirst
<1>4. pending \in Seq(Placed)
    BY Types DEF IInv
<1>5. /\ Sent = <<>> <=> pending = <<>>
      /\ \A p \in Placed : pending' = Append(pending, p) => Sent' = Append(Sent, p.packet)
      /\ pending # <<>> => Head(Sent) = pending[1].packet
      /\ pending # <<>> /\ pending' = Tail(pending) => Sent' = Tail(Sent)
      /\ pending' = pending => Sent' = Sent
    BY <1>4, PacketsOfFacts, PacketsOfAppend, PacketsOfTail DEF Sent
<1>6. CASE CommitWritePos
  <2>1. /\ \E p \in Placed : pending' = Append(pending, p)
        /\ vpc' = vpc /\ buffer' = buffer /\ m_ato_read_pos' = m_ato_read_pos
        /\ epc \in {"commit", "commitNull"} /\ epc' \in {"kick", "waitSize"}
      BY <1>6, Committed, NewPackets DEF IInv
  <2>2. \E command \in Packets : Sent' = Append(Sent, command)
      BY <2>1, <1>5, PlacedFacts
  <2>3. Taken' = Taken /\ Worker' = Worker /\ Client = "sending" /\ Client' = "sending"
      BY <2>1 DEF Taken, Worker, Client
  <2> QED
      BY <2>2, <2>3 DEF Queue!Send, Queue!Next
<1>7. CASE WaitVU \/ WaitVUReturns
  <2>1. vpc' = vpc /\ pending' = pending /\ buffer' = buffer /\ m_ato_read_pos' = m_ato_read_pos
        /\ epc # "done"
      BY <1>7 DEF WaitVU, WaitVUReturns, EEMoves, readVars, history
  <2>2. Sent' = Sent /\ Taken' = Taken /\ Worker' = Worker /\ Client = "sending"
      BY <2>1, <1>5 DEF Taken, Worker, Client
  <2>3. CASE epc' # "done"
      BY <2>2, <2>3 DEF Client, Queue!vars
  <2>4. CASE epc' = "done"
    <3>1. pending' = <<>> /\ vpc' = "wait"
        BY <1>3, <2>4
    <3>2. Sent = <<>> /\ Taken = <<>> /\ Worker = "asleep"
        BY <3>1, <2>1, <1>2, <1>5 DEF Worker
    <3> QED
        BY <2>2, <2>4, <3>2 DEF Client, Queue!Drain, Queue!Next
  <2> QED
      BY <2>3, <2>4
<1>8. CASE Resume \/ Reset
  <2>1. epc = "done" /\ epc' = "idle" /\ vpc' = vpc /\ pending' \in {pending, <<>>}
      BY <1>8 DEF Resume, Reset, EEMoves, readVars, history
  <2>2. pending = <<>> /\ vpc = "wait"
      BY <1>2, <2>1
  <2>3. pending' = pending
      BY <2>1, <2>2
  <2>4. Sent' = Sent /\ Taken' = Taken /\ Worker' = Worker
      BY <2>1, <2>2, <2>3, <1>2, <1>3, <1>5 DEF Worker
  <2> QED
      BY <2>1, <2>4 DEF Client, Queue!GoOn, Queue!Next
<1>9. CASE WaitForWork
  <2>1. /\ vpc = "wait" /\ UNCHANGED <<epc, pending>>
        /\ \/ vpc' = "wait"
           \/ vpc' = "loop" /\ notified
      BY <1>9 DEF WaitForWork, history, SemaEvent!GoOn, SemaEvent!WakeUp
  <2>2. Sent' = Sent /\ Taken' = Taken /\ Client' = Client /\ Worker = "asleep"
      BY <2>1, <1>2, <1>3, <1>5 DEF Client, Worker
  <2>3. CASE vpc' = "wait"
      BY <2>2, <2>3 DEF Worker, Queue!vars
  <2>4. CASE vpc' = "loop" /\ notified
    <3>1. Client # "drained"
        BY <2>4 DEF IInv, Quiet, Client
    <3> QED
        BY <2>2, <2>4, <3>1 DEF Worker, Queue!Wake, Queue!Next
  <2> QED
      BY <2>1, <2>3, <2>4
<1>10. CASE ReadTag
  <2>1. vpc = "loop" /\ vpc' = "execute" /\ UNCHANGED <<epc, pending>>
      BY <1>10 DEF ReadTag, VUMoves, history
  <2>2. pending # <<>> /\ Taken = <<>> /\ Taken' = <<pending[1].packet>>
      BY <2>1, <1>1, <1>2, <1>3 DEF IInv, Reading
  <2>3. Sent # <<>> /\ Taken' = <<Head(Sent)>> /\ Sent' = Sent
      BY <2>1, <2>2, <1>5
  <2> QED
      BY <2>1, <2>2, <2>3 DEF Worker, Client, Queue!Take, Queue!Next
<1>11. CASE Execute
  <2>1. vpc = "execute" /\ vpc' = "commit" /\ UNCHANGED <<epc, pending>>
      BY <1>11 DEF Execute, VUMoves, history
  <2>2. Taken' = Taken /\ Sent' = Sent
      BY <2>1, <1>2, <1>3, <1>5
  <2> QED
      BY <2>1, <2>2 DEF Worker, Client, Queue!vars
<1>12. CASE CommitReadPos
  <2>1. vpc = "commit" /\ vpc' = "loop" /\ UNCHANGED epc
        /\ pending # <<>> /\ pending' = Tail(pending)
      BY <1>12, Passed
  <2>2. Taken # <<>> /\ Taken' = <<>> /\ Sent' = Tail(Sent)
      BY <2>1, <1>2, <1>3, <1>5
  <2> QED
      BY <2>1, <2>2 DEF Worker, Client, Queue!Done, Queue!Next
<1>13. CASE NothingLeft
  <2>1. vpc = "loop" /\ vpc' = "wait" /\ UNCHANGED <<epc, pending>>
        /\ m_ato_read_pos = m_ato_write_pos
      BY <1>13 DEF NothingLeft, VUMoves, history
  <2>2. pending = <<>>
      BY <2>1, LapEmpty, Types DEF IInv, Placement
  <2>3. Sent = <<>> /\ Sent' = Sent /\ Taken = <<>> /\ Taken' = <<>>
      BY <2>1, <2>2, <1>2, <1>3, <1>5
  <2> QED
      BY <2>1, <2>3 DEF Worker, Client, Queue!Sleep, Queue!Next
<1>14. CASE \/ WaitOnSizeNull \/ WriteNull \/ WaitOnSizePacket \/ WritePacket \/ KickVU
            \/ ReserveSpace
  <2>1. vpc' = vpc /\ pending' = pending /\ epc # "done" /\ epc' # "done"
      BY <1>14 DEF WaitOnSizeNull, WaitOnSizePacket, WaitOnSize, WriteNull, WritePacket, KickVU,
         ReserveSpace, EEMoves, readVars, history
  <2>2. Taken' = Taken /\ Sent' = Sent
      BY <2>1, <1>2, <1>3, <1>5
  <2> QED
      BY <2>1, <2>2 DEF Worker, Client, Queue!vars
<1>15. CASE UNCHANGED vars
  <2>1. UNCHANGED <<vpc, epc, pending, buffer, m_ato_read_pos>>
      BY <1>15 DEF vars, readVars, history
  <2> QED
      BY <2>1 DEF Sent, Taken, Worker, Client, Queue!vars
<1> QED
    BY <1>6, <1>7, <1>8, <1>9, <1>10, <1>11, <1>12, <1>13, <1>14, <1>15, Steps

\* The VU thread's ring (MTVU.cpp) is a queue: every packet is executed once, in order and
\* as it was written, however the ring wraps and whoever is ahead, and WaitVU returns to a
\* ring that is the EE's alone.
THEOREM Refinement ==
  ASSUME MaxAhead < BufferSize
  PROVE  Spec => ImplementsQueue
<1>1. Init => Queue!Init
    BY QueueInit
<1>2. IInv /\ [Next]_vars => [Queue!Next]_(Queue!vars)
    BY QueueStep
<1> QED
    BY <1>1, <1>2, Invariance, PTL DEF Spec, ImplementsQueue, Queue!Spec

-----------------------------------------------------------------------------
(* Neither thread is left behind *)

\* WaitVU is in the semaphore, whose worker is still to go idle.
WaiterIsDue ==
  /\ epc = "waiting" <=> waiter # "none"
  /\ waiter = "waiting" => phase = "running" \/ notified

\* The steps that neither touch the work semaphore nor begin or end a wait in it.
LEMMA OtherSteps ==
  ASSUME WriteNull \/ WritePacket \/ CommitWritePos \/ Resume \/ ReserveSpace \/ Reset
           \/ ReadTag \/ NothingLeft \/ Execute \/ CommitReadPos
  PROVE  UNCHANGED event /\ (epc = "waiting" <=> epc' = "waiting")
  BY DEF WriteNull, WritePacket, CommitWritePos, Resume, ReserveSpace, Reset, ReadTag,
     NothingLeft, Execute, CommitReadPos, EEMoves

LEMMA WaiterIsDueStep ==
  ASSUME IInv, WaiterIsDue, Next
  PROVE  WaiterIsDue'
<1> USE DEF WaiterIsDue
<1>1. /\ phase \in {"running", "idle"} /\ notified \in BOOLEAN
      /\ waiter \in {"none", "waiting", "released"}
    BY DEF IInv, TypeOK, Awake, SemaEvent!TypeOK
<1>2. CASE WaitVU
    BY <1>1, <1>2 DEF WaitVU, SemaEvent!EmptyAtOnce, SemaEvent!EmptyWait, SemaEvent!vars
<1>3. CASE WaitVUReturns
    BY <1>1, <1>3 DEF WaitVUReturns, SemaEvent!EmptyReturn, EEMoves
<1>4. CASE WaitForWork
    BY <1>1, <1>4 DEF WaitForWork, SemaEvent!GoOn, SemaEvent!WakeUp, SemaEvent!GoIdle,
       SemaEvent!Release
<1>5. CASE WaitOnSizeNull \/ WaitOnSizePacket
    BY <1>1, <1>5 DEF WaitOnSizeNull, WaitOnSizePacket, WaitOnSize, KickStart,
       SemaEvent!Notify, event
<1>6. CASE KickVU
    BY <1>1, <1>6 DEF KickVU, KickStart, SemaEvent!Notify, EEMoves
<1>7. CASE WriteNull \/ WritePacket \/ CommitWritePos \/ Resume \/ ReserveSpace \/ Reset
           \/ ReadTag \/ NothingLeft \/ Execute \/ CommitReadPos
    BY <1>1, <1>7, OtherSteps DEF event
<1> QED
    BY <1>2, <1>3, <1>4, <1>5, <1>6, <1>7, Steps

\* No thread sleeps on the other: what is in the ring is kicked, who waits for the VU
\* thread is released, and an empty ring has room for every packet (WaitOnSize, KickStart
\* and WaitVU, MTVU.cpp).
THEOREM NobodyStaysStuck ==
  ASSUME MaxAhead < BufferSize
  PROVE  Spec => []NobodyIsStuck
<1>1. Init => WaiterIsDue
    BY DEF Init, SemaEvent!Init, WaiterIsDue
<1>2. IInv /\ WaiterIsDue /\ [Next]_vars => WaiterIsDue'
  <2> SUFFICES ASSUME IInv, WaiterIsDue, [Next]_vars PROVE WaiterIsDue'
      OBVIOUS
  <2>1. CASE UNCHANGED vars
      BY <2>1 DEF vars, event, WaiterIsDue
  <2> QED
      BY <2>1, WaiterIsDueStep
<1>3. IInv /\ WaiterIsDue => NobodyIsStuck
  <2> SUFFICES ASSUME IInv, WaiterIsDue, VUBlocked PROVE NobodyIsStuck
      BY DEF NobodyIsStuck
  <2>1. vpc = "wait" /\ phase = "idle" /\ ~notified
      BY DEF VUBlocked
  <2>2. epc = "waiting" => waiter = "released"
      BY <2>1 DEF WaiterIsDue, IInv, TypeOK, SemaEvent!TypeOK
  <2>3. pending # <<>> => epc \in {"waitSize", "write", "commit", "kick"}
      BY <2>1 DEF IInv, Awake
  <2>4. ASSUME pending = <<>>, epc \in {"waitNull", "waitSize"}
        PROVE  m_ato_read_pos <= m_write_pos
    <3>1. m_write_pos = m_ato_write_pos /\ m_ato_write_pos = m_ato_read_pos
        BY <2>4 DEF IInv, Written, Placement, Lap, Linked
    <3> QED
        BY <3>1, Types DEF IInv
  <2> QED
      BY <2>2, <2>3, <2>4 DEF NobodyIsStuck, HasRoom
<1> QED
    BY <1>1, <1>2, <1>3, Invariance, PTL DEF Spec
=============================================================================
